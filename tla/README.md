# LRC Studio server: TLA+ specifications

LRC Studio is an editor for synchronised lyrics with a community around it. Its server keeps
accounts, projects, walls and notifications in MongoDB, runs background jobs, pushes notifications
and presence over socket.io, and lets several people edit one project's lyrics at once over a
Hocuspocus (Yjs) WebSocket. This directory holds models of the parts of it where order and failure
matter, TLC configurations that check them on small instances, and TLAPS proofs, for every value of
the constants, of the properties that matter most. All paths are relative to the server's
repository; `collab.server.ts` stands for `src/modules/collab/collab.server.ts`, and likewise for
the other files of `src/`.

Contents: [inventory](#inventory), [modules](#modules-and-the-code-they-model), [runs](#runs),
[bounds](#bounds-and-why-they-are-enough), [fairness](#fairness), [proofs](#proofs),
[findings](#where-code-and-comments-disagree), [limits](#limits-and-what-is-not-modelled),
[plan](#plan).

## Running

    tlc -workers 2 -config MCCollabAdmission.cfg MCCollabAdmission
    tlapm CollabAdmission_proofs.tla

Every `MC*.cfg` belongs to the module whose name is its longest prefix, so that
`MCCollabDocStoreLive.cfg` is run with `MCCollabDocStore`. `PROJECT.json` lists the components, the
runs with the properties each one checks, the source lines of every definition, the hazards with the
properties that cover them, the theorems, the findings, and for every property a mutant: a named
operator of the model (`lock_Silent`, `Prune_ForgetEvictions`, ...) that changes a definition as a
plausible bug would and makes the property fail.

## Inventory

### Collaborative sessions (`src/modules/collab/`)

The core of the server's own logic: here one process keeps state in memory that must agree with the
database, with connected clients and with itself across awaits.

| Part | State | Operations | What is hard, and what must hold |
|---|---|---|---|
| Revocation log, `collab.revocations.ts` | a Map key → {seq, at}, `seq`, `evictedSeq` | `capture`, `revoke`, `revokedSince`, `prune` | bounded by age and by count, and must still catch every authentication that a revocation overtook |
| Admission, `collab.server.ts` hooks, `collab.auth.ts` | per connection: what it authenticated as and when | `onAuthenticate`, attach, `beforeSync`, `connected`; `closeSubject`, `reconnectSubject`, `closeUserEverywhere`, `reauth*` | a revocation closes the connections it finds; one that is authenticating is not among them. No content may go out on a decision that was revoked |
| Line locks, `collab.locks.ts`, `onStateless` | a Map line → holder and expiry, per document | lock, unlock, forceUnlock, heartbeat, disconnect, kick, sweep, freeze, teardown | expiry without an event, heartbeats that take lines, hooks that run after the connection has gone. One holder, known to all |
| Document store, `collab.server.ts` | the loaded Y.Doc, `dirty`, `settling`, `discarded`, `discardAfterStore`; CollabDoc and Lyrics in the database | load or seed, debounced store and projection, retry, unload, `endSession`, `discardSession` | three database writes that are no transaction, failures and crashes between them, teardowns against loads and reconnects. No edit lost, no line twice, nothing brought back |
| Sessions and members, `collab.service.ts`, `collab.auth.ts` | CollabSession: members, kicked, invites, allowGuests; guest tokens | start, end, invite, join, connect, absorb a guest, kick, revoke, setRole, setGuestAccess | every request reads the session, decides, and writes later. A kick or a demotion must not be undone by what was under way |
| Awareness, credits, `collab.server.ts`, `collab-credits.service.ts` | ids claimed per participant; contributor entries of the project | claim, free, rebind; add, move with an absorbed guest, remove | an id freed while a tab still shows something under it; a credit that moves in three writes |

A service of the session module writes the database and then calls the collab server in the same
process (`closeSubject`, `reconnectSubject`, `endSession`, `discardSession`); Hocuspocus calls the
hooks of the collab server, one document's messages in order, awaits in between; the projects module
asks `collabSessionBlocks` before a solo save and `discardSession` when it deletes a project; auth
and admin call `closeUserEverywhere` and `reauth*Everywhere` on logout, bans and role changes.

### The rest of the server

Almost all of it are handlers of the same form: read documents, decide, write, write something that
is kept beside them (a counter, a copy, a cache, a notification). MongoDB makes each write atomic
and nothing more, so every component's question is what two handlers, or one that fails half way,
make of the state they share.

| Component | State | Hard behaviour | Must hold |
|---|---|---|---|
| auth: sign-in, refresh, passwords | session rows with the hash of the current and of the previous refresh token; reset links, one-time tokens | concurrent refreshes within the grace, a rotated token reused, a reset against a sign-in | what was evicted stays out; a reused token ends its family; a link works once |
| auth: Google, passkeys | identities and passkeys of an account | two removals at once, a link taken over | an account keeps a way in |
| admin: standing | ban, shadow ban, deletion, appeal; flags copied to projects and playlists; blocked networks | two transitions, each ending in its own copy of the flags; a term that ends by itself | content shown as its owner stands; a ban lasts its term; an appeal is of a ban |
| admin: roles, staff requests | roles and presets, permissions of members; requests claimed and executed | presets edited while members are given roles; a crash between claim and execution | what a role grants its members have; a request runs once |
| names, addresses | accounts under two unique indexes, histories of both | a rename against a registration; a link that arrives late | a former name leads to its account and to no other |
| reports | reports, their conversation, the queue | filing against settling, a decision against a decision | each reporter is told the outcome there was |
| blocks, follows | edges, counters on both, a cached block list | a follow between the halves of a block, a cache filled while it is invalidated | no follow across a block; counts of the edges there are |
| wall, audience | comments in a tree, pins, likes, held comments; who is told | a deletion against a reply, an approval against an edit; reading in batches | no orphan; a held comment stays unseen; each comment read once |
| projects, playlists, media | projects, forks, lyrics with a version; stars, shares, views; lists; files | counters beside unique rows, a solo save against a session or a deletion, a sweep against a save | counts of the rows there are; no save lost unseen; no file in use deleted |
| activity, streaks | streak, time zone, counters of the day | days of the account's own zone, a change of zone, the hourly lapse | no streak day that was none |
| badges, experience, levels, boards | stats, XP, badges, ranks, trending scores | refreshes queued, folded and late; hourly jobs beside changes | totals of what was earned |
| notifications, presence, viewers | rows folded by key; sockets, heaps and rosters in memory | an event in the middle of a load, a socket that leaves while it joins | what is shown is what is there |
| asr | jobs in memory | cancel against completion, a job swept while it is polled | one job at a time, a cancelled one never completes |
| who is shown where | some twenty reads with filters of their own | one of them forgetting one | nobody hidden is shown |
| lyrics files, credits | pure functions | brackets, stamps, layers | what is written is read back |

`PROJECT.json` lists every component with its files, its status and what is left out.

## Modules and the code they model

    CollabAdmission  <- CollabAdmission_proofs, MCCollabAdmission
    CollabLocks      <- CollabLocks_proofs, MCCollabLocks;  refines LineLocks
    CollabDocStore   <- CollabDocStore_proofs, MCCollabDocStore
    CollabMembership, CollabTraces    <- MCCollabMembership <- CollabMembership_proofs
    AccountSessions, SignInMethods    <- MCAccountSessions
    MCAccountSessions, Streaks, Reports, Follows                           <- Accounts_proofs
    MCProjects, AccountStanding, AccountNames                              <- Holdings_proofs
    StaffRequests, WallThreads, ReportDesk                                 <- Community_proofs
    AccountStanding, AccountNames, Discovery                               <- MCAccountStanding
    WallThreads, Reports, Follows, TextFormats                             <- MCSocial
    StaffRequests <- ReportDesk; Streaks, Progress, Rankings               <- MCStaff
    Presence, AsrJobs, NotificationFolding, WallAudience                   <- MCLive <- Live_proofs
    ProjectLibrary, ProjectSaves, MediaSweep, Playlists                    <- MCProjects

Components in one MC module share no variable. A behaviour there has a constant `focus` and takes
the steps of one component, or of the operations of one component that a question is about, so that
the state space is the sum of theirs and not the product.

A handler is cut where it awaits. What it read before the await is in the record of its slot
(`ops[o]`, `fops[o]`, ...), what it writes afterwards is an action; an action is one database call
with the code up to the next. `Ops`, `StaffOps`, ... are how many handlers can be under way at once.

### Collaborative sessions

**CollabAdmission** begins with `collab.revocations.ts` as operators on a record `[entries, seq,
evictedSeq]`: `Prune` is `prune()`: expired entries go, then the oldest until `MaxEntries` are left,
and `evictedSeq` remembers the newest that went before its time. Around that log are connections and
revoking requests. One connection slot goes `closed → authenticating → authed → attached →
connected`; `ReadAccess` is one awaited read of `resolvePrincipal`, `Attach` is Hocuspocus adding
the connection to the document, `beforeSync` the hook that runs before queued sync messages are
answered, `connected` the last check. A revoking request is two steps, `RevokingWrite` (the
database) and `Sweep` (the call into the server). What the database says is reduced to a version per
key, which is all it takes to tell an outdated decision.

**CollabLocks** begins with `collab.locks.ts` on a function from lines to entries. An entry holds
the time it has left instead of the time it expires at, so that the clock is no part of the state.
Then comes every handler that touches the table: the message types of `onStateless`, `onDisconnect`,
`closeSubject`, the sweep timer, the freeze of an oversized document, the end of a session and the
unload. `shown[c]` is the last snapshot client c was sent. **LineLocks** is the abstract promise: a
line has one holder, and changes hands only by becoming free first. CollabLocks implements it with
`holder <- snapshot(locks)`.

**CollabDocStore** is the document from its first load to its teardown. A document's content is the
set of edits it contains and the set of seeds its Yjs items come from; two seeds in one document
means that every line is there twice. Loading is `fetchState` in its two reads and its outcome
(`fetchStart`, `fetchCheck`, `fetchResume`, `fetchSeed`, `fetchRefuse`, `fetchFail`); storing is
`storeState` and what projects the document into Lyrics, in three writes, each of which may fail; a
teardown is one entry of the `settling` chain (`call`, `endLoaded`, `removeRead` ...,
`discardStart`, `closePass`, `closeEnds`, `discardDelete`). Tabs keep their copy while they are away
and bring it back. A solo save is the check (`collabSessionBlocks`) and the write (`patchLyrics`),
with and without the version counted up, since the project service and the GraphQL resolver differ
in that. `Crash` loses all that is in memory and keeps the database and the tabs' copies.

**CollabMembership** is the session document. A visit is a join or a connection: its action
`join*`/`connect*` is the read and the decision, the later ones its writes with the filters the code
gives them (`renameGuest`, `recheckGuest`, `noteAbsorbed`, `dropGuest`, `pushMember`,
`rereadMembers`, `refreshInvite`). An owner's request is a read (`kick`, `revokeInvite`, `setRole`,
`setGuestAccess`), a write and the call into the server. That a connection whose subject was revoked
since it began is refused is taken from CollabAdmission, as the flag `revoked`.

**CollabTraces** has the ids under which tabs speak in the awareness of a document, bound, freed,
evicted and rebound when a guest signs in, and the credits of those who edited.

The Hocuspocus server (4.8.0) is no part of the repository. What the models assume of it, from the
way the code uses it: messages are processed only while a connection is attached, and in order; a
connection attaches, then its queued messages are processed, then `connected` runs; a load begins
right after authentication, and every connection that arrives meanwhile waits for it; a load waits
for an unload of the same document; stores are debounced (2 s, 10 s at most) and run one at a time
per document, `storeNow` running one more after any in flight; a document unloads only with no
connection, no store pending and none running.

### Accounts

**AccountSessions** is one account's rows of the sessions collection, its refresh tokens and reset
links. A token is the number under which it was issued and names its family for ever, whatever its
row holds now. `refresh`, `rotate`, `graceRotate` and `revokeReused` are the steps of
`AuthService.refresh`; `epoch` counts the password changes a family must not survive.
**SignInMethods** is what an account signs in with: its password, Google identities
(`google.service.ts`) and passkeys (`auth.service.ts`), each removal being a look at what would be
left and a write.

**AccountStanding** is one account's bans with their terms, shadow bans, deletion, appeals
(`admin.service.ts`, `checkBanStatus` of the user model), the networks blocked on its behalf, and
`ownerActive`/`ownerListed` on each of its items, which `owner-visibility.service.ts` writes after
reading the account again. **AccountNames** is registration, renames and addresses, under the two
unique indexes and with the histories that keep a former name leading to its account. **Discovery**
has each of the reads that show people or content as a definition of its own over one state of
accounts, so that what is shown can be compared with how the account stands. A page is the rows of
certain ranks.

**Streaks** measures time in units of which a day has `DAY`; `zone` is the distance from UTC. The
activity of an account is counted on the day of its own zone (`badge.service.ts`), a change of zone
asks for a gap, the hourly job zeroes what lapsed, the evening's job warns. `gone` counts the time
there really was, which is what `StreakHonest` compares with. **Progress** has badges, statistics,
experience and the queued refreshes that recompute them; **Rankings** levels, leaderboard and
trending.

### Community

**WallThreads** is a wall: comments with their parents, depths, held and pinned flags, deletions
that leave a placeholder where there are replies and purges that remove it, each handler's read and
write apart; its second half is the reading of a wall, `getWall` and `getReplies`, as the requests
of one reader against a wall built before. **WallAudience** is who is told of a comment and of the
people and projects it tags: `mentions` and `projectOwners` are one turn each of the loops over its
tags, `told` what `announce` carries from one to the next, and an edit runs the second for the
projects it adds. **Reports** is filing, reopening, settling and telling; **ReportDesk** the
conversation of a report and the queue. **Follows** has edges, counters, blocks and the cached block
list with its expiry. **StaffRequests** has the requests of moderators (claimed, executed, released,
refused) and, apart from them, roles, presets and the permissions of members (`admin.service.ts`).

### Content and what is live

**ProjectLibrary** has projects, forks and the counters beside them, stars, shares, milestones and
views; **ProjectSaves** the saves of one project (the page read in two halves, `patchProject` in one
transaction against the page's version, `updateProject` in two writes, `updateLyrics` beside the
project), its first publication and the run that makes incomplete projects private; **MediaSweep**
the assets, the collections that refer to them and the weekly run; **Playlists** one playlist of its
owner and those who save it. **TextFormats** has the credits read out of titles, and LRC and SRT
files written and read back, as functions on bounded texts.

**Presence** has the sockets of one account, its heap of unread notifications and the rosters of
viewers of a project; **NotificationFolding** the stored notifications; **AsrJobs** the
transcriptions in memory.

## Runs

| Run | Question | States |
|---|---|---|
| `admission` | Does any interleaving of authentication, attach, sync and revocation serve a stale decision (`NoStaleService`), refuse a fresh one (`FreshAuthPasses`), or let the log grow (`LogBounded`)? | 320 k |
| `locks` | Is every live lock known to everyone, held by someone present and within the cap (`LiveLocksShown`, `HolderPresent`, `LockCap`); does a line pass from hand to hand only through being free (`Promise`); does a silent holder lose it (`SilentHolderLoses`)? | 32 k |
| `docstore` | With one database call failing anywhere: is an edit that was written once there for whoever comes next (`StoredKept`), is a document ever merged with a second seed (`OneSeed`), is a deleted one brought back (`DeletedStaysDeleted`)? | 2.1 M |
| `docstore_crash` | With a crash anywhere: `StoredKept`; and is an ended session's document ever written after its teardown (`NoWriterAfterEnd`)? | 310 k |
| `docstore_live` | Does the final store of an ended session land, through two failures (`FinalStoreLands`)? | 39 k |
| `membership` | Has every subject one entry, and awareness ids and credits of its own (`OneEachTheirs`); do kicked subjects stay out (`KickedStayOut`) and demoted members down (`DemotedStaysDown`), whatever is under way? | 1.7 M |
| `sessions` | Does an eviction end what it should (`EvictedStayOut`), is `token_reused` said only of reuse (`ReuseDetection`), is a token given out only for a live session (`TokensOfLive`); do old reset links die and does the account keep a way in (`WaysIn`)? | 2.1 M |
| `standing` | Are content and people shown as their owners stand (`ShownAsTheyStand`), are appeals of bans in force (`AppealsOfBans`), does a ban last its term (`BanLastsItsTerm`), do names and links lead where they should (`NamesHold`)? | 1.3 M |
| `social` | Does a wall stay a tree with its placeholders, likes and pin (`WallTidy`), is what was written on walls, in credits and in files read back whole (`ReadAsWritten`), do muted words wait for approval (`MutedWait`), is everyone told of their reports what happened (`ReportsSettle`), do counts, blocks and their cache agree with the edges (`FollowsAgree`)? | 726 k |
| `staff` | Are totals, titles and ranks those of what was earned (`StandingsAgree`), are requests executed once, conversations kept and the queue right (`ModeratorsAct`), are streak days days (`StreakHonest`), has everyone what their role grants (`GrantsFollow`)? | 802 k |
| `live` | Do heaps, online marks, rosters, jobs and folded notifications agree with what they stand for, and does each hear of a comment as often as the code says (`PresenceAgrees`, `LiveAgrees`)? | 1.3 M |
| `projects` | Do counters and playlists agree with the rows (`CountsAgree`), does a save with a page's version replace no lyrics but the page's (`SavesHonest`) and no asset in use deleted (`MediaKept`)? | 850 k |

Deadlock is checked for `admission` and `locks`. Elsewhere a behaviour really may stop: with its
budgets used up and nothing under way, nothing is left to do.

Many of these properties hold with exceptions, which are part of their statement: a counter agrees
*unless* two named handlers met, a report is told *unless* it was filed between the two steps that
settle. The exceptions are history variables of the models (`met`, `cameBack`, `edited`, ...), each
set only by the step at which the code lets go; the list of them is a list of the races the code
has, repeated [below](#limits-and-what-is-not-modelled).

## Bounds, and why they are enough

* **admission**: two connections of one network, one the guest's, one of the account that absorbs
  that guest; two revokers; one revoking write per key. The properties speak of one connection and
  one key at a time, and the other connection, key and revoker are what can get in the way: an
  eviction (`MaxEntries = 1`), an absorption, a sweep between two steps. `TtlMs = 2` and `MaxTime =
  2` let an entry and a capture expire. The code's values are 60 s and 10 000 entries; for them the
  proofs speak.
* **locks**: two connections, the owner's and another person's, and two lines, a cap of one (20 in
  the code) and two ids per heartbeat (200), so that the cap is met by a `lock` and inside one
  heartbeat too. `IdleMs = 2` stands for 30 s; any number of messages may arrive between two ticks.
  Nothing else bounds the state: the run covers every behaviour of this instance.
* **docstore**: two tabs, for one that comes back to a document another one kept loaded; two edits,
  for one that lands while a store of the other is under way; two sessions, for the copy of an
  earlier one; one failure. `OneByOne` keeps the run to sessions one after the other
  (`SessionsApart`, which the theorems assume), with nobody left past the read of one that ended.
  Overlapping sessions do break `OneSeed` and `StoredKept`: the tombstone and the
  `discardAfterStore` mark are per document, not per session (`collab.server.ts:493`, `:575`), which
  is listed as a hazard.
* **docstore_crash** has one tab, a solo save and a crash, and no failing write: a failed projection
  (`:405`) followed by a crash does lose the projection's place and with it `StoredKept`.
  `StoredKept` says nothing once a solo save was made, since a re-seed then replaces the document on
  purpose.
* **docstore_live**: two failures are enough for a store that fails, is retried, and fails again in
  its other write.
* **membership**: an account and the guest it may absorb, two visits at a time, one request of the
  owner, two links, room for two members (50 in the code) and one kicked name (200). A second link
  exists only while no account is about (`SecondLinkForGuests`): what it is for is a guest who joins
  again; the owner switches guests off where nobody is kicked and no link revoked (`OneWayOut`: with
  both, every door is shut), and of two visits under way one is a connection (`Joins`: the two go
  through the same reads and writes). One subject is closed in the ids' part. Three tabs, two ids
  and room for one id and two credits.
* **sessions**: two handlers at a time on one account; three tokens are two rotations of one
  sign-in, two families a sign-in beside another, two passwords a change and its reset link.
* **standing**: one account with a project and a playlist and two bans, so that a term can end under
  a newer one; two accounts and three names, so that one can be taken, left and taken again; three
  people, one of them staff, for every surface, with lists of two.
* **social**: three comments to a depth of two are a comment, a reply and a reply to it; two
  reporters who file four times; two accounts for the edges; a wall of four read in pages of one;
  texts of up to four words for the credits, songs of up to three lines for the files.
* **staff**: a day of four units, the gap and the cool-down of one day, four zones two of which lie
  west of UTC; a behaviour is four days with two changes of zone. Two requests, three staff, two
  failures; one member of one role with two permissions and two edits; three messages, a queue of
  one.
* **live**: three sockets and two notifications; two tabs and two pages with room for one; three
  jobs of two users; three events. A comment with up to three tags, of three accounts and three
  projects, two of them of one owner: two tags of a kind are what the loops need, and two projects
  of one owner what makes them differ.
* **projects**: three projects of two owners, three fans, three saves of whole projects, pages or
  lyrics, two assets in two collections, two songs.

Elsewhere two handlers at a time are what a race needs, and where a third one matters the theorem,
which bounds nothing, speaks of it. SYMMETRY is used only in runs of invariants, and only over
values the model treats alike.

Some foci leave out steps that another one has: the handlers of one report's conversation overlap
only while it is short, the process stops in the refresh only, warnings are sent with one change of
zone at a time.

## Fairness

* `CollabLocks!FairSpec`: time passes, and `onDisconnect` of a closed connection runs, which
  Hocuspocus does for every connection it closes. No client is assumed to do anything. The sweep
  timer needs no fairness: an expired lock counts for nobody, swept or not.
* `CollabDocStore!FairSpec`: what is awaited returns (`Loading`, `Storing`, `TearingDown`: each
  action is the next step of a function already running, or of the request handler that decided on
  the teardown), the retry timer of `retryDirtyStores` fires (10 s), and Hocuspocus unloads a
  document it can unload. Failures are bounded by the budget; sessions, edits and connections are
  not assumed.

Everywhere else only safety is stated: what a handler leaves undone when the process stops is
nobody's task to finish.

## Proofs

Eight modules hold theorems. All are checked to the last leaf, for any finite sets of slots, people,
lines and documents and any bounds. The only assumptions are the named ones on the constants
(`LogAssumption`, `LocksAssumption`, `StoreAssumption`, `MembershipAssumption`, `BoundsAssumption`,
`BansAssumption`, `NamesAssumption`, `WallAssumption`, `StaffAssumption`, `GrantAssumption`,
`FollowsAssumption`, `MediaAssumption`, `SavesAssumption`, `StreakAssumption`, `EventKinds`,
`MethodsAssumption`, `TracesAssumption`, `ViewersAssumption`, `AudienceAssumption`, ...): which sets
are finite, what is a natural number, which values stand for "nothing" and are outside a set, and
for `StreakAssumption` that no zone is further from UTC than there are (`Zones \subseteq
-DAY..AHEAD`). Nothing is assumed of the behaviour, except where the table says so.

| Module | Theorems | Property |
|---|---|---|
| `CollabAdmission_proofs` | `TypeCorrect`, `StaleServiceExcluded`, `FreshAuthenticationPasses`, `LogStaysBounded` | `TypeOK`, `NoStaleService`, `FreshAuthPasses`, `LogBounded` |
| `CollabLocks_proofs` | `TypeCorrect`, `LocksAreShown`, `HoldersArePresent`, `CapHolds`, `LocksImplementPromise` | types, `LiveLocksShown`, `HolderPresent`, `LockCap`, `Promise` |
| `CollabDocStore_proofs` | `TypeCorrect`, `DeletedForGood`, `EndedIsOver`, `WhatIsStoredStays`, `LinesAreNotDoubled`, `OneSessionHolds` | types, `DeletedStaysDeleted`, `NoWriterAfterEnd` while no call has failed, `StoredKept` and `OneSeed` for sessions one after the other (`SessionsApart`) and the failures named below |
| `CollabMembership_proofs` | `OneEntryEach`, `KickedNeverBack`, `DemotionHolds`, `TracesHoldAlways`, `OneEachAndTheirs` | `OneEntryPerSubject`, `KickedStayOut`, `DemotedStaysDown`, `TracesHold`, `OneEachTheirs` |
| `Accounts_proofs` | `EvictedForGood`, `ReuseIsReuse`, `OldLinksAreDead`, `TokensAreOfLive`, `MethodsHoldAlways`, `WaysAreOwn`, `StreaksAreHonest`, `ReportsSettleRight`, `FollowsAgreeRight` | `EvictedStayOut`, `ReuseDetection`, `OldLinksDie`, `TokensOfLive`, `MethodsHold`, `WaysIn`, `StreakHonest`, `ReportsSettle`, `FollowsAgree` |
| `Holdings_proofs` | `AppealsAreOfBans`, `ContentComesToSettle`, `BansLastTheirTerm`, `ShownAsTheyAre`, `NamesAreKept`, `SavesAreHonest`, `MediaIsKept`, `LibraryAlwaysAgrees`, `StarsAlwaysAgree`, `PlaylistsAlwaysAgree`, `CountsAlwaysAgree` | `AppealsOfBans`, `ContentSettles`, `BanLastsItsTerm`, `ShownAsTheyStand`, `NamesHold`, `SavesHonest`, `MediaKept`, `LibraryAgrees`, `StarsAgree`, `PlaylistsAgree`, `CountsAgree` |
| `Community_proofs` | `MutedWordsWait`, `WallsAreTidy`, `RequestsRunOnce`, `GrantsFollowPresets`, `ThreadsHoldAlways`, `QueueHoldsAlways`, `ModeratorsActAlways` | `MutedWait`, `WallTidy`, `RequestsOnce`, `GrantsFollow`, `ThreadsHold`, `QueueHolds`, `ModeratorsAct` |
| `Live_proofs` | `PresenceIsTrue`, `RostersAreTrue`, `JobsSettleRight`, `NotesFoldRight`, `AudienceIsRight`, `LiveIsTrue` | `PresenceAgrees`, `RostersAgree`, `JobsSettle`, `NotesFold`, `AudienceHolds`, `LiveAgrees` |

None of the properties is inductive: each speaks of the moments when nothing is under way, or of
what is already visible, and what is under way decides whether it will hold then. The strengthenings
say what every handler, at each of its steps, still owes. They were checked by TLC on the run's
instance first.

**Admission.** `NoStaleService` says nothing of a connection that is not yet served. `IInv` adds
that no sequence number is ahead of the log's (`LogOK`), that a connection has its capture exactly
while it is in flight (`PhaseOK`), that entries logged after a capture are not older than it in
time, so that an entry that has expired takes the capture with it (`CapturesOK`), and that for a
connection with a capture, a revoking write its authentication did not see is still to be announced
or is caught by `revokedSince` (`MissedIsCaught`). The heart is `RevokeCatches`: right after
`revoke(key)` every earlier capture is caught for that key; and `RevokeKeepsRevoked`: what was
caught stays caught, over prunes by age (then the capture is too old itself) and by count (then it
is behind `evictedSeq`).

**Locks.** The properties depend on the table through its snapshot only. The first lemmas say what
each table operation does to the snapshot; the invariant restated by snapshot (`InvBySnapshot`) then
splits the steps into those that broadcast and those that only take from the snapshot. Every step
takes lines that were free or its own, or frees some (`TakeRefines`, `FreeRefines`), which is the
refinement of LineLocks. The cap needs one counting argument, `GrantedFits`: the lines a heartbeat
is granted are at most the room left, because each is granted at a position of its own.

**Document store.** `DeletedStaysDeleted` needs `SweepInv`: the chain of teardowns has at most one
deletion (`SweptOnce`), which is waiting for every store that could write (`SweepWaits`), and after
it nobody writes back (`NobodyWritesBack`). `EndedIsOver` needs `EndInv`: what the end of a session
has still to do is owed by somebody until nobody can edit. Its hypothesis is that no call failed:
with a failure the property is false, which is the third finding below. `WhatIsStoredStays` is about
a project that stands. `KeptInv` says of each phase where a stored edit is: with nobody inside, in
what the next load takes (`UnloadedKept`); under a loaded document, in the document and its row, and
in Lyrics unless the row is current or the store is just writing Lyrics (`LoadedKept`); in what a
load or a removal had read (`LoadKept`, `RemovalKept`). It holds while no call failed, over any
crashes, or one failed and nothing crashed (`Fine`). `LinesAreNotDoubled` adds `OneInv`: every
document has one seed (`Singles`), every copy that may come back has that one and will find it
resumed (`CopiesOne`), since the document goes only when Lyrics and its row agree (`StoresAgree`).
It holds with at most one failing call, no crash and no solo save (`One`). These limits are where
the properties end: beyond them, and with sessions that overlap, TLC finds each one false. Both
assume `SessionsApart` of the behaviour, in which a session starts when the last one's teardown is
over; `OneSessionHolds` needs no such assumption, for a project with one session.

**Membership.** `KickInv`: a kicked subject is on the list of the kicked or every request that could
bring it in will look at the list first; whoever still serves it is about to be closed.
`DemotionInv` says the same of the guest entry an account takes over with its role. **Traces.**
`OnlyIs` says what the filter of the ids keeps, by induction over a set of positions. `Speaks` and
`Shows`: an id that is spoken for or shown is bound for that person, and a state has a connection
that speaks for its id; so an id that nobody speaks for and nothing is shown of may be freed
(`Forsaken`), and one more id at the cap makes room for itself (`SpeakBinds`). `CreditInv`: while
the credit of a guest is owed to the account, the guest still has it as long as nobody has come past
the rename. `OneEachAndTheirs` puts both together.

**Sessions.** `Chain` orders the tokens of a family: the one its row holds, the one before it, and
those rotated away for good; `Seen` says that what a refresh read before its await was true then and
can have changed in one direction only. `RowsWeaken` is the lemma the rest lean on: a step opens a
session only by signing in, so what is known of the valid ones survives most steps unread. **Ways
in.** `There`: an account has an address, and a password or an identity; a challenge it holds was
asked for by it and never consumed. `Apart`: no two accounts share an address or an identity, which
the unique indexes keep. `SignsRight`: a handler that unlinks saw a password, which nobody takes
away; whoever holds the identity or address of a callback is among those it remembers; a
verification's challenge is not the one another has cleared. `WaysAreOwn` puts the two halves of the
run together.

**Standing.** `SettlesAlone` follows the one handler that overlapped with none from its read of the
account to its last write; `LapsesKnown` remembers which ban a request saw lapse. **Shown.** The
flags follow the standing and no follow edge crosses a block (`ShownInv`); the surfaces are compared
filter by filter (`Asked`). For pages, `RanksRise`: sorted rows have ranks of their own, so a page
fits (`PagesFit`), and who pages on as long as there is more reaches every rank (`PagesAll`).
**Names.** For every account and name one of the handlers is on its way to give the name, or the
history leads from it to the account, or it is its name (`Kept`, `Recorded`, `Freed`, `Awaited`);
the unique index does the rest (`OneOwner`, `Guarded`, `NotBoth`). **Saves.** A stamp belongs to the
text it was made for (`StampsAreOwn`), a page whose version is still the project's has the lyrics of
that version (`PagesHold`), and a look before a privatization holds until a write that bumps the
stamp (`LooksHold`). **Media.** What is a candidate for deletion was old when listed
(`CandidatesAreOld`), and an asset nobody was seen to refer to is referred to by none of the
collections read so far, or moved (`UnseenIsUnreferred`).

**Counts.** Each count differs from what it counts by what handlers have still to write, as a number
of handlers: what is owned and what was received in the library (`OwnedRight`, `ReceivedRight`),
stars, credits and views of a project (`StarsCounted`, `StarsCredited`, `ViewsCounted`), the saves
of a playlist (`SavesKept`). A fork has a row and a row a fork (`RowsOfForks`), so that the count of
forks is that of the rows (`ForksRight`), and the limit on projects is exceeded by less than there
are handlers (`LimitHeld`). Who is alone with the entries of a share finds them as it expects
(`FeedsAgree`). The songs of an order that is still to be saved are those listed (`OrderOf`); what a
pull leaves is shown by induction over places (`CountingUp`). `CountsAlwaysAgree` puts the three
together: the run's components share no variable.

**Walls.** A muted comment waits, or a handler that met another decided (`AllWait`, `WallMeet`,
`WallHeld`). For the shape of a wall (`TidyInv`), what a deletion has collected is closed beneath
down to the level it has read, but for what was posted since it began (`Closed`, `Early`), and hangs
together below one comment, so that removing it leaves no reply behind; a placeholder about to be
dropped has nothing beneath it but what was posted since that was read (`OpTidy`); and what a
handler read holds while it meets no other (`OpAlone`). **Reports.** Every open report is owed its
outcome by the handler that settles it (`Owed`). **Follows.** `CountsOwed`, `GraphOwed` and
`CacheOwed` say that counter, graph and cache differ from the edges by exactly what handlers have
still to write; `TasksInOrder` that those writes come in the order of the code. **Requests.** One
handler executes (`OneExecutes`) and the queue follows (`QueueFollows`). **Grants.** A member has
the preset of its role, or the part of an edit that has not reached it yet is carried by a handler
(`Carried`). **Streaks.** `DaysInv` is the arithmetic: the days of a streak times `DAY`, with the
part of the day already past, fit into the time really gone by plus one unit less than a day for
each change of zone; `WarnInv` and `HeatInv` tie warnings and counters to days and rows. **Report
desk.** `RankedIs` says of a list in the order of pairs that it has each member in one place, by a
bijection of ranks, and `FlattenIs` the same of parts that have nothing in common. A reply answers a
root (`MessagesRight`), so a reader sees every message once (`ViewsShowEach`). No two reports are
filed and no two targets settled at one time (`StampsApart`), so a list is in one order
(`GroupedIs`); one that nothing was written beside still says what the rows say (`ListingRight`),
and a target acted on stays that unless it is reported again (`ActedRight`). `ModeratorsActAlways`
has a hypothesis for each of the three components, which share no variable: a behaviour of the run
is one of each.

**Live.** A heap that says it is loaded has every unread row, or a load under way will still find
it, or the delivery of its row is on its way (`HeapOwed`); who is shown online is up or somebody is
about to say otherwise (`ShownOwed`). `RosterOwed` says the same of the viewers of a page: what its
owner was told last is so, or an emission is armed or sending. An account's job is known to its run
(`JobSettles`), and a delivery that was refused met a row (`RefusalsMet`). For the audience, without
an edit (`Unedited`): who was told is in the set the announcement carries (`ToldOnce`), who is told
of a project joins it after the loop (`Owing`), who muted the thread in time is in it too
(`Announcements`), and who subscribed late is on no list (`LateHears`). `LiveIsTrue` puts the
components of the run together.

Only model-checked, and why:

* `SilentHolderLoses` and `FinalStoreLands`: liveness under fairness is out of the prover's reach.
* `FilesHold`, `CreditsAgree`, and the sums of `RankingsHold`: what a recursion over data computes
  is induction over data, out of its reach too.
* `ProgressAgrees`: not attempted.
* `ViewsHold`: what a reader is shown is computed by orders and filters of sequences that the
  provers do not see into; not attempted.

## Where code and comments disagree

Met while modelling. `PROJECT.json` quotes the line of the repository each one contradicts. Where a
definition is named, it states what the code fails and TLC finds a counterexample to it, so that no
passing run checks it. The models contain each of these behaviours as it is.

1. `collab.service.ts:286`: `revokeInvite` drops the guests it found in the session it read before
   it marked the invite: one who joins and connects in between stays connected on a revoked link
   (`RevokedInviteDrops`).
2. `collab.auth.ts:327`: an account whose write of its entry is refused, because its other tab has
   just taken the demoted guest's entry over, keeps the role it had computed from the link: served
   as an editor (`DemotedAccountStaysDown`).
3. `collab.server.ts:575`: a connection past the gate when the session ends attaches after a failed
   final store has ended the teardown, deletes the `discardAfterStore` mark and edits the ended
   session's document (`NoWriterAfterEnd`, with one fault).
4. `collab.server.ts:550`: two failing calls in the middle of a session leave a stored document that
   is neither current nor what Lyrics holds; if everybody leaves, the next one re-seeds (`OneSeed`,
   `StoredKept`, with two faults).
5. `collab.server.ts:221`: the state is encoded before the projection is computed: an edit during
   the state write and a crash before the version is written make `docMatchesLyrics` fail, and a tab
   that comes back merges two seeds.
6. `projects.crud.service.ts:415`: `collabSessionBlocks` and the write it allows are two awaits; a
   session that starts between them seeds without the save and stores over it (`SavesKept`).
7. `lyrics.resolvers.ts:35`: GraphQL `updateLyrics` does not count the version up, so a document
   left behind by a crash still compares as current (`SoloSaveLoads`).
8. `projects.crud.service.ts:1066`: deleting a copy of one's own project takes one off the source's
   fork count, which never counted it.
9. `projects.sharing.service.ts:138`: a fork is created without its owner's visibility: a
   shadow-banned account's fork is listed.
10. `notifications.service.ts:128`: `upsertFollow` sets and increments one field in one update,
   which MongoDB refuses: a follow is never notified.
11. `email-verification.service.ts:82`: an account without an address cannot confirm its first one:
   the history row is refused after the link was used up.
12. `auth.service.ts:529`: the grace path leaves `previousRefreshTokenHash`, so each reuse of the
   token just rotated away gets a token and only the last is current (`NewestTokenAccepted`).
13. `account-name.service.ts:90`: a rename the unique index refuses leaves the name the account
   still holds among its former ones.
14. `auth.service.ts:241`: `register` looks at the history first and at the accounts after, and a
   rename between the two frees a former name.
15. `owner-visibility.service.ts:101`: of two synchronisations of one owner the older read may be
   written last (`ContentFollows`).
16. `owner-visibility.service.ts:23, project.resolvers.ts:143`: a banned owner's public project, its
   share page and its stars stay open, though the comment says that the link must be gone.
17. `wall.service.ts:1056`: two pins at once leave two pinned comments.
18. `wall.service.ts:527`: the preview of a comment's replies orders and then filters, a batch
   filters and then orders: a reply is repeated and another missed.
19. `wall.service.ts:544`: a live update shows a comment under one of somebody the viewer is blocked
   with.
20. `wall.service.ts:894`: an edit tells those it tags also while the comment is held.
21. `reports.service.ts:696`: a report filed between the read of the open ones and the write that
   settles them is settled and its reporter not told.
22. `report-thread.service.ts:162`: a former moderator goes on hearing of a conversation.
23. `activity.service.ts:39`: an activity is told to followers whose feed leaves it out.
24. `activity.service.ts:195`: the heatmap's days are the account's, the schema says UTC.
25. `badge.service.ts:586`: a change of zone towards the west after an active day still makes a
   second day in the same 24 hours once the gap has passed.
26. `streak-lapse.job.ts:35`: up to ten hours west of UTC the hourly job zeroes a streak that is
   alive (`BitWest` in Streaks names exactly when).
27. `admin.service.ts:836`: `syncRolePermissions` gives back, at every start, what was revoked from
   one member.
28. `notifications.service.ts:285`: `createOnce` finds the row of an earlier password change or ban,
   so a later one is never told.
29. `artists.ts:133`: in "Song (Live feat. A)" the names run over the closing bracket.
30. `upload.resolvers.ts:69`: the GraphQL `deleteMedia` leaves the stored asset and the projects'
   references.
31. `media-sweep.job.ts:126`: a reference that moves during the run into a collection already read
   is not seen.
32. `google.service.ts:185`: a sign-in by a second Google identity with the account's address
   replaces the first.
33. `user-preferences.service.ts:68`: a read that began before an update of the same process caches
   the old preferences after it.
34. `lrc.ts:339`: the times of a secondary line's words are lost on the way back.
35. `collab-credits.service.ts:81`: an account can be credited and removed at once.
36. `collab.server.ts:875`: a rebind gives an account ids past its cap.
37. `leaderboard-ranking.job.ts:74, :206`: the rank counts the strictly smaller, the comment says
   smaller or equal; the scores said to be written atomically are not.
38. `content-stats.service.ts:60`: the stats page and the lists may show different titles for an
   account without projects.
39. `addiction-level.service.ts:345`: when no level is met the last one is given, whatever it
   requires.

## Limits, and what is not modelled

Every model has the control of the handlers it maps: each database call, early return and error path
that changes state. Left out everywhere: formatting and validation of input, rate limits, logging,
the contents of messages and mails, indexes other than the unique ones, and what the driver or the
operating system does to a call that never returns. A clock that steps back is not modelled, which
the code does not guard against either. What follows is by module: first what the models show the
code to allow, without a property that forbids it (or as an exception the property names), then what
is left out of them.

**Admission, locks.** `freeWhere` (`collab.locks.ts:45`) also drops expired entries of other
connections, which it does not report: clients keep seeing that dead lock until the next broadcast;
`LiveLocksShown` is about live ones. *Left out*: the size guard on a message, what a principal's
role is; names and colours of holders, messages that change nothing.

**Document store.** Overlapping sessions of one document, excluded by `SessionsApart`. *Left out*:
the meta map (title, artist, cover) and its write back, contents of sections, what fits in a
projection. Reading CollabDoc and Lyrics is one step; a store that hangs past `DESTROY_TIMEOUT`
costs a fault.

**Membership, traces.** A kick takes the absorbed guests from the members as read before its write
(`collab.service.ts:318`): one absorbed meanwhile is not kicked. A connection that absorbed a guest
and goes away before `connected` leaves the guest's other tab connected without an entry; a tab that
bound an id between rebind and greeting is refused it later; a guest's late credit between
`renameCredit` and `dropCredit` is lost. *Left out*: the owner's own entry, colours, listings, the
end of the session, the caps of ten absorbed guests and 50 invites. Whether a token or a link is
past its life (12 h, 7 days) is a free choice wherever the code asks. `onDisconnect` of the traces
is one step.

**Sessions, ways in.** A revocation by `_id` also kills a family that took the row over; a sign-in
whose credential check preceded a reset survives it; a logout with a lapsed access token writes
nothing; sudo and passkey registration share one challenge; a passkey's counter may go back; a reset
by link never resolves the notice to set a password. *Left out*: checks of devices, OAuth state,
bans at sign-in.

**Standing, names.** A lapsed ban leaves its networks blocked; a ban takes over a block that staff
made and lifting the ban removes it; a late save of `checkBanStatus` clears a newer ban. While an
account goes back to a former name the name can be taken by another; two overlapping renames lose a
former name; a link confirms whatever address is pending where changes overlapped or the hour's
links were spent. *Left out*: the cool-down of seven days between renames.

**Discovery.** Follow lists show banned people; suggestions are cut before the banned are filtered
out; the search total counts blocked owners; a page of the feed filtered after paging comes short;
nothing but `createdAt` orders the feed (`activity.service.ts:85`), so that two activities of one
millisecond could be shown in either order on two pages, and the model takes them to be of different
times. *Left out*: matching of texts, sort columns but one, totals of search, user activity; an
account owns one project and one playlist, and a change of standing is atomic with its flags
(AccountStanding has the steps).

**Walls.** An edit racing its author's deletion puts text back on a placeholder; a reply racing the
deletion of its parent is an orphan, a purge racing a reply leaves an empty placeholder; two
approvals announce twice; an edit racing the approval publishes a muted word. A subscriber the
wall's owner has blocked still hears plain comments. The owner of several tagged projects hears once
of each: `notifyProjectOwners` looks up whom to skip in what was told before its loop, and its
comment (`wall.service.ts:705`) says one notification per project. *Left out*: restrictions,
reactions, tags; a wall is read while nothing changes it.

**Reports.** Two concurrent decisions tell contradictory outcomes; a report reopened in between is
no news; filing again on an actioned target reopens its row, so that the record loses it; the cap of
a conversation is counted before the write. *Left out*: previews, the window of 30 days.

**Follows.** Counts drift up where a follow and a severing met; the cache may be stale until it
expires; a follow that passed its check before a block leaves an edge across it.

**Presence, notifications, jobs.** A notification for an account whose heap is not loaded makes a
heap of one; `dismiss` leaves the heap's entry; a socket that leaves while its join loads the heap
stays online; offline and online may be told out of order; a row folded after being listed is marked
read unseen; a provider call that never returns blocks the account's next job. *Left out*: texts,
most kinds of events, the alignment of words, rooms of admins.

**Staff, progress.** A crash between claim and execution leaves a request approved and never
executed; adjustments that overlap lose updates, and write no row of the history; a refresh from a
stale list recomputes statistics without the experience; a crash in the middle of a preset's update
leaves permissions unpulled. *Left out*: what each kind of request does (one step), the conditions
of single badges.

**Streaks.** Warnings are observed since the last change of zone only; a crash between the row of an
edit and its counter loses the count. *Left out*: daylight saving, social activities, the heatmap's
window of a year; no handler takes longer than a unit of time.

**Rankings.** A project made private keeps its old score until the hour after it is public again, a
banned account its rank; levels are stale for up to a minute; a start-up that read the markers
before may bring a deleted default level back. *Left out*: two of seven statistics and three of
eight metrics are modelled, roots and rounding are not.

**Projects, playlists, media.** `updateProject` (`projects.crud.service.ts:508`) and `updateLyrics`
write the lyrics beside the project, so that a save with the version of a page can replace lyrics
that no version counts; `getProject` reads the two apart (`:353`), so that a page can have the
version of one save and the lyrics of the one before, and replaces the later ones when it is saved.
`SavesHonest` excepts these two. A second concurrent deletion counts down again; a fork made while
its source is deleted is never marked so; lyrics upserted after the deletion are orphans; stars'
credit is not returned by a deletion; an unshare racing a share leaves an entry of the feed; a crash
after the claim of a first publication announces nothing, nor does a publication by PUT; a save
crossing the deletion of a playlist leaves its row; deleted projects stay listed and make an order
by hand impossible; a second row for one asset. `MediaKept` speaks of the sweep: what a request
deletes by hand is deleted whoever refers to it. An order by hand that names a song twice is refused
(`playlist.resolvers.ts:269-275`), so that `Orders` has none. *Left out*: slugs, metadata, automatic
lists, listings of media, the assets deleted with a replaced avatar.

**Files and credits.** A row's stamps past 99 minutes are dropped, of stacked stamps the earliest is
kept, lines within a hundredth merge, a translation without a secondary line comes back as one, ends
inferred past the track may come before the start. *Left out*: header metadata, the rounding of SRT,
splitting of CJK text, the normalisation of names and the batches of the migration.

Components without a module, with the reason, are in `PROJECT.json`: request validation and wiring,
single-document writes, I/O with mail and other services, rendering, schemas and migrations.

## Plan

Done: the models, runs and theorems above. Next, in this order:

1. `RankingsHold` and `ProgressAgrees`, whose sums could be followed in the same way, then
   TextFormats' files.
