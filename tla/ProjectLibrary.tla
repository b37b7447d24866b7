---------------------------- MODULE ProjectLibrary ----------------------------
(***************************************************************************)
(* The projects of the accounts: creation, forks and deletion              *)
(* (projects.crud.service.ts, projects.sharing.service.ts) with the counts *)
(* kept beside them: forks of a project, projects and forks received of an *)
(* account.  What runs in one transaction is one step; the counts that are *)
(* moved outside it, by writes nobody waits for, are steps of their own    *)
(* and may be lost.                                                        *)
(***************************************************************************)
EXTENDS Naturals, FiniteSets

CONSTANTS LibraryOps,   \* handlers that can be under way at once
          Owners,
          Ids,          \* bound: projects ever created, numbered in that order
          MaxProjects   \* MAX_PROJECTS_PER_USER

ASSUME LibraryAssumption ==
    /\ MaxProjects \in Nat \ {0} /\ Ids \subseteq Nat
    /\ IsFiniteSet(LibraryOps)

VARIABLES
    docs,       \* the projects
    texts,      \* the projects that have lyrics
    forks,      \* the ProjectFork rows
    owned,      \* User.projectCount
    received,   \* social.totalForksReceived
    off,        \* observed: the counts that may be wrong, and why below
    lops        \* the handlers under way

libraryVars == <<docs, texts, forks, owned, received, off, lops>>

NotYet == [state |-> "new"]
Gone == [state |-> "gone"]
NoLibraryOp == [at |-> "idle"]

Live(p) == docs[p] \notin {NotYet, Gone}
Fresh(p) == docs[p] = NotYet /\ \A q \in Ids : q < p => docs[q] # NotYet
Shelf(u) == {p \in Ids : Live(p) /\ docs[p].owner = u}
Credited(doc) == doc.from # {} /\ doc.fromOwner # doc.owner
Less(n) == IF n > 0 THEN n - 1 ELSE 0

Take(o, op) == lops[o].at = "idle" /\ lops' = [lops EXCEPT ![o] = op]
Ends(o) == lops' = [lops EXCEPT ![o] = NoLibraryOp]
(* The hourly job's counts are late once the projects have changed. *)
TurnsLate(o, op) == lops' = [q \in LibraryOps |->
    IF q = o THEN op
    ELSE IF lops[q].at = "ranking" THEN [lops[q] EXCEPT !.late = TRUE] ELSE lops[q]]

LibraryInit ==
    /\ docs = [p \in Ids |-> NotYet]
    /\ texts = {} /\ forks = {} /\ off = {}
    /\ owned = [u \in Owners |-> 0] /\ received = [u \in Owners |-> 0]
    /\ lops = [o \in LibraryOps |-> NoLibraryOp]

-----------------------------------------------------------------------------
(* createProject: the limit; project and lyrics; the count. *)
createProject(o, u) ==
    /\ Cardinality(Shelf(u)) < MaxProjects
    /\ Take(o, [at |-> "create", user |-> u])
    /\ UNCHANGED <<docs, texts, forks, owned, received, off>>

storeCreated(o, p) ==
    LET u == lops[o].user IN
    /\ lops[o].at = "create" /\ Fresh(p)
    /\ docs' = [docs EXCEPT ![p] = [owner |-> u, from |-> {}, fromOwner |-> u,
                                    sourceDeleted |-> FALSE, forkCount |-> 0]]
    /\ texts' = texts \cup {p}
    /\ TurnsLate(o, [at |-> "count", user |-> u])
    /\ UNCHANGED <<forks, owned, received, off>>

countCreated(o) ==
    LET u == lops[o].user IN
    /\ lops[o].at = "count"
    /\ \/ owned' = [owned EXCEPT ![u] = @ + 1] /\ off' = off
       \/ owned' = owned /\ off' = off \cup {<<"owned", u>>}
    /\ TurnsLate(o, NoLibraryOp)
    /\ UNCHANGED <<docs, texts, forks, received>>

(* cloneProject: not forked before, the source, the limit; the fork with
   its counts, unless a row of this source and account has come in between;
   and the credit of the source's owner, by the resolver. *)
cloneProject(o, u, s) ==
    /\ Live(s)
    /\ \A r \in forks : r.source = s => r.user # u
    /\ Cardinality(Shelf(u)) < MaxProjects
    /\ Take(o, [at |-> "clone", user |-> u, source |-> s, owner |-> docs[s].owner])
    /\ UNCHANGED <<docs, texts, forks, owned, received, off>>

storeClone(o, p) ==
    LET u == lops[o].user
        s == lops[o].source
        fork == [owner |-> u, from |-> {s}, fromOwner |-> lops[o].owner,
                 sourceDeleted |-> FALSE, forkCount |-> 0] IN
    /\ lops[o].at = "clone" /\ Fresh(p)
    /\ \A r \in forks : r.source = s => r.user # u
    /\ docs' = [q \in Ids |->
         IF q = p THEN fork
         ELSE IF q = s /\ Live(s) /\ Credited(fork) THEN [docs[s] EXCEPT !.forkCount = @ + 1]
         ELSE docs[q]]
    /\ texts' = texts \cup {p}
    /\ forks' = forks \cup {[source |-> s, fork |-> p, user |-> u]}
    /\ owned' = [owned EXCEPT ![u] = @ + 1]
    /\ off' = IF Live(s) THEN off ELSE off \cup {<<"source", p>>}
    /\ TurnsLate(o, IF Credited(fork) THEN [at |-> "credit", user |-> fork.fromOwner] ELSE NoLibraryOp)
    /\ UNCHANGED received

cloneRefused(o) ==
    /\ lops[o].at = "clone"
    /\ \E r \in forks : r.source = lops[o].source /\ r.user = lops[o].user
    /\ Ends(o)
    /\ UNCHANGED <<docs, texts, forks, owned, received, off>>

creditFork(o) ==
    LET u == lops[o].user IN
    /\ lops[o].at = "credit"
    /\ \/ received' = [received EXCEPT ![u] = @ + 1] /\ off' = off
       \/ received' = received /\ off' = off \cup {<<"received", u>>}
    /\ Ends(o)
    /\ UNCHANGED <<docs, texts, forks, owned>>

-----------------------------------------------------------------------------
(* deleteProject, deleteProjectAsModerator: the project as read is removed
   in one transaction, whether or not it is still there. *)
deleteProject(o, p) ==
    /\ Live(p)
    /\ Take(o, [at |-> "remove", id |-> p, doc |-> docs[p]])
    /\ UNCHANGED <<docs, texts, forks, owned, received, off>>

(* Mutant: the credit is taken back for a fork of one's own, too. *)
TakesBack_Always(doc) == doc.from # {}
TakesBack(doc) == Credited(doc)

(* `off': a second removal counts down again; a decrement that finds 0
   skips one whose increment is still to come; and the fork of one's own
   project, which was not counted, is counted down. *)
removeProject(o) ==
    LET p == lops[o].id
        doc == lops[o].doc
        u == doc.owner
        children == {r.fork : r \in {r \in forks : r.source = p}}
        again == ~Live(p) IN
    /\ lops[o].at = "remove"
    /\ docs' = [q \in Ids |->
         IF q = p THEN Gone
         ELSE IF q \in doc.from /\ Live(q) THEN [docs[q] EXCEPT !.forkCount = Less(@)]
         ELSE IF q \in children /\ Live(q) THEN [docs[q] EXCEPT !.sourceDeleted = TRUE]
         ELSE docs[q]]
    /\ texts' = texts \ {p}
    /\ forks' = {r \in forks : doc.from = {} \/ r.fork # p}
    /\ owned' = [owned EXCEPT ![u] = Less(@)]
    /\ received' = IF TakesBack(doc) THEN [received EXCEPT ![doc.fromOwner] = Less(@)] ELSE received
    /\ off' = off
         \cup (IF again \/ owned[u] = 0 THEN {<<"owned", u>>} ELSE {})
         \cup (IF Credited(doc) /\ (again \/ received[doc.fromOwner] = 0)
               THEN {<<"received", doc.fromOwner>>} ELSE {})
         \cup {<<"forks", q>> : q \in IF again \/ ~Credited(doc) THEN doc.from ELSE {}}
    /\ TurnsLate(o, NoLibraryOp)

(* updateProject: the lyrics are upserted beside the project's update. *)
updateProject(o, p) ==
    /\ Live(p)
    /\ Take(o, [at |-> "upsert", id |-> p])
    /\ UNCHANGED <<docs, texts, forks, owned, received, off>>

upsertLyrics(o) ==
    LET p == lops[o].id IN
    /\ lops[o].at = "upsert"
    /\ texts' = texts \cup {p}
    /\ off' = IF Live(p) THEN off ELSE off \cup {<<"texts", p>>}
    /\ Ends(o)
    /\ UNCHANGED <<docs, forks, owned, received>>

(* recomputeLeaderboardRanking: the counts are aggregated, then written;
   this puts right whatever was off, unless the projects or the counts
   changed meanwhile or a created project is still to be counted. *)
countProjects(o) ==
    /\ Take(o, [at |-> "ranking", late |-> FALSE, counts |-> [u \in Owners |-> Cardinality(Shelf(u))]])
    /\ UNCHANGED <<docs, texts, forks, owned, received, off>>

writeCounts(o) ==
    LET wrong == {u \in Owners : lops[o].late \/ \E q \in LibraryOps : lops[q].at = "count" /\ lops[q].user = u} IN
    /\ lops[o].at = "ranking"
    /\ owned' = lops[o].counts
    /\ off' = {m \in off : m[1] # "owned"} \cup {<<"owned", u>> : u \in wrong}
    /\ TurnsLate(o, NoLibraryOp)
    /\ UNCHANGED <<docs, texts, forks, received>>

Forking(o) ==
    \/ \E u \in Owners, s \in Ids : cloneProject(o, u, s)
    \/ \E p \in Ids : storeClone(o, p)
    \/ cloneRefused(o) \/ creditFork(o)
Keeping(o) ==
    \/ \E u \in Owners : createProject(o, u)
    \/ \E p \in Ids : storeCreated(o, p) \/ deleteProject(o, p)
    \/ countCreated(o) \/ removeProject(o)
Updating(o) == upsertLyrics(o) \/ \E p \in Ids : updateProject(o, p)
Ranking(o) == countProjects(o) \/ writeCounts(o)
LibraryNext == \E o \in LibraryOps : Forking(o) \/ Keeping(o) \/ Updating(o) \/ Ranking(o)
LibrarySpec == LibraryInit /\ [][LibraryNext]_libraryVars

-----------------------------------------------------------------------------
Calm == \A o \in LibraryOps : lops[o].at = "idle"
Sound(kind, x) == Calm /\ <<kind, x>> \notin off

(* With no handler under way every project has its lyrics and nothing else
   has (unless a whole save ran into the deletion); a project's forkCount
   is the forks others made of it, an account's forks received the live
   forks others made of its projects, and its projectCount its projects,
   in every order of creations, forks, deletions and the hourly job but
   those `off' names; a fork says so when its source is gone; and nobody
   has more projects over the limit than creations ran at once
   (createProject, cloneProject, removeProject, recomputeLeaderboardRanking). *)
LibraryAgrees ==
    /\ \A p \in Ids :
         /\ Sound("texts", p) => (p \in texts <=> Live(p))
         /\ Live(p) /\ Sound("forks", p) =>
              docs[p].forkCount = Cardinality({r \in forks : r.source = p /\ r.user # docs[p].owner})
         /\ Live(p) /\ Sound("source", p) =>
              (docs[p].sourceDeleted <=> \E s \in docs[p].from : ~Live(s))
    /\ \A u \in Owners :
         /\ Sound("owned", u) => owned[u] = Cardinality(Shelf(u))
         /\ Sound("received", u) => received[u] =
              Cardinality({p \in Ids : Live(p) /\ Credited(docs[p]) /\ docs[p].fromOwner = u})
         /\ Cardinality(Shelf(u)) < MaxProjects + Cardinality(LibraryOps)

-----------------------------------------------------------------------------
(***************************************************************************)
(* Stars, profile shares and views of one project (starProject,            *)
(* unstarProject, shareToProfile, unshareFromProfile of                    *)
(* project.resolvers.ts, project-view.service.ts), with the counts of the  *)
(* project and of its owner, and the feed's entries.  The row of a star, a *)
(* share or a view is written first and decides; what goes with it follows *)
(* in steps that other calls come between, and the owner's credit and the  *)
(* feed's entry are written by nobody who waits.                           *)
(***************************************************************************)
CONSTANTS StarOps,      \* handlers that can be under way at once
          Owner,        \* whose project it is
          Fans,         \* those who star and share, the owner perhaps among them
          MaxEntries,   \* bound: feed entries of one account
          MaxDays       \* bound: UTC days

ASSUME StarAssumption == MaxEntries \in Nat /\ MaxDays \in Nat /\ IsFiniteSet(StarOps)

VARIABLES
    there,      \* the project is not deleted
    stars, shares,
    starCount,
    credit,     \* the owner's social.totalStarsReceived
    feed,       \* the entries about its share, per account
    viewed,     \* project_views: who, in which day
    viewCount,
    today,      \* the UTC day
    amiss,      \* observed: the counts and feeds that may be wrong
    stops       \* the handlers under way

viewCounts == <<viewed, viewCount, today>>
starVars == <<there, stars, shares, starCount, credit, feed, viewCounts, amiss, stops>>

NoStarOp == [at |-> "idle", user |-> Owner]
Fewer(n) == IF n > 0 THEN n - 1 ELSE 0
Beside(o, u, ats) == \E p \in StarOps \ {o} : stops[p].user = u /\ stops[p].at \in ats

StarGo(o, u, at) == stops' = [stops EXCEPT ![o] = [at |-> at, user |-> u]]
StarEnd(o) == stops' = [stops EXCEPT ![o] = NoStarOp]
Free(o) == stops[o].at = "idle"

StarInit ==
    /\ there = TRUE
    /\ stars = {} /\ shares = {} /\ amiss = {}
    /\ starCount = 0 /\ credit = 0
    /\ viewed = {} /\ viewCount = 0 /\ today = 1
    /\ feed = [u \in Fans |-> 0]
    /\ stops = [o \in StarOps |-> NoStarOp]

-----------------------------------------------------------------------------
(* starProject: the project, then the row; a new one is counted, and
   credited unless it is one's own. *)
starProject(o, u) ==
    /\ Free(o) /\ there
    /\ StarGo(o, u, "star")
    /\ UNCHANGED <<there, stars, shares, starCount, credit, feed, amiss, viewCounts>>

upsertStar(o) ==
    LET u == stops[o].user IN
    /\ stops[o].at = "star"
    /\ stars' = stars \cup {u}
    /\ IF u \in stars THEN StarEnd(o) ELSE StarGo(o, u, "count")
    /\ UNCHANGED <<there, shares, starCount, credit, feed, amiss, viewCounts>>

countStar(o) ==
    LET u == stops[o].user IN
    /\ stops[o].at = "count"
    /\ starCount' = IF there THEN starCount + 1 ELSE starCount
    /\ IF u = Owner THEN StarEnd(o) ELSE StarGo(o, u, "credit")
    /\ UNCHANGED <<there, stars, shares, credit, feed, amiss, viewCounts>>

creditStar(o) ==
    /\ stops[o].at = "credit"
    /\ \/ credit' = credit + 1 /\ amiss' = amiss
       \/ credit' = credit /\ amiss' = amiss \cup {<<"credit", Owner>>}
    /\ StarEnd(o)
    /\ UNCHANGED <<there, stars, shares, starCount, feed, viewCounts>>

(* unstarProject: whoever deletes the row takes back what it brought, as
   far as it has been counted yet. *)
HadStar(u) == u \in stars

unstarProject(o, u) ==
    /\ Free(o)
    /\ HadStar(u)
    /\ stars' = stars \ {u}
    /\ StarGo(o, u, "uncredit")
    /\ UNCHANGED <<there, shares, starCount, credit, feed, amiss, viewCounts>>

uncreditStar(o) ==
    LET u == stops[o].user IN
    /\ stops[o].at = "uncredit"
    /\ IF there /\ u # Owner
       THEN credit' = Fewer(credit) /\ amiss' = amiss \cup (IF credit = 0 THEN {<<"credit", Owner>>} ELSE {})
       ELSE credit' = credit /\ amiss' = amiss \cup (IF u # Owner THEN {<<"credit", Owner>>} ELSE {})
    /\ StarGo(o, u, "uncount")
    /\ UNCHANGED <<there, stars, shares, starCount, feed, viewCounts>>

uncountStar(o) ==
    /\ stops[o].at = "uncount"
    /\ starCount' = IF there THEN Fewer(starCount) ELSE starCount
    /\ amiss' = amiss \cup (IF starCount = 0 THEN {<<"count", Owner>>} ELSE {})
    /\ StarEnd(o)
    /\ UNCHANGED <<there, stars, shares, credit, feed, viewCounts>>

-----------------------------------------------------------------------------
(* shareToProfile: the project, then the row.  A second share edits the
   note, or takes the feed's entries out and, like a new one, writes one. *)
Sharing == {"share", "reshare", "clear", "entry", "unfeed"}

shareToProfile(o, u, at) ==
    /\ Free(o) /\ there
    /\ StarGo(o, u, at)
    /\ UNCHANGED <<there, stars, shares, starCount, credit, feed, amiss, viewCounts>>

createShare(o) ==
    LET u == stops[o].user IN
    /\ stops[o].at \in {"share", "reshare"}
    /\ shares' = shares \cup {u}
    /\ IF u \notin shares THEN StarGo(o, u, "entry")
       ELSE IF stops[o].at = "reshare" THEN StarGo(o, u, "clear") ELSE StarEnd(o)
    /\ UNCHANGED <<there, stars, starCount, credit, feed, amiss, viewCounts>>

clearEntries(o) ==
    LET u == stops[o].user IN
    /\ stops[o].at = "clear"
    /\ feed' = [feed EXCEPT ![u] = 0]
    /\ StarGo(o, u, "entry")
    /\ UNCHANGED <<there, stars, shares, starCount, credit, amiss, viewCounts>>

(* Another call about the same share came in between, or nothing was
   written. *)
writeActivity(o) ==
    LET u == stops[o].user IN
    /\ stops[o].at = "entry" /\ feed[u] < MaxEntries
    /\ \/ /\ feed' = [feed EXCEPT ![u] = @ + 1]
          /\ amiss' = IF u \notin shares \/ feed[u] > 0 \/ Beside(o, u, Sharing)
                       THEN amiss \cup {<<"feed", u>>} ELSE amiss
       \/ feed' = feed /\ amiss' = amiss \cup {<<"feed", u>>}
    /\ StarEnd(o)
    /\ UNCHANGED <<there, stars, shares, starCount, credit, viewCounts>>

(* unshareFromProfile: whoever deletes the row takes the entries out. *)
unshareFromProfile(o, u) ==
    /\ Free(o) /\ u \in shares
    /\ shares' = shares \ {u}
    /\ StarGo(o, u, "unfeed")
    /\ UNCHANGED <<there, stars, starCount, credit, feed, amiss, viewCounts>>

removeEntries(o) ==
    LET u == stops[o].user IN
    /\ stops[o].at = "unfeed"
    /\ feed' = [feed EXCEPT ![u] = 0]
    /\ amiss' = IF u \in shares \/ Beside(o, u, Sharing)
                 THEN amiss \cup {<<"feed", u>>} ELSE amiss \ {<<"feed", u>>}
    /\ StarEnd(o)
    /\ UNCHANGED <<there, stars, shares, starCount, credit, viewCounts>>

(* registerProjectView of a public project, not by its owner; the row
   is of the viewer (an account, or a device without one) and the UTC day,
   and only who creates it counts. *)
registerProjectView(o, u) ==
    /\ Free(o) /\ there /\ u # Owner
    /\ StarGo(o, u, "view")
    /\ UNCHANGED <<there, stars, shares, starCount, credit, feed, amiss, viewCounts>>

createView(o) ==
    LET u == stops[o].user IN
    /\ stops[o].at = "view"
    /\ viewed' = viewed \cup {<<u, today>>}
    /\ IF <<u, today>> \in viewed THEN StarEnd(o) ELSE StarGo(o, u, "countView")
    /\ UNCHANGED <<there, stars, shares, starCount, credit, feed, amiss, viewCount, today>>

countView(o) ==
    /\ stops[o].at = "countView"
    /\ \/ viewCount' = (IF there THEN viewCount + 1 ELSE viewCount) /\ amiss' = amiss
       \/ viewCount' = viewCount /\ amiss' = amiss \cup {<<"views", Owner>>}
    /\ StarEnd(o)
    /\ UNCHANGED <<there, stars, shares, starCount, credit, feed, viewed, today>>

midnight ==
    /\ today < MaxDays /\ today' = today + 1
    /\ UNCHANGED <<there, stars, shares, starCount, credit, feed, amiss, viewed, viewCount, stops>>

(* The owner deletes the project; stars, shares and the credit stay. *)
projectDeleted ==
    /\ there
    /\ there' = FALSE
    /\ UNCHANGED <<stars, shares, starCount, credit, feed, amiss, stops, viewCounts>>

Starring(o) == upsertStar(o) \/ countStar(o) \/ creditStar(o) \/ uncreditStar(o) \/ uncountStar(o)
    \/ \E u \in Fans : starProject(o, u) \/ unstarProject(o, u)
SharingSteps(o) == createShare(o) \/ clearEntries(o) \/ writeActivity(o) \/ removeEntries(o)
    \/ \E u \in Fans : unshareFromProfile(o, u) \/ \E at \in {"share", "reshare"} : shareToProfile(o, u, at)
ViewSteps(o) == createView(o) \/ countView(o) \/ \E u \in Fans : registerProjectView(o, u)
StarNext == projectDeleted \/ midnight \/ \E o \in StarOps : Starring(o) \/ SharingSteps(o) \/ ViewSteps(o)
StarSpec == StarInit /\ [][StarNext]_starVars

-----------------------------------------------------------------------------
(* With no handler under way the project's starCount is its stars, its
   owner's credit the stars of others, and the feed has one entry for each
   share and none without one: through repeated, concurrent and undone
   calls, except where a decrement came before its increment, a write was
   lost, the project was deleted before an unstar, or two calls about the
   same share overlapped.  Its views are the viewers of each day, counted
   once however often they come, and never its owner. *)
StarsAgree ==
    /\ viewCount <= Cardinality(viewed) /\ \A v \in viewed : v[1] # Owner
    /\ (\A o \in StarOps : Free(o)) =>
      /\ there /\ <<"count", Owner>> \notin amiss => starCount = Cardinality(stars)
      /\ <<"credit", Owner>> \notin amiss => credit = Cardinality(stars \ {Owner})
      /\ there /\ <<"views", Owner>> \notin amiss => viewCount = Cardinality(viewed)
      /\ \A u \in Fans : <<"feed", u>> \notin amiss => feed[u] = Cardinality(shares \cap {u})
=============================================================================
