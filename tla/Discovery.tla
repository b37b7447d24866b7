------------------------------ MODULE Discovery ------------------------------
(***************************************************************************)
(* Who is shown to whom.  Some twenty reads of the server list or open     *)
(* people, their projects, playlists, shares and activity, each with its   *)
(* own filters: trending, search, boards, suggestions, profiles, follow    *)
(* lists, the feed, links, and the cards crawlers get.  Each is a definition *)
(* here, over one state of accounts that the operations change.            *)
(*                                                                         *)
(* An account owns one project and one playlist, which holds everybody's   *)
(* projects; it has shared and starred the projects of the others.  A      *)
(* change of standing is one step with the flags it leaves on content      *)
(* (AccountStanding has the steps between).                                *)
(***************************************************************************)
EXTENDS Integers, Sequences, FiniteSets

CONSTANTS Folk,        \* the accounts, in the order of their ids
          Staff,       \* the accounts with users.view
          Score,       \* rankScore of each
          PeriodXp,    \* experience each won within the window
          Taste,       \* pairs with an artist in common
          Deeds,       \* activities, newest first: [actor, of], `of` whose project it is about
          PageLimit,   \* rows of a page
          MaxChanges   \* bound: operations

Anyone == 0            \* a viewer who is not signed in
Viewing == Folk \cup {Anyone}

ASSUME DiscoveryAssumption ==
    /\ Folk \subseteq Nat \ {0} /\ IsFiniteSet(Folk) /\ Staff \subseteq Folk
    /\ Score \in [Folk -> Nat] /\ PeriodXp \in [Folk -> Nat]
    /\ Taste \subseteq Folk \X Folk /\ Deeds \in Seq([actor : Folk, of : Folk])
    /\ PageLimit \in Nat \ {0}

VARIABLES
    state,      \* "deleted", "banned", "search", "feed": what holds of each account
    ownerFlags, \* ownerActive and ownerListed on the content of each
    published,  \* whether the project, the playlist of each is public
    follow,     \* follow edges
    block,      \* block edges
    prefs,      \* the preferences of each that reads ask for
    changes
discoveryVars == <<state, ownerFlags, published, follow, block, prefs, changes>>

Inactive(u) == state[u] \cap {"deleted", "banned"} # {}
OwnerFlags(s) ==
    LET active == s \cap {"deleted", "banned"} = {}
    IN  [active |-> active, listed |-> active /\ "search" \notin s]

DiscoveryInit ==
    /\ state = [u \in Folk |-> {}] /\ ownerFlags = [u \in Folk |-> OwnerFlags({})]
    /\ published = [u \in Folk |-> [project |-> TRUE, playlist |-> TRUE]]
    /\ follow = {e \in Folk \X Folk : e[1] # e[2]} /\ block = {}
    /\ prefs = [u \in Folk |-> [showFollowers |-> TRUE, lastOnlineVisibility |-> "friends",
                             countryVisibility |-> "nobody"]]
    /\ changes = 0

Change == changes < MaxChanges /\ changes' = changes + 1

-----------------------------------------------------------------------------
setState(u, what) ==
    /\ Change
    /\ state' = [state EXCEPT ![u] = IF what \in @ THEN @ \ {what} ELSE @ \cup {what}]
    /\ ownerFlags' = [ownerFlags EXCEPT ![u] = OwnerFlags(state'[u])]
    /\ UNCHANGED <<published, follow, block, prefs>>

makePublic(u, what) ==
    /\ Change /\ published' = [published EXCEPT ![u][what] = ~@]
    /\ UNCHANGED <<state, ownerFlags, follow, block, prefs>>

followUser(u, v) ==
    /\ Change /\ u # v /\ <<u, v>> \notin follow
    /\ ~Inactive(v) /\ <<u, v>> \notin block /\ <<v, u>> \notin block
    /\ follow' = follow \cup {<<u, v>>} /\ UNCHANGED <<state, ownerFlags, published, block, prefs>>
unfollow(u, v) ==
    /\ Change /\ <<u, v>> \in follow
    /\ follow' = follow \ {<<u, v>>} /\ UNCHANGED <<state, ownerFlags, published, block, prefs>>

blockUser(u, v) ==
    /\ Change /\ u # v /\ <<u, v>> \notin block
    /\ block' = block \cup {<<u, v>>} /\ follow' = follow \ {<<u, v>>, <<v, u>>}
    /\ UNCHANGED <<state, ownerFlags, published, prefs>>
unblockUser(u, v) ==
    /\ Change /\ <<u, v>> \in block
    /\ block' = block \ {<<u, v>>} /\ UNCHANGED <<state, ownerFlags, published, follow, prefs>>

updatePreferences(u, field, value) ==
    /\ Change /\ prefs[u][field] # value /\ prefs' = [prefs EXCEPT ![u][field] = value]
    /\ UNCHANGED <<state, ownerFlags, published, follow, block>>

DiscoveryNext ==
    \E u \in Folk :
        \/ \E what \in {"deleted", "banned", "search", "feed"} : setState(u, what)
        \/ \E what \in {"project", "playlist"} : makePublic(u, what)
        \/ \E v \in Folk : followUser(u, v) \/ unfollow(u, v) \/ blockUser(u, v) \/ unblockUser(u, v)
        \/ \E show \in BOOLEAN : updatePreferences(u, "showFollowers", show)
        \/ \E field \in {"lastOnlineVisibility", "countryVisibility"}, seen \in {"everyone", "friends", "nobody"} :
              updatePreferences(u, field, seen)
DiscoverySpec == DiscoveryInit /\ [][DiscoveryNext]_discoveryVars

-----------------------------------------------------------------------------
getBlockedSet(v) == {u \in Folk : <<v, u>> \in block \/ <<u, v>> \in block}
isHiddenByBlock(v, u) == u \in getBlockedSet(v) \ {v}
hasBlocked(u, v) == <<u, v>> \in block
isSelfOrAdmin(u, v) == v = u \/ v \in Staff

(* Pages of rows that are sorted, `order` having the pairs of one before
   another.  A row more than the page is read, to know whether there are
   more. *)
Rank(r, rows, order) == Cardinality({q \in rows : <<q, r>> \in order})
PageOf(rows, order, offset) ==
    [rows |-> {r \in rows : Rank(r, rows, order) \in offset .. offset + PageLimit - 1},
     hasMore |-> Cardinality(rows) > offset + PageLimit]

(* What is listed. *)
getTrendingProjects(v) == {u \in Folk : published[u].project /\ ownerFlags[u].listed} \ getBlockedSet(v)
getPopularPlaylists(v) == {u \in Folk : published[u].playlist /\ ownerFlags[u].listed} \ getBlockedSet(v)

searchWithAtlas(v) == {u \in Folk : published[u].project \/ u = v} \cap {u \in Folk : ownerFlags[u].listed \/ u = v}
searchWithRegex(v) == {u \in Folk : (published[u].project /\ ownerFlags[u].listed) \/ u = v}
searchProjects(v, atlas) == (IF atlas THEN searchWithAtlas(v) ELSE searchWithRegex(v)) \ getBlockedSet(v)

SearchFilter(u) == "deleted" \notin state[u] /\ "banned" \notin state[u] /\ "search" \notin state[u]
searchUsers(v) == {u \in Folk : SearchFilter(u)} \ getBlockedSet(v)

(* The board is filtered before it is paged, and _id decides between equals. *)
LEADERBOARD_VISIBLE(u) == state[u] \cap {"deleted", "banned", "search"} = {}
buildLeaderboardSort(timeframe, asc) ==
    LET key == IF timeframe = "ALL_TIME" THEN Score ELSE PeriodXp
        less(a, b) == key[a] < key[b] \/ (key[a] = key[b] /\ a < b)
    IN  {p \in Folk \X Folk : IF asc THEN less(p[1], p[2]) ELSE less(p[2], p[1])}
Board(v, timeframe) ==
    {u \in Folk : /\ LEADERBOARD_VISIBLE(u) /\ u \notin getBlockedSet(v)
                  /\ timeframe = "WEEK" => PeriodXp[u] > 0}
leaderboard(v, timeframe, asc, offset) ==
    PageOf(Board(v, timeframe), buildLeaderboardSort(timeframe, asc), offset)

(* Friends of friends and people of like taste; nobody found, the newest. *)
ACTIVE_USER_FILTER(u) == ~Inactive(u) /\ "search" \notin state[u]
getSuggestedUsers(v) ==
    LET followed == {u \in Folk : <<v, u>> \in follow}
        near == {u \in Folk : \E w \in followed \ getBlockedSet(v) : <<w, u>> \in follow}
        alike == {u \in Folk : <<v, u>> \in Taste /\ ACTIVE_USER_FILTER(u)}
        candidates == (near \cup alike) \ ({v} \cup followed \cup getBlockedSet(v))
    IN  IF v = Anyone THEN {}
        ELSE IF candidates # {} THEN {u \in candidates : ACTIVE_USER_FILTER(u)}
        ELSE {u \in Folk \ ({v} \cup getBlockedSet(v)) : ACTIVE_USER_FILTER(u)}

(* What is opened by its link. *)
getProject(v, u) == (published[u].project \/ u = v) /\ (ownerFlags[u].active \/ u = v)
projectQuery(v, u) == getProject(v, u) /\ ~isHiddenByBlock(v, u)
playlistQuery(v, u) == (published[u].playlist \/ u = v) /\ (ownerFlags[u].active \/ u = v) /\ ~isHiddenByBlock(v, u)
savedPlaylists(v) == {u \in Folk \ {v} : published[u].playlist /\ ownerFlags[u].active} \ getBlockedSet(v)
resolveProjects(v) == Folk \ getBlockedSet(v)

(* Two older reads of a project do not look at its owner's standing, nor
   does the check that guards lyrics, stars and what a socket hears. *)
publicProject(v, u) == ~isHiddenByBlock(v, u) /\ (published[u].project \/ v = u)
getShareProject(v, u) == published[u].project /\ ~isHiddenByBlock(v, u)
canViewProject(v, u) == published[u].project \/ isSelfOrAdmin(u, v)
mayStar(v, u) == canViewProject(v, u) /\ ~isHiddenByBlock(v, u)
mayShare(v, u) == published[u].project /\ ownerFlags[u].active /\ ~isHiddenByBlock(v, u)

(* A profile and what its fields show. *)
Mutual(u) == {v \in Folk : <<u, v>> \in follow /\ <<v, u>> \in follow}
showFollowers(u, v) == prefs[u].showFollowers \/ (v # u /\ v \in Staff)
ShownTo(visibility, u, v) ==
    \/ v = u \/ v \in Staff
    \/ visibility = "everyone"
    \/ visibility = "friends" /\ v \in Mutual(u)
lastOnlineAt(u, v) == ShownTo(prefs[u].lastOnlineVisibility, u, v)
country(u, v) == ShownTo(prefs[u].countryVisibility, u, v)
PublicProjects(u, owner) == published[u].project \/ owner
NoProfile == [is |-> "none", project |-> FALSE, playlist |-> FALSE, isFollowedByMe |-> FALSE, isFollowingMe |-> FALSE,
              showFollowers |-> FALSE, lastOnlineAt |-> FALSE, country |-> FALSE]
blockedProfileStub == [NoProfile EXCEPT !.is = "stub"]
ProfileTo(viewer, u) ==
    [is |-> "profile", project |-> PublicProjects(u, viewer = u), playlist |-> published[u].playlist \/ viewer = u,
     isFollowedByMe |-> <<viewer, u>> \in follow, isFollowingMe |-> <<u, viewer>> \in follow,
     showFollowers |-> showFollowers(u, viewer), lastOnlineAt |-> lastOnlineAt(u, viewer),
     country |-> country(u, viewer)]
publicProfile(v, u, asVisitor) ==
    IF Inactive(u) \/ (v # u /\ hasBlocked(u, v)) THEN NoProfile
    ELSE IF v # u /\ hasBlocked(v, u) THEN blockedProfileStub
    ELSE ProfileTo(IF asVisitor THEN Anyone ELSE v, u)
userProjects(v, u) == published[u].project \/ isSelfOrAdmin(u, v)
playlists(v, u) == ~Inactive(u) /\ ~isHiddenByBlock(v, u) /\ (published[u].playlist \/ v = u)

followList(v, u, type) ==
    LET edges == CASE type = "FOLLOWERS" -> {w \in Folk : <<w, u>> \in follow}
                   [] type = "FOLLOWING" -> {w \in Folk : <<u, w>> \in follow}
                   [] type = "FRIENDS" -> Mutual(u)
    IN  IF Inactive(u) \/ isHiddenByBlock(v, u) \/ (~prefs[u].showFollowers /\ v # u) THEN {}
        ELSE {w \in edges : "deleted" \notin state[w]} \ getBlockedSet(v)

(* Shares and activity are paged first and filtered after.  A deed is its
   place among them. *)
Newest == {p \in (DOMAIN Deeds) \X (DOMAIN Deeds) : p[1] < p[2]}
DeedsOf(actors) == {i \in DOMAIN Deeds : Deeds[i].actor \in actors}
listProfileShares(v, u, offset) ==
    LET page == PageOf(DeedsOf({u}), Newest, offset)
        shown(d) == published[d.of].project /\ ownerFlags[d.of].active /\ d.of \notin getBlockedSet(v)
    IN  IF Inactive(u) \/ (v # u /\ (hasBlocked(u, v) \/ hasBlocked(v, u))) THEN [rows |-> {}, hasMore |-> FALSE]
        ELSE [rows |-> {i \in page.rows : shown(Deeds[i])}, hasMore |-> page.hasMore]

withoutBlockedTargets(v, rows) == {i \in rows : Deeds[i].of \notin getBlockedSet(v)}
FeedActors(v) == {u \in Folk : <<v, u>> \in follow /\ ~Inactive(u) /\ "feed" \notin state[u]}
getFeed(v, offset) ==
    LET page == PageOf(DeedsOf(FeedActors(v)), Newest, offset)
    IN  [rows |-> withoutBlockedTargets(v, page.rows), hasMore |-> page.hasMore]

(* What a socket is told at once: everybody who follows the actor. *)
fanOut(d) == {v \in Folk : <<v, d.actor>> \in follow}
drain(v) == {i \in DOMAIN Deeds : v \in fanOut(Deeds[i])}

(* The numbers of the explore page. *)
getExploreStats == [totalProjects |-> Cardinality({u \in Folk : published[u].project /\ ownerFlags[u].listed}),
                    totalPlaylists |-> Cardinality({u \in Folk : published[u].playlist /\ ownerFlags[u].listed})]

(* What crawlers are told. *)
isUserPubliclyVisible(u) == "deleted" \notin state[u] /\ "banned" \notin state[u] /\ "search" \notin state[u]
resolveProjectMeta == {u \in Folk : published[u].project /\ isUserPubliclyVisible(u)}
resolveProfile == {u \in Folk : isUserPubliclyVisible(u)}
resolveList == {u \in Folk : published[u].playlist /\ isUserPubliclyVisible(u)}
resolveCardSourceUrl(type) ==
    {u \in Folk : /\ type = "project" => published[u].project
                  /\ type = "list" => published[u].playlist
                  /\ isUserPubliclyVisible(u)}

-----------------------------------------------------------------------------
(* Every discovery surface shows the same people, whichever filter it was
   written with: the flags stored on content and the four predicates over
   accounts agree, the two searches agree, crawlers are told what a
   visitor finds. *)
SurfacesAgree ==
    /\ \A v \in Viewing :
        /\ getTrendingProjects(v) \ {v} = searchProjects(v, TRUE) \ {v}
        /\ searchProjects(v, TRUE) = searchProjects(v, FALSE)
        /\ Board(v, "ALL_TIME") = searchUsers(v) /\ Board(v, "WEEK") \subseteq searchUsers(v)
        /\ getSuggestedUsers(v) \subseteq searchUsers(v) \ {v}
        /\ getPopularPlaylists(v) \subseteq searchUsers(v)
    /\ resolveProjectMeta = getTrendingProjects(Anyone) /\ resolveCardSourceUrl("project") = resolveProjectMeta
    /\ resolveList = getPopularPlaylists(Anyone) /\ resolveCardSourceUrl("list") = resolveList
    /\ getExploreStats = [totalProjects |-> Cardinality(getTrendingProjects(Anyone)),
                          totalPlaylists |-> Cardinality(getPopularPlaylists(Anyone))]
    /\ resolveProfile = searchUsers(Anyone) /\ resolveCardSourceUrl("profile") = resolveProfile

(* Whoever is deleted or banned is neither found nor opened by anybody
   else; what they did leaves the feed. *)
Found(v) == searchUsers(v) \cup getTrendingProjects(v) \cup getPopularPlaylists(v) \cup getSuggestedUsers(v)
Opened(v) == {u \in Folk : \/ projectQuery(v, u) \/ playlistQuery(v, u) \/ playlists(v, u) \/ u \in savedPlaylists(v)
                           \/ publicProfile(v, u, FALSE).is = "profile"}
FeedRows(v) == UNION {getFeed(v, n).rows : n \in 0 .. Len(Deeds)}
Active(v) == {Deeds[i].actor : i \in FeedRows(v)}
GoneStayGone ==
    \A v \in Viewing : \A u \in Folk \ {v} : Inactive(u) => u \notin Found(v) \cup Opened(v) \cup Active(v)

(* A block holds both ways and everywhere, also for what a third person
   shared, did or follows. *)
ShareRows(v) == UNION {listProfileShares(v, w, n).rows : w \in Folk, n \in 0 .. Len(Deeds)}
Shown(v) ==
    {Deeds[i].of : i \in FeedRows(v) \cup ShareRows(v)}
    \cup UNION {followList(v, w, type) : w \in Folk, type \in {"FOLLOWERS", "FOLLOWING", "FRIENDS"}}
BlocksHold ==
    \A v \in Viewing : \A u \in getBlockedSet(v) :
        /\ u \notin Found(v) \cup Opened(v) \cup Active(v) \cup Shown(v) \cup resolveProjects(v)
        /\ \A i \in drain(v) : Deeds[i].actor # u
        /\ ~publicProject(v, u) /\ ~getShareProject(v, u) /\ ~mayStar(v, u) /\ ~mayShare(v, u)

(* A shadow ban takes nothing from a link, nor from what its target finds;
   what opens can be starred and read, and what can be shared opens. *)
LinksOpen ==
    \A v \in Viewing : \A u \in Folk \ {v} :
        /\ ~Inactive(u) /\ u \notin getBlockedSet(v) =>
             /\ (projectQuery(v, u) <=> published[u].project) /\ (playlistQuery(v, u) <=> published[u].playlist)
             /\ publicProfile(v, u, FALSE).is = "profile"
        /\ u \in searchProjects(u, TRUE)
        /\ mayShare(v, u) => projectQuery(v, u) /\ mayStar(v, u)
        /\ projectQuery(v, u) => publicProject(v, u) /\ getShareProject(v, u) /\ canViewProject(v, u)

(* The preview an owner asks for is what a visitor gets; and asking as a
   visitor never adds anything. *)
PreviewHonest ==
    \A u \in Folk :
        /\ publicProfile(u, u, TRUE) = publicProfile(Anyone, u, FALSE)
        /\ \A v \in Folk, field \in DOMAIN NoProfile \ {"is"} :
              publicProfile(v, u, TRUE)[field] => publicProfile(v, u, FALSE)[field]

(* Who pages on while there is more sees every row that is not filtered
   out, each on one page and those before it on an earlier one; and the
   feed has nothing its owner was not told of. *)
Paged(page) == {k \in DOMAIN page : \A j \in 0 .. k - 1 : page[j].hasMore}
Complete(page, rows, order) ==
    /\ UNION {page[k].rows : k \in Paged(page)} = rows
    /\ \A j, k \in Paged(page) : j < k => page[j].rows \X page[k].rows \subseteq order
    /\ \A k \in Paged(page) : Cardinality(page[k].rows) <= PageLimit
PagesComplete ==
    \A v \in Viewing :
        /\ \A t \in {"ALL_TIME", "WEEK"}, asc \in BOOLEAN :
              Complete([k \in 0 .. Cardinality(Folk) |-> leaderboard(v, t, asc, k * PageLimit)],
                       Board(v, t), buildLeaderboardSort(t, asc))
        /\ Complete([k \in 0 .. Len(Deeds) |-> getFeed(v, k * PageLimit)],
                    {i \in DOMAIN Deeds : /\ <<v, Deeds[i].actor>> \in follow
                                         /\ state[Deeds[i].actor] \cap {"deleted", "banned", "feed"} = {}
                                         /\ Deeds[i].of \notin getBlockedSet(v)}, Newest)
        /\ FeedRows(v) \subseteq drain(v)

DiscoveryHolds == SurfacesAgree /\ GoneStayGone /\ BlocksHold /\ LinksOpen /\ PreviewHonest /\ PagesComplete
=============================================================================
