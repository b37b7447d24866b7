------------------------------- MODULE Follows -------------------------------
(***************************************************************************)
(* Follows and blocks between accounts (follow and unfollow in             *)
(* graphql/resolvers/user.resolvers.ts, modules/blocks/block.service.ts,   *)
(* modules/blocks/block-list.cache.ts, lib/social-graph.ts): the follow    *)
(* rows, the counts kept on the accounts, the graph held in memory, the    *)
(* block rows and the cache of who is in a block with whom.                *)
(*                                                                         *)
(* None of these is written together with another: a record of `fops' is   *)
(* between two writes of one handler.                                      *)
(***************************************************************************)
EXTENDS Naturals, FiniteSets

CONSTANTS FollowOps,  \* handlers that can be under way at once
          Accounts,
          MaxCount    \* bound: what a count may drift up to

ASSUME FollowsAssumption == MaxCount \in Nat /\ IsFiniteSet(FollowOps) /\ IsFiniteSet(Accounts)

VARIABLES
    follows,    \* the follow rows: <<follower, following>>
    counts,     \* [follower, following -> account -> count]
    graph,      \* the edges of socialGraph
    blocks,     \* the block rows: <<blocker, blocked>>
    cache,      \* account -> the cached set, or Uncached
    fops,       \* the handlers under way
    met         \* observed: the kinds of handlers that overlapped, and {"stopped"}

followVars == <<follows, counts, graph, blocks, cache, fops, met>>

Edges == {e \in Accounts \X Accounts : e[1] # e[2]}
Uncached == [cached |-> FALSE]
NoHandler == [at |-> "idle", kind |-> "none"]

(* The overlaps the properties tell apart. *)
Telling == {{"follow", "block"}, {"follow", "unfollow"}, {"read", "block"}, {"read", "unblock"}}

Running(o) == fops[o].at # "idle"
Settled == \A o \in FollowOps : ~Running(o)
StartOp(o, op) ==
    /\ ~Running(o)
    /\ fops' = [fops EXCEPT ![o] = op]
    /\ met' = met \cup (Telling \cap {{op.kind, fops[x].kind} : x \in {x \in FollowOps : Running(x)}})
Step(o, op) == fops' = [fops EXCEPT ![o] = op]

FollowsInit ==
    /\ follows = {} /\ graph = {} /\ blocks = {}
    /\ counts = [field \in {"follower", "following"} |-> [u \in Accounts |-> 0]]
    /\ cache = [u \in Accounts |-> Uncached]
    /\ fops = [o \in FollowOps |-> NoHandler]
    /\ met = {}

-----------------------------------------------------------------------------
(* What a handler still has to write, in any order: tasks <<what, edge>>. *)
Tasks(o) == fops[o].todo
Settle(o, task, more) ==
    Step(o, [fops[o] EXCEPT !.todo = (@ \ {task}) \cup more])

(* Each end of an edge counts it. *)
Fields == {"follower", "following"}
EndOf(e, field) == IF field = "follower" THEN e[2] ELSE e[1]
Counting(e) == Fields \X {e}

(* $inc, and $inc where the count is above 0. *)
countUp(o, field, e) ==
    /\ fops[o].at = "counting" /\ fops[o].kind = "follow" /\ <<field, e>> \in Tasks(o)
    /\ counts[field][EndOf(e, field)] < MaxCount
    /\ counts' = [counts EXCEPT ![field][EndOf(e, field)] = @ + 1]
    /\ Settle(o, <<field, e>>, {})
    /\ UNCHANGED <<follows, graph, blocks, cache, met>>

countDown(o, field, e) ==
    /\ fops[o].at = "counting" /\ fops[o].kind # "follow" /\ <<field, e>> \in Tasks(o)
    /\ counts' = [counts EXCEPT ![field][EndOf(e, field)] = IF @ > 0 THEN @ - 1 ELSE @]
    /\ Settle(o, <<field, e>>, {})
    /\ UNCHANGED <<follows, graph, blocks, cache, met>>

-----------------------------------------------------------------------------
(* isBlockedEitherWay. *)
Apart(e) == e \in blocks \/ <<e[2], e[1]>> \in blocks

(* follow: no block is seen, then the row is created (one that was there
   already ends it), the counts go up, and last the graph has the edge. *)
follow(o, e) ==
    /\ ~Apart(e)
    /\ StartOp(o, [kind |-> "follow", at |-> "create", edge |-> e])
    /\ UNCHANGED <<follows, counts, graph, blocks, cache>>

createFollow(o) ==
    LET e == fops[o].edge IN
    /\ fops[o].at = "create"
    /\ follows' = follows \cup {e}
    /\ Step(o, IF e \in follows THEN NoHandler
               ELSE [kind |-> "follow", at |-> "counting", edges |-> {e}, todo |-> Counting(e)])
    /\ UNCHANGED <<counts, graph, blocks, cache, met>>

(* unfollow: only the one that deletes the row counts down and takes the
   edge off the graph. *)
unfollow(o, e) ==
    /\ StartOp(o, [kind |-> "unfollow", at |-> "counting", edges |-> {}, todo |-> {<<"delete", e>>}])
    /\ UNCHANGED <<follows, counts, graph, blocks, cache>>

(* Mutant: the counts go down whether or not a row was deleted. *)
WasThere_Always(e) == TRUE
WasThere(e) == e \in follows

deleteFollow(o, e) ==
    /\ fops[o].at = "counting" /\ <<"delete", e>> \in Tasks(o)
    /\ follows' = follows \ {e}
    /\ Step(o, [fops[o] EXCEPT
         !.todo = (@ \ {<<"delete", e>>}) \cup (IF WasThere(e) THEN Counting(e) ELSE {}),
         !.edges = IF WasThere(e) THEN @ \cup {e} ELSE @])
    /\ UNCHANGED <<counts, graph, blocks, cache, met>>

drawGraph(o) ==
    /\ fops[o].at = "counting" /\ Tasks(o) = {}
    /\ graph' = IF fops[o].kind = "follow" THEN graph \cup fops[o].edges
                ELSE graph \ fops[o].edges
    /\ Step(o, NoHandler)
    /\ UNCHANGED <<follows, counts, blocks, cache, met>>

(* blockUser: the row, the two cached sets, then both directions of the
   relationship; the graph loses both edges whatever was deleted. *)
blockUser(o, e) ==
    /\ StartOp(o, [kind |-> "block", at |-> "block", edge |-> e])
    /\ UNCHANGED <<follows, counts, graph, blocks, cache>>

Both(e) == {e, <<e[2], e[1]>>}
(* The upsert's answer reaches the process, which then forgets what it had
   cached for either of them. *)
insertBlock(o) ==
    /\ fops[o].at = "block"
    /\ blocks' = blocks \cup {fops[o].edge}
    /\ Step(o, [fops[o] EXCEPT !.at = "invalidate"])
    /\ UNCHANGED <<follows, counts, graph, cache, met>>

unblockUser(o, e) ==
    /\ e \in blocks
    /\ blocks' = blocks \ {e}
    /\ StartOp(o, [kind |-> "unblock", at |-> "invalidate", edge |-> e])
    /\ UNCHANGED <<follows, counts, graph, cache>>

invalidateBlockCache(o) ==
    LET e == fops[o].edge IN
    /\ fops[o].at = "invalidate"
    /\ cache' = [u \in Accounts |-> IF u \in {e[1], e[2]} THEN Uncached ELSE cache[u]]
    /\ Step(o, IF fops[o].kind = "unblock" THEN NoHandler
               ELSE [kind |-> "block", at |-> "counting", edges |-> Both(e),
                     todo |-> {"delete"} \X Both(e)])
    /\ UNCHANGED <<follows, counts, graph, blocks, met>>

(* getCachedBlockedSet: a miss reads the rows and then keeps what it read;
   an entry lasts CACHE_TTL_MS. *)
With(u) == {v \in Accounts \ {u} : Apart(<<u, v>>)}
fetchFromDb(o, u) ==
    /\ cache[u] = Uncached
    /\ StartOp(o, [kind |-> "read", at |-> "put", viewer |-> u, set |-> With(u)])
    /\ UNCHANGED <<follows, counts, graph, blocks, cache>>

put(o) ==
    /\ fops[o].at = "put"
    /\ cache' = [cache EXCEPT ![fops[o].viewer] = [cached |-> TRUE, set |-> fops[o].set]]
    /\ Step(o, NoHandler)
    /\ UNCHANGED <<follows, counts, graph, blocks, met>>

expire(u) ==
    /\ cache[u] # Uncached
    /\ cache' = [cache EXCEPT ![u] = Uncached]
    /\ UNCHANGED <<follows, counts, graph, blocks, fops, met>>

(* The process stops wherever its handlers are; initSocialGraph reads the
   rows again. *)
restart ==
    /\ graph' = follows
    /\ cache' = [u \in Accounts |-> Uncached]
    /\ fops' = [o \in FollowOps |-> NoHandler]
    /\ met' = met \cup (IF Settled THEN {} ELSE {{"stopped"}})
    /\ UNCHANGED <<follows, counts, blocks>>

Severing ==
    \/ \E o \in FollowOps :
        \/ \E e \in Edges :
            \/ blockUser(o, e) \/ unblockUser(o, e) \/ deleteFollow(o, e)
            \/ \E field \in Fields : countDown(o, field, e)
        \/ insertBlock(o) \/ invalidateBlockCache(o) \/ drawGraph(o)
    \/ restart

FollowEdges ==
    \E o \in FollowOps :
        \/ \E e \in Edges :
            \/ follow(o, e) \/ unfollow(o, e)
            \/ \E field \in Fields : countUp(o, field, e)
        \/ createFollow(o)

Caching ==
    \/ \E o \in FollowOps :
        \/ \E u \in Accounts : fetchFromDb(o, u)
        \/ put(o)
    \/ \E u \in Accounts : expire(u)

FollowsNext == Severing \/ FollowEdges \/ Caching

FollowsSpec == FollowsInit /\ [][FollowsNext]_followVars

-----------------------------------------------------------------------------
(* Properties. *)

Met(kind, others) == \E other \in others : {kind, other} \in met
Following(u, field) == Cardinality({e \in follows : EndOf(e, field) = u})

(* Two accounts do not follow each other across a block, whatever blocks,
   unblocks and unfollows overlap, unless a follow was being made while
   the block was (blockUser severs both directions; follow looks for a
   block before it creates the row), or the process stopped. *)
NoFollowAcrossABlock ==
    Settled /\ {"stopped"} \notin met /\ ~Met("follow", {"block"}) =>
        \A e \in follows : ~Apart(e)

(* A count is never below the rows it counts: each row counted down at
   most once; and it is their number unless a follow met what deletes one
   (a count that is still 0 is not counted down, and drifts up). *)
CountsCoverFollows ==
    Settled /\ {"stopped"} \notin met =>
        \A u \in Accounts, field \in Fields :
            /\ counts[field][u] >= Following(u, field)
            /\ ~Met("follow", {"unfollow", "block"}) => counts[field][u] = Following(u, field)

(* The graph has the edges of the rows, unless a follow met what deletes
   one (follow draws the edge some writes after it created the row). *)
GraphFollows ==
    Settled /\ ~Met("follow", {"unfollow", "block"}) => graph = follows

(* A cached set says who is in a block with the account, unless it was
   read while a block was made or lifted (the set is put after the rows
   were read, and may undo an invalidation). *)
CacheFollows ==
    Settled /\ ~Met("read", {"block", "unblock"}) =>
        \A u \in Accounts : cache[u] # Uncached => cache[u].set = With(u)

(* The copies of the follow and block rows agree with the rows, but for
   the overlaps named above. *)
FollowsAgree == NoFollowAcrossABlock /\ CountsCoverFollows /\ GraphFollows /\ CacheFollows
=============================================================================
