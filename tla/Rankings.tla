------------------------------ MODULE Rankings ------------------------------
(***************************************************************************)
(* Where people and their work stand: the levels an account's title comes  *)
(* from (stats/addiction-level.service.ts, content-stats.service.ts), the  *)
(* hourly score of the leaderboard (jobs/leaderboard-ranking.job.ts) and   *)
(* the hourly scores of projects and playlists (jobs/trending.job.ts).     *)
(* The jobs read, think and write while everybody goes on, and a process   *)
(* may stop between any two of their steps; the queue runs one at a time.  *)
(***************************************************************************)
EXTENDS Integers, Sequences, FiniteSets
LOCAL INSTANCE FiniteSetsExt
LOCAL INSTANCE SequencesExt

CONSTANTS LevelOps,         \* handlers about levels under way at once
          DEFAULT_LEVELS,   \* id -> [order, requirements]
          LevelInputs,      \* what an admin may make a level of
          Players,          \* accounts of the leaderboard
          WEIGHTS,          \* metric -> weight, in hundredths
          Likers, Maker,    \* who stars, forks and saves; the owner is one
          MaxAmount,        \* bound: size of a metric
          MaxChanges,       \* bound: changes beside the leaderboard's job
          MaxTurns          \* bound: changes beside the trending job

(* Of the seven statistics a level may require, two stand for the rest. *)
StatKeys == {"syncedLines", "totalProjects"}
Metrics == DOMAIN WEIGHTS
ASSUME RankingsAssumption ==
    /\ \A l \in DOMAIN DEFAULT_LEVELS : DEFAULT_LEVELS[l] \in LevelInputs
    /\ \A c \in LevelInputs : c.order \in Nat /\ c.requirements \in [StatKeys -> Nat]
    /\ {"syncedLines", "timeSynced", "projects"} \subseteq Metrics
    /\ Maker \in Likers /\ MaxAmount \in Nat /\ MaxChanges \in Nat /\ MaxTurns \in Nat

-----------------------------------------------------------------------------
(* Levels and titles. *)
VARIABLES
    levels,         \* addiction_levels: id -> [order, requirements]
    markers,        \* seed_markers: the defaults seeded at least once
    levelCache,     \* cachedLevels of the serving process
    serving,        \* it listens
    lops,           \* handlers under way
    levelSeen       \* observed: what admins deleted, and in spite of a marker
levelVars == <<levels, markers, levelCache, serving, lops, levelSeen>>

NoLevels == [l \in {} |-> {}]
NoCache == [held |-> FALSE, rows |-> NoLevels, late |-> FALSE]
IdleOp == [at |-> "idle", todo |-> {}, pending |-> {}, rows |-> NoLevels, late |-> FALSE]
LevelsInit ==
    /\ levels = NoLevels /\ markers = {} /\ levelCache = NoCache /\ serving = FALSE
    /\ lops = [o \in LevelOps |-> IdleOp]
    /\ levelSeen = [deleted |-> {}, gone |-> {}]

Free(o) == lops[o].at = "idle"
Seeding == {o \in LevelOps : lops[o].pending # {}}
Go(o, r) == lops' = [lops EXCEPT ![o] = r]
(* What was read before a write is late after it. *)
WroteLevels(o, r) == lops' = [p \in LevelOps |-> IF p = o THEN r ELSE [lops[p] EXCEPT !.late = TRUE]]
WithLevel(l, c) == [x \in DOMAIN levels \cup {l} |-> IF x = l THEN c ELSE levels[x]]
WithoutLevel(l) == [x \in DOMAIN levels \ {l} |-> levels[x]]

(* seedAddictionLevels, by this process before it listens (its cache is
   still empty) or by another one that starts. *)
Unseeded == DOMAIN DEFAULT_LEVELS \ markers
seedAddictionLevels(o) ==
    /\ Free(o) /\ Unseeded # {}
    /\ Go(o, [IdleOp EXCEPT !.at = "insert", !.todo = Unseeded, !.pending = Unseeded])
    /\ UNCHANGED <<levels, markers, levelCache, serving, levelSeen>>
(* Two unordered bulk writes, each one row at a time. *)
RowWritten(o, l, next) ==
    IF lops[o].todo # {l} THEN [lops[o] EXCEPT !.todo = @ \ {l}]
    ELSE IF next = "idle" THEN IdleOp ELSE [lops[o] EXCEPT !.at = next, !.todo = lops[o].pending]
insertLevel(o) ==
    /\ lops[o].at = "insert"
    /\ \E l \in lops[o].todo :
         IF l \in DOMAIN levels
         THEN Go(o, RowWritten(o, l, "mark")) /\ UNCHANGED <<levels, levelCache>>
         ELSE /\ levels' = WithLevel(l, DEFAULT_LEVELS[l])
              /\ WroteLevels(o, RowWritten(o, l, "mark"))
              /\ levelCache' = [levelCache EXCEPT !.late = TRUE]
    /\ UNCHANGED <<markers, serving, levelSeen>>
markLevel(o) ==
    /\ lops[o].at = "mark"
    /\ \E l \in lops[o].todo : markers' = markers \cup {l} /\ Go(o, RowWritten(o, l, "idle"))
    /\ UNCHANGED <<levels, levelCache, serving, levelSeen>>
listen ==
    /\ ~serving /\ Seeding = {}
    /\ serving' = TRUE
    /\ UNCHANGED <<levels, markers, levelCache, lops, levelSeen>>
stopServer ==
    /\ serving' = FALSE /\ levelCache' = NoCache
    /\ lops' = [o \in LevelOps |-> IdleOp]
    /\ UNCHANGED <<levels, markers, levelSeen>>

(* createLevel, updateLevel and deleteLevel: a write, then the cache. *)
Editing(o) == serving /\ Free(o) /\ WroteLevels(o, [IdleOp EXCEPT !.at = "invalidate"])
createLevel(o, l, c) ==
    /\ l \notin DOMAIN levels
    /\ levels' = WithLevel(l, c) /\ Editing(o)
    /\ levelSeen' = [deleted |-> levelSeen.deleted \ {l}, gone |-> levelSeen.gone \ {l}]
    /\ UNCHANGED <<markers, levelCache, serving>>
updateLevel(o, l, c) ==
    /\ l \in DOMAIN levels
    /\ levels' = WithLevel(l, c) /\ Editing(o)
    /\ UNCHANGED <<markers, levelCache, serving, levelSeen>>
deleteLevel(o, l) ==
    /\ l \in DOMAIN levels
    /\ levels' = WithoutLevel(l) /\ Editing(o)
    /\ levelSeen' = [deleted |-> levelSeen.deleted \cup {l},
                     gone |-> levelSeen.gone \cup {x \in {l} \cap markers : \A p \in Seeding : x \notin lops[p].pending}]
    /\ UNCHANGED <<markers, levelCache, serving>>
invalidateLevelCache(o) ==
    /\ lops[o].at = "invalidate"
    /\ levelCache' = NoCache /\ Go(o, IdleOp)
    /\ UNCHANGED <<levels, markers, serving, levelSeen>>

(* getLevelsSorted, when nothing is cached: read, then keep; a minute
   later what was kept no longer counts. *)
getLevelsSorted(o) ==
    /\ serving /\ Free(o) /\ ~levelCache.held
    /\ Go(o, [IdleOp EXCEPT !.at = "keep", !.rows = levels])
    /\ UNCHANGED <<levels, markers, levelCache, serving, levelSeen>>
keepLevels(o) ==
    /\ lops[o].at = "keep"
    /\ levelCache' = [held |-> TRUE, rows |-> lops[o].rows, late |-> lops[o].late]
    /\ Go(o, IdleOp)
    /\ UNCHANGED <<levels, markers, serving, levelSeen>>
levelCacheExpires ==
    /\ levelCache.held /\ levelCache' = NoCache
    /\ UNCHANGED <<levels, markers, serving, lops, levelSeen>>

LevelsNext ==
    \/ listen \/ stopServer \/ levelCacheExpires
    \/ \E o \in LevelOps :
         \/ seedAddictionLevels(o) \/ insertLevel(o) \/ markLevel(o)
         \/ getLevelsSorted(o) \/ keepLevels(o) \/ invalidateLevelCache(o)
         \/ \E l \in DOMAIN DEFAULT_LEVELS :
              deleteLevel(o, l) \/ \E c \in LevelInputs : createLevel(o, l, c) \/ updateLevel(o, l, c)

satisfies(stats, req) == \A k \in StatKeys : stats[k] >= req[k]
(* getAddictionLevel: the highest level met, else the last one.  Levels of
   one order come in any order, so there may be several answers. *)
Titles(rows, stats) ==
    LET met == {l \in DOMAIN rows : satisfies(stats, rows[l].requirements)}
        of(ls, best(_)) == {l \in ls : rows[l].order = best({rows[k].order : k \in ls})}
    IN  CASE met # {} -> of(met, Max)
          [] met = {} /\ DOMAIN rows # {} -> of(DOMAIN rows, Min)
          [] OTHER -> {"beat_deaf"}
(* An account: its lyrics' synced lines, the stored count of them (-1 when
   nothing is stored yet) and its projects. *)
Accounts == [local : 0 .. MaxAmount, stored : -1 .. MaxAmount, projects : 0 .. MaxAmount]
StatsPage(a) ==    \* getUserContentStats
    [syncedLines |-> IF a.projects = 0 THEN 0 ELSE IF a.stored = -1 THEN a.local ELSE a.stored,
     totalProjects |-> a.projects]
ListTitle(a) ==    \* getAddictionTitles
    [syncedLines |-> IF a.stored = -1 THEN 0 ELSE a.stored, totalProjects |-> a.projects]

(* A default an admin deleted once its marker was there stays deleted
   (unless a start-up that had not seen the marker is still writing), a
   marked default is there or was deleted by an admin, and the cache,
   outside of a read or a write under way, holds the levels, unless they
   were written while it was read or by another process.  More work never
   lowers a title, and an account with projects and stored statistics has
   the same title on its page and in a list. *)
LevelsHold ==
    /\ levelSeen.gone \cap DOMAIN levels = {}
    /\ markers \subseteq DOMAIN levels \cup levelSeen.deleted
    /\ (levelCache.held /\ ~levelCache.late /\ \A o \in LevelOps : lops[o].at # "invalidate")
          => levelCache.rows = levels
    /\ \A a, b \in [StatKeys -> 0 .. MaxAmount] :
         (\A k \in StatKeys : a[k] <= b[k]) =>
             \A l \in Titles(levels, a), m \in Titles(levels, b) :
                 levels # NoLevels => levels[l].order <= levels[m].order
    /\ \A a \in Accounts :
         (a.projects > 0 /\ a.stored # -1) => Titles(levels, StatsPage(a)) = Titles(levels, ListTitle(a))

-----------------------------------------------------------------------------
(* The leaderboard. *)
VARIABLES
    players,    \* [metric, ..., projectCount, rankScore, listed]
    counting,   \* projects inserted or deleted whose $inc is still to land
    board,      \* the job
    boardSeen   \* observed: quiet since the job began; whose count drifted
boardVars == <<players, counting, board, boardSeen>>

(* Every percentile of up to n others is a whole number of these parts. *)
Scale == ReduceSet(LAMBDA n, acc : n * acc, 1 .. Cardinality(Players), 1)
NoBoard == [at |-> "idle", users |-> <<>>, counts |-> <<>>, todo |-> {}, since |-> {}]
BoardInit ==
    /\ players \in [Players -> [metrics : [Metrics -> 0 .. 1], projectCount : {0}, rankScore : {0}, listed : {TRUE}]]
    /\ \A p \in Players : players[p].metrics["projects"] = 0
    /\ counting = [p \in Players |-> 0]
    /\ board = NoBoard
    /\ boardSeen = [quiet |-> FALSE, drifted |-> {}, changes |-> 0]

(* bisectLeft, by halves. *)
RECURSIVE Bisect(_, _, _, _)
Bisect(sorted, value, lo, hi) ==
    LET mid == (lo + hi) \div 2    \* counted from zero
    IN  IF lo >= hi THEN lo
        ELSE IF sorted[mid + 1] < value THEN Bisect(sorted, value, mid + 1, hi)
        ELSE Bisect(sorted, value, lo, mid)
bisectLeft(sorted, value) == Bisect(sorted, value, 0, Len(sorted))
computePercentile(sorted, value) ==
    IF Len(sorted) <= 1 THEN 0 ELSE (Scale * bisectLeft(sorted, value)) \div (Len(sorted) - 1)

Listed == {p \in Players : players[p].listed}
(* The count of projects is a read of its own. *)
MetricOf(p, key) == IF key = "projects" THEN board.counts[p] ELSE board.users[p][key]
Eligible == {p \in DOMAIN board.users : board.users[p]["syncedLines"] >= 1 \/ board.users[p]["timeSynced"] >= 1}
SortedPool(key) ==
    SortSeq(SetToSeq({<<MetricOf(p, key), p>> : p \in Eligible}), LAMBDA x, y : x[1] < y[1])
Pool(key) == [i \in 1 .. Cardinality(Eligible) |-> SortedPool(key)[i][1]]
rankScore(p) ==
    IF p \notin Eligible THEN 0
    ELSE MapThenSumSet(LAMBDA key : WEIGHTS[key] * computePercentile(Pool(key), MetricOf(p, key)), Metrics)

(* recomputeLeaderboardRanking. *)
loadUsers ==
    /\ board.at = "idle"
    /\ board' = IF Listed = {} THEN board
                ELSE [NoBoard EXCEPT !.at = "count", !.users = [p \in Listed |-> players[p].metrics]]
    /\ boardSeen' = [boardSeen EXCEPT !.quiet = Listed # {}]
    /\ UNCHANGED <<players, counting>>
countProjects ==
    /\ board.at = "count"
    /\ board' = [board EXCEPT !.at = "write", !.todo = DOMAIN board.users,
                              !.counts = [p \in DOMAIN board.users |-> players[p].metrics["projects"]],
                              !.since = {p \in Players : counting[p] # 0}]
    /\ UNCHANGED <<players, counting, boardSeen>>
(* One row of the unordered bulk write.  What lands beside it drifts. *)
writeRank(p) ==
    /\ board.at = "write" /\ p \in board.todo
    /\ players' = [players EXCEPT ![p].rankScore = rankScore(p), ![p].projectCount = board.counts[p]]
    /\ board' = IF board.todo = {p} THEN NoBoard ELSE [board EXCEPT !.todo = @ \ {p}]
    /\ boardSeen' = [boardSeen EXCEPT !.drifted = IF p \in board.since THEN @ \cup {p} ELSE @ \ {p}]
    /\ UNCHANGED counting
boardDies ==
    /\ board.at # "idle"
    /\ board' = NoBoard /\ boardSeen' = [boardSeen EXCEPT !.quiet = FALSE]
    /\ UNCHANGED <<players, counting>>

Change == boardSeen.changes < MaxChanges /\ boardSeen' = [boardSeen EXCEPT !.quiet = FALSE, !.changes = @ + 1]
earn(p, key) ==
    /\ Change /\ key # "projects" /\ players[p].metrics[key] < MaxAmount
    /\ players' = [players EXCEPT ![p].metrics[key] = @ + 1]
    /\ UNCHANGED <<counting, board>>
ban(p) ==
    /\ Change
    /\ players' = [players EXCEPT ![p].listed = ~@]
    /\ UNCHANGED <<counting, board>>
createProject(p) ==
    /\ Change /\ counting[p] = 0 /\ players[p].metrics["projects"] < MaxAmount
    /\ players' = [players EXCEPT ![p].metrics["projects"] = @ + 1]
    /\ counting' = [counting EXCEPT ![p] = 1]
    /\ board' = [board EXCEPT !.since = @ \cup {p}]
deleteProject(p) ==
    /\ Change /\ counting[p] = 0 /\ players[p].metrics["projects"] > 0
    /\ players' = [players EXCEPT ![p].metrics["projects"] = @ - 1]
    /\ counting' = [counting EXCEPT ![p] = -1]
    /\ board' = [board EXCEPT !.since = @ \cup {p}]
countsIt(p) ==
    /\ counting[p] # 0
    /\ players' = [players EXCEPT ![p].projectCount = IF counting[p] = -1 /\ @ = 0 THEN @ ELSE @ + counting[p]]
    /\ counting' = [counting EXCEPT ![p] = 0]
    /\ UNCHANGED <<board, boardSeen>>
losesIt(p) ==
    /\ counting[p] # 0
    /\ counting' = [counting EXCEPT ![p] = 0]
    /\ boardSeen' = [boardSeen EXCEPT !.drifted = @ \cup {p}]
    /\ UNCHANGED <<players, board>>

BoardNext ==
    \/ loadUsers \/ countProjects \/ boardDies
    \/ \E p \in Players :
         \/ writeRank(p) \/ ban(p) \/ createProject(p) \/ deleteProject(p) \/ countsIt(p) \/ losesIt(p)
         \/ \E key \in Metrics : earn(p, key)

(* What the score means, without a search: the share of the pool beaten. *)
Pooled == {p \in Listed : players[p].metrics["syncedLines"] >= 1 \/ players[p].metrics["timeSynced"] >= 1}
Beaten(p, key) == Cardinality({q \in Pooled : players[q].metrics[key] < players[p].metrics[key]})
Standing(p) ==
    IF p \notin Pooled \/ Cardinality(Pooled) <= 1 THEN 0
    ELSE MapThenSumSet(LAMBDA key : WEIGHTS[key] * ((Scale * Beaten(p, key)) \div (Cardinality(Pooled) - 1)), Metrics)
(* After a job nothing changed beside, the listed stand as their numbers
   say; who is at least as good in everything never stands below.  A
   projectCount is the number of projects once its changes have landed,
   unless one was lost or crossed the job, and the next job mends it. *)
RanksHold ==
    /\ (boardSeen.quiet /\ board.at = "idle") =>
         /\ \A p \in Listed : players[p].rankScore = Standing(p)
         /\ \A p, q \in Pooled :
              (\A key \in Metrics : players[p].metrics[key] >= players[q].metrics[key])
                  => players[p].rankScore >= players[q].rankScore
    /\ \A p \in Players : (counting[p] = 0 /\ p \notin boardSeen.drifted /\ board.at = "idle")
         => players[p].projectCount = players[p].metrics["projects"]

-----------------------------------------------------------------------------
(* Trending: a project of Maker and a playlist. *)
VARIABLES
    public,     \* [song, list]
    trending,   \* their trendingScore
    likes,      \* stars, forks and saves: [kind, by, age]
    trend,      \* the job
    trendSeen   \* observed: quiet since it began; somebody else took part
trendVars == <<public, trending, likes, trend, trendSeen>>

(* Ages: within a day, a week, a month, or older. *)
Ages == 0 .. 3
NoTrend == [at |-> "idle", stars |-> <<0, 0, 0>>, forks |-> <<0, 0, 0>>]
TrendInit ==
    /\ public = [song |-> TRUE, list |-> TRUE] /\ trending = [song |-> 0, list |-> 0]
    /\ likes = {} /\ trend = NoTrend
    /\ trendSeen = [quiet |-> FALSE, others |-> FALSE, changes |-> 0]

Within(kind, who) ==
    [n \in 1 .. 3 |-> Cardinality({l \in likes : l.kind = kind /\ l.by \in who /\ l.age < n})]
Others == Likers \ {Maker}
None == <<0, 0, 0>>
(* recomputeTrendingScores. *)
readStars ==
    /\ trend.at = "idle"
    /\ trend' = [at |-> "forks", stars |-> IF public.song THEN Within("star", Others) ELSE None, forks |-> None]
    /\ trendSeen' = [trendSeen EXCEPT !.quiet = TRUE]
    /\ UNCHANGED <<public, trending, likes>>
readForks ==
    /\ trend.at = "forks"
    /\ trend' = [trend EXCEPT !.at = "scores", !.forks = IF public.song THEN Within("fork", Others) ELSE None]
    /\ UNCHANGED <<public, trending, likes, trendSeen>>
Active == trend.stars # None \/ trend.forks # None
ProjectScore ==
    7 * trend.stars[1] + 3 * trend.stars[2] + trend.stars[3] + 14 * trend.forks[1] + 6 * trend.forks[2] + 2 * trend.forks[3]
writeScores ==
    /\ trend.at = "scores"
    /\ trending' = IF Active /\ public.song THEN [trending EXCEPT !.song = ProjectScore] ELSE trending
    /\ trend' = [trend EXCEPT !.at = "zero"]
    /\ UNCHANGED <<public, likes, trendSeen>>
zeroScores ==
    /\ trend.at = "zero"
    /\ trending' = IF ~Active /\ public.song THEN [trending EXCEPT !.song = 0] ELSE trending
    /\ trend' = [NoTrend EXCEPT !.at = "saves"]
    /\ UNCHANGED <<public, likes, trendSeen>>
readSaves ==
    /\ trend.at = "saves"
    /\ trend' = [trend EXCEPT !.at = "lists", !.stars = IF public.list THEN Within("save", Likers) ELSE None]
    /\ UNCHANGED <<public, trending, likes, trendSeen>>
writeLists ==
    /\ trend.at = "lists"
    /\ trending' = IF trend.stars # None /\ public.list
                   THEN [trending EXCEPT !.list = 10 * trend.stars[1] + 4 * trend.stars[2] + trend.stars[3]] ELSE trending
    /\ trend' = [trend EXCEPT !.at = "zeroLists"]
    /\ UNCHANGED <<public, likes, trendSeen>>
zeroLists ==
    /\ trend.at = "zeroLists"
    /\ trending' = IF trend.stars = None /\ public.list THEN [trending EXCEPT !.list = 0] ELSE trending
    /\ trend' = NoTrend
    /\ UNCHANGED <<public, likes, trendSeen>>
trendDies ==
    /\ trend.at # "idle" /\ trend' = NoTrend
    /\ trendSeen' = [trendSeen EXCEPT !.quiet = FALSE]
    /\ UNCHANGED <<public, trending, likes>>

Changing(l) ==
    /\ trendSeen.changes < MaxTurns
    /\ trendSeen' = [quiet |-> FALSE, changes |-> trendSeen.changes + 1,
                     others |-> trendSeen.others \/ (l # {} /\ \A x \in l : x.by # Maker /\ x.kind # "save")]
(* A star or a save is a row of its own; a fork is another project. *)
like(kind, u) ==
    /\ \A l \in likes : l.kind # kind \/ l.by # u
    /\ likes' = likes \cup {[kind |-> kind, by |-> u, age |-> 0]}
    /\ Changing({[kind |-> kind, by |-> u]})
    /\ UNCHANGED <<public, trending, trend>>
unlike(l) ==
    /\ likes' = likes \ {l} /\ Changing({})
    /\ UNCHANGED <<public, trending, trend>>
timePasses ==
    /\ likes' = {[l EXCEPT !.age = IF @ = 3 THEN 3 ELSE @ + 1] : l \in likes} /\ Changing({})
    /\ UNCHANGED <<public, trending, trend>>
setPublic(k) ==
    /\ public' = [public EXCEPT ![k] = ~@] /\ Changing({})
    /\ UNCHANGED <<trending, likes, trend>>

TrendNext ==
    \/ readStars \/ readForks \/ writeScores \/ zeroScores \/ readSaves \/ writeLists \/ zeroLists \/ trendDies
    \/ timePasses \/ \E l \in likes : unlike(l)
    \/ \E k \in {"song", "list"} : setPublic(k)
    \/ \E kind \in {"star", "fork", "save"}, u \in Likers : like(kind, u)

(* What one row is worth at its age. *)
Worth(l) ==
    LET at(day, week, month) == CASE l.age = 0 -> day [] l.age = 1 -> week [] l.age = 2 -> month [] OTHER -> 0
    IN  CASE l.kind = "star" -> at(11, 4, 1) [] l.kind = "fork" -> at(22, 8, 2) [] OTHER -> at(15, 5, 1)
WorthOf(rows) == MapThenSumSet(Worth, rows)
(* After a job nothing changed beside, what is public has the worth of
   what others did with it lately and nothing of it lingers; whatever
   crosses whatever, an owner's own stars and forks never lift a project. *)
TrendsHold ==
    /\ (trendSeen.quiet /\ trend.at = "idle") =>
         /\ public.song => trending.song = WorthOf({l \in likes : l.kind # "save" /\ l.by # Maker})
         /\ public.list => trending.list = WorthOf({l \in likes : l.kind = "save"})
    /\ trending.song > 0 => trendSeen.others

RankingsHold == LevelsHold /\ RanksHold /\ TrendsHold
=============================================================================
