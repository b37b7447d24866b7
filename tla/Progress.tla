------------------------------ MODULE Progress ------------------------------
(***************************************************************************)
(* One account's badges, synced-work statistics and XP                     *)
(* (modules/badges/badge.service.ts, adjustXP of admin.service.ts) and the *)
(* job that refreshes them after a save (lib/job-queue.ts).  XP is derived *)
(* from badges, statistics and the admins' bonus: whatever changes one of  *)
(* them recomputes it afterwards, by a read and a write that other         *)
(* handlers, and a stop of the process, come between.                      *)
(*                                                                         *)
(* A handler is the list of the steps it still has to take.                *)
(***************************************************************************)
EXTENDS Integers, Sequences, FiniteSets

CONSTANTS ProgressOps,  \* handlers that can be under way at once
          Badges,
          Earned,       \* the badge granted for synced work
          Deltas,       \* what an admin gives (takes, when negative)
          MaxWork,      \* bound: saves
          MaxBonus      \* bound: size of the bonus an adjustment starts from

ASSUME ProgressAssumption ==
    Earned \in Badges /\ Deltas \subseteq Int /\ MaxWork \in Nat /\ MaxBonus \in Nat

VARIABLES
    work,       \* what is synced in the saved lyrics
    stats,      \* what the account's row says is synced
    job,        \* a refresh is queued in the database
    badges, showcase,
    xp, bonus,
    pops,       \* the handlers under way
    seen        \* observed, about the last write of each kind

progressVars == <<work, stats, job, badges, showcase, xp, bonus, pops, seen>>

(* `xpOff': XP was last written from values that had changed, or was
   changed without being derived; `lost': nobody is left to refresh the
   statistics; `shownOff': the showcase was written from a stale read. *)
AllWell == [xpOff |-> FALSE, lost |-> FALSE, shownOff |-> FALSE]
NoTask == [todo |-> <<>>, read |-> 0, late |-> FALSE]

Working(o) == pops[o].todo # <<>>
AtStep(o, step) == Working(o) /\ Head(pops[o].todo) = step
Begin_(o, todo, arg) ==
    /\ ~Working(o)
    /\ pops' = [pops EXCEPT ![o] = [todo |-> todo, read |-> arg, late |-> FALSE]]

(* A handler reads what it will write from ... *)
Read(o, value) ==
    pops' = [pops EXCEPT ![o] = [todo |-> Tail(@.todo), read |-> value, late |-> FALSE]]
(* ... goes on ... *)
Then(o, todo) ==
    pops' = [pops EXCEPT ![o] = IF todo = <<>> THEN NoTask ELSE [@ EXCEPT !.todo = todo]]
Done_(o) == Then(o, Tail(pops[o].todo))
(* ... and what the others read is late once it has written. *)
Wrote(o, todo) ==
    pops' = [p \in ProgressOps |->
        IF p = o THEN (IF todo = <<>> THEN NoTask ELSE [pops[o] EXCEPT !.todo = todo])
        ELSE IF Working(p) THEN [pops[p] EXCEPT !.late = TRUE] ELSE pops[p]]

Floor(n) == IF n < 0 THEN 0 ELSE n
Total == Cardinality(badges) + stats + bonus
(* computeXPFromStats, with one XP for a badge and for a unit of work. *)
Derived == Floor(Total)

Recompute == <<"readXp", "writeXp">>
Refresh == <<"readWork", "writeStats">>

ProgressInit ==
    /\ work = 0 /\ stats = 0 /\ job = FALSE
    /\ badges = {} /\ showcase = {}
    /\ xp = 0 /\ bonus = 0
    /\ pops = [o \in ProgressOps |-> NoTask]
    /\ seen = AllWell

-----------------------------------------------------------------------------
(* patchProject and updateLyrics queue a refresh after the save (nothing
   is queued when the queue is down) ... *)
save(o) ==
    /\ work < MaxWork
    /\ work' = work + 1
    /\ Begin_(o, <<"schedule">>, 0)
    /\ UNCHANGED <<stats, job, badges, showcase, xp, bonus, seen>>

scheduleOnce(o) ==
    /\ AtStep(o, "schedule")
    /\ \/ job' = TRUE /\ seen' = seen
       \/ job' = job /\ seen' = [seen EXCEPT !.lost = TRUE]
    /\ Done_(o)
    /\ UNCHANGED <<work, stats, badges, showcase, xp, bonus>>

(* ... updateProject refreshes at once, and recomputes XP only for a new
   badge; so does an owner's getProject, five minutes after the last. *)
saveWhole(o) ==
    /\ work < MaxWork
    /\ work' = work + 1
    /\ Begin_(o, Refresh \o <<"check">>, 0)
    /\ UNCHANGED <<stats, job, badges, showcase, xp, bonus, seen>>

refreshStale(o) ==
    /\ Begin_(o, Refresh, 0)
    /\ UNCHANGED <<work, stats, job, badges, showcase, xp, bonus, seen>>

(* The job is taken out of the queue before it runs. *)
runSyncStatsRefresh(o) ==
    /\ job
    /\ job' = FALSE
    /\ Begin_(o, Refresh \o <<"check">> \o Recompute, 0)
    /\ UNCHANGED <<work, stats, badges, showcase, xp, bonus, seen>>

(* recomputeSyncStats. *)
readWork(o) ==
    /\ AtStep(o, "readWork")
    /\ Read(o, work)
    /\ UNCHANGED <<work, stats, job, badges, showcase, xp, bonus, seen>>

writeStats(o) ==
    LET fresh == pops[o].read IN
    /\ AtStep(o, "writeStats")
    /\ stats' = fresh
    /\ seen' = [seen EXCEPT
         !.lost = IF fresh = work THEN FALSE ELSE @ \/ fresh < stats,
         !.xpOff = @ \/ (fresh # stats /\ "readXp" \notin {pops[o].todo[i] : i \in DOMAIN pops[o].todo})]
    /\ Wrote(o, Tail(pops[o].todo))
    /\ UNCHANGED <<work, job, badges, showcase, xp, bonus>>

-----------------------------------------------------------------------------
(* triggerBadgeCheck: the account is read, the badges it has earned are
   granted, XP is recomputed once if one was new. *)
triggerBadgeCheck(o) ==
    LET rest == Tail(pops[o].todo) IN
    /\ AtStep(o, "check")
    /\ Then(o, IF stats > 0 /\ Earned \notin badges
               THEN <<"grant">> \o Recompute \o rest ELSE rest)
    /\ UNCHANGED <<work, stats, job, badges, showcase, xp, bonus, seen>>

grantEarned(o) ==
    /\ AtStep(o, "grant")
    /\ badges' = badges \cup {Earned}
    /\ Wrote(o, IF Earned \in badges THEN SubSeq(pops[o].todo, 4, Len(pops[o].todo))
                ELSE Tail(pops[o].todo))
    /\ UNCHANGED <<work, stats, job, showcase, xp, bonus, seen>>

(* grantBadge and revokeBadge, by an admin. *)
grantBadge(o, b) ==
    /\ ~Working(o) /\ b \notin badges
    /\ badges' = badges \cup {b}
    /\ Wrote(o, Recompute)
    /\ UNCHANGED <<work, stats, job, showcase, xp, bonus, seen>>

revokeBadge(o, b) ==
    /\ ~Working(o) /\ b \in badges
    /\ badges' = badges \ {b}
    /\ pops' = [p \in ProgressOps |->
         IF p = o THEN [todo |-> <<"unshow">> \o Recompute, read |-> b, late |-> FALSE]
         ELSE IF Working(p) THEN [pops[p] EXCEPT !.late = TRUE] ELSE pops[p]]
    /\ UNCHANGED <<work, stats, job, showcase, xp, bonus, seen>>

unshow(o) ==
    /\ AtStep(o, "unshow")
    /\ showcase' = showcase \ {pops[o].read}
    /\ Done_(o)
    /\ UNCHANGED <<work, stats, job, badges, xp, bonus, seen>>

(* updateShowcase: the badges are checked against the ones read. *)
updateShowcase(o, shown) ==
    /\ shown \subseteq badges
    /\ Begin_(o, <<"show">>, shown)
    /\ UNCHANGED <<work, stats, job, badges, showcase, xp, bonus, seen>>

writeShowcase(o) ==
    /\ AtStep(o, "show")
    /\ showcase' = pops[o].read
    /\ seen' = [seen EXCEPT !.shownOff = pops[o].late]
    /\ Done_(o)
    /\ UNCHANGED <<work, stats, job, badges, xp, bonus>>

-----------------------------------------------------------------------------
(* recomputeXP. *)
readXp(o) ==
    /\ AtStep(o, "readXp")
    /\ Read(o, Derived)
    /\ UNCHANGED <<work, stats, job, badges, showcase, xp, bonus, seen>>

writeXp(o) ==
    /\ AtStep(o, "writeXp")
    /\ xp' = pops[o].read
    /\ seen' = [seen EXCEPT !.xpOff = pops[o].late]
    /\ Wrote(o, Tail(pops[o].todo))
    /\ UNCHANGED <<work, stats, job, badges, showcase, bonus>>

(* adjustXP of one account: recompute, add to XP and bonus, then read both
   and write them back with XP at least 0. *)
adjustXP(o, delta) ==
    /\ bonus \in -MaxBonus..MaxBonus
    /\ Begin_(o, Recompute \o <<IF delta < 0 THEN "take" ELSE "give", "readBoth", "writeBoth">>, 0)
    /\ UNCHANGED <<work, stats, job, badges, showcase, xp, bonus, seen>>

(* Mutant: only XP moves, and the next recompute takes it back. *)
Adjusted_XpOnly(delta) == xp' = xp + delta /\ bonus' = bonus
Adjusted(delta) == xp' = xp + delta /\ bonus' = bonus + delta

adjustBoth(o, delta) ==
    /\ AtStep(o, IF delta < 0 THEN "take" ELSE "give")
    /\ Adjusted(delta)
    /\ seen' = [seen EXCEPT !.xpOff = @ \/ Total < 0]
    /\ Wrote(o, Tail(pops[o].todo))
    /\ UNCHANGED <<work, stats, job, badges, showcase>>

readBoth(o) ==
    /\ AtStep(o, "readBoth")
    /\ Read(o, <<xp, bonus>>)
    /\ UNCHANGED <<work, stats, job, badges, showcase, xp, bonus, seen>>

writeBoth(o) ==
    LET before == pops[o].read[1] IN
    /\ AtStep(o, "writeBoth")
    /\ xp' = Floor(before)
    /\ bonus' = pops[o].read[2] + (Floor(before) - before)
    /\ seen' = [seen EXCEPT !.xpOff = @ \/ pops[o].late]
    /\ Wrote(o, Tail(pops[o].todo))
    /\ UNCHANGED <<work, stats, job, badges, showcase>>

(* The process stops; the queue is in the database. *)
stopProcess ==
    /\ \E o \in ProgressOps : Working(o)
    /\ pops' = [o \in ProgressOps |-> NoTask]
    /\ seen' = [o \in DOMAIN seen |-> TRUE]
    /\ UNCHANGED <<work, stats, job, badges, showcase, xp, bonus>>

-----------------------------------------------------------------------------
Saving(o) == save(o) \/ scheduleOnce(o) \/ saveWhole(o) \/ refreshStale(o)
    \/ runSyncStatsRefresh(o) \/ readWork(o) \/ writeStats(o)
Earning(o) == triggerBadgeCheck(o) \/ grantEarned(o) \/ readXp(o) \/ writeXp(o)
Awarding(o) == unshow(o) \/ writeShowcase(o)
    \/ \E b \in Badges : grantBadge(o, b) \/ revokeBadge(o, b)
    \/ \E shown \in SUBSET Badges : updateShowcase(o, shown)
Adjusting(o) == readBoth(o) \/ writeBoth(o)
    \/ \E delta \in Deltas : adjustXP(o, delta) \/ adjustBoth(o, delta)

ProgressNext ==
    \/ stopProcess
    \/ \E o \in ProgressOps :
         Saving(o) \/ Earning(o) \/ Awarding(o) \/ Adjusting(o)
ProgressSpec == ProgressInit /\ [][ProgressNext]_progressVars

-----------------------------------------------------------------------------
Idle_ == \A o \in ProgressOps : ~Working(o)

(* With no handler under way the stored values agree.  XP is what badges,
   statistics and bonus make it, never below 0, however many recomputes
   and adjustments ran, unless the last one used a read that was overtaken
   or statistics were refreshed on a path that leaves XP alone (recomputeXP,
   adjustXP, runSyncStatsRefresh).  The statistics are those of the last
   save once no refresh is queued, saves landing before, during and after
   a run included (scheduleOnce, defineOnce).  Only badges the account has
   are shown, unless one was revoked under an updateShowcase. *)
ProgressAgrees ==
    Idle_ =>
      /\ xp >= 0
      /\ ~seen.xpOff => xp = Derived
      /\ ~job /\ ~seen.lost => stats = work
      /\ ~seen.shownOff => showcase \subseteq badges
=============================================================================
