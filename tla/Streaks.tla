------------------------------- MODULE Streaks -------------------------------
(***************************************************************************)
(* One account's streak (updateStreak and getStreakView of                 *)
(* badge.service.ts, setTimezone of user.resolvers.ts, shared/zoned-day.ts)*)
(* and the jobs that warn of its end and zero it when it has lapsed        *)
(* (jobs/streak-warning.job.ts, jobs/streak-lapse.job.ts).  A day is the   *)
(* account's own calendar day, and the account may change its zone, so the *)
(* same instant can be another day a moment later.  The heatmap of the     *)
(* same account (activity.service.ts) counts the projects it worked on in  *)
(* each of those days.                                                     *)
(*                                                                         *)
(* Time is counted in units; a zone is the units it is ahead of UTC.       *)
(***************************************************************************)
EXTENDS Integers, FiniteSets

CONSTANTS StreakOps,    \* handlers that can be under way at once
          Zones,
          DAY,          \* the units of a day
          GAP,          \* MIN_HOPPED_DAY_GAP_MS
          COOLDOWN,     \* TIMEZONE_CHANGE_COOLDOWN_MS
          EVENING,      \* STREAK_WARNING_HOUR_LOCAL
          AHEAD,        \* the widest offset, UTC+14
          Horizon,      \* bound: the clock
          MaxHops,      \* bound: changes of zone in one streak
          Works         \* projects of the account

ASSUME StreakAssumption ==
    /\ DAY \in Nat \ {0} /\ GAP \in Nat /\ COOLDOWN \in Nat
    /\ EVENING \in 0..DAY /\ AHEAD \in Nat /\ Horizon \in Nat /\ MaxHops \in Nat
    /\ Zones \subseteq -DAY..AHEAD /\ 0 \in Zones
    /\ IsFiniteSet(StreakOps)

VARIABLES
    clock,
    streak,     \* the streak of the account's row; `zoneAfter': its zone
                \* changed after its last activity, by their exact times
    warned,     \* observed: the days a warning was sent for since the last
                \* change of zone, and whether it was the first of that day
    began,      \* observed: when the streak's first day was counted
    hops,       \* observed: changes of zone since then
    dayEdits,   \* heatmap_project_edits: a project, the day
    heat,       \* heatmap_days: the counters of each day, of those that have a row
    lost,       \* observed: the days an increment was lost of
    tops        \* the handlers under way

heatVars == <<dayEdits, heat, lost>>
streakVars == <<clock, streak, warned, began, hops, heatVars, tops>>

Never == -1000
NoTurn == [at |-> "idle"]

(* zonedDayKey and zonedHour. *)
dayKey(t, z) == (t + z) \div DAY
hourOf(t, z) == (t + z) % DAY

Turn(o, turn) == tops[o].at = "idle" /\ tops' = [tops EXCEPT ![o] = turn]
Over(o) == tops' = [tops EXCEPT ![o] = NoTurn]

StreakInit ==
    /\ clock = DAY
    /\ streak = [current |-> 0, lastActive |-> Never, zone |-> 0,
                 zoneAt |-> Never, zoneAfter |-> FALSE, warnedFor |-> Never]
    /\ warned = {} /\ began = DAY /\ hops = 0
    /\ dayEdits = {} /\ heat = [day \in {} |-> 0] /\ lost = {}
    /\ tops = [o \in StreakOps |-> NoTurn]

(* Bound: no handler lasts from one unit into the next. *)
tick ==
    /\ clock < Horizon
    /\ \A o \in StreakOps : tops[o].at = "idle"
    /\ clock' = clock + 1
    /\ UNCHANGED <<streak, warned, began, hops, tops, heatVars>>

-----------------------------------------------------------------------------
(* updateStreak: the streak is read, and written if this is a new day ... *)
TooSoon(s) ==
    /\ s.lastActive # Never
    /\ s.zoneAfter
    /\ clock - s.lastActive < GAP

updateStreak(o) ==
    LET today == dayKey(clock, streak.zone)
        last == dayKey(streak.lastActive, streak.zone) IN
    /\ streak.lastActive # Never => last # today
    /\ ~TooSoon(streak)
    /\ Turn(o, IF streak.lastActive # Never /\ last = today - 1
                THEN [at |-> "active", current |-> streak.current + 1, began |-> began, zoneAfter |-> FALSE]
                ELSE [at |-> "active", current |-> 1, began |-> clock, zoneAfter |-> FALSE])
    /\ UNCHANGED <<clock, streak, warned, began, hops, heatVars>>

writeStreak(o) ==
    LET turn == tops[o] IN
    /\ turn.at = "active"
    /\ streak' = [streak EXCEPT !.current = turn.current, !.lastActive = clock,
                                !.zoneAfter = turn.zoneAfter]
    /\ began' = turn.began
    /\ hops' = IF turn.current = 1 /\ \A p \in StreakOps \ {o} : tops[p].at = "idle"
                THEN 0 ELSE hops
    /\ Over(o)
    /\ UNCHANGED <<clock, warned, heatVars>>

(* setTimezone: another zone, once per cooldown by what was read. *)
setTimezone(o, z) ==
    /\ z # streak.zone
    /\ hops < MaxHops
    /\ streak.zoneAt # Never => clock - streak.zoneAt >= COOLDOWN
    /\ Turn(o, [at |-> "zone", zone |-> z])
    /\ UNCHANGED <<clock, streak, warned, began, hops, heatVars>>

writeZone(o) ==
    /\ tops[o].at = "zone"
    /\ streak' = [streak EXCEPT !.zone = tops[o].zone, !.zoneAt = clock, !.zoneAfter = TRUE]
    /\ hops' = hops + 1 /\ warned' = {}
    /\ tops' = [p \in StreakOps |->
         IF p = o THEN NoTurn
         ELSE IF tops[p].at = "active" THEN [tops[p] EXCEPT !.zoneAfter = TRUE] ELSE tops[p]]
    /\ UNCHANGED <<clock, began, heatVars>>

-----------------------------------------------------------------------------
(* sendStreakWarnings: those active yesterday, their time, and not yet
   today, once the evening has come ... *)
sendStreakWarnings(o) ==
    LET today == dayKey(clock, streak.zone) IN
    /\ streak.current >= 2
    /\ hourOf(clock, streak.zone) >= EVENING
    /\ dayKey(streak.lastActive, streak.zone) = today - 1
    /\ streak.warnedFor # today
    /\ Turn(o, [at |-> "warn", day |-> today])
    /\ UNCHANGED <<clock, streak, warned, began, hops, heatVars>>

(* ... are claimed for the day, then told. *)
claimWarning(o) ==
    LET day == tops[o].day IN
    /\ tops[o].at = "warn"
    /\ IF streak.warnedFor = day
       THEN Over(o) /\ UNCHANGED streak
       ELSE /\ streak' = [streak EXCEPT !.warnedFor = day]
            /\ tops' = [tops EXCEPT ![o].at = "tell"]
    /\ UNCHANGED <<clock, warned, began, hops, heatVars>>

(* A run that a change of zone came into is not looked at. *)
notifyStreakWarning(o) ==
    LET day == tops[o].day IN
    /\ tops[o].at = "tell"
    /\ warned' = IF streak.zoneAt = clock THEN warned
                 ELSE warned \cup {<<day, \A w \in warned : w[1] # day>>}
    /\ Over(o)
    /\ UNCHANGED <<clock, streak, began, hops, heatVars>>

(* resetLapsedStreaks: one update of every streak last active before the
   start of yesterday, in UTC, less the widest offset.
   Mutant: on the UTC clock alone. *)
Cutoff_Utc == (clock \div DAY - 1) * DAY
Cutoff == (clock \div DAY - 1) * DAY - AHEAD

resetLapsedStreaks ==
    /\ streak.current > 0
    /\ streak.lastActive < Cutoff
    /\ streak' = [streak EXCEPT !.current = 0]
    /\ UNCHANGED <<clock, warned, began, hops, tops, heatVars>>

-----------------------------------------------------------------------------
(* recordHeatmapEvent, of a project created or edited: the account's day
   now; the row of the project and the day, which one of two calls
   creates; and the day's counter. *)
recordHeatmapEvent(o, project, kind) ==
    /\ Turn(o, [at |-> "edit", project |-> project, kind |-> kind, day |-> dayKey(clock, streak.zone)])
    /\ UNCHANGED <<clock, streak, warned, began, hops, heatVars>>

createEdit(o) ==
    LET turn == tops[o] IN
    /\ turn.at = "edit"
    /\ dayEdits' = dayEdits \cup {<<turn.project, turn.day>>}
    /\ IF <<turn.project, turn.day>> \in dayEdits THEN Over(o)
       ELSE tops' = [tops EXCEPT ![o].at = IF turn.day \in DOMAIN heat THEN "heat" ELSE "newDay"]
    /\ UNCHANGED <<clock, streak, warned, began, hops, heat, lost>>

(* Two upserts that both found no row of the day: the second is refused by
   the index and tried again.  The callers wait for neither, and a write
   that fails is not repeated. *)
incrementHeatmapDay(o) ==
    LET turn == tops[o]
        start == IF turn.day \in DOMAIN heat THEN heat[turn.day] ELSE [created |-> 0, edited |-> 0] IN
    /\ turn.at \in {"heat", "newDay"}
    /\ IF turn.at = "newDay" /\ turn.day \in DOMAIN heat
       THEN tops' = [tops EXCEPT ![o].at = "heat"] /\ UNCHANGED <<heat, lost>>
       ELSE /\ Over(o)
            /\ \/ heat' = [day \in DOMAIN heat \cup {turn.day} |->
                            IF day = turn.day THEN [start EXCEPT ![turn.kind] = @ + 1] ELSE heat[day]]
                  /\ lost' = lost
               \/ heat' = heat /\ lost' = lost \cup {turn.day}
    /\ UNCHANGED <<clock, streak, warned, began, hops, dayEdits>>

(* getUserActivityHeatmap: the two counters of a day are shown as one. *)
getUserActivityHeatmap == [day \in DOMAIN heat |-> heat[day].created + heat[day].edited]

Authoring(o) == createEdit(o) \/ incrementHeatmapDay(o)
    \/ \E project \in Works, kind \in {"created", "edited"} : recordHeatmapEvent(o, project, kind)
Living(o) == updateStreak(o) \/ writeStreak(o) \/ writeZone(o) \/ \E z \in Zones : setTimezone(o, z)
Warning(o) == sendStreakWarnings(o) \/ claimWarning(o) \/ notifyStreakWarning(o)
StreakNext ==
    tick \/ resetLapsedStreaks \/ \E o \in StreakOps : Living(o) \/ Warning(o) \/ Authoring(o)
StreakSpec == StreakInit /\ [][StreakNext]_streakVars

-----------------------------------------------------------------------------
(* getStreakView. *)
Alive(z) == dayKey(streak.lastActive, z) \in {dayKey(clock, z), dayKey(clock, z) - 1}

(* Where a streak that the job zeroes may still be alive: last active in
   the first hours of yesterday, while UTC is already a day further. *)
BitWest == {z \in Zones : -z \in 1 .. DAY - AHEAD - 1}

(* A streak the job has zeroed is dead on every clock, those a little west
   of UTC excepted, so no change of zone to another could have kept it;
   nobody is warned twice for one day of the zone they are in; and a
   streak has at most the days its time allows: one at each end, one for
   every day between, and one for every zone its owner moved to
   (updateStreak, setTimezone, sendStreakWarnings, resetLapsedStreaks). *)
ZeroedAreDead ==
    streak.lastActive # Never /\ streak.current = 0 => \A z \in Zones \ BitWest : ~Alive(z)
WarnedOnce == \A w \in warned : w[2]
DaysAllowed ==
    streak.lastActive # Never => streak.current <= (streak.lastActive - began) \div DAY + 2 + hops

(* A day of the heatmap shows the projects worked on in it, each once
   however often and by however many calls it was saved, but for those
   being counted or whose count was lost. *)
HeatmapAgrees ==
    \A day \in {e[2] : e \in dayEdits} :
        LET shown == IF day \in DOMAIN heat THEN getUserActivityHeatmap[day] ELSE 0
            counting == {o \in StreakOps : tops[o].at \in {"heat", "newDay"} /\ tops[o].day = day}
            rows == {e \in dayEdits : e[2] = day}
        IN  /\ shown <= Cardinality(rows) - Cardinality(counting)
            /\ day \notin lost => shown = Cardinality(rows) - Cardinality(counting)
StreakHonest == ZeroedAreDead /\ WarnedOnce /\ DaysAllowed /\ HeatmapAgrees
=============================================================================
