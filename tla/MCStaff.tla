------------------------------- MODULE MCStaff -------------------------------
(* The components share no variable: a behaviour is of one of them. *)
EXTENDS Progress, Streaks, ReportDesk, Rankings

VARIABLE focus
Foci == {"refresh", "awards", "adjust", "requests", "streaks", "warnings", "heatmap", "grants", "conversations", "queue", "levels", "board", "trending"}
Init ==
    /\ focus \in Foci
    /\ ProgressInit /\ StaffInit /\ StreakInit /\ GrantInit /\ ThreadsInit /\ QueueInit
    /\ LevelsInit /\ TrendInit /\ BoardInit
    /\ focus # "board" => \A p \in Players, k \in Metrics : players[p].metrics[k] = 0

DeltasOf == {2, -3}
ZonesOf == {0, 2, -1, -2}

ProgressFocus ==
    \/ focus = "refresh" /\ stopProcess
    \/ \E o \in ProgressOps :
         \/ focus = "refresh" /\ (Saving(o) \/ Earning(o))
         \/ focus = "awards" /\ ((stats = 0 /\ Saving(o) /\ work' < 2) \/ Earning(o) \/ Awarding(o))
         \/ focus = "adjust" /\ (Earning(o) \/ Adjusting(o) \/ unshow(o)
               \/ \E b \in Badges \ {Earned} : grantBadge(o, b) \/ revokeBadge(o, b))
(* One zone change at a time where warnings are sent too. *)
StreakFocus ==
    \/ focus \in {"streaks", "warnings"} /\ (tick \/ resetLapsedStreaks)
    \/ focus = "heatmap" /\ ((clock < DAY + 1 /\ tick)
                              \/ \E o \in StreakOps : Authoring(o) \/ writeZone(o) \/ \E z \in Zones : setTimezone(o, z))
    \/ focus = "streaks" /\ clock < 3 * DAY + 3 /\ \E o \in StreakOps : Living(o)
    \/ focus = "warnings" /\ clock < 3 * DAY + 3 /\ \E o \in StreakOps :
         \/ Warning(o)
         \/ (\A p \in StreakOps \ {o} : tops[p].at \notin {"active", "zone"}) /\ Living(o)
(* Handlers of a conversation overlap while it has few messages. *)
OneAtTheEnd ==
    \A o, p \in ThreadOps :
        (o # p /\ Len(messages) > 1 /\ (Len(messages) > 2 \/ TAt(o, "views")) /\ threadOps[o] # NoThreadOp) => threadOps[p] = NoThreadOp
deskVars == <<grantVars, threadVars, queueVars>>
rankVars == <<levelVars, boardVars, trendVars>>
Next ==
    /\ UNCHANGED focus
    /\ \/ focus \in {"refresh", "awards", "adjust"} /\ ProgressFocus /\ UNCHANGED <<staffVars, streakVars, deskVars, rankVars>>
       \/ focus = "requests" /\ StaffNext /\ UNCHANGED <<progressVars, streakVars, deskVars, rankVars>>
       \/ StreakFocus /\ UNCHANGED <<progressVars, staffVars, deskVars, rankVars>>
       \/ focus = "grants" /\ GrantNext /\ UNCHANGED <<progressVars, staffVars, streakVars, threadVars, queueVars, rankVars>>
       \/ focus = "conversations" /\ ThreadsNext /\ OneAtTheEnd' /\ UNCHANGED <<progressVars, staffVars, streakVars, grantVars, queueVars, rankVars>>
       \/ focus = "queue" /\ QueueNext /\ UNCHANGED <<progressVars, staffVars, streakVars, grantVars, threadVars, rankVars>>
       \/ focus = "levels" /\ LevelsNext /\ UNCHANGED <<progressVars, staffVars, streakVars, deskVars, boardVars, trendVars>>
       \/ focus = "board" /\ BoardNext /\ UNCHANGED <<progressVars, staffVars, streakVars, deskVars, levelVars, trendVars>>
       \/ focus = "trending" /\ TrendNext /\ UNCHANGED <<progressVars, staffVars, streakVars, deskVars, levelVars, boardVars>>
Spec == Init /\ [][Next]_<<focus, progressVars, staffVars, streakVars, deskVars, rankVars>>
Symmetry == Permutations(StaffOps) \cup Permutations(People \ {Reporter})

(* Two levels as the code's own list has them: the last asks for nothing. *)
Asks(lines, projects) == [syncedLines |-> lines, totalProjects |-> projects]
DefaultLevelsOf == [beat_deaf |-> [order |-> 0, requirements |-> Asks(0, 0)], synced |-> [order |-> 1, requirements |-> Asks(1, 1)]]
LevelInputsOf == {DefaultLevelsOf[l] : l \in DOMAIN DefaultLevelsOf}
WeightsOf == [syncedLines |-> 15, timeSynced |-> 18, projects |-> 8]

(* XP, statistics and badges are of the account's work (ProgressAgrees),
   and titles, scores and trends of what people did (RankingsHold). *)
StandingsAgree == ProgressAgrees /\ RankingsHold
=============================================================================
