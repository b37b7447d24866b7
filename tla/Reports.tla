------------------------------- MODULE Reports -------------------------------
(***************************************************************************)
(* The reports of one wall comment, project or playlist                    *)
(* (modules/reports/reports.service.ts): filing and reopening them, the    *)
(* moderators' decision, and the target going another way, by the hand of  *)
(* its owner.  A moderator's decision reads the open reports, acts on the  *)
(* target, settles whatever is open by then, and tells the reporters it    *)
(* had read; it may fail or the process may stop between any two of these. *)
(***************************************************************************)
EXTENDS Naturals, FiniteSets

CONSTANTS ReportOps,    \* handlers that can be under way at once
          Reporters,
          MaxFilings    \* bound: reports filed or filed again

ASSUME ReportsAssumption == MaxFilings \in Nat

VARIABLES
    target,     \* whether the target is there
    reports,    \* one row per reporter
    filings,    \* how many were filed
    rops        \* the handlers under way

reportVars == <<target, reports, filings, rops>>

(* `told': what the reporter was told last; `news': the moderators heard
   of it as it is; `mixed': observed, a handler that wrote the row, or
   spoke of it, met another. *)
NoReport == [status |-> "none", told |-> "none", news |-> FALSE, mixed |-> FALSE]
NoOp == [at |-> "idle", met |-> FALSE]

Busy(o) == rops[o].at # "idle"
AnyBusy == \E y \in ReportOps : Busy(y)
Begin(o, op) ==
    /\ ~Busy(o)
    /\ rops' = [x \in ReportOps |->
         IF x = o THEN op
         ELSE IF Busy(x) THEN [rops[x] EXCEPT !.met = TRUE] ELSE rops[x]]
Next_(o, at) == rops' = [rops EXCEPT ![o].at = at]
End(o) == rops' = [rops EXCEPT ![o] = NoOp]

ReportsInit ==
    /\ target = TRUE
    /\ reports = [r \in Reporters |-> NoReport]
    /\ filings = 0
    /\ rops = [o \in ReportOps |-> NoOp]

-----------------------------------------------------------------------------
(* fileReport: the target and the reporter's earlier report are read, then
   the row is written; a report that was open is not news. *)
fileReport(o, r) ==
    /\ target
    /\ filings < MaxFilings
    /\ filings' = filings + 1
    /\ Begin(o, [at |-> "file", met |-> AnyBusy, reporter |-> r, previous |-> reports[r].status])
    /\ UNCHANGED <<target, reports>>

Filed(report, op) ==
    [report EXCEPT !.status = "open", !.news = @ /\ op.previous = "open",
                   !.mixed = (@ /\ op.previous = "open") \/ op.met]
upsertReport(o) ==
    /\ rops[o].at = "file"
    /\ reports' = [reports EXCEPT ![rops[o].reporter] = Filed(@, rops[o])]
    /\ IF rops[o].previous = "open" THEN End(o) ELSE Next_(o, "news")
    /\ UNCHANGED <<target, filings>>

tellModerators(o) ==
    /\ rops[o].at = "news"
    /\ reports' = [reports EXCEPT ![rops[o].reporter].news = TRUE]
    /\ End(o)
    /\ UNCHANGED <<target, filings>>

-----------------------------------------------------------------------------
OpenReports == {r \in Reporters : reports[r].status = "open"}
(* Who is told was read before acting ... *)
resolveReportGroup(o, outcome) ==
    /\ \E r \in Reporters : reports[r].status # "none"
    /\ Begin(o, [at |-> IF outcome = "actioned" THEN "act" ELSE "settle", met |-> AnyBusy,
                 outcome |-> outcome, open |-> OpenReports, tell |-> TRUE])
    /\ UNCHANGED <<target, reports, filings>>

(* ... the target is deleted if it is still there (deleteComment,
   deleteProjectAsModerator, deletePlaylistAsModerator) ... *)
actOnTarget(o) ==
    /\ rops[o].at = "act"
    /\ target' = FALSE
    /\ Next_(o, "settle")
    /\ UNCHANGED <<reports, filings>>

(* ... and every report that is open by now is settled.
   Mutant: settled reports are settled again. *)
Settleable_All(r) == reports[r].status # "none"
Settleable(r) == reports[r].status = "open"
SettledBy(report, op) == [report EXCEPT !.status = op.outcome, !.mixed = @ \/ op.met]
settle(o) ==
    /\ rops[o].at = "settle"
    /\ reports' = [r \in Reporters |->
         IF Settleable(r) THEN SettledBy(reports[r], rops[o]) ELSE reports[r]]
    /\ IF rops[o].tell THEN Next_(o, "tell") ELSE End(o)
    /\ UNCHANGED <<target, filings>>

ToldBy(report, op) == [report EXCEPT !.told = op.outcome, !.mixed = @ \/ op.met]
tellReporters(o) ==
    /\ rops[o].at = "tell"
    /\ reports' = [r \in Reporters |->
         IF r \in rops[o].open THEN ToldBy(reports[r], rops[o]) ELSE reports[r]]
    /\ End(o)
    /\ UNCHANGED <<target, filings>>

(* The target goes by its owner's hand: settleReports tells nobody (a
   comment; the reports of a project or a playlist stay open). *)
ownerDeletes(o, settles) ==
    /\ target
    /\ target' = FALSE
    /\ IF settles THEN Begin(o, [at |-> "settle", met |-> AnyBusy, outcome |-> "actioned", open |-> {}, tell |-> FALSE])
       ELSE UNCHANGED rops
    /\ UNCHANGED <<reports, filings>>

(* An error or a stop between two steps. *)
fail(o) ==
    /\ Busy(o)
    /\ reports' = [r \in Reporters |-> [reports[r] EXCEPT !.mixed = TRUE]]
    /\ End(o)
    /\ UNCHANGED <<target, filings>>

ReportsNext ==
    \E o \in ReportOps :
        \/ \E r \in Reporters : fileReport(o, r)
        \/ upsertReport(o) \/ tellModerators(o)
        \/ \E outcome \in {"dismissed", "actioned"} : resolveReportGroup(o, outcome)
        \/ actOnTarget(o) \/ settle(o) \/ tellReporters(o)
        \/ \E settles \in BOOLEAN : ownerDeletes(o, settles)
        \/ fail(o)

ReportsSpec == ReportsInit /\ [][ReportsNext]_reportVars

-----------------------------------------------------------------------------
(* Properties. *)

(* A reporter who reads that something was done about the target: it was,
   however decisions, filings and failures interleave (resolveReportGroup
   acts first and settles after). *)
ActionedIsGone ==
    \A r \in Reporters : "actioned" \in {reports[r].status, reports[r].told} => ~target

(* When no handler is under way, a report none of whose handlers met
   another, or failed, says what its reporter was told last, or was
   settled by the target's owner, and the moderators have heard of an open
   one (fileReport, resolveReportGroup, settleReports). *)
ToldWhatHappened ==
    \A r \in Reporters :
        LET report == reports[r] IN
        ~AnyBusy /\ ~report.mixed =>
            /\ report.status = "dismissed" => report.told = "dismissed"
            /\ report.status = "actioned" => report.told = "actioned" \/ ~target
            /\ report.status = "open" => report.news

(* What a reporter and the moderators may rely on. *)
ReportsSettle == ActionedIsGone /\ ToldWhatHappened
=============================================================================
