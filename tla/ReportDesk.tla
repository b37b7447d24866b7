------------------------------ MODULE ReportDesk ------------------------------
(***************************************************************************)
(* The reports as their reporters and the moderators read them.            *)
(*                                                                         *)
(* First the conversation of one report (report-thread.service.ts): its    *)
(* reporter and the moderators write and read it, and hear of what others  *)
(* write.  addReportMessage awaits between the permission it found, the    *)
(* parent, the counts, the message and the notices; roles change in        *)
(* between.                                                                *)
(*                                                                         *)
(* Then the lists (modules/reports/reports.service.ts): listReportGroups,  *)
(* one entry per target; listMyReports; the count on the tab; the record   *)
(* of whoever is accountable for the targets.  A listing groups the        *)
(* reports and then reads them, and reports are filed and settled in       *)
(* between.  Reports has the handlers that write overlap; here each is one *)
(* step.                                                                   *)
(***************************************************************************)
EXTENDS StaffRequests, Sequences, SequencesExt, FiniteSetsExt, TLC

CONSTANTS ThreadOps,    \* handlers that can be under way at once
          People,       \* accounts
          Reporter,     \* who filed the report
          MAX_MESSAGES_PER_REPORT,
          MaxMessages,  \* bound: messages written
          MaxRoles      \* bound: changes of who moderates

ASSUME ThreadsAssumption == Reporter \in People

(* The members of a finite set in the order of the pairs `before'. *)
Ranked(S, before) ==
    [n \in 1 .. Cardinality(S) |-> CHOOSE x \in S : Cardinality({y \in S : <<y, x>> \in before}) = n - 1]
Ascending(P) == Ranked(P, {pair \in P \X P : pair[1] < pair[2]})

VARIABLES
    moderators,     \* accounts with users.ban
    messages,       \* the report_messages collection, by creation
    threadOps,      \* the handlers under way
    lastSeen,       \* observed: who was told last and of whom, or who read last and what
    roleChanges     \* counter of MaxRoles
threadVars == <<moderators, messages, threadOps, lastSeen, roleChanges>>

NoName == "nobody"
NoMessage == 0
NoThreadOp == [kind |-> "free"]
TAt(o, kind) == threadOps[o].kind = kind
TGoto(o, op) == threadOps' = [threadOps EXCEPT ![o] = op]
NothingSeen == [by |-> NoName, names |-> {}, shown |-> <<>>, moderator |-> FALSE, told |-> {}]

ThreadsInit ==
    /\ moderators = People \ {Reporter}
    /\ messages = <<>>
    /\ threadOps = [o \in ThreadOps |-> NoThreadOp]
    /\ lastSeen = NothingSeen
    /\ roleChanges = 0

roleChanges_(p) ==
    /\ roleChanges < MaxRoles
    /\ roleChanges' = roleChanges + 1
    /\ moderators' = IF p \in moderators THEN moderators \ {p} ELSE moderators \cup {p}
    /\ UNCHANGED <<messages, threadOps, lastSeen>>

-----------------------------------------------------------------------------
(* access: the reporter and the moderators; for others it is not there. *)
Access(p) == p = Reporter \/ p \in moderators

addReportMessage(o, p, parent) ==
    /\ threadOps[o] = NoThreadOp /\ Access(p)
    /\ TGoto(o, [kind |-> "counts", by |-> p, parent |-> parent])
    /\ UNCHANGED <<moderators, messages, lastSeen, roleChanges>>

(* The cap is asked for before the message is written. *)
countsMessages(o) ==
    /\ TAt(o, "counts")
    /\ TGoto(o, IF Len(messages) >= MAX_MESSAGES_PER_REPORT THEN NoThreadOp ELSE [threadOps[o] EXCEPT !.kind = "writes"])
    /\ UNCHANGED <<moderators, messages, lastSeen, roleChanges>>

(* A reply to a reply joins the thread of the message it answers. *)
RootOf(parent) ==
    IF parent = NoMessage THEN NoMessage
    ELSE IF messages[parent].parent # NoMessage THEN messages[parent].parent ELSE parent

writesMessage(o) ==
    LET op == threadOps[o] IN
    /\ TAt(o, "writes") /\ Len(messages) < MaxMessages
    /\ messages' = Append(messages, [by |-> op.by, fromReporter |-> op.by = Reporter, parent |-> RootOf(op.parent)])
    /\ TGoto(o, [op EXCEPT !.kind = "tells"])
    /\ UNCHANGED <<moderators, lastSeen, roleChanges>>

(* tell: the author of what is answered; else the reporter, or whoever
   wrote as a moderator.  To the reporter a moderator has no name. *)
WroteAsModerator == {messages[i].by : i \in {j \in DOMAIN messages : ~messages[j].fromReporter}}
Recipients(op) ==
    (IF op.parent # NoMessage THEN {messages[op.parent].by}
     ELSE IF op.by # Reporter THEN {Reporter} ELSE WroteAsModerator) \ {op.by}
ActorFor(op, p) == IF op.by = Reporter \/ p # Reporter THEN op.by ELSE NoName

tell(o) ==
    LET op == threadOps[o] IN
    /\ TAt(o, "tells")
    /\ lastSeen' = [NothingSeen EXCEPT !.by = op.by, !.told = {<<p, ActorFor(op, p)>> : p \in Recipients(op)}]
    /\ TGoto(o, NoThreadOp)
    /\ UNCHANGED <<moderators, messages, roleChanges>>

-----------------------------------------------------------------------------
(* listReportMessages: access and messages are two reads. *)
listReportMessages(o, p) ==
    /\ threadOps[o] = NoThreadOp /\ Access(p)
    /\ TGoto(o, [kind |-> "views", by |-> p, moderator |-> p \in moderators])
    /\ UNCHANGED <<moderators, messages, lastSeen, roleChanges>>

(* buildViews: the roots, and under each the replies that name it. *)
NameShown(i, p, moderator) ==
    IF moderator \/ messages[i].fromReporter \/ messages[i].by = p THEN messages[i].by ELSE NoName
Replies(root) == Ascending({i \in DOMAIN messages : messages[i].parent = root})
Views ==
    LET roots == Replies(NoMessage)
    IN  FlattenSeq([k \in DOMAIN roots |-> <<roots[k]>> \o Replies(roots[k])])
views(o) ==
    LET op == threadOps[o] IN
    /\ TAt(o, "views")
    /\ lastSeen' = [by |-> op.by, told |-> {}, shown |-> Views, moderator |-> op.moderator,
                names |-> {<<i, NameShown(i, op.by, op.moderator)>> : i \in DOMAIN messages}]
    /\ TGoto(o, NoThreadOp)
    /\ UNCHANGED <<moderators, messages, roleChanges>>

ThreadsNext ==
    \/ \E p \in People : roleChanges_(p)
    \/ \E o \in ThreadOps :
        \/ \E p \in People, parent \in {NoMessage} \cup DOMAIN messages : addReportMessage(o, p, parent)
        \/ \E p \in People : listReportMessages(o, p)
        \/ countsMessages(o) \/ writesMessage(o) \/ tell(o) \/ views(o)
ThreadsSpec == ThreadsInit /\ [][ThreadsNext]_threadVars

-----------------------------------------------------------------------------
(* The reporter learns no moderator's name, by the list or by a notice,
   unless the list found him a moderator; nobody is told of what they
   wrote, and whoever is told is the reporter or has written; and every
   message is shown once, whatever it answers. *)
ThreadsHold ==
    /\ \A told \in lastSeen.told :
          /\ told[1] # lastSeen.by
          /\ told[1] = Reporter => told[2] = NoName
          /\ told[1] \in {Reporter} \cup WroteAsModerator
    /\ lastSeen.by = Reporter /\ ~lastSeen.moderator
       => \A shown \in lastSeen.names : shown[2] \in {NoName, Reporter}
    /\ ToSet(lastSeen.shown) = {shown[1] : shown \in lastSeen.names}
    /\ Len(lastSeen.shown) = Cardinality(lastSeen.names)

-----------------------------------------------------------------------------
(* The lists. *)
CONSTANTS Matters,      \* targets of one subject: comments, projects, the account
          Filers,       \* who reports them
          QueueLimit,   \* the limit of a listing
          MaxMoments    \* bound: the clock

ASSUME QueueAssumption == QueueLimit \in Nat /\ IsFiniteSet(Matters) /\ IsFiniteSet(Filers)

VARIABLES
    filed,       \* target, reporter -> the report, or NotFiled
    sight,      \* target -> "shown", "hidden" from its reporters, "gone"
    listing,      \* the listing under way
    answer,    \* observed: what was answer last
    record,     \* observed: targets acted on, and whether one was reported again
    moment      \* createdAt, resolvedAt
queueVars == <<filed, sight, listing, answer, record, moment>>

NotFiled == [status |-> "none", at |-> 0, resolved |-> 0]
NoListing == [at |-> "none"]
Statuses == {"open", "dismissed", "actioned"}
Keys == Matters \X Filers

QueueInit ==
    /\ filed = [k \in Keys |-> NotFiled]
    /\ sight = [t \in Matters |-> "shown"]
    /\ listing = NoListing /\ answer = NoListing
    /\ record = [acted |-> {}, again |-> FALSE]
    /\ moment = 0

Of(t, status) == {k \in Keys : k[1] = t /\ filed[k].status = status}
(* A write while a listing is under way is remembered by it. *)
Written ==
    /\ listing' = IF listing = NoListing THEN listing ELSE [listing EXCEPT !.quiet = FALSE]
    /\ answer' = NoListing
Clock == moment < MaxMoments /\ moment' = moment + 1

-----------------------------------------------------------------------------
(* fileReport, of a target its reporter sees (targetForReporter): filing
   again updates the row, reopens it and gives it a new place. *)
file(t, r) ==
    /\ sight[t] = "shown" /\ Clock /\ Written
    /\ filed' = [filed EXCEPT ![<<t, r>>] = [status |-> "open", at |-> moment', resolved |-> 0]]
    /\ record' = [record EXCEPT !.again = @ \/ filed[<<t, r>>].status = "actioned"]
    /\ UNCHANGED sight

(* resolveReportGroup and settleReports: whatever is open.  Acting on a
   comment, a project or a playlist deletes it. *)
settleAll(t, outcome, deletes) ==
    /\ Of(t, "open") # {} /\ Clock /\ Written
    /\ deletes => outcome = "actioned"
    /\ filed' = [k \in Keys |-> IF k \in Of(t, "open")
                               THEN [filed[k] EXCEPT !.status = outcome, !.resolved = moment'] ELSE filed[k]]
    /\ record' = IF outcome = "actioned" THEN [record EXCEPT !.acted = @ \cup {t}] ELSE record
    /\ sight' = IF deletes THEN [sight EXCEPT ![t] = "gone"] ELSE sight

(* Made private, blocked, banned; or deleted by its owner. *)
sightChanges(t, how) ==
    /\ sight[t] = "shown" /\ how \in {"hidden", "gone"}
    /\ sight' = [sight EXCEPT ![t] = how] /\ Written
    /\ UNCHANGED <<filed, record, moment>>

-----------------------------------------------------------------------------
(* listReportGroups.  The targets, by their newest report while it is
   open, by the last decision afterwards ... *)
AtOf(t, status) ==
    Max({IF status # "open" /\ filed[k].resolved # 0 THEN filed[k].resolved ELSE filed[k].at : k \in Of(t, status)})
Grouped(status) ==
    LET targets == {t \in Matters : Of(t, status) # {}}
        before == {p \in targets \X targets :
                      IF status = "open" THEN AtOf(p[1], status) < AtOf(p[2], status) ELSE AtOf(p[1], status) > AtOf(p[2], status)}
        all == Ranked(targets, before)
    IN  SubSeq(all, 1, Min({QueueLimit, Len(all)}))

listReportGroups(status) ==
    /\ listing = NoListing
    /\ listing' = [at |-> "group", status |-> status, latest |-> Grouped(status), quiet |-> TRUE]
    /\ UNCHANGED <<filed, sight, answer, record, moment>>

(* ... then their reports, their open reports and their previews, which a
   moderator has of every target that is still there ... *)
readGroups ==
    /\ listing.at = "group"
    /\ listing' =
         [at |-> "fill", status |-> listing.status, latest |-> listing.latest, quiet |-> listing.quiet,
          reports |-> [t \in ToSet(listing.latest) |-> {k[2] : k \in Of(t, listing.status)}],
          open    |-> [t \in ToSet(listing.latest) |-> Cardinality(Of(t, "open"))],
          preview |-> {t \in ToSet(listing.latest) : sight[t] # "gone"}]
    /\ UNCHANGED <<filed, sight, answer, record, moment>>

(* ... and the subject's record.  A target with no such report left is
   dropped. *)
ActionedCount == Cardinality({t \in Matters : Of(t, "actioned") # {}})
fillGroups ==
    LET kept == Ascending({i \in DOMAIN listing.latest : listing.reports[listing.latest[i]] # {}}) IN
    /\ listing.at = "fill"
    /\ answer' = [at |-> "done", status |-> listing.status, quiet |-> listing.quiet, open |-> listing.open,
                   groups |-> [n \in DOMAIN kept |-> listing.latest[kept[n]]],
                   reports |-> listing.reports, preview |-> listing.preview, actioned |-> ActionedCount,
                   truth |-> [t \in Matters |-> {k[2] : k \in Of(t, listing.status)}]]
    /\ listing' = NoListing
    /\ UNCHANGED <<filed, sight, record, moment>>

QueueNext ==
    \/ \E t \in Matters :
        \/ \E r \in Filers : file(t, r)
        \/ \E outcome \in {"dismissed", "actioned"}, deletes \in BOOLEAN : settleAll(t, outcome, deletes)
        \/ \E how \in {"hidden", "gone"} : sightChanges(t, how)
    \/ \E status \in Statuses : listReportGroups(status)
    \/ readGroups \/ fillGroups
QueueSpec == QueueInit /\ [][QueueNext]_queueVars

-----------------------------------------------------------------------------
(* openReportCount, and what one reporter reads: listMyReports. *)
openReportCount == Cardinality({k[1] : k \in {k \in Keys : filed[k].status = "open"}})
MyReports(r) ==
    LET mine == {t \in Matters : filed[<<t, r>>] # NotFiled}
    IN  Ranked(mine, {p \in mine \X mine : filed[<<p[1], r>>].at > filed[<<p[2], r>>].at})
MyPage(r, offset, size) == SubSeq(MyReports(r), offset + 1, Min({offset + size, Len(MyReports(r))}))

(* A listing names each target once, with at least one report; one that
   nothing was written beside has every report of its targets and leaves
   out a target only when it is full; the tab counts what an unlimited
   listing of open reports would list; the pages of a reporter's own
   reports are a partition of them; and the record of a subject counts
   each target acted on once, unless someone reported such a target again
   (listReportGroups, openReportCount, listMyReports). *)
QueueHolds ==
    /\ answer # NoListing =>
         LET groups == answer.groups IN
         /\ \A i, j \in DOMAIN groups : groups[i] = groups[j] => i = j
         /\ \A i \in DOMAIN groups : answer.reports[groups[i]] # {}
         /\ answer.quiet =>
              /\ \A i \in DOMAIN groups : answer.reports[groups[i]] = answer.truth[groups[i]]
              /\ \A t \in Matters \ ToSet(groups) : answer.truth[t] = {} \/ Len(groups) = QueueLimit
              /\ answer.status = "open" => \A i \in DOMAIN groups : answer.open[groups[i]] = Cardinality(answer.reports[groups[i]])
    /\ Len(Grouped("open")) = Min({QueueLimit, openReportCount})
    /\ \A r \in Filers :
         LET pages == FlattenSeq([p \in 1 .. Cardinality(Matters) |-> MyPage(r, p - 1, 1)]) IN
         ToSet(pages) = {t \in Matters : filed[<<t, r>>] # NotFiled} /\ Len(pages) = Cardinality(ToSet(pages))
    /\ ActionedCount = Cardinality(record.acted) \/ record.again

(* What moderators do: a claimed request is executed once (RequestsOnce),
   the conversation of a report keeps to itself (ThreadsHold), and the
   queue lists what was reported (QueueHolds). *)
ModeratorsAct == RequestsOnce /\ ThreadsHold /\ QueueHolds
=============================================================================
