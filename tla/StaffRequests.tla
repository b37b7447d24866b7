---------------------------- MODULE StaffRequests ----------------------------
(***************************************************************************)
(* Staff proposals (modules/requests): a member of staff without a         *)
(* permission proposes an action, one who holds it decides, and an         *)
(* approval executes the action.  The pending ones are also kept in        *)
(* memory, where reviewers see them (request.queue.ts); that queue is read *)
(* from the database once, when the process starts.                        *)
(*                                                                         *)
(* The second half has the permissions staff hold: the preset of each role *)
(* and what single accounts were given (admin.service.ts).                 *)
(***************************************************************************)
EXTENDS Naturals, FiniteSets

CONSTANTS StaffOps,     \* handlers that can be under way at once
          Requests, Staffers,
          MaxFailures   \* bound: executions that fail

ASSUME StaffAssumption == MaxFailures \in Nat

VARIABLES
    permitted,  \* the staff who hold the reviewer's permission
    rows,       \* the StaffRequest documents
    queue,      \* the queue in memory
    listed,     \* the requests a reviewer may know of
    failures,
    sops        \* the handlers under way

staffVars == <<permitted, rows, queue, listed, failures, sops>>

Nobody == "nobody"
(* `runs': observed, the executions that went through; `dropped': the
   process stopped on it. *)
NoRow == [status |-> "none", issuer |-> Nobody, runs |-> 0, dropped |-> FALSE]
NoCall == [at |-> "idle"]

Pending == {q \in Requests : rows[q].status = "pending"}
Open(o, call) == sops[o].at = "idle" /\ sops' = [sops EXCEPT ![o] = call]
Continue(o, at) == sops' = [sops EXCEPT ![o].at = at]
Close(o) == sops' = [sops EXCEPT ![o] = NoCall]

StaffInit ==
    /\ permitted = {}
    /\ rows = [q \in Requests |-> NoRow]
    /\ queue = {} /\ listed = {}
    /\ failures = 0
    /\ sops = [o \in StaffOps |-> NoCall]

-----------------------------------------------------------------------------
(* createRequest: the row, then the queue. *)
createRequest(o, s, q) ==
    /\ s \notin permitted
    /\ rows[q].status = "none"
    /\ rows' = [rows EXCEPT ![q] = [@ EXCEPT !.status = "pending", !.issuer = s]]
    /\ Open(o, [at |-> "enqueue", request |-> q])
    /\ UNCHANGED <<permitted, queue, listed, failures>>

enqueueRequest(o) ==
    LET q == sops[o].request IN
    /\ sops[o].at = "enqueue"
    /\ queue' = queue \cup {q}
    /\ listed' = listed \cup {q}
    /\ Close(o)
    /\ UNCHANGED <<permitted, rows, failures>>

(* reviewRequest: pending, not one's own, and permitted, all as read here. *)
MayReview(s, q) ==
    /\ rows[q].status = "pending"
    /\ s \in permitted
    /\ rows[q].issuer # s

reviewRequest(o, s, q, decision) ==
    /\ q \in listed
    /\ MayReview(s, q)
    /\ Open(o, [at |-> "claim", request |-> q, decision |-> decision])
    /\ UNCHANGED <<permitted, rows, queue, listed, failures>>

(* The claim is one update that matches a pending row only.
   Mutant: it matches the row whatever its status. *)
Claimable_Always(row) == row.status # "none"
Claimable(row) == row.status = "pending"

claim(o) ==
    LET call == sops[o] IN
    /\ call.at = "claim"
    /\ IF Claimable(rows[call.request])
       THEN /\ rows' = [rows EXCEPT ![call.request].status =
                 IF call.decision = "approve" THEN "approved" ELSE "rejected"]
            /\ Continue(o, IF call.decision = "approve" THEN "execute" ELSE "remove")
       ELSE Close(o) /\ rows' = rows
    /\ UNCHANGED <<permitted, queue, listed, failures>>

(* The action goes through, or fails and the claim is released. *)
execute(o) ==
    /\ sops[o].at = "execute"
    /\ rows' = [rows EXCEPT ![sops[o].request].runs = @ + 1]
    /\ Continue(o, "remove")
    /\ UNCHANGED <<permitted, queue, listed, failures>>

executeFails(o) ==
    /\ sops[o].at = "execute"
    /\ failures < MaxFailures
    /\ failures' = failures + 1
    /\ Continue(o, "release")
    /\ UNCHANGED <<permitted, rows, queue, listed>>

release(o) ==
    LET q == sops[o].request IN
    /\ sops[o].at = "release"
    /\ rows' = [rows EXCEPT ![q].status = IF @ = "approved" THEN "pending" ELSE @]
    /\ Close(o)
    /\ UNCHANGED <<permitted, queue, listed, failures>>

removeRequest(o) ==
    /\ sops[o].at = "remove"
    /\ queue' = queue \ {sops[o].request}
    /\ Close(o)
    /\ UNCHANGED <<permitted, rows, listed, failures>>

-----------------------------------------------------------------------------
(* An admin gives or takes the permission (changeUserRole,
   updateUserPermissions). *)
setPermitted(s) ==
    /\ permitted' = IF s \in permitted THEN permitted \ {s} ELSE permitted \cup {s}
    /\ UNCHANGED <<rows, queue, listed, failures, sops>>

(* The process stops and starts again (initRequestQueue). *)
restartStaff ==
    /\ sops' = [o \in StaffOps |-> NoCall]
    /\ rows' = [q \in Requests |->
         [rows[q] EXCEPT !.dropped = @ \/ \E o \in StaffOps :
            sops[o].at \in {"execute", "release"} /\ sops[o].request = q]]
    /\ queue' = Pending
    /\ listed' = listed \cup Pending
    /\ UNCHANGED <<permitted, failures>>

StaffNext ==
    \/ \E s \in Staffers : setPermitted(s)
    \/ restartStaff
    \/ \E o \in StaffOps :
         \/ \E s \in Staffers, q \in Requests :
              createRequest(o, s, q) \/ \E d \in {"approve", "reject"} : reviewRequest(o, s, q, d)
         \/ enqueueRequest(o) \/ claim(o) \/ execute(o) \/ executeFails(o)
         \/ release(o) \/ removeRequest(o)
StaffSpec == StaffInit /\ [][StaffNext]_staffVars

-----------------------------------------------------------------------------
AtWork(q) == \E o \in StaffOps : sops[o].at # "idle" /\ sops[o].request = q

(* However many reviewers decide at once, whatever fails and whenever the
   process stops, the action of a request goes through at most once, and
   only of one that reads approved; and with nobody at work on it, an
   approved one has gone through (unless the process stopped between the
   claim and the end of the execution) and the queue in memory holds it
   exactly while it is pending (reviewRequest, request.queue.ts). *)
RequestsOnce ==
    \A q \in Requests :
      /\ rows[q].runs <= 1
      /\ rows[q].runs = 1 => rows[q].status = "approved"
      /\ ~AtWork(q) =>
           /\ rows[q].status = "approved" /\ ~rows[q].dropped => rows[q].runs = 1
           /\ q \in queue <=> rows[q].status = "pending"

-----------------------------------------------------------------------------
(***************************************************************************)
(* Staff roles and what they permit (modules/admin/admin.service.ts and    *)
(* constants/permissions.ts): a role is a name, an account's permissions   *)
(* are what counts, and they are seeded from the role's preset, which a    *)
(* superadmin may edit and carry over to the members the role has.         *)
(***************************************************************************)
CONSTANTS GrantOps,     \* handlers that can be under way at once
          Members,
          Perms,
          ModDefault,   \* ROLE_PRESETS.mod, the seed of the preset
          MaxEdits      \* bound: preset edits

ASSUME GrantAssumption == ModDefault \subseteq Perms /\ "none" \notin Perms /\ MaxEdits \in Nat

VARIABLES
    preset,     \* the mod preset stored; the admins' has the same life
    grants,     \* the accounts: role, permissions
    edits,
    gops        \* the handlers under way

grantVars == <<preset, grants, edits, gops>>

NoPreset == {"none"}
NoGrantOp == [at |-> "idle"]
(* `own': observed, the account's permissions were set one by one, or by a
   handler another came into, or are of a preset not carried over. *)
Plain == [role |-> "user", perms |-> {}, own |-> FALSE]

(* getEffectiveRolePresets: the stored one, else the code's.
   Mutant: the code's. *)
Effective_Code == ModDefault
Effective == IF preset = NoPreset THEN ModDefault ELSE preset
PresetOf(role, mods) == IF role = "mod" THEN mods ELSE {}

GrantQuiet == \A o \in GrantOps : gops[o].at = "idle"
Enter(o, op) ==
    /\ gops[o].at = "idle"
    /\ gops' = [p \in GrantOps |->
         IF p = o THEN op
         ELSE IF gops[p].at = "idle" THEN gops[p] ELSE [gops[p] EXCEPT !.met = TRUE]]
Step_(o, at) == gops' = [gops EXCEPT ![o].at = at]
Leave(o) == gops' = [gops EXCEPT ![o] = NoGrantOp]

GrantInit ==
    /\ preset = NoPreset
    /\ grants = [m \in Members |-> Plain]
    /\ edits = 0
    /\ gops = [o \in GrantOps |-> NoGrantOp]

-----------------------------------------------------------------------------
(* changeUserRole: the presets are read, then role and permissions are
   written together. *)
changeUserRole(o, m, role) ==
    /\ Enter(o, [at |-> "role", met |-> ~GrantQuiet, member |-> m, role |-> role, mods |-> Effective])
    /\ UNCHANGED <<preset, grants, edits>>

writeRole(o) ==
    LET op == gops[o] IN
    /\ op.at = "role"
    /\ grants' = [grants EXCEPT ![op.member] =
         [role |-> op.role, perms |-> PresetOf(op.role, op.mods), own |-> op.met]]
    /\ Leave(o)
    /\ UNCHANGED <<preset, edits>>

(* updateUserPermissions. *)
updateUserPermissions(m, perms) ==
    /\ grants[m].perms # perms
    /\ grants' = [grants EXCEPT ![m] = [@ EXCEPT !.perms = perms, !.own = TRUE]]
    /\ UNCHANGED <<preset, edits, gops>>

(* updateRolePreset: the preset before is read, the new one stored, and to
   the members, if asked, what it gained is added, then what it lost taken. *)
updateRolePreset(o, new, carry) ==
    /\ edits < MaxEdits
    /\ edits' = edits + 1
    /\ Enter(o, [at |-> "store", met |-> ~GrantQuiet, before |-> Effective, new |-> new, carry |-> carry])
    /\ UNCHANGED <<preset, grants>>

Mods(own, gained, lost) == [m \in Members |->
    IF grants[m].role # "mod" THEN grants[m]
    ELSE [grants[m] EXCEPT !.perms = (@ \cup gained) \ lost, !.own = @ \/ own]]

storePreset(o) ==
    /\ gops[o].at = "store"
    /\ preset' = gops[o].new
    /\ IF gops[o].carry
       THEN Step_(o, "add") /\ UNCHANGED grants
       ELSE Leave(o) /\ grants' = Mods(TRUE, {}, {})
    /\ UNCHANGED edits

addGained(o) ==
    /\ gops[o].at = "add"
    /\ grants' = Mods(gops[o].met, gops[o].new \ gops[o].before, {})
    /\ Step_(o, "pull")
    /\ UNCHANGED <<preset, edits>>

pullLost(o) ==
    /\ gops[o].at = "pull"
    /\ grants' = Mods(gops[o].met, {}, gops[o].before \ gops[o].new)
    /\ Leave(o)
    /\ UNCHANGED <<preset, edits>>

(* syncRolePermissions, when the process starts: whoever holds the role
   gets what its preset has.  The handlers stop with the process. *)
startServer ==
    /\ gops' = [o \in GrantOps |-> NoGrantOp]
    /\ grants' = Mods(~GrantQuiet, Effective, {})
    /\ UNCHANGED <<preset, edits>>

GrantNext ==
    \/ startServer
    \/ \E m \in Members, perms \in SUBSET Perms : updateUserPermissions(m, perms)
    \/ \E o \in GrantOps :
         \/ \E m \in Members, role \in {"user", "mod"} : changeUserRole(o, m, role)
         \/ \E new \in SUBSET Perms, carry \in BOOLEAN : updateRolePreset(o, new, carry)
         \/ writeRole(o) \/ storePreset(o) \/ addGained(o) \/ pullLost(o)
GrantSpec == GrantInit /\ [][GrantNext]_grantVars

-----------------------------------------------------------------------------
(* With no handler under way, an account nobody set permissions of one by
   one holds exactly what its role's preset is now, through edits carried
   over, changes of role and restarts, unless a handler that wrote it met
   another or was stopped, or an edit was not carried over
   (changeUserRole, updateRolePreset, syncRolePermissions). *)
GrantsFollow ==
    GrantQuiet => \A m \in Members :
        ~grants[m].own => grants[m].perms = PresetOf(grants[m].role, Effective)
=============================================================================
