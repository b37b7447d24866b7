--------------------------- MODULE Community_proofs ---------------------------
(***************************************************************************)
(* What holds of roles and their permissions, of staff requests, of the    *)
(* comments of a wall, and of the conversations and lists of reports, for  *)
(* any number of handlers and accounts.                                    *)
(***************************************************************************)
EXTENDS StaffRequests, WallThreads, ReportDesk,
        FiniteSetTheorems, SequenceTheorems, TLAPS

-----------------------------------------------------------------------------
(* Roles and what they permit. *)
RoleOp == [at : {"role"}, met : BOOLEAN, member : Members, role : {"user", "mod"}, mods : SUBSET Perms]
EditOp == [at : {"store", "add", "pull"}, met : BOOLEAN, before : SUBSET Perms, new : SUBSET Perms, carry : BOOLEAN]
Account == [role : {"user", "mod"}, perms : SUBSET Perms, own : BOOLEAN]
GrantTypes ==
    /\ preset \in {NoPreset} \cup SUBSET Perms
    /\ grants \in [Members -> Account]
    /\ gops \in [GrantOps -> {NoGrantOp} \cup RoleOp \cup EditOp]

(* Two handlers under way have met each other. *)
GrantsMeet ==
    \A o, p \in GrantOps : o # p /\ gops[o].at # "idle" /\ gops[p].at # "idle" => gops[o].met
(* What a handler that met no other read still holds. *)
ReadStillHolds ==
    \A o \in GrantOps : gops[o].at # "idle" /\ ~gops[o].met =>
        /\ gops[o].at = "role" => gops[o].mods = Effective
        /\ gops[o].at = "store" => gops[o].before = Effective
        /\ gops[o].at \in {"add", "pull"} => gops[o].new = Effective
Carrying(o) == gops[o].at \in {"add", "pull"}
(* While an edit is carried over, the members have its before, then both. *)
MidwayPerms(o) == IF gops[o].at = "add" THEN gops[o].before ELSE gops[o].before \cup gops[o].new
Carried ==
    /\ \A m \in Members : ~grants[m].own /\ grants[m].role = "user" => grants[m].perms = {}
    /\ (\A o \in GrantOps : ~Carrying(o)) =>
          \A m \in Members : ~grants[m].own /\ grants[m].role = "mod" => grants[m].perms = Effective
    /\ \A o \in GrantOps : Carrying(o) /\ ~gops[o].met =>
          \A m \in Members : ~grants[m].own /\ grants[m].role = "mod" => grants[m].perms = MidwayPerms(o)
GrantInv == GrantTypes /\ GrantsMeet /\ ReadStillHolds /\ Carried

LEMMA EffectiveIsPerms == GrantTypes => Effective \in SUBSET Perms
  BY GrantAssumption DEF GrantTypes, Effective

LEMMA GrantBegins == GrantInit => GrantInv
  BY GrantAssumption DEF GrantInit, GrantInv, GrantTypes, GrantsMeet, ReadStillHolds, Carried, Carrying,
     Plain, NoGrantOp, Account

(* A handler that begins finds the others as they are, and meets them. *)
LEMMA EnterKeeps ==
    ASSUME GrantInv, NEW o \in GrantOps, NEW op \in RoleOp \cup EditOp, Enter(o, op),
           op.met = ~GrantQuiet, op.at \in {"role", "store"},
           op.at = "role" => op.mods = Effective, op.at = "store" => op.before = Effective,
           UNCHANGED <<preset, grants>>
    PROVE  GrantInv'
  <1>1. gops' \in [GrantOps -> {NoGrantOp} \cup RoleOp \cup EditOp]
    <2> SUFFICES ASSUME NEW p \in GrantOps
                 PROVE  gops'[p] \in {NoGrantOp} \cup RoleOp \cup EditOp
      BY DEF Enter
    <2>1. gops[p] \in {NoGrantOp} \cup RoleOp \cup EditOp
      BY DEF GrantInv, GrantTypes
    <2>2. CASE p # o /\ gops[p].at # "idle"
      BY <2>1, <2>2 DEF Enter, NoGrantOp, RoleOp, EditOp
    <2>3. CASE p = o \/ gops[p].at = "idle"
      BY <2>1, <2>3 DEF Enter
    <2> QED BY <2>2, <2>3
  <1>2. \A p \in GrantOps \ {o} : /\ gops'[p].at = gops[p].at
                                  /\ gops[p].at # "idle" => gops'[p].met
    <2> SUFFICES ASSUME NEW p \in GrantOps \ {o}
                 PROVE  gops'[p].at = gops[p].at /\ (gops[p].at # "idle" => gops'[p].met)
      OBVIOUS
    <2>1. gops[p] \in {NoGrantOp} \cup RoleOp \cup EditOp
      BY DEF GrantInv, GrantTypes
    <2> QED BY <2>1 DEF Enter, NoGrantOp, RoleOp, EditOp
  <1>3. gops'[o] = op /\ gops[o].at = "idle"
    BY DEF Enter
  <1>4. Effective' = Effective
    BY DEF Effective
  <1>5. GrantTypes' /\ GrantsMeet'
    BY <1>1, <1>2, <1>3 DEF GrantInv, GrantTypes, GrantsMeet, GrantQuiet
  <1>6. ReadStillHolds'
    BY <1>2, <1>3, <1>4 DEF ReadStillHolds
  <1>7. Carried'
    BY <1>2, <1>3, <1>4 DEF GrantInv, Carried, Carrying
  <1> QED BY <1>5, <1>6, <1>7 DEF GrantInv

LEMMA GrantStepKeeps == GrantInv /\ [GrantNext]_grantVars => GrantInv'
  <1> SUFFICES ASSUME GrantInv, [GrantNext]_grantVars
               PROVE  GrantInv'
    OBVIOUS
  <1> USE DEF GrantInv
  <1>0. Effective \in SUBSET Perms
    BY EffectiveIsPerms
  <1>1. CASE startServer
    <2>1. Effective' = Effective
      BY <1>1 DEF startServer, Effective
    <2>2. GrantTypes'
      BY <1>0, <1>1 DEF startServer, Mods, GrantTypes, Account
    <2>3. GrantsMeet' /\ ReadStillHolds'
      BY <1>1 DEF startServer, GrantsMeet, ReadStillHolds, NoGrantOp
    <2>4. ASSUME NEW m \in Members, ~grants'[m].own
          PROVE  /\ grants'[m].role = "user" => grants'[m].perms = {}
                 /\ grants'[m].role = "mod" => grants'[m].perms = Effective
      <3>1. grants[m] \in Account
        BY DEF GrantTypes
      <3>2. CASE grants[m].role # "mod"
        BY <1>1, <2>4, <3>1, <3>2 DEF startServer, Mods, Account, Carried
      <3>3. CASE grants[m].role = "mod"
        <4>1. GrantQuiet /\ ~grants[m].own
          BY <1>1, <2>4, <3>1, <3>3 DEF startServer, Mods, Account
        <4>2. grants[m].perms = Effective
          BY <3>3, <4>1 DEF Carried, Carrying, GrantQuiet
        <4> QED BY <1>1, <3>1, <3>3, <4>2 DEF startServer, Mods, Account
      <3> QED BY <3>2, <3>3
    <2>5. \A o \in GrantOps : ~Carrying(o)'
      BY <1>1 DEF startServer, Carrying, NoGrantOp
    <2>6. Carried'
      BY <2>1, <2>4, <2>5 DEF Carried
    <2> QED BY <2>2, <2>3, <2>6
  <1>2. ASSUME NEW m \in Members, NEW perms \in SUBSET Perms, updateUserPermissions(m, perms)
        PROVE  GrantInv'
    <2>1. Effective' = Effective /\ gops' = gops
      BY <1>2 DEF updateUserPermissions, Effective
    <2>2. GrantTypes'
      BY <1>2 DEF updateUserPermissions, GrantTypes, Account
    <2>3. \A x \in Members : x # m => grants'[x] = grants[x]
      BY <1>2 DEF updateUserPermissions, GrantTypes
    <2>4. grants'[m].own
      BY <1>2 DEF updateUserPermissions, GrantTypes, Account
    <2>5. GrantsMeet' /\ ReadStillHolds'
      BY <2>1 DEF GrantsMeet, ReadStillHolds
    <2>6. Carried'
      BY <2>1, <2>3, <2>4 DEF Carried, Carrying, MidwayPerms
    <2> QED BY <2>2, <2>5, <2>6
  <1>3. ASSUME NEW o \in GrantOps, NEW m \in Members, NEW role \in {"user", "mod"}, changeUserRole(o, m, role)
        PROVE  GrantInv'
    <2> DEFINE op == [at |-> "role", met |-> ~GrantQuiet, member |-> m, role |-> role, mods |-> Effective]
    <2>1. op \in RoleOp
      BY <1>0 DEF RoleOp, GrantQuiet
    <2>2. Enter(o, op) /\ UNCHANGED <<preset, grants>>
      BY <1>3 DEF changeUserRole
    <2>3. op.met = ~GrantQuiet /\ op.at = "role" /\ op.mods = Effective
      OBVIOUS
    <2> HIDE DEF op
    <2> QED BY <2>1, <2>2, <2>3, EnterKeeps
  <1>4. ASSUME NEW o \in GrantOps, NEW new \in SUBSET Perms, NEW carry \in BOOLEAN, updateRolePreset(o, new, carry)
        PROVE  GrantInv'
    <2> DEFINE op == [at |-> "store", met |-> ~GrantQuiet, before |-> Effective, new |-> new, carry |-> carry]
    <2>1. op \in EditOp
      BY <1>0 DEF EditOp, GrantQuiet
    <2>2. Enter(o, op) /\ UNCHANGED <<preset, grants>>
      BY <1>4 DEF updateRolePreset
    <2>3. op.met = ~GrantQuiet /\ op.at = "store" /\ op.before = Effective
      OBVIOUS
    <2> HIDE DEF op
    <2> QED BY <2>1, <2>2, <2>3, EnterKeeps
  <1>5. ASSUME NEW o \in GrantOps, writeRole(o)
        PROVE  GrantInv'
    <2>1. Effective' = Effective /\ gops' = [gops EXCEPT ![o] = NoGrantOp]
      BY <1>5 DEF writeRole, Effective, Leave
    <2>2. gops[o] \in RoleOp
      BY <1>5 DEF writeRole, GrantTypes, NoGrantOp, EditOp
    <2>3. GrantTypes'
      BY <1>0, <1>5, <2>1, <2>2 DEF writeRole, GrantTypes, Account, RoleOp, PresetOf
    <2>4. GrantsMeet' /\ ReadStillHolds'
      BY <2>1 DEF GrantTypes, GrantsMeet, ReadStillHolds, NoGrantOp
    <2>5. \A p \in GrantOps : Carrying(p)' => Carrying(p) /\ p # o /\ gops'[p] = gops[p]
      BY <2>1 DEF GrantTypes, Carrying, NoGrantOp
    <2>6. \A p \in GrantOps : Carrying(p) => p # o /\ Carrying(p)'
      BY <2>1, <2>2 DEF GrantTypes, Carrying, RoleOp
    <2>7. \A p \in GrantOps : Carrying(p) => gops[p].met
      BY <2>2, <2>6 DEF GrantsMeet, RoleOp, Carrying
    <2>8. \A x \in Members : x # gops[o].member => grants'[x] = grants[x]
      BY <1>5 DEF writeRole, GrantTypes
    <2>9. /\ grants'[gops[o].member].own = gops[o].met
          /\ grants'[gops[o].member].perms = PresetOf(grants'[gops[o].member].role, gops[o].mods)
      BY <1>5, <2>2 DEF writeRole, GrantTypes, RoleOp
    <2>10. ~gops[o].met => gops[o].mods = Effective
      BY <1>5 DEF writeRole, ReadStillHolds
    <2>11. Carried'
      BY <2>1, <2>5, <2>6, <2>7, <2>8, <2>9, <2>10 DEF Carried, PresetOf
    <2> QED BY <2>3, <2>4, <2>11
  <1>6. ASSUME NEW o \in GrantOps, storePreset(o)
        PROVE  GrantInv'
    <2>1. gops[o] \in EditOp
      BY <1>6 DEF storePreset, GrantTypes, NoGrantOp, RoleOp
    <2>2. Effective' = gops[o].new
      BY <1>6, <2>1, GrantAssumption DEF storePreset, Effective, NoPreset, EditOp
    <2>3. ~gops[o].met => \A p \in GrantOps \ {o} : gops[p].at = "idle"
      BY <1>6 DEF storePreset, GrantsMeet
    <2>4. \A p \in GrantOps \ {o} : gops[p].at # "idle" => gops[p].met
      BY <1>6 DEF storePreset, GrantsMeet
    <2>5. CASE gops[o].carry
      <3>1. gops' = [gops EXCEPT ![o].at = "add"] /\ grants' = grants /\ preset' = gops[o].new
        BY <1>6, <2>5 DEF storePreset, Step_
      <3>2. gops'[o] \in EditOp /\ gops'[o].at = "add" /\ gops'[o].met = gops[o].met
            /\ gops'[o].new = gops[o].new /\ gops'[o].before = gops[o].before
        BY <2>1, <3>1 DEF GrantTypes, EditOp
      <3>3. \A p \in GrantOps \ {o} : gops'[p] = gops[p]
        BY <3>1 DEF GrantTypes
      <3>4. GrantTypes'
        BY <2>1, <3>1, <3>2, <3>3 DEF GrantTypes, EditOp
      <3>5. GrantsMeet'
        BY <1>6, <3>2, <3>3 DEF GrantsMeet, storePreset
      <3>6. ReadStillHolds'
        BY <2>2, <2>4, <3>2, <3>3 DEF ReadStillHolds
      <3>7. ~gops[o].met => \A m \in Members : ~grants[m].own /\ grants[m].role = "mod" => grants[m].perms = gops[o].before
        BY <1>6, <2>3 DEF storePreset, Carried, Carrying, ReadStillHolds
      <3>8. Carried'
        BY <2>4, <3>1, <3>2, <3>3, <3>7 DEF Carried, Carrying, MidwayPerms
      <3> QED BY <3>4, <3>5, <3>6, <3>8
    <2>6. CASE ~gops[o].carry
      <3>1. gops' = [gops EXCEPT ![o] = NoGrantOp] /\ grants' = Mods(TRUE, {}, {}) /\ preset' = gops[o].new
        BY <1>6, <2>6 DEF storePreset, Leave
      <3>2. \A p \in GrantOps \ {o} : gops'[p] = gops[p]
        BY <3>1 DEF GrantTypes
      <3>3. gops'[o] = NoGrantOp
        BY <3>1 DEF GrantTypes
      <3>4. \A m \in Members : /\ grants'[m] \in Account
                               /\ grants'[m].role = "mod" => grants'[m].own
                               /\ grants'[m].role = "user" => grants'[m] = grants[m]
        BY <3>1 DEF Mods, GrantTypes, Account
      <3>5. GrantTypes'
        BY <2>1, <3>1, <3>2, <3>3, <3>4 DEF GrantTypes, EditOp, Mods
      <3>6. GrantsMeet' /\ ReadStillHolds'
        BY <2>4, <3>2, <3>3 DEF GrantsMeet, ReadStillHolds, NoGrantOp
      <3>7. Carried'
        BY <3>4 DEF Carried
      <3> QED BY <3>5, <3>6, <3>7
    <2> QED BY <2>5, <2>6
  <1>7. ASSUME NEW o \in GrantOps, addGained(o) \/ pullLost(o)
        PROVE  GrantInv'
    <2>1. gops[o] \in EditOp
      BY <1>7 DEF addGained, pullLost, GrantTypes, NoGrantOp, RoleOp
    <2>2. Effective' = Effective /\ preset' = preset
      BY <1>7 DEF addGained, pullLost, Effective
    <2>3. \A p \in GrantOps \ {o} : gops'[p] = gops[p]
      BY <1>7 DEF addGained, pullLost, Step_, Leave, GrantTypes
    <2>4. /\ gops[o].at = "add" => /\ gops'[o] \in EditOp /\ gops'[o].at = "pull"
                                   /\ gops'[o].met = gops[o].met /\ gops'[o].new = gops[o].new
                                   /\ gops'[o].before = gops[o].before
          /\ gops[o].at = "pull" => gops'[o] = NoGrantOp
      BY <1>7, <2>1 DEF addGained, pullLost, Step_, Leave, GrantTypes, EditOp
    <2>5. gops[o].at \in {"add", "pull"}
      BY <1>7 DEF addGained, pullLost
    <2>6. ASSUME NEW m \in Members
          PROVE  /\ grants'[m] \in Account
                 /\ grants'[m].role = "user" => grants'[m] = grants[m]
                 /\ grants'[m].role = "mod" =>
                       /\ grants[m].role = "mod"
                       /\ grants[m].own \/ gops[o].met => grants'[m].own
                       /\ gops[o].at = "add" => grants'[m].perms = grants[m].perms \cup (gops[o].new \ gops[o].before)
                       /\ gops[o].at = "pull" => grants'[m].perms = grants[m].perms \ (gops[o].before \ gops[o].new)
      <3>1. grants[m] \in Account
        BY DEF GrantTypes
      <3>4. PICK own \in BOOLEAN : own = (grants[m].own \/ gops[o].met)
        OBVIOUS
      <3>2. CASE gops[o].at = "add"
        <4>1. grants'[m] = IF grants[m].role # "mod" THEN grants[m]
                           ELSE [grants[m] EXCEPT !.perms = (@ \cup (gops[o].new \ gops[o].before)) \ {}, !.own = @ \/ gops[o].met]
          BY <1>7, <3>2 DEF addGained, pullLost, Mods
        <4>2. grants'[m] = IF grants[m].role # "mod" THEN grants[m]
                           ELSE [role |-> grants[m].role, perms |-> grants[m].perms \cup (gops[o].new \ gops[o].before), own |-> own]
          BY <3>1, <3>4, <4>1 DEF Account
        <4> QED BY <2>1, <3>1, <3>2, <3>4, <4>2 DEF Account, EditOp
      <3>3. CASE gops[o].at = "pull"
        <4>1. grants'[m] = IF grants[m].role # "mod" THEN grants[m]
                           ELSE [grants[m] EXCEPT !.perms = (@ \cup {}) \ (gops[o].before \ gops[o].new), !.own = @ \/ gops[o].met]
          BY <1>7, <3>3 DEF addGained, pullLost, Mods
        <4>2. grants'[m] = IF grants[m].role # "mod" THEN grants[m]
                           ELSE [role |-> grants[m].role, perms |-> grants[m].perms \ (gops[o].before \ gops[o].new), own |-> own]
          BY <3>1, <3>4, <4>1 DEF Account
        <4> QED BY <2>1, <3>1, <3>3, <3>4, <4>2 DEF Account, EditOp
      <3> QED BY <2>5, <3>2, <3>3
    <2>7. GrantTypes'
      <3>1. grants' \in [Members -> Account]
        BY <1>7, <2>6 DEF addGained, pullLost, Mods
      <3>2. gops' \in [GrantOps -> {NoGrantOp} \cup RoleOp \cup EditOp]
        BY <1>7, <2>3, <2>4, <2>5 DEF addGained, pullLost, Step_, Leave, GrantTypes
      <3> QED BY <2>2, <3>1, <3>2 DEF GrantTypes
    <2>8. GrantsMeet' /\ ReadStillHolds'
      BY <2>2, <2>3, <2>4, <2>5 DEF GrantsMeet, ReadStillHolds, NoGrantOp
    <2>9. \A p \in GrantOps \ {o} : gops[p].at # "idle" => gops[p].met
      BY <2>5 DEF GrantsMeet
    <2>10. ~gops[o].met => gops[o].new = Effective
      BY <2>5 DEF ReadStillHolds
    <2>11. ~gops[o].met => \A m \in Members : ~grants[m].own /\ grants[m].role = "mod" => grants[m].perms = MidwayPerms(o)
      BY <2>5 DEF Carried, Carrying
    <2>12. \A m \in Members : ~grants'[m].own /\ grants'[m].role = "user" => grants'[m].perms = {}
      BY <2>6 DEF Carried
    <2>13. ASSUME NEW m \in Members, ~grants'[m].own, grants'[m].role = "mod"
           PROVE  /\ gops[o].at = "add" => grants'[m].perms = gops[o].before \cup gops[o].new
                  /\ gops[o].at = "pull" => grants'[m].perms = Effective
      <3>1. ~gops[o].met /\ ~grants[m].own /\ grants[m].role = "mod"
        BY <2>6, <2>13
      <3>2. grants[m].perms = MidwayPerms(o)
        BY <2>11, <3>1
      <3>3. CASE gops[o].at = "add"
        BY <2>6, <2>13, <3>2, <3>3 DEF MidwayPerms
      <3>4. CASE gops[o].at = "pull"
        BY <2>6, <2>10, <2>13, <3>1, <3>2, <3>4 DEF MidwayPerms
      <3> QED BY <2>5, <3>3, <3>4
    <2>14. CASE gops[o].at = "add"
      <3>1. Carrying(o)' /\ gops'[o].at = "pull" /\ gops'[o].before = gops[o].before /\ gops'[o].new = gops[o].new
        BY <2>4, <2>14 DEF Carrying
      <3>2. MidwayPerms(o)' = gops[o].before \cup gops[o].new
        BY <3>1 DEF MidwayPerms
      <3>3. \A p \in GrantOps \ {o} : Carrying(p)' => gops'[p].met
        BY <2>3, <2>9 DEF Carrying
      <3>4. Carried'
        BY <2>12, <2>13, <2>14, <3>1, <3>2, <3>3 DEF Carried
      <3> QED BY <2>7, <2>8, <3>4
    <2>15. CASE gops[o].at = "pull"
      BY <2>2, <2>3, <2>4, <2>7, <2>8, <2>9, <2>12, <2>13, <2>15 DEF Carried, Carrying, NoGrantOp
    <2> QED BY <2>5, <2>14, <2>15
  <1>8. CASE UNCHANGED grantVars
    <2>1. preset' = preset /\ grants' = grants /\ gops' = gops
      BY <1>8 DEF grantVars
    <2> QED BY <2>1 DEF GrantTypes, GrantsMeet, ReadStillHolds, Carried, Carrying, MidwayPerms, Effective
  <1> QED BY <1>1, <1>2, <1>3, <1>4, <1>5, <1>6, <1>7, <1>8 DEF GrantNext

(* With no handler under way, an account nobody set permissions of one by
   one holds exactly what its role's preset is (updateRolePreset,
   syncRolePermissions). *)
THEOREM GrantsFollowPresets == GrantSpec => []GrantsFollow
  <1>1. GrantInv => GrantsFollow
    <2> SUFFICES ASSUME GrantInv, GrantQuiet, NEW m \in Members, ~grants[m].own
                 PROVE  grants[m].perms = PresetOf(grants[m].role, Effective)
      BY DEF GrantsFollow
    <2>1. \A o \in GrantOps : ~Carrying(o)
      BY DEF GrantQuiet, Carrying
    <2>2. grants[m].role \in {"user", "mod"}
      BY DEF GrantInv, GrantTypes, Account
    <2> QED BY <2>1, <2>2 DEF GrantInv, Carried, PresetOf
  <1> QED BY <1>1, GrantBegins, GrantStepKeeps, PTL DEF GrantSpec

-----------------------------------------------------------------------------
(* Staff requests. *)
Row == [status : {"none", "pending", "approved", "rejected"}, issuer : Staffers \cup {Nobody}, runs : {0, 1}, dropped : BOOLEAN]
Calls ==
    [at : {"enqueue"}, request : Requests]
    \cup [at : {"claim", "execute", "release", "remove"}, request : Requests, decision : {"approve", "reject"}]
StaffTypes ==
    /\ rows \in [Requests -> Row]
    /\ sops \in [StaffOps -> {NoCall} \cup Calls]

OnIt(o, q, steps) == sops[o].at \in steps /\ sops[o].request = q
Executing(o, q) == OnIt(o, q, {"execute", "release"})
(* One claim wins, and its winner executes before anything else is done. *)
OneExecutes ==
    /\ \A q \in Requests, o, p \in StaffOps : Executing(o, q) /\ Executing(p, q) => o = p
    /\ \A q \in Requests, o \in StaffOps :
          Executing(o, q) => rows[q].status = "approved" /\ rows[q].runs = 0 /\ q \in queue
    /\ \A q \in Requests :
          /\ rows[q].runs = 1 => rows[q].status = "approved"
          /\ rows[q].status = "approved" /\ rows[q].runs = 0 /\ ~rows[q].dropped
             => \E o \in StaffOps : Executing(o, q)
(* Nobody decides on a request before it is in the queue, nor is it taken
   out of the queue before it is decided. *)
QueueFollows ==
    /\ \A q \in Requests, o, p \in StaffOps : OnIt(o, q, {"enqueue"}) /\ OnIt(p, q, {"enqueue"}) => o = p
    /\ \A q \in Requests, o \in StaffOps :
          /\ OnIt(o, q, {"enqueue"}) => q \notin listed /\ rows[q].status = "pending"
          /\ OnIt(o, q, {"claim", "execute", "release", "remove"}) => q \in listed
          /\ OnIt(o, q, {"remove"}) => rows[q].status = "rejected" \/ (rows[q].status = "approved" /\ rows[q].runs = 1)
    /\ \A q \in Requests :
          /\ rows[q].status = "none" => q \notin queue \cup listed
          /\ q \in queue /\ rows[q].status # "pending"
             => \E o \in StaffOps : OnIt(o, q, {"execute", "release", "remove"})
          /\ q \notin queue /\ rows[q].status = "pending" => \E o \in StaffOps : OnIt(o, q, {"enqueue"})
StaffInv == StaffTypes /\ OneExecutes /\ QueueFollows

LEMMA StaffBegins == StaffInit => StaffInv
  BY DEF StaffInit, StaffInv, StaffTypes, OneExecutes, QueueFollows, Executing, OnIt, NoRow, NoCall, Row

(* What a step of one handler about one request leaves alone. *)
OthersAs(o, q) ==
    /\ \A p \in StaffOps \ {o} : sops'[p] = sops[p]
    /\ \A x \in Requests \ {q} : rows'[x] = rows[x] /\ (x \in queue' <=> x \in queue) /\ (x \in listed' <=> x \in listed)

LEMMA RestartKeeps ==
    ASSUME StaffInv, restartStaff
    PROVE  StaffInv'
  <1> USE DEF StaffInv
  <1>1. \A o \in StaffOps : sops'[o] = NoCall
    BY DEF restartStaff
  <1>2. ASSUME NEW q \in Requests
        PROVE  /\ rows'[q] \in Row
               /\ rows'[q].status = rows[q].status /\ rows'[q].runs = rows[q].runs
               /\ rows[q].dropped => rows'[q].dropped
               /\ (\E o \in StaffOps : Executing(o, q)) => rows'[q].dropped
    <2>1. rows[q] \in Row
      BY DEF StaffTypes
    <2>2. PICK d \in BOOLEAN : d = (rows[q].dropped \/ \E o \in StaffOps : sops[o].at \in {"execute", "release"} /\ sops[o].request = q)
      OBVIOUS
    <2>3. rows'[q] = [rows[q] EXCEPT !.dropped = d]
      BY <2>2 DEF restartStaff
    <2>4. /\ rows'[q] \in Row
          /\ rows'[q].status = rows[q].status /\ rows'[q].runs = rows[q].runs
          /\ rows'[q].dropped = d
      BY <2>1, <2>3 DEF Row
    <2> QED BY <2>2, <2>4 DEF Executing, OnIt
  <1>3. queue' = Pending /\ listed' = listed \cup Pending
    BY DEF restartStaff
  <1>4. StaffTypes'
    BY <1>1, <1>2 DEF restartStaff, StaffTypes
  <1>5. \A o \in StaffOps, q \in Requests, steps \in {{"execute", "release"}, {"enqueue"}, {"remove"}, {"claim", "execute", "release", "remove"}, {"execute", "release", "remove"}} : ~OnIt(o, q, steps)'
    BY <1>1 DEF OnIt, NoCall
  <1>6. OneExecutes'
    BY <1>2, <1>5 DEF OneExecutes, Executing
  <1>7. QueueFollows'
    BY <1>2, <1>3, <1>5 DEF QueueFollows, Pending
  <1> QED BY <1>4, <1>6, <1>7

LEMMA StaffStepKeeps == StaffInv /\ [StaffNext]_staffVars => StaffInv'
  <1> SUFFICES ASSUME StaffInv, [StaffNext]_staffVars
               PROVE  StaffInv'
    OBVIOUS
  <1> USE DEF StaffInv
  <1>1. ASSUME NEW s \in Staffers, setPermitted(s)
        PROVE  StaffInv'
    BY <1>1 DEF setPermitted, StaffTypes, OneExecutes, QueueFollows, Executing, OnIt
  <1>2. CASE restartStaff
    BY <1>2, RestartKeeps
  <1>3. ASSUME NEW o \in StaffOps, NEW s \in Staffers, NEW q \in Requests, createRequest(o, s, q)
        PROVE  StaffInv'
    <2>1. sops[o].at = "idle" /\ sops' = [sops EXCEPT ![o] = [at |-> "enqueue", request |-> q]]
      BY <1>3 DEF createRequest, Open
    <2>2. rows[q] \in Row /\ rows[q].status = "none" /\ rows' = [rows EXCEPT ![q] = [rows[q] EXCEPT !.status = "pending", !.issuer = s]]
      BY <1>3 DEF createRequest, StaffTypes
    <2>3. rows'[q] \in Row /\ rows'[q].status = "pending" /\ rows'[q].runs = rows[q].runs
      BY <2>2 DEF StaffTypes, Row
    <2>4. OthersAs(o, q) /\ queue' = queue /\ listed' = listed
      BY <1>3, <2>1, <2>2 DEF OthersAs, createRequest, StaffTypes
    <2>5. StaffTypes'
      BY <2>1, <2>2, <2>3 DEF StaffTypes, Calls
    <2>6. sops'[o] = [at |-> "enqueue", request |-> q]
      BY <2>1 DEF StaffTypes
    <2>7. OneExecutes'
      BY <2>1, <2>2, <2>3, <2>4, <2>6 DEF OneExecutes, Executing, OnIt, OthersAs
    <2>8. QueueFollows'
      BY <2>1, <2>2, <2>3, <2>4, <2>6 DEF QueueFollows, OnIt, OthersAs
    <2> QED BY <2>5, <2>7, <2>8
  <1>4. ASSUME NEW o \in StaffOps, enqueueRequest(o)
        PROVE  StaffInv'
    <2>1. sops[o] \in Calls /\ sops[o].at = "enqueue"
      BY <1>4 DEF enqueueRequest, StaffTypes, NoCall
    <2>2. PICK q \in Requests : sops[o].request = q
      BY <2>1 DEF Calls
    <2>3. sops' = [sops EXCEPT ![o] = NoCall] /\ rows' = rows /\ queue' = queue \cup {q} /\ listed' = listed \cup {q}
      BY <1>4, <2>2 DEF enqueueRequest, Close
    <2>4. OthersAs(o, q) /\ sops'[o] = NoCall
      BY <2>3 DEF OthersAs, StaffTypes
    <2>5. StaffTypes'
      BY <2>3 DEF StaffTypes
    <2>6. OneExecutes'
      BY <2>1, <2>2, <2>3, <2>4 DEF OneExecutes, Executing, OnIt, OthersAs, NoCall
    <2>7. QueueFollows'
      BY <2>1, <2>2, <2>3, <2>4 DEF QueueFollows, OnIt, OthersAs, NoCall
    <2> QED BY <2>5, <2>6, <2>7
  <1>5. ASSUME NEW o \in StaffOps, NEW s \in Staffers, NEW q \in Requests, NEW d \in {"approve", "reject"},
               reviewRequest(o, s, q, d)
        PROVE  StaffInv'
    <2>1. sops[o].at = "idle" /\ sops' = [sops EXCEPT ![o] = [at |-> "claim", request |-> q, decision |-> d]]
      BY <1>5 DEF reviewRequest, Open
    <2>2. q \in listed /\ rows' = rows /\ queue' = queue /\ listed' = listed
      BY <1>5 DEF reviewRequest
    <2>3. OthersAs(o, q) /\ sops'[o] = [at |-> "claim", request |-> q, decision |-> d]
      BY <2>1, <2>2 DEF OthersAs, StaffTypes
    <2>4. StaffTypes'
      BY <2>1, <2>2 DEF StaffTypes, Calls
    <2>5. OneExecutes'
      BY <2>1, <2>2, <2>3 DEF OneExecutes, Executing, OnIt, OthersAs
    <2>6. QueueFollows'
      BY <2>1, <2>2, <2>3 DEF QueueFollows, OnIt, OthersAs
    <2> QED BY <2>4, <2>5, <2>6
  <1>6. ASSUME NEW o \in StaffOps, claim(o)
        PROVE  StaffInv'
    <2>1. sops[o] \in Calls /\ sops[o].at = "claim"
      BY <1>6 DEF claim, StaffTypes, NoCall
    <2>2. PICK q \in Requests : sops[o].request = q
      BY <2>1 DEF Calls
    <2>3. queue' = queue /\ listed' = listed /\ q \in listed
      BY <1>6, <2>1, <2>2 DEF claim, QueueFollows, OnIt
    <2>4. CASE rows[q].status = "pending"
      <3>1. PICK st \in {"approved", "rejected"} : /\ st = IF sops[o].decision = "approve" THEN "approved" ELSE "rejected"
        OBVIOUS
      <3>2. PICK at \in {"execute", "remove"} : /\ at = IF sops[o].decision = "approve" THEN "execute" ELSE "remove"
        OBVIOUS
      <3>3. rows' = [rows EXCEPT ![q].status = st] /\ sops' = [sops EXCEPT ![o].at = at]
        BY <1>6, <2>2, <2>4, <3>1, <3>2 DEF claim, Claimable, Continue
      <3>4. rows[q] \in Row
        BY DEF StaffTypes
      <3>5. rows'[q] \in Row /\ rows'[q].status = st /\ rows'[q].runs = rows[q].runs /\ rows'[q].dropped = rows[q].dropped
        BY <3>3, <3>4 DEF StaffTypes, Row
      <3>6. sops'[o] \in Calls /\ sops'[o].at = at /\ sops'[o].request = q
        BY <2>1, <2>2, <3>3 DEF StaffTypes, Calls
      <3>7. OthersAs(o, q)
        BY <2>3, <3>3 DEF OthersAs, StaffTypes
      <3>8. StaffTypes'
        BY <3>3, <3>5, <3>6 DEF StaffTypes
      <3>9. (st = "approved" <=> at = "execute") /\ q \in queue /\ rows[q].runs = 0
        <4>1. q \in queue
          BY <2>3, <2>4 DEF QueueFollows
        <4>2. rows[q].runs = 0
          BY <2>4, <3>4 DEF OneExecutes, Row
        <4> QED BY <3>1, <3>2, <4>1, <4>2
      <3>10. OneExecutes'
        BY <2>1, <2>3, <2>4, <3>5, <3>6, <3>7, <3>9 DEF OneExecutes, Executing, OnIt, OthersAs
      <3>11. QueueFollows'
        BY <2>1, <2>2, <2>3, <2>4, <3>5, <3>6, <3>7, <3>9 DEF QueueFollows, OnIt, OthersAs
      <3> QED BY <3>8, <3>10, <3>11
    <2>5. CASE rows[q].status # "pending"
      <3>1. rows' = rows /\ sops' = [sops EXCEPT ![o] = NoCall]
        BY <1>6, <2>2, <2>5 DEF claim, Claimable, Close
      <3>2. OthersAs(o, q) /\ sops'[o] = NoCall
        BY <2>3, <3>1 DEF OthersAs, StaffTypes
      <3>3. StaffTypes'
        BY <3>1 DEF StaffTypes
      <3>4. OneExecutes'
        BY <2>1, <2>3, <3>1, <3>2 DEF OneExecutes, Executing, OnIt, OthersAs, NoCall
      <3>5. QueueFollows'
        BY <2>1, <2>2, <2>3, <3>1, <3>2 DEF QueueFollows, OnIt, OthersAs, NoCall
      <3> QED BY <3>3, <3>4, <3>5
    <2> QED BY <2>4, <2>5
  <1>7. ASSUME NEW o \in StaffOps, execute(o)
        PROVE  StaffInv'
    <2>1. sops[o] \in Calls /\ sops[o].at = "execute"
      BY <1>7 DEF execute, StaffTypes, NoCall
    <2>2. PICK q \in Requests : sops[o].request = q
      BY <2>1 DEF Calls
    <2>3. rows[q] \in Row /\ rows[q].runs = 0 /\ rows[q].status = "approved" /\ q \in queue
      BY <2>1, <2>2 DEF OneExecutes, Executing, OnIt, StaffTypes
    <2>4. rows' = [rows EXCEPT ![q].runs = @ + 1] /\ sops' = [sops EXCEPT ![o].at = "remove"] /\ queue' = queue /\ listed' = listed
      BY <1>7, <2>2 DEF execute, Continue
    <2>5. rows'[q] \in Row /\ rows'[q].status = "approved" /\ rows'[q].runs = 1
      BY <2>3, <2>4 DEF StaffTypes, Row
    <2>6. sops'[o] \in Calls /\ sops'[o].at = "remove" /\ sops'[o].request = q
      BY <2>1, <2>2, <2>4 DEF StaffTypes, Calls
    <2>7. OthersAs(o, q)
      BY <2>4 DEF OthersAs, StaffTypes
    <2>8. StaffTypes'
      BY <2>4, <2>5, <2>6 DEF StaffTypes
    <2>9. \A p \in StaffOps \ {o} : ~Executing(p, q)
      BY <2>1, <2>2 DEF OneExecutes, Executing, OnIt
    <2>10. OneExecutes'
      BY <2>1, <2>2, <2>4, <2>5, <2>6, <2>7, <2>9 DEF OneExecutes, Executing, OnIt, OthersAs
    <2>11. QueueFollows'
      BY <2>1, <2>2, <2>3, <2>4, <2>5, <2>6, <2>7 DEF QueueFollows, OnIt, OthersAs
    <2> QED BY <2>8, <2>10, <2>11
  <1>8. ASSUME NEW o \in StaffOps, executeFails(o)
        PROVE  StaffInv'
    <2>1. sops[o] \in Calls /\ sops[o].at = "execute"
      BY <1>8 DEF executeFails, StaffTypes, NoCall
    <2>2. PICK q \in Requests : sops[o].request = q
      BY <2>1 DEF Calls
    <2>3. sops' = [sops EXCEPT ![o].at = "release"] /\ rows' = rows /\ queue' = queue /\ listed' = listed
      BY <1>8 DEF executeFails, Continue
    <2>4. sops'[o] \in Calls /\ sops'[o].at = "release" /\ sops'[o].request = q
      BY <2>1, <2>2, <2>3 DEF StaffTypes, Calls
    <2>5. OthersAs(o, q)
      BY <2>3 DEF OthersAs, StaffTypes
    <2>6. StaffTypes'
      BY <2>3, <2>4 DEF StaffTypes
    <2>7. OneExecutes'
      BY <2>1, <2>2, <2>3, <2>4, <2>5 DEF OneExecutes, Executing, OnIt, OthersAs
    <2>8. QueueFollows'
      BY <2>1, <2>2, <2>3, <2>4, <2>5 DEF QueueFollows, OnIt, OthersAs
    <2> QED BY <2>6, <2>7, <2>8
  <1>9. ASSUME NEW o \in StaffOps, release(o)
        PROVE  StaffInv'
    <2>1. sops[o] \in Calls /\ sops[o].at = "release"
      BY <1>9 DEF release, StaffTypes, NoCall
    <2>2. PICK q \in Requests : sops[o].request = q
      BY <2>1 DEF Calls
    <2>3. rows[q] \in Row /\ rows[q].runs = 0 /\ rows[q].status = "approved" /\ q \in queue
      BY <2>1, <2>2 DEF OneExecutes, Executing, OnIt, StaffTypes
    <2>4. rows' = [rows EXCEPT ![q].status = "pending"] /\ sops' = [sops EXCEPT ![o] = NoCall] /\ queue' = queue /\ listed' = listed
      BY <1>9, <2>2, <2>3 DEF release, Close
    <2>5. rows'[q] \in Row /\ rows'[q].status = "pending" /\ rows'[q].runs = 0
      BY <2>3, <2>4 DEF StaffTypes, Row
    <2>6. OthersAs(o, q) /\ sops'[o] = NoCall
      BY <2>4 DEF OthersAs, StaffTypes
    <2>7. StaffTypes'
      BY <2>4, <2>5 DEF StaffTypes
    <2>8. \A p \in StaffOps \ {o} : ~Executing(p, q)
      BY <2>1, <2>2 DEF OneExecutes, Executing, OnIt
    <2>9. OneExecutes'
      BY <2>1, <2>2, <2>4, <2>5, <2>6, <2>8 DEF OneExecutes, Executing, OnIt, OthersAs, NoCall
    <2>10. \A p \in StaffOps : ~OnIt(p, q, {"enqueue"}) /\ ~OnIt(p, q, {"remove"})
      BY <2>1, <2>2, <2>3 DEF QueueFollows, OnIt
    <2>11. QueueFollows'
      BY <2>1, <2>2, <2>3, <2>4, <2>5, <2>6, <2>10 DEF QueueFollows, OnIt, OthersAs, NoCall
    <2> QED BY <2>7, <2>9, <2>11
  <1>10. ASSUME NEW o \in StaffOps, removeRequest(o)
         PROVE  StaffInv'
    <2>1. sops[o] \in Calls /\ sops[o].at = "remove"
      BY <1>10 DEF removeRequest, StaffTypes, NoCall
    <2>2. PICK q \in Requests : sops[o].request = q
      BY <2>1 DEF Calls
    <2>3. sops' = [sops EXCEPT ![o] = NoCall] /\ rows' = rows /\ queue' = queue \ {q} /\ listed' = listed
      BY <1>10, <2>2 DEF removeRequest, Close
    <2>4. OthersAs(o, q) /\ sops'[o] = NoCall
      BY <2>3 DEF OthersAs, StaffTypes
    <2>5. StaffTypes'
      BY <2>3 DEF StaffTypes
    <2>6. rows[q].status # "pending" /\ \A p \in StaffOps : ~Executing(p, q)
      BY <2>1, <2>2 DEF QueueFollows, OneExecutes, Executing, OnIt
    <2>7. OneExecutes'
      BY <2>1, <2>2, <2>3, <2>4, <2>6 DEF OneExecutes, Executing, OnIt, OthersAs, NoCall
    <2>8. QueueFollows'
      BY <2>1, <2>2, <2>3, <2>4, <2>6 DEF QueueFollows, OnIt, OthersAs, NoCall
    <2> QED BY <2>5, <2>7, <2>8
  <1>11. CASE UNCHANGED staffVars
    BY <1>11 DEF staffVars, StaffTypes, OneExecutes, QueueFollows, Executing, OnIt
  <1> QED BY <1>1, <1>2, <1>3, <1>4, <1>5, <1>6, <1>7, <1>8, <1>9, <1>10, <1>11 DEF StaffNext

(* The action of a request goes through at most once, whoever decides and
   whatever fails, and with nobody at work on it the queue holds it while
   it is pending (reviewRequest, request.queue.ts). *)
THEOREM RequestsRunOnce == StaffSpec => []RequestsOnce
  <1>1. StaffInv => RequestsOnce
    <2> SUFFICES ASSUME StaffInv, NEW q \in Requests
                 PROVE  /\ rows[q].runs <= 1
                        /\ rows[q].runs = 1 => rows[q].status = "approved"
                        /\ ~AtWork(q) =>
                              /\ rows[q].status = "approved" /\ ~rows[q].dropped => rows[q].runs = 1
                              /\ q \in queue <=> rows[q].status = "pending"
      BY DEF RequestsOnce
    <2>1. rows[q].runs \in {0, 1}
      BY DEF StaffInv, StaffTypes, Row
    <2>2. \A o \in StaffOps, steps \in {{"execute", "release"}, {"enqueue"}, {"execute", "release", "remove"}} :
             ~AtWork(q) => ~OnIt(o, q, steps)
      BY DEF AtWork, OnIt
    <2> QED BY <2>1, <2>2 DEF StaffInv, OneExecutes, QueueFollows, Executing
  <1> QED BY <1>1, StaffBegins, StaffStepKeeps, PTL DEF StaffSpec

-----------------------------------------------------------------------------
(* The comments of a wall: what waits for approval. *)
OpShape(op) ==
    /\ {"at", "met"} \subseteq DOMAIN op /\ op.met \in BOOLEAN
    /\ op.at = "post" => {"author", "text", "held"} \subseteq DOMAIN op
    /\ op.at = "edit" => {"comment", "text", "held"} \subseteq DOMAIN op
DocShape(c) ==
    /\ "exists" \in DOMAIN c /\ c.exists \in BOOLEAN
    /\ c.exists => {"author", "text", "status", "cleared"} \subseteq DOMAIN c
WallShape ==
    /\ DOMAIN ops = WallOps /\ \A o \in WallOps : OpShape(ops[o])
    /\ DOMAIN comments = CommentIds /\ \A c \in CommentIds : DocShape(comments[c])
(* Two handlers under way have met each other. *)
WallMeet == \A o, p \in WallOps : o # p /\ Active(o) /\ Active(p) => ops[o].met
(* A comment about to be posted is held if it must be, ... *)
PostHeld(op) == op.at = "post" /\ op.author # Owner /\ op.text = "muted" => op.held
(* ... and so is an edit, if nothing came between. *)
EditHeld(op) ==
    op.at = "edit" /\ ~op.met /\ op.text = "muted" /\ Exists(op.comment)
        /\ comments[op.comment].status = "visible" /\ comments[op.comment].author # Owner => op.held
WallHeld == \A o \in WallOps : PostHeld(ops[o]) /\ EditHeld(ops[o])
Waits(c) ==
    c.exists /\ c.status = "visible" /\ c.author # Owner /\ c.text = "muted" => c.cleared
AllWait == \A c \in CommentIds : Waits(comments[c])
WallInv == WallShape /\ WallMeet /\ WallHeld /\ AllWait

LEMMA IdleOp == OpShape(Idle) /\ Idle.at = "idle"
  BY DEF Idle, OpShape

LEMMA NoDoc == DocShape(NoComment) /\ Waits(NoComment)
  BY DEF DocShape, Waits, NoComment

LEMMA WallBegins == WallInit => WallInv
  <1> SUFFICES ASSUME WallInit
               PROVE  WallInv
    OBVIOUS
  <1>1. \A o \in WallOps : ops[o] = [at |-> "idle", met |-> FALSE]
    BY DEF WallInit, Idle
  <1>2. \A c \in CommentIds : comments[c] = [exists |-> FALSE]
    BY DEF WallInit, NoComment
  <1>3. WallShape
    <2>1. \A o \in WallOps : OpShape(ops[o])
      BY IdleOp DEF WallInit
    <2>2. \A c \in CommentIds : DocShape(comments[c])
      BY NoDoc DEF WallInit
    <2>3. DOMAIN ops = WallOps /\ DOMAIN comments = CommentIds
      BY DEF WallInit
    <2> QED BY <2>1, <2>2, <2>3 DEF WallShape
  <1>4. WallMeet /\ WallHeld
    BY <1>1 DEF WallMeet, Active, WallHeld, PostHeld, EditHeld
  <1>5. AllWait
    BY <1>2 DEF AllWait, Waits
  <1> QED BY <1>3, <1>4, <1>5 DEF WallInv

(* A handler that begins meets those under way, and only reads. *)
LEMMA StartKeeps ==
    ASSUME WallInv, NEW o \in WallOps, NEW op, Start(o, op),
           "at" \in DOMAIN op, op.at # "idle",
           op.at = "post" => {"author", "text", "held"} \subseteq DOMAIN op,
           op.at = "edit" => {"comment", "text", "held"} \subseteq DOMAIN op,
           PostHeld(op), op.at = "edit" /\ op.text = "muted" => op.held = HeldByEdit(op.comment, op.text),
           UNCHANGED comments
    PROVE  WallInv'
  <1> DEFINE busy == \E y \in WallOps : Active(y)
  <1>1. ~Active(o) /\ DOMAIN ops' = WallOps
    BY DEF Start
  <1>2. PICK h : h = Having(busy, op)
    OBVIOUS
  <1>3. ops'[o] = h
    BY <1>2 DEF Start
  <1>4. PICK b \in BOOLEAN : b = busy
    OBVIOUS
  <1>5. /\ DOMAIN h = DOMAIN op \cup {"met"} /\ h.met = b /\ h.at = op.at
        /\ op.at = "post" => h.author = op.author /\ h.text = op.text /\ h.held = op.held
        /\ op.at = "edit" => h.comment = op.comment /\ h.text = op.text /\ h.held = op.held
    <2>1. "at" \in DOMAIN op /\ h.at = op.at /\ DOMAIN h = DOMAIN op \cup {"met"} /\ h.met = b
      BY <1>2, <1>4 DEF Having
    <2>2. op.at = "post" => h.author = op.author /\ h.text = op.text /\ h.held = op.held
      BY <1>2 DEF Having
    <2>3. op.at = "edit" => h.comment = op.comment /\ h.text = op.text /\ h.held = op.held
      BY <1>2 DEF Having
    <2> QED BY <2>1, <2>2, <2>3
  <1>6. OpShape(h)
    BY <1>5 DEF OpShape
  <1>7. ASSUME NEW p \in WallOps, p # o
        PROVE  /\ OpShape(ops'[p]) /\ ops'[p].at = ops[p].at
               /\ Active(p) => ops'[p].met
               /\ ops[p].at = "post" => /\ ops'[p].author = ops[p].author /\ ops'[p].text = ops[p].text
                                        /\ ops'[p].held = ops[p].held
    <2>1. ops'[p] = IF Active(p) THEN [ops[p] EXCEPT !.met = TRUE] ELSE ops[p]
      BY <1>7 DEF Start
    <2>2. OpShape(ops[p])
      BY DEF WallInv, WallShape
    <2> QED BY <2>1, <2>2 DEF OpShape
  <1>8. WallShape'
    BY <1>1, <1>3, <1>6, <1>7 DEF WallInv, WallShape
  <1>9. WallMeet'
    <2> SUFFICES ASSUME NEW p \in WallOps, NEW q \in WallOps, p # q, Active(p)', Active(q)'
                 PROVE  ops'[p].met
      BY DEF WallMeet
    <2>1. CASE p = o
      <3>1. Active(q)
        BY <2>1, <1>7 DEF Active
      <3> QED BY <3>1, <2>1, <1>3, <1>4, <1>5
    <2>2. CASE p # o
      BY <2>2, <1>7 DEF Active
    <2> QED BY <2>1, <2>2
  <1>10. WallHeld'
    <2> SUFFICES ASSUME NEW p \in WallOps
                 PROVE  PostHeld(ops[p])' /\ EditHeld(ops[p])'
      BY DEF WallHeld
    <2>1. CASE p = o
      <3>1. PostHeld(ops[p])'
        BY <2>1, <1>3, <1>5 DEF PostHeld
      <3>2. EditHeld(ops[p])'
        BY <2>1, <1>3, <1>5 DEF EditHeld, HeldByEdit, Exists
      <3> QED BY <3>1, <3>2
    <2>2. CASE p # o
      <3>1. PostHeld(ops[p])'
        BY <2>2, <1>7 DEF PostHeld, WallInv, WallHeld
      <3>2. EditHeld(ops[p])'
        BY <2>2, <1>7 DEF EditHeld, Active
      <3> QED BY <3>1, <3>2
    <2> QED BY <2>1, <2>2
  <1>11. AllWait'
    BY DEF WallInv, AllWait, Waits
  <1> QED BY <1>8, <1>9, <1>10, <1>11 DEF WallInv

(* A step of a handler under way: whoever else is has met it. *)
LEMMA StepKeeps ==
    ASSUME WallInv, NEW o \in WallOps, NEW op, Active(o), ops' = [ops EXCEPT ![o] = op],
           OpShape(op), op.at \notin {"post", "edit"}, op.at # "idle" => op.met = ops[o].met,
           DOMAIN comments' = CommentIds,
           \A c \in CommentIds : DocShape(comments'[c]) /\ Waits(comments'[c])
    PROVE  WallInv'
  <1>1. DOMAIN ops' = WallOps /\ ops'[o] = op /\ \A p \in WallOps \ {o} : ops'[p] = ops[p]
    BY DEF WallInv, WallShape
  <1>2. WallShape'
    BY <1>1 DEF WallInv, WallShape
  <1>3. WallMeet'
    BY <1>1 DEF WallInv, WallMeet, Active
  <1>4. WallHeld'
    <2> SUFFICES ASSUME NEW p \in WallOps
                 PROVE  PostHeld(ops[p])' /\ EditHeld(ops[p])'
      BY DEF WallHeld
    <2>1. CASE p = o
      BY <2>1, <1>1 DEF PostHeld, EditHeld
    <2>2. CASE p # o
      <3>1. Active(p) => ops[p].met
        BY <2>2 DEF WallInv, WallMeet
      <3>2. ops'[p] = ops[p] /\ PostHeld(ops[p])
        BY <2>2, <1>1 DEF WallInv, WallHeld
      <3> QED BY <3>1, <3>2 DEF PostHeld, EditHeld, Active
    <2> QED BY <2>1, <2>2
  <1>5. AllWait'
    BY DEF AllWait
  <1> QED BY <1>2, <1>3, <1>4, <1>5 DEF WallInv

LEMMA PostingKeeps == WallInv /\ Posting({"plain", "muted"}, BOOLEAN) => WallInv'
  <1> SUFFICES ASSUME WallInv, NEW o \in WallOps,
                      \/ \E a \in Authors, text \in {"plain", "muted"}, hold \in BOOLEAN, c \in {0} \cup CommentIds :
                            addComment(o, a, text, hold, c)
                      \/ createComment(o)
               PROVE  WallInv'
    BY DEF Posting
  <1>1. CASE \E a \in Authors, text \in {"plain", "muted"}, hold \in BOOLEAN, c \in {0} \cup CommentIds :
               addComment(o, a, text, hold, c)
    <2>1. PICK a \in Authors, text \in {"plain", "muted"}, hold \in BOOLEAN, c \in {0} \cup CommentIds :
            addComment(o, a, text, hold, c)
      BY <1>1
    <2>2. PICK held \in BOOLEAN : held = holdReason(a, text, hold)
      BY DEF holdReason
    <2>3. PICK parent : parent = IF c = 0 THEN 0 ELSE Parent(c)
      OBVIOUS
    <2>4. PICK depth : depth = IF c = 0 THEN 0 ELSE comments[Parent(c)].depth + 1
      OBVIOUS
    <2>5. PICK op : op = [at |-> "post", author |-> a, text |-> text, held |-> held,
                          parent |-> parent, depth |-> depth]
      OBVIOUS
    <2>6. Start(o, op) /\ UNCHANGED comments
      BY <2>1, <2>2, <2>3, <2>4, <2>5 DEF addComment
    <2>7. op.at = "post" /\ {"at", "author", "text", "held"} \subseteq DOMAIN op
      BY <2>5
    <2>8. PostHeld(op)
      BY <2>2, <2>5 DEF PostHeld, holdReason
    <2> QED BY <2>6, <2>7, <2>8, StartKeeps
  <1>2. CASE createComment(o)
    <2>1. Active(o) /\ OpShape(ops[o]) /\ PostHeld(ops[o]) /\ ops[o].at = "post"
      BY <1>2 DEF createComment, At, Active, WallInv, WallShape, WallHeld
    <2>2. PICK doc : doc = [exists |-> TRUE, author |-> ops[o].author, parent |-> ops[o].parent,
                            depth |-> ops[o].depth, text |-> ops[o].text,
                            status |-> IF ops[o].held THEN "pending" ELSE "visible",
                            deleted |-> "no", pinned |-> "no", cleared |-> FALSE, by |-> Mark(o)]
      OBVIOUS
    <2>3. comments' = [comments EXCEPT ![posted + 1] = doc]
      BY <1>2, <2>2 DEF createComment
    <2>4. DocShape(doc) /\ Waits(doc)
      BY <2>1, <2>2 DEF DocShape, Waits, PostHeld
    <2>5. /\ DOMAIN comments' = CommentIds
          /\ \A c \in CommentIds : DocShape(comments'[c]) /\ Waits(comments'[c])
      BY <2>3, <2>4 DEF WallInv, WallShape, AllWait
    <2>6. OpShape(Idle) /\ Idle.at = "idle" /\ ops' = [ops EXCEPT ![o] = Idle]
      BY <1>2 DEF createComment, Finish, Idle, OpShape
    <2> QED BY <2>1, <2>5, <2>6, StepKeeps
  <1> QED BY <1>1, <1>2

(* A deletion reads the comment and whether anything is below it. *)
LEMMA DeletionIs ==
    ASSUME NEW self, NEW c, NEW todo
    PROVE  /\ Deletion(self, c, todo).at \in {"wipe", "doom"}
           /\ "at" \in DOMAIN Deletion(self, c, todo)
  BY DEF Deletion

LEMMA SameDocs ==
    WallInv /\ UNCHANGED comments =>
        /\ DOMAIN comments' = CommentIds
        /\ \A c \in CommentIds : DocShape(comments'[c]) /\ Waits(comments'[c])
  BY DEF WallInv, WallShape, AllWait

LEMMA OthersShape ==
    ASSUME WallInv, NEW o \in WallOps
    PROVE  OpShape(ops[o])
  BY DEF WallInv, WallShape

LEMMA DeletingKeeps == WallInv /\ Deleting => WallInv'
  <1> SUFFICES ASSUME WallInv, NEW o \in WallOps,
                      \/ \E c \in CommentIds, who \in Authors \cup {Staff} : deleteComment(o, who, c)
                      \/ wipe(o) \/ collect(o) \/ deleteThread(o) \/ deleteLikes(o) \/ climb(o) \/ dropPlaceholder(o)
               PROVE  WallInv'
    BY DEF Deleting
  <1>0. OpShape(ops[o])
    BY OthersShape
  <1>1. ASSUME NEW c \in CommentIds, NEW who \in Authors \cup {Staff}, deleteComment(o, who, c)
        PROVE  WallInv'
    <2>1. PICK op : op = Deletion(who = comments[c].author, c, {})
      OBVIOUS
    <2>2. op.at \in {"wipe", "doom"} /\ "at" \in DOMAIN op
      BY <2>1, DeletionIs
    <2>3. Start(o, op) /\ UNCHANGED comments
      BY <1>1, <2>1 DEF deleteComment
    <2> QED BY <2>2, <2>3, StartKeeps DEF PostHeld
  <1>2. CASE wipe(o)
    <2>1. PICK op : op = [ops[o] EXCEPT !.at = "unlike"]
      OBVIOUS
    <2>2. Active(o) /\ OpShape(op) /\ op.at = "unlike" /\ op.met = ops[o].met /\ ops' = [ops EXCEPT ![o] = op]
      BY <1>0, <1>2, <2>1 DEF wipe, At, Active, Goto, OpShape
    <2>3. \A c \in CommentIds : comments'[c] = comments[c] \/ comments'[c] = Wiped(comments[c], Mark(o)) 
      BY <1>2 DEF wipe
    <2>4. \A c \in CommentIds : DocShape(Wiped(comments[c], Mark(o))) /\ Waits(Wiped(comments[c], Mark(o)))
      BY DEF WallInv, WallShape, DocShape, Waits, Wiped
    <2>5. DOMAIN comments' = CommentIds
      BY <1>2 DEF wipe
    <2>6. \A c \in CommentIds : DocShape(comments'[c]) /\ Waits(comments'[c])
      BY <2>3, <2>4 DEF WallInv, WallShape, AllWait
    <2> QED BY <2>2, <2>5, <2>6, StepKeeps
  <1>3. CASE collect(o)
    <2>b. PICK below : below = {c \in ChildrenOf(ops[o].doomed) : comments[c].depth = ops[o].level + 1}
      OBVIOUS
    <2>1. PICK op : op = [ops[o] EXCEPT !.doomed = @ \cup below, !.level = IF below = {} THEN Deepest ELSE @ + 1]
      OBVIOUS
    <2>2. Active(o) /\ ops[o].at = "doom" /\ ops' = [ops EXCEPT ![o] = op] /\ UNCHANGED comments
      BY <1>3, <2>1, <2>b DEF collect, At, Active, Goto
    <2>3. OpShape(op) /\ op.at = "doom" /\ op.met = ops[o].met
      BY <1>0, <2>1, <2>2 DEF OpShape
    <2> QED BY <2>2, <2>3, StepKeeps, SameDocs
  <1>4. CASE deleteThread(o)
    <2>1. PICK op : op = [ops[o] EXCEPT !.at = "unlike"]
      OBVIOUS
    <2>2. Active(o) /\ OpShape(op) /\ op.at = "unlike" /\ op.met = ops[o].met /\ ops' = [ops EXCEPT ![o] = op]
      BY <1>0, <1>4, <2>1 DEF deleteThread, At, Active, Goto, OpShape
    <2>4. /\ DOMAIN comments' = CommentIds
          /\ \A c \in CommentIds : DocShape(comments'[c]) /\ Waits(comments'[c])
      BY <1>4, NoDoc DEF deleteThread, WallInv, WallShape, AllWait
    <2> QED BY <2>2, <2>4, StepKeeps
  <1>5. ASSUME ops' = [ops EXCEPT ![o] = AfterDeletion(o)], Active(o), UNCHANGED comments
        PROVE  WallInv'
    <2>1. PICK op : op = AfterDeletion(o)
      OBVIOUS
    <2>2. OpShape(op) /\ op.at \in {"idle", "purge"} /\ (op.at = "purge" => op.met = ops[o].met)
      BY <1>0, <2>1 DEF AfterDeletion, OpShape, Idle
    <2> QED BY <1>5, <2>1, <2>2, StepKeeps, SameDocs
  <1>6. CASE deleteLikes(o)
    <2>1. CASE ops[o].parent = 0
      BY <1>5, <1>6, <2>1 DEF deleteLikes, At, Active
    <2>2. CASE ops[o].parent # 0
      <3>1. PICK op : op = [ops[o] EXCEPT !.at = "climb"]
        OBVIOUS
      <3>2. Active(o) /\ OpShape(op) /\ op.at = "climb" /\ op.met = ops[o].met /\ ops' = [ops EXCEPT ![o] = op]
        BY <1>0, <1>6, <2>2, <3>1 DEF deleteLikes, At, Active, OpShape
      <3>3. UNCHANGED comments
        BY <1>6 DEF deleteLikes
      <3> QED BY <3>2, <3>3, StepKeeps, SameDocs
    <2> QED BY <2>1, <2>2
  <1>7. CASE climb(o)
    <2> DEFINE p == ops[o].parent
    <2>1. CASE Exists(p) /\ ~Live(p) /\ ChildrenOf({p}) = {}
      <3>1. PICK op : op = [ops[o] EXCEPT !.at = "drop", !.above = Above(p)]
        OBVIOUS
      <3>2. ops' = [ops EXCEPT ![o] = op] /\ Active(o) /\ UNCHANGED comments
        BY <1>7, <2>1, <3>1 DEF climb, At, Active
      <3>3. OpShape(op) /\ op.at = "drop" /\ op.met = ops[o].met
        BY <1>0, <3>1 DEF OpShape
      <3> QED BY <3>2, <3>3, StepKeeps, SameDocs
    <2>2. CASE ~(Exists(p) /\ ~Live(p) /\ ChildrenOf({p}) = {})
      BY <1>5, <1>7, <2>2 DEF climb, At, Active
    <2> QED BY <2>1, <2>2
  <1>8. CASE dropPlaceholder(o)
    <2>1. PICK op : op = [ops[o] EXCEPT !.at = "climb", !.parent = ops[o].above]
      OBVIOUS
    <2>2. Active(o) /\ OpShape(op) /\ op.at = "climb" /\ op.met = ops[o].met /\ ops' = [ops EXCEPT ![o] = op]
      BY <1>0, <1>8, <2>1 DEF dropPlaceholder, At, Active, Goto, OpShape
    <2>4. /\ DOMAIN comments' = CommentIds
          /\ \A c \in CommentIds : DocShape(comments'[c]) /\ Waits(comments'[c])
      BY <1>8, NoDoc DEF dropPlaceholder, WallInv, WallShape, AllWait
    <2> QED BY <2>2, <2>4, StepKeeps
  <1> QED BY <1>1, <1>2, <1>3, <1>4, <1>6, <1>7, <1>8

LEMMA PurgingKeeps == WallInv /\ Purging => WallInv'
  <1> SUFFICES ASSUME WallInv, NEW o \in WallOps,
                      \/ \E who \in {Owner, Staff}, a \in Authors : purgeAuthorComments(o, who, a)
                      \/ purgeNext(o)
               PROVE  WallInv'
    BY DEF Purging
  <1>1. ASSUME NEW who \in {Owner, Staff}, NEW a \in Authors, purgeAuthorComments(o, who, a)
        PROVE  WallInv'
    <2>1. PICK op : op = [at |-> "purge", self |-> who = a,
                          todo |-> {c \in CommentIds : Exists(c) /\ comments[c].author = a}]
      OBVIOUS
    <2>2. Start(o, op) /\ UNCHANGED comments
      BY <1>1, <2>1 DEF purgeAuthorComments
    <2>3. op.at = "purge" /\ "at" \in DOMAIN op
      BY <2>1
    <2> QED BY <2>2, <2>3, StartKeeps DEF PostHeld
  <1>2. CASE purgeNext(o)
    <2>0. OpShape(ops[o]) /\ Active(o) /\ UNCHANGED comments /\ ops[o].at = "purge"
      BY <1>2, OthersShape DEF purgeNext, At, Active
    <2>1. PICK c \in ops[o].todo : ops' = [ops EXCEPT ![o] =
             IF Live(c) THEN Having(@.met, Deletion(@.self, c, ops[o].todo \ {c}))
             ELSE IF ops[o].todo \ {c} = {} THEN Idle ELSE [@ EXCEPT !.todo = ops[o].todo \ {c}]]
      BY <1>2 DEF purgeNext
    <2>2. CASE Live(c)
      <3>1. PICK d : d = Deletion(ops[o].self, c, ops[o].todo \ {c})
        OBVIOUS
      <3>2. d.at \in {"wipe", "doom"} /\ "at" \in DOMAIN d
        BY <3>1, DeletionIs
      <3>3. PICK op : op = Having(ops[o].met, d)
        OBVIOUS
      <3>4. op.at = d.at /\ op.met = ops[o].met /\ OpShape(op)
        BY <2>0, <3>2, <3>3 DEF Having, OpShape
      <3>5. ops' = [ops EXCEPT ![o] = op]
        BY <2>1, <2>2, <3>1, <3>3
      <3> QED BY <2>0, <3>2, <3>4, <3>5, StepKeeps, SameDocs
    <2>3. CASE ~Live(c) /\ ops[o].todo \ {c} = {}
      BY <2>0, <2>1, <2>3, IdleOp, StepKeeps, SameDocs
    <2>4. CASE ~Live(c) /\ ops[o].todo \ {c} # {}
      <3>1. PICK op : op = [ops[o] EXCEPT !.todo = ops[o].todo \ {c}]
        OBVIOUS
      <3>2. op.at = "purge" /\ op.met = ops[o].met /\ OpShape(op)
        BY <2>0, <3>1 DEF OpShape
      <3>3. ops' = [ops EXCEPT ![o] = op]
        BY <2>1, <2>4, <3>1
      <3> QED BY <2>0, <3>2, <3>3, StepKeeps, SameDocs
    <2> QED BY <2>2, <2>3, <2>4
  <1> QED BY <1>1, <1>2

(* A handler that ends, its comment as it was or as it may be. *)
LEMMA EndKeeps ==
    ASSUME WallInv, NEW o \in WallOps, Active(o), Finish(o), NEW c, NEW doc,
           DocShape(doc), Waits(doc),
           comments' = comments \/ comments' = [comments EXCEPT ![c] = doc]
    PROVE  WallInv'
  <1>1. /\ DOMAIN comments' = CommentIds
        /\ \A d \in CommentIds : DocShape(comments'[d]) /\ Waits(comments'[d])
    BY DEF WallInv, WallShape, AllWait
  <1> QED BY <1>1, IdleOp, StepKeeps DEF Finish

LEMMA LikingKeeps == WallInv /\ Liking => WallInv'
  <1> SUFFICES ASSUME WallInv, Liking
               PROVE  WallInv'
    OBVIOUS
  <1>1. ASSUME NEW o \in WallOps, NEW c \in CommentIds, setLike(o, c)
        PROVE  WallInv'
    <2>1. PICK op : op = [at |-> "like", comment |-> c]
      OBVIOUS
    <2>2. Start(o, op) /\ UNCHANGED comments /\ op.at = "like" /\ "at" \in DOMAIN op
      BY <1>1, <2>1 DEF setLike
    <2> QED BY <2>2, StartKeeps DEF PostHeld
  <1>2. ASSUME NEW o \in WallOps, insertLike(o)
        PROVE  WallInv'
    BY <1>2, IdleOp, StepKeeps, SameDocs DEF insertLike, Finish, At, Active
  <1>3. ASSUME NEW c \in CommentIds, unlike(c)
        PROVE  WallInv'
    BY <1>3 DEF unlike, WallInv, WallShape, WallMeet, WallHeld, AllWait, PostHeld, EditHeld, Exists, Active
  <1> QED BY <1>1, <1>2, <1>3 DEF Liking

LEMMA EditingKeeps == WallInv /\ Editing => WallInv'
  <1> SUFFICES ASSUME WallInv, NEW o \in WallOps,
                      \/ \E c \in CommentIds, text \in {"plain", "muted"} : editComment(o, c, text)
                      \/ saveEdit(o)
               PROVE  WallInv'
    BY DEF Editing
  <1>1. ASSUME NEW c \in CommentIds, NEW text \in {"plain", "muted"}, editComment(o, c, text)
        PROVE  WallInv'
    <2>1. PICK held \in BOOLEAN : held = HeldByEdit(c, text)
      BY DEF HeldByEdit
    <2>2. PICK op : op = [at |-> "edit", comment |-> c, text |-> text, held |-> held]
      OBVIOUS
    <2>3. Start(o, op) /\ UNCHANGED comments
      BY <1>1, <2>1, <2>2 DEF editComment
    <2>4. /\ op.at = "edit" /\ {"at", "comment", "text", "held"} \subseteq DOMAIN op
          /\ op.comment = c /\ op.text = text /\ op.held = held
      BY <2>2
    <2> QED BY <2>1, <2>3, <2>4, StartKeeps DEF PostHeld
  <1>2. CASE saveEdit(o)
    <2> DEFINE c == ops[o].comment
    <2>1. ops[o].at = "edit" /\ Active(o) /\ OpShape(ops[o]) /\ Finish(o) /\ ops[o].met \in BOOLEAN
      BY <1>2, OthersShape DEF saveEdit, At, Active, OpShape
    <2>2. CASE ~Exists(c)
      BY <1>2, <2>1, <2>2, IdleOp, StepKeeps, SameDocs DEF saveEdit, Finish
    <2>3. CASE Exists(c)
      <3>1. PICK doc : doc = Edited(comments[c], ops[o], Mark(o))
        OBVIOUS
      <3>2. comments' = [comments EXCEPT ![c] = doc]
        BY <1>2, <2>3, <3>1 DEF saveEdit
      <3>3. DocShape(comments[c]) /\ comments[c].exists
        BY <2>3 DEF Exists, WallInv, WallShape
      <3>4. DocShape(doc)
        BY <3>1, <3>3 DEF DocShape, Edited
      <3>5. EditHeld(ops[o])
        BY DEF WallInv, WallHeld
      <3>6. Waits(doc)
        BY <2>1, <2>3, <3>1, <3>3, <3>5 DEF Waits, EditHeld, DocShape, Edited
      <3> QED BY <2>1, <3>2, <3>4, <3>6, EndKeeps
    <2> QED BY <2>2, <2>3
  <1> QED BY <1>1, <1>2

LEMMA ModeratingKeeps == WallInv /\ Moderating => WallInv'
  <1> SUFFICES ASSUME WallInv, NEW o \in WallOps,
                      \/ \E c \in CommentIds, action \in {"approve", "hide", "unhide"} : moderateComment(o, c, action)
                      \/ \E c \in CommentIds, who \in {Owner, Staff} : rejectComment(o, who, c)
                      \/ saveModeration(o)
               PROVE  WallInv'
    BY DEF Moderating
  <1>1. ASSUME NEW c \in CommentIds, NEW action \in {"approve", "hide", "unhide"}, moderateComment(o, c, action)
        PROVE  WallInv'
    <2>1. PICK op : op = [at |-> "moderate", comment |-> c, status |-> Moderated(action)]
      OBVIOUS
    <2>2. Start(o, op) /\ UNCHANGED comments /\ op.at = "moderate" /\ "at" \in DOMAIN op
      BY <1>1, <2>1 DEF moderateComment
    <2> QED BY <2>2, StartKeeps DEF PostHeld
  <1>2. ASSUME NEW c \in CommentIds, NEW who \in {Owner, Staff}, rejectComment(o, who, c)
        PROVE  WallInv'
    <2>1. PICK op : op = Deletion(who = comments[c].author, c, {})
      OBVIOUS
    <2>2. op.at \in {"wipe", "doom"} /\ "at" \in DOMAIN op
      BY <2>1, DeletionIs
    <2>3. Start(o, op) /\ UNCHANGED comments
      BY <1>2, <2>1 DEF rejectComment
    <2> QED BY <2>2, <2>3, StartKeeps DEF PostHeld
  <1>3. CASE saveModeration(o)
    <2> DEFINE c == ops[o].comment
    <2>1. Active(o) /\ Finish(o)
      BY <1>3 DEF saveModeration, At, Active
    <2>2. CASE ~Exists(c)
      BY <1>3, <2>1, <2>2, IdleOp, StepKeeps, SameDocs DEF saveModeration, Finish
    <2>3. CASE Exists(c)
      <3>2. PICK doc : doc = Decided(comments[c], ops[o].status)
        OBVIOUS
      <3>3. comments' = [comments EXCEPT ![c] = doc]
        BY <1>3, <2>3, <3>2 DEF saveModeration
      <3>4. DocShape(comments[c]) /\ comments[c].exists
        BY <2>3 DEF Exists, WallInv, WallShape
      <3>5. DocShape(doc)
        BY <3>2, <3>4 DEF DocShape, Decided
      <3>6. doc.status = ops[o].status /\ (ops[o].status = "visible" => doc.cleared)
        BY <3>2, <3>4 DEF DocShape, Decided
      <3>7. Waits(doc)
        BY <3>6 DEF Waits
      <3> QED BY <2>1, <3>3, <3>5, <3>7, EndKeeps
    <2> QED BY <2>2, <2>3
  <1> QED BY <1>1, <1>2, <1>3

LEMMA PinningKeeps == WallInv /\ Pinning => WallInv'
  <1> SUFFICES ASSUME WallInv, Pinning
               PROVE  WallInv'
    OBVIOUS
  (* A pin is no matter of what waits.                                     *)
  <1> DEFINE WithPin(c, mark) == [comments[c] EXCEPT !.pinned = mark]
  <1>0. ASSUME NEW c \in CommentIds, NEW mark
        PROVE  /\ DocShape(WithPin(c, mark)) /\ Waits(WithPin(c, mark))
               /\ WithPin(c, mark).exists =>
                    /\ comments[c].exists /\ WithPin(c, mark).status = comments[c].status
                    /\ WithPin(c, mark).author = comments[c].author
    <2>1. DocShape(comments[c]) /\ Waits(comments[c])
      BY DEF WallInv, WallShape, AllWait
    <2> QED BY <2>1 DEF DocShape, Waits
  <1>1. ASSUME NEW o \in WallOps, NEW c \in CommentIds, setPin(o, c)
        PROVE  WallInv'
    <2>1. PICK op : op = [at |-> "unpin", comment |-> c]
      OBVIOUS
    <2>2. Start(o, op) /\ UNCHANGED comments /\ op.at = "unpin" /\ "at" \in DOMAIN op
      BY <1>1, <2>1 DEF setPin
    <2> QED BY <2>2, StartKeeps DEF PostHeld
  <1>2. ASSUME NEW o \in WallOps, unpinOthers(o)
        PROVE  WallInv'
    <2>1. PICK op : op = [ops[o] EXCEPT !.at = "pin"]
      OBVIOUS
    <2>2. Active(o) /\ OpShape(op) /\ op.at = "pin" /\ op.met = ops[o].met /\ ops' = [ops EXCEPT ![o] = op]
      BY <1>2, <2>1, OthersShape DEF unpinOthers, At, Active, Goto, OpShape
    <2>3. DOMAIN comments' = CommentIds
      BY <1>2 DEF unpinOthers
    <2>4. \A c \in CommentIds : comments'[c] = comments[c] \/ comments'[c] = WithPin(c, "no")
      BY <1>2 DEF unpinOthers
    <2>5. \A c \in CommentIds : DocShape(comments'[c]) /\ Waits(comments'[c])
      <3> SUFFICES ASSUME NEW c \in CommentIds
                   PROVE  DocShape(comments'[c]) /\ Waits(comments'[c])
        OBVIOUS
      <3>1. DocShape(WithPin(c, "no")) /\ Waits(WithPin(c, "no"))
        BY <1>0
      <3> HIDE DEF WithPin
      <3> QED BY <2>4, <3>1 DEF WallInv, WallShape, AllWait
    <2> QED BY <2>2, <2>3, <2>5, StepKeeps
  <1>3. ASSUME NEW o \in WallOps, pin(o)
        PROVE  WallInv'
    <2> DEFINE c == ops[o].comment
    <2>1. Active(o) /\ Finish(o)
      BY <1>3 DEF pin, At, Active
    <2>2. CASE ~Exists(c)
      BY <1>3, <2>1, <2>2, IdleOp, StepKeeps, SameDocs DEF pin, Finish
    <2>3. CASE Exists(c)
      <3>1. comments' = [comments EXCEPT ![c] = WithPin(c, Mark(o))] /\ c \in CommentIds
        BY <1>3, <2>3 DEF pin, Exists
      <3>2. DocShape(WithPin(c, Mark(o))) /\ Waits(WithPin(c, Mark(o)))
        BY <1>0, <3>1
      <3> HIDE DEF WithPin
      <3> QED BY <2>1, <3>1, <3>2, EndKeeps
    <2> QED BY <2>2, <2>3
  <1>4. ASSUME NEW c \in CommentIds, unpin(c)
        PROVE  WallInv'
    <2>1. /\ DOMAIN comments' = CommentIds /\ UNCHANGED ops
          /\ \A d \in CommentIds : comments'[d] = comments[d] \/ (d = c /\ comments'[d] = WithPin(c, "no"))
      <3>1. comments' = [comments EXCEPT ![c] = WithPin(c, "no")] /\ UNCHANGED ops
        BY <1>4 DEF unpin
      <3>2. DOMAIN comments = CommentIds
        BY DEF WallInv, WallShape
      <3>3. PICK doc : doc = WithPin(c, "no")
        OBVIOUS
      <3>4. comments' = [comments EXCEPT ![c] = doc]
        BY <3>1, <3>3
      <3>5. /\ DOMAIN comments' = CommentIds
            /\ \A d \in CommentIds : comments'[d] = comments[d] \/ (d = c /\ comments'[d] = doc)
        BY <3>2, <3>4
      <3>6. \A d \in CommentIds : comments'[d] = comments[d] \/ (d = c /\ comments'[d] = WithPin(c, "no"))
        BY <3>3, <3>5
      <3> QED BY <3>1, <3>5, <3>6
    <2>2. \A d \in CommentIds : DocShape(comments'[d]) /\ Waits(comments'[d])
      <3> SUFFICES ASSUME NEW d \in CommentIds
                   PROVE  DocShape(comments'[d]) /\ Waits(comments'[d])
        OBVIOUS
      <3>1. DocShape(WithPin(d, "no")) /\ Waits(WithPin(d, "no"))
        BY <1>0
      <3> HIDE DEF WithPin
      <3> QED BY <2>1, <3>1 DEF WallInv, WallShape, AllWait
    <2>3. \A d \in CommentIds : comments'[d].exists =>
             /\ comments[d].exists /\ comments'[d].status = comments[d].status
             /\ comments'[d].author = comments[d].author
      <3> SUFFICES ASSUME NEW d \in CommentIds, comments'[d].exists
                   PROVE  /\ comments[d].exists /\ comments'[d].status = comments[d].status
                          /\ comments'[d].author = comments[d].author
        OBVIOUS
      <3>1. WithPin(d, "no").exists => /\ comments[d].exists /\ WithPin(d, "no").status = comments[d].status
                                     /\ WithPin(d, "no").author = comments[d].author
        BY <1>0
      <3> HIDE DEF WithPin
      <3> QED BY <2>1, <3>1
    <2>4. WallShape' /\ WallMeet' /\ AllWait'
      BY <2>1, <2>2 DEF WallInv, WallShape, WallMeet, Active, AllWait
    <2>5. WallHeld'
      <3>1. \A p \in WallOps : PostHeld(ops[p])'
        BY <2>1 DEF WallInv, WallHeld, PostHeld
      <3>2. \A p \in WallOps : EditHeld(ops[p])'
        <4> SUFFICES ASSUME NEW p \in WallOps, EditHeld(ops[p])
                     PROVE  EditHeld(ops[p])'
          BY DEF WallInv, WallHeld
        <4>1. UNCHANGED ops
          BY <2>1
        <4>2. \A d : Exists(d)' => Exists(d) /\ comments'[d].status = comments[d].status
                                           /\ comments'[d].author = comments[d].author
          <5> SUFFICES ASSUME NEW d \in CommentIds, comments'[d].exists
                       PROVE  /\ comments[d].exists /\ comments'[d].status = comments[d].status
                              /\ comments'[d].author = comments[d].author
            BY DEF Exists
          <5> QED BY <2>3
        <4> QED BY <4>1, <4>2 DEF EditHeld
      <3> QED BY <3>1, <3>2 DEF WallHeld
    <2> QED BY <2>4, <2>5 DEF WallInv
  <1> QED BY <1>1, <1>2, <1>3, <1>4 DEF Pinning

(* MutedWait of every wall: someone else's comment with a muted word shows
   only once the owner or a moderator let it through, or where its edit
   met another handler. *)
THEOREM MutedWordsWait == WallSpec => []MutedWait
  <1>1. WallInv /\ [WallNext]_wallVars => WallInv'
    <2>1. WallInv /\ UNCHANGED wallVars => WallInv'
      BY DEF wallVars, WallInv, WallShape, WallMeet, WallHeld, AllWait, PostHeld, EditHeld, Exists, Active
    <2> QED BY <2>1, PostingKeeps, DeletingKeeps, PurgingKeeps, LikingKeeps, EditingKeeps,
               ModeratingKeeps, PinningKeeps DEF WallNext
  <1>2. WallInv => MutedWait
    BY DEF WallInv, AllWait, Waits, MutedWait, Exists
  <1> QED BY WallBegins, <1>1, <1>2, PTL DEF WallSpec

-----------------------------------------------------------------------------
(* The comments of a wall: their threads, placeholders, pins and likes. *)
Deletes == {"wipe", "doom", "unlike", "climb", "drop"}
Texts == {"plain", "muted"}
DocFields == {"exists", "author", "parent", "depth", "text", "status", "deleted", "pinned", "cleared", "by"}

(* A handler under way, and what it has read. *)
OpFields(op) ==
    /\ {"at", "met"} \subseteq DOMAIN op /\ op.met \in BOOLEAN
    /\ op.at \in Deletes \cup {"idle", "post", "purge", "like", "edit", "moderate", "unpin", "pin"}
    /\ op.at = "idle" => op = Idle
    /\ op.at = "post" => /\ {"author", "text", "held", "parent", "depth"} \subseteq DOMAIN op
                         /\ op.text \in Texts /\ op.held \in BOOLEAN
                         /\ op.parent \in 0 .. posted /\ op.depth \in 0 .. WALL_MAX_DEPTH
                         /\ (op.depth = 0) = (op.parent = 0)
    /\ op.at \in Deletes =>
         /\ {"self", "todo", "doomed", "level", "parent", "above"} \subseteq DOMAIN op
         /\ op.doomed \subseteq 1 .. posted /\ op.todo \subseteq 1 .. posted /\ op.level \in Nat
         /\ op.parent \in 0 .. posted /\ op.above \in 0 .. posted
    /\ op.at = "purge" => {"self", "todo"} \subseteq DOMAIN op /\ op.todo \subseteq 1 .. posted
    /\ op.at \in {"like", "edit", "moderate", "unpin", "pin"} => "comment" \in DOMAIN op /\ op.comment \in 1 .. posted
    /\ op.at = "edit" => {"text", "held"} \subseteq DOMAIN op /\ op.text \in Texts /\ op.held \in BOOLEAN
    /\ op.at = "moderate" => "status" \in DOMAIN op /\ op.status \in {"visible", "hidden"}

(* A document, below and after the one it answers. *)
DocTidy(c) == comments[c] = NoComment \/
    /\ DOMAIN comments[c] = DocFields /\ comments[c].exists = TRUE
    /\ c <= posted
    /\ comments[c].depth \in 0 .. WALL_MAX_DEPTH
    /\ comments[c].status \in {"visible", "pending", "hidden"}
    /\ comments[c].deleted \in Marks /\ comments[c].pinned \in Marks
    /\ comments[c].text \in {"plain", "muted", "none"}
    /\ comments[c].parent \in 0 .. c - 1
    /\ (comments[c].depth = 0) = (comments[c].parent = 0)
    /\ comments[c].by \in {"alone", "met"}
    /\ Exists(comments[c].parent) => comments[c].depth = comments[comments[c].parent].depth + 1

(* A deletion has every level of the thread down to the one it has read,
   but for what was posted since it began; what it deletes hangs together,
   and below one comment.  Nothing answers a placeholder that is to go,
   but what was posted since that was read. *)
Early(n) == \A c \in CommentIds : Exists(c) /\ c > n => comments[c].by = "met"
Closed(n, S, level) == \A c \in CommentIds : Exists(c) =>
    /\ c <= n /\ comments[c].parent \in S => c \in S \/ comments[c].depth > level \/ comments[c].by = "met"
    /\ c \in S => comments[c].depth <= level
OpTidy(op) ==
    /\ op.at = "post" /\ Exists(op.parent) => op.depth = comments[op.parent].depth + 1
    /\ op.at = "doom" =>
         /\ \E n \in 0 .. posted : Early(n) /\ Closed(n, op.doomed, op.level)
         /\ \A d \in op.doomed : Exists(d) => comments[d].parent \in op.doomed \cup {op.parent}
    /\ op.at = "drop" =>
         /\ \A c \in CommentIds : Exists(c) /\ comments[c].parent = op.parent => comments[c].by = "met"
         /\ Exists(op.parent) => op.above = comments[op.parent].parent /\ comments[op.parent].deleted # "no"
(* What a handler read still holds while it meets no other. *)
OpAlone(op) == ~op.met =>
    /\ op.at = "post" /\ op.parent # 0 => Exists(op.parent)
    /\ op.at \in {"edit", "like"} => Live(op.comment)
    /\ op.at = "wipe" => \A c \in op.doomed : ChildrenOf({c}) # {}
    /\ op.at = "pin" => \A c \in CommentIds : Exists(c) => comments[c].pinned = "no"

Meet == \A o, p \in WallOps : o # p /\ Active(o) /\ Active(p) => ops[o].met
OneAlonePin == \A c, d \in CommentIds :
    Exists(c) /\ Exists(d) /\ comments[c].pinned = "alone" /\ comments[d].pinned = "alone" => c = d
TidyInv ==
    /\ DOMAIN ops = WallOps /\ DOMAIN comments = CommentIds
    /\ posted \in 0 .. MaxComments /\ likes \in [CommentIds -> Marks]
    /\ \A o \in WallOps : OpFields(ops[o]) /\ OpTidy(ops[o]) /\ OpAlone(ops[o])
    /\ \A c \in CommentIds : DocTidy(c)
    /\ Meet /\ NoOrphans /\ PlaceholdersHold /\ OneAlonePin /\ LikesOfLive

LEMMA TidyBegins == WallInit => TidyInv
  <1> SUFFICES ASSUME WallInit
               PROVE  TidyInv
    OBVIOUS
  <1>1. \A o \in WallOps : ops[o] = Idle
    BY DEF WallInit
  <1>2. \A c \in CommentIds : comments[c] = NoComment /\ ~Exists(c) /\ likes[c] = "no"
    BY DEF WallInit, NoComment, Exists
  <1>3. \A o \in WallOps : OpFields(ops[o]) /\ OpTidy(ops[o]) /\ OpAlone(ops[o]) /\ ~Active(o)
    <2>1. Idle.at = "idle" /\ Idle.met = FALSE /\ DOMAIN Idle = {"at", "met"}
      BY DEF Idle
    <2>2. OpFields(Idle)
      BY <2>1 DEF OpFields, Deletes
    <2>3. OpTidy(Idle) /\ OpAlone(Idle)
      BY <2>1 DEF OpTidy, OpAlone
    <2> QED BY <1>1, <2>1, <2>2, <2>3 DEF Active
  <1>4. \A c \in CommentIds : DocTidy(c)
    BY <1>2 DEF DocTidy
  <1>5. posted \in 0 .. MaxComments /\ likes \in [CommentIds -> Marks]
    BY WallAssumption DEF WallInit, Marks
  <1>6. Meet /\ NoOrphans /\ PlaceholdersHold /\ OneAlonePin /\ LikesOfLive
    BY <1>2, <1>3 DEF Meet, NoOrphans, PlaceholdersHold, OneAlonePin, LikesOfLive
  <1>7. DOMAIN ops = WallOps /\ DOMAIN comments = CommentIds
    BY DEF WallInit
  <1> QED BY <1>3, <1>4, <1>5, <1>6, <1>7 DEF TidyInv

-----------------------------------------------------------------------------
(* What a step does to a document that a handler under way relies on: it
   may go, and keeps its place in its thread; a new one is marked as met. *)
DocStep(c) ==
    \/ comments'[c] = comments[c]
    \/ comments'[c] = NoComment
    \/ /\ Exists(c) /\ comments'[c].exists
       /\ comments'[c].parent = comments[c].parent /\ comments'[c].depth = comments[c].depth
       /\ comments'[c].by = comments[c].by
       /\ comments[c].deleted # "no" => comments'[c].deleted # "no"
    \/ c = posted + 1 /\ comments'[c].by = "met"

LEMMA OldDocs ==
    ASSUME TidyInv, NEW c \in CommentIds, Exists(c)
    PROVE  /\ comments[c] # NoComment /\ c <= posted /\ comments[c].exists /\ c \in 1 .. posted
           /\ comments[c].parent \in 0 .. c - 1 /\ comments[c].depth \in 0 .. WALL_MAX_DEPTH
           /\ (comments[c].depth = 0) = (comments[c].parent = 0)
           /\ comments[c].deleted \in Marks /\ comments[c].pinned \in Marks
           /\ comments[c].by \in {"alone", "met"}
           /\ DOMAIN comments[c] = DocFields
           /\ Exists(comments[c].parent) => comments[c].depth = comments[comments[c].parent].depth + 1
  <1>1. comments[c] # NoComment
    BY DEF Exists, NoComment
  <1>2. DocTidy(c) /\ posted \in Nat /\ CommentIds = 1 .. MaxComments /\ MaxComments \in Nat
    BY WallAssumption DEF TidyInv, CommentIds
  <1> QED BY <1>1, <1>2 DEF DocTidy, Exists

LEMMA NoDocs == ~NoComment.exists
  BY DEF NoComment

(* A handler that another has met relies on what does not change. *)
LEMMA Stands ==
    ASSUME TidyInv, NEW o \in WallOps, posted' \in Nat, posted <= posted',
           \A c \in CommentIds : DocStep(c),
           ops'[o] = ops[o] \/ (Active(o) /\ ops'[o] = [ops[o] EXCEPT !.met = TRUE]),
           Active(o) => ops'[o].met
    PROVE  OpFields(ops[o])' /\ OpTidy(ops[o])' /\ OpAlone(ops[o])' /\ ops'[o].at = ops[o].at
  <1>1. OpFields(ops[o]) /\ OpTidy(ops[o]) /\ posted \in 0 .. MaxComments /\ posted \in Nat
    BY WallAssumption DEF TidyInv
  <1>2. PICK op : op = ops[o]
    OBVIOUS
  <1>3. PICK h : h = ops'[o]
    OBVIOUS
  <1>4. /\ DOMAIN h = DOMAIN op /\ (op.at = "idle" => h = op) /\ h.met \in BOOLEAN /\ h.at = op.at
        /\ op.at # "idle" => h.met
    BY <1>1, <1>2, <1>3 DEF OpFields, Active
  <1>5. /\ op.at = "post" => /\ h.author = op.author /\ h.text = op.text /\ h.held = op.held
                             /\ h.parent = op.parent /\ h.depth = op.depth
        /\ op.at \in Deletes => /\ h.self = op.self /\ h.todo = op.todo /\ h.doomed = op.doomed
                                /\ h.level = op.level /\ h.parent = op.parent /\ h.above = op.above
        /\ op.at = "purge" => h.self = op.self /\ h.todo = op.todo
        /\ op.at \in {"like", "edit", "moderate", "unpin", "pin"} => h.comment = op.comment
        /\ op.at = "edit" => h.text = op.text /\ h.held = op.held
        /\ op.at = "moderate" => h.status = op.status
    BY <1>1, <1>2, <1>3 DEF OpFields
  <1>6. OpFields(h)'
    <2>1. 0 .. posted \subseteq 0 .. posted' /\ 1 .. posted \subseteq 1 .. posted'
      BY <1>1
    <2> QED BY <1>1, <1>2, <1>4, <1>5, <2>1 DEF OpFields
  <1>7. \A c \in CommentIds : Exists(c)' /\ c <= posted =>
            /\ Exists(c) /\ comments'[c].parent = comments[c].parent /\ comments'[c].depth = comments[c].depth
            /\ comments'[c].by = comments[c].by
            /\ comments[c].deleted # "no" => comments'[c].deleted # "no"
    <2> SUFFICES ASSUME NEW c \in CommentIds, Exists(c)', c <= posted
                 PROVE  /\ Exists(c) /\ comments'[c].parent = comments[c].parent /\ comments'[c].depth = comments[c].depth
                        /\ comments'[c].by = comments[c].by
                        /\ comments[c].deleted # "no" => comments'[c].deleted # "no"
      OBVIOUS
    <2>1. c # posted + 1
      BY <1>1 DEF CommentIds
    <2>2. comments'[c] # NoComment
      BY NoDocs DEF Exists
    <2> QED BY <2>1, <2>2 DEF DocStep, Exists
  <1>8. \A c \in CommentIds : Exists(c)' /\ ~(c <= posted) => comments'[c].by = "met"
    <2> SUFFICES ASSUME NEW c \in CommentIds, Exists(c)', ~(c <= posted)
                 PROVE  comments'[c].by = "met"
      OBVIOUS
    <2>1. ~Exists(c)
      BY OldDocs
    <2>2. comments'[c] # NoComment /\ comments'[c] # comments[c]
      BY <2>1, NoDocs DEF Exists
    <2> QED BY <2>1, <2>2 DEF DocStep
  <1>9. OpTidy(h)'
    <2>1. ASSUME h.at = "post", Exists(h.parent)'
          PROVE  h.depth = comments'[h.parent].depth + 1
      BY <1>1, <1>2, <1>4, <1>5, <1>7, <2>1 DEF OpTidy, OpFields, Exists
    <2>2. ASSUME h.at = "doom"
          PROVE  /\ \E n \in 0 .. posted' : Early(n)' /\ Closed(n, h.doomed, h.level)'
                 /\ \A d \in h.doomed : Exists(d)' => comments'[d].parent \in h.doomed \cup {h.parent}
      <3>1. PICK n \in 0 .. posted : Early(n) /\ Closed(n, op.doomed, op.level)
        BY <1>1, <1>2, <1>4, <2>2 DEF OpTidy
      <3>2. h.doomed = op.doomed /\ h.level = op.level /\ h.parent = op.parent /\ op.doomed \subseteq 1 .. posted
        BY <1>1, <1>2, <1>4, <1>5, <2>2 DEF OpFields, Deletes
      <3>3. n \in 0 .. posted' /\ n \in Nat /\ n <= posted
        BY <1>1
      <3>4. Early(n)'
        <4> SUFFICES ASSUME NEW c \in CommentIds, Exists(c)', c > n
                     PROVE  comments'[c].by = "met"
          BY DEF Early
        <4>1. CASE c <= posted
          BY <4>1, <1>7, <3>1 DEF Early
        <4> QED BY <4>1, <1>8
      <3>5. Closed(n, h.doomed, h.level)'
        <4> SUFFICES ASSUME NEW c \in CommentIds, Exists(c)', c <= n \/ c \in h.doomed
                     PROVE  /\ c <= n /\ comments'[c].parent \in h.doomed
                               => c \in h.doomed \/ comments'[c].depth > h.level \/ comments'[c].by = "met"
                            /\ c \in h.doomed => comments'[c].depth <= h.level
          BY DEF Closed
        <4>1. c <= posted
          BY <1>1, <3>2, <3>3 DEF CommentIds
        <4> QED BY <4>1, <1>7, <3>1, <3>2 DEF Closed
      <3>6. ASSUME NEW d \in h.doomed, Exists(d)'
            PROVE  comments'[d].parent \in h.doomed \cup {h.parent}
        <4>1. d <= posted /\ d \in CommentIds
          BY <1>1, <3>2, <3>6 DEF Exists
        <4>2. Exists(d) /\ comments'[d].parent = comments[d].parent
          BY <4>1, <1>7, <3>6
        <4> QED BY <4>2, <1>1, <1>2, <1>4, <2>2, <3>2, <3>6 DEF OpTidy
      <3> QED BY <3>3, <3>4, <3>5, <3>6
    <2>3. ASSUME h.at = "drop"
          PROVE  /\ \A c \in CommentIds : Exists(c)' /\ comments'[c].parent = h.parent => comments'[c].by = "met"
                 /\ Exists(h.parent)' => h.above = comments'[h.parent].parent /\ comments'[h.parent].deleted # "no"
      <3>1. h.parent = op.parent /\ h.above = op.above /\ op.parent \in 0 .. posted
        BY <1>1, <1>2, <1>4, <1>5, <2>3 DEF OpFields, Deletes
      <3>2. /\ \A c \in CommentIds : Exists(c) /\ comments[c].parent = op.parent => comments[c].by = "met"
            /\ Exists(op.parent) => op.above = comments[op.parent].parent /\ comments[op.parent].deleted # "no"
        BY <1>1, <1>2, <1>4, <2>3 DEF OpTidy
      <3>3. ASSUME NEW c \in CommentIds, Exists(c)', comments'[c].parent = h.parent
            PROVE  comments'[c].by = "met"
        <4>1. CASE c <= posted
          BY <4>1, <1>7, <3>1, <3>2, <3>3
        <4> QED BY <4>1, <1>8, <3>3
      <3>4. ASSUME Exists(h.parent)'
            PROVE  h.above = comments'[h.parent].parent /\ comments'[h.parent].deleted # "no"
        <4>1. h.parent \in CommentIds /\ h.parent <= posted
          BY <1>1, <3>1, <3>4 DEF Exists
        <4> QED BY <4>1, <1>7, <3>1, <3>2, <3>4
      <3> QED BY <3>3, <3>4
    <2> QED BY <2>1, <2>2, <2>3 DEF OpTidy
  <1>10. OpAlone(h)'
    BY <1>4 DEF OpAlone
  <1> QED BY <1>2, <1>3, <1>4, <1>6, <1>9, <1>10

LEMMA SameRead ==
    ASSUME NEW op, UNCHANGED <<comments, posted>>, OpFields(op), OpTidy(op), OpAlone(op)
    PROVE  OpFields(op)' /\ OpTidy(op)' /\ OpAlone(op)'
  BY DEF OpFields, OpTidy, OpAlone, Early, Closed, Exists, Live, ChildrenOf

(* A handler that begins meets those under way, and only reads. *)
LEMMA StartsTidy ==
    ASSUME TidyInv, NEW o \in WallOps, NEW op, Start(o, op), UNCHANGED <<comments, posted, likes>>,
           NEW h, h = Having(\E y \in WallOps : Active(y), op),
           OpFields(h), OpTidy(h), OpAlone(h)
    PROVE  TidyInv'
  <1>1. ~Active(o) /\ DOMAIN ops' = WallOps /\ ops'[o] = h
    BY DEF Start
  <1>2. \A p \in WallOps \ {o} : ops'[p] = ops[p] \/ (Active(p) /\ ops'[p] = [ops[p] EXCEPT !.met = TRUE])
    BY DEF Start
  <1>3. \A p \in WallOps \ {o} : Active(p) => ops'[p].met /\ ops'[p] = [ops[p] EXCEPT !.met = TRUE]
    <2> SUFFICES ASSUME NEW p \in WallOps \ {o}, Active(p)
                 PROVE  ops'[p].met /\ ops'[p] = [ops[p] EXCEPT !.met = TRUE]
      OBVIOUS
    <2>1. ops'[p] = [ops[p] EXCEPT !.met = TRUE]
      BY DEF Start
    <2>2. "met" \in DOMAIN ops[p]
      BY DEF TidyInv, OpFields
    <2> QED BY <2>1, <2>2
  <1>4. posted \in Nat /\ posted' \in Nat /\ posted <= posted' /\ \A c \in CommentIds : DocStep(c)
    BY WallAssumption DEF TidyInv, DocStep
  <1>5. ASSUME NEW p \in WallOps \ {o}
        PROVE  /\ OpFields(ops[p])' /\ OpTidy(ops[p])' /\ OpAlone(ops[p])' /\ ops'[p].at = ops[p].at
               /\ ops[p].at \in Deletes => ops'[p].parent = ops[p].parent /\ ops'[p].doomed = ops[p].doomed
    <2>1. OpFields(ops[p])' /\ OpTidy(ops[p])' /\ OpAlone(ops[p])' /\ ops'[p].at = ops[p].at
      BY <1>2, <1>3, <1>4, Stands
    <2>2. ops[p].at \in Deletes => {"parent", "doomed"} \subseteq DOMAIN ops[p]
      BY DEF TidyInv, OpFields
    <2> QED BY <1>2, <2>1, <2>2
  <1>6. OpFields(ops[o])' /\ OpTidy(ops[o])' /\ OpAlone(ops[o])'
    <2>1. OpFields(h)' /\ OpTidy(h)' /\ OpAlone(h)'
      BY SameRead
    <2> QED BY <1>1, <2>1
  <1>7. Meet'
    <2> SUFFICES ASSUME NEW p \in WallOps, NEW q \in WallOps, p # q, Active(p)', Active(q)'
                 PROVE  ops'[p].met
      BY DEF Meet
    <2>1. CASE p = o
      <3>1. Active(q)
        BY <2>1, <1>5 DEF Active
      <3>2. "met" \in DOMAIN h /\ h.met = (\E y \in WallOps : Active(y))
        BY DEF Having
      <3> QED BY <3>1, <3>2, <2>1, <1>1
    <2>2. CASE p # o
      BY <2>2, <1>3, <1>5 DEF Active
    <2> QED BY <2>1, <2>2
  <1>8. NoOrphans' /\ OneAlonePin' /\ \A c \in CommentIds : DocTidy(c)'
    BY DEF TidyInv, NoOrphans, OneAlonePin, DocTidy, Exists
  <1>9. PlaceholdersHold'
    <2> SUFFICES ASSUME NEW c \in CommentIds, Exists(c)', comments'[c].deleted = "alone"
                 PROVE  /\ comments'[c].text = "none"
                        /\ \/ ChildrenOf({c})' # {}
                           \/ \E p \in WallOps : ops'[p].at \in {"unlike", "climb", "drop"} /\ ops'[p].parent = c
      BY DEF PlaceholdersHold
    <2>1. /\ comments[c].text = "none"
          /\ \/ ChildrenOf({c}) # {}
             \/ \E p \in WallOps : ops[p].at \in {"unlike", "climb", "drop"} /\ ops[p].parent = c
      BY DEF TidyInv, PlaceholdersHold, Exists
    <2>2. ChildrenOf({c})' = ChildrenOf({c})
      BY DEF ChildrenOf, Exists
    <2>3. ASSUME NEW p \in WallOps, ops[p].at \in {"unlike", "climb", "drop"}, ops[p].parent = c
          PROVE  ops'[p].at \in {"unlike", "climb", "drop"} /\ ops'[p].parent = c
      <3>1. p # o
        BY <1>1, <2>3 DEF Active
      <3> QED BY <3>1, <2>3, <1>5 DEF Deletes
    <2> QED BY <2>1, <2>2, <2>3
  <1>10. LikesOfLive'
    <2> SUFFICES ASSUME NEW c \in CommentIds, likes'[c] = "alone", ~Live(c)'
                 PROVE  \E p \in WallOps : At(p, "unlike")' /\ c \in ops'[p].doomed
      BY DEF LikesOfLive
    <2>1. PICK p \in WallOps : At(p, "unlike") /\ c \in ops[p].doomed
      BY DEF TidyInv, LikesOfLive, Live, Exists
    <2>2. p # o
      BY <1>1, <2>1 DEF Active, At
    <2> QED BY <2>1, <2>2, <1>5 DEF At, Deletes
  <1>11. posted' \in 0 .. MaxComments /\ likes' \in [CommentIds -> Marks] /\ DOMAIN comments' = CommentIds
    BY DEF TidyInv
  <1> QED BY <1>1, <1>5, <1>6, <1>7, <1>8, <1>9, <1>10, <1>11 DEF TidyInv

(* A step of a handler under way: whoever else is has met it. *)
LEMMA StepsTidy ==
    ASSUME TidyInv, NEW o \in WallOps, Active(o), NEW op, ops' = [ops EXCEPT ![o] = op],
           OpFields(op)', OpTidy(op)', OpAlone(op)', op.at # "idle" => op.met = ops[o].met,
           posted' \in 0 .. MaxComments, posted <= posted', likes' \in [CommentIds -> Marks],
           DOMAIN comments' = CommentIds, \A c \in CommentIds : DocTidy(c)',
           ops[o].met => \A c \in CommentIds : DocStep(c),
           NoOrphans', PlaceholdersHold', OneAlonePin', LikesOfLive'
    PROVE  TidyInv'
  <1>1. DOMAIN ops' = WallOps /\ ops'[o] = op /\ \A p \in WallOps \ {o} : ops'[p] = ops[p]
    BY DEF TidyInv
  <1>2. \A p \in WallOps \ {o} : Active(p) => ops[p].met /\ ops[o].met
    BY DEF TidyInv, Meet
  <1>3. posted' \in Nat
    BY WallAssumption
  <1>4. ASSUME NEW p \in WallOps \ {o}
        PROVE  OpFields(ops[p])' /\ OpTidy(ops[p])' /\ OpAlone(ops[p])'
    <2>1. CASE Active(p)
      BY <1>1, <1>2, <1>3, <2>1, Stands
    <2>2. CASE ~Active(p)
      <3>1. ops[p] = Idle /\ ops'[p] = Idle
        BY <1>1, <2>2 DEF TidyInv, OpFields, Active
      <3>2. Idle.at = "idle" /\ Idle.met = FALSE /\ DOMAIN Idle = {"at", "met"}
        BY DEF Idle
      <3>3. OpFields(Idle)' /\ OpTidy(Idle)' /\ OpAlone(Idle)'
        BY <3>2 DEF OpFields, Deletes, OpTidy, OpAlone
      <3> QED BY <3>1, <3>3
    <2> QED BY <2>1, <2>2
  <1>5. OpFields(ops[o])' /\ OpTidy(ops[o])' /\ OpAlone(ops[o])'
    BY <1>1
  <1>6. Meet'
    BY <1>1, <1>2 DEF TidyInv, Meet, Active
  <1> QED BY <1>1, <1>4, <1>5, <1>6 DEF TidyInv

(* A step that leaves the documents and the likes alone. *)
LEMMA QuietTidy ==
    ASSUME TidyInv, NEW o \in WallOps, Active(o), NEW op, ops' = [ops EXCEPT ![o] = op],
           OpFields(op), OpTidy(op), OpAlone(op), op.at # "idle" => op.met = ops[o].met,
           UNCHANGED <<comments, posted, likes>>, ops[o].at # "unlike",
           ops[o].at \in {"climb", "drop"} =>
             \/ op.at \in {"unlike", "climb", "drop"} /\ op.parent = ops[o].parent
             \/ ~Exists(ops[o].parent) \/ Live(ops[o].parent) \/ ChildrenOf({ops[o].parent}) # {}
    PROVE  TidyInv'
  <1>1. DOMAIN ops' = WallOps /\ ops'[o] = op /\ \A p \in WallOps \ {o} : ops'[p] = ops[p]
    BY DEF TidyInv
  <1>2. OpFields(op)' /\ OpTidy(op)' /\ OpAlone(op)'
    BY SameRead
  <1>3. /\ posted' \in 0 .. MaxComments /\ posted <= posted' /\ likes' \in [CommentIds -> Marks]
        /\ DOMAIN comments' = CommentIds
    BY WallAssumption DEF TidyInv
  <1>4. NoOrphans' /\ OneAlonePin' /\ \A c \in CommentIds : DocTidy(c)' /\ DocStep(c)
    BY DEF TidyInv, NoOrphans, OneAlonePin, DocTidy, Exists, DocStep
  <1>5. PlaceholdersHold'
    <2> SUFFICES ASSUME NEW c \in CommentIds, Exists(c)', comments'[c].deleted = "alone"
                 PROVE  /\ comments'[c].text = "none"
                        /\ \/ ChildrenOf({c})' # {}
                           \/ \E p \in WallOps : ops'[p].at \in {"unlike", "climb", "drop"} /\ ops'[p].parent = c
      BY DEF PlaceholdersHold
    <2>1. /\ comments[c].text = "none"
          /\ \/ ChildrenOf({c}) # {}
             \/ \E p \in WallOps : ops[p].at \in {"unlike", "climb", "drop"} /\ ops[p].parent = c
      BY DEF TidyInv, PlaceholdersHold, Exists
    <2>2. ChildrenOf({c})' = ChildrenOf({c}) /\ Exists(c) /\ ~Live(c)
      BY DEF ChildrenOf, Exists, Live
    <2>3. ASSUME NEW p \in WallOps, ops[p].at \in {"unlike", "climb", "drop"}, ops[p].parent = c,
                 ChildrenOf({c}) = {}
          PROVE  ops'[p].at \in {"unlike", "climb", "drop"} /\ ops'[p].parent = c
      BY <1>1, <2>2, <2>3
    <2> QED BY <2>1, <2>2, <2>3
  <1>6. LikesOfLive'
    <2> SUFFICES ASSUME NEW c \in CommentIds, likes'[c] = "alone", ~Live(c)'
                 PROVE  \E p \in WallOps : At(p, "unlike")' /\ c \in ops'[p].doomed
      BY DEF LikesOfLive
    <2>1. PICK p \in WallOps : At(p, "unlike") /\ c \in ops[p].doomed
      BY DEF TidyInv, LikesOfLive, Live, Exists
    <2> QED BY <1>1, <2>1 DEF At
  <1> QED BY <1>2, <1>3, <1>4, <1>5, <1>6, StepsTidy

(* A deletion as it begins. *)
LEMMA DeletionTidy ==
    ASSUME TidyInv, NEW c \in CommentIds, Live(c), NEW self, NEW todo \in SUBSET (1 .. posted),
           NEW b \in BOOLEAN, NEW h, h = Having(b, Deletion(self, c, todo))
    PROVE  OpFields(h) /\ OpTidy(h) /\ OpAlone(h) /\ h.met = b /\ h.at \in {"wipe", "doom"}
  <1>1. Exists(c) /\ c \in 1 .. posted /\ comments[c].depth \in Nat /\ comments[c].parent \in 0 .. posted
        /\ posted \in Nat
    <2>1. posted \in Nat /\ c \in Nat /\ Exists(c)
      BY WallAssumption DEF TidyInv, CommentIds, Live
    <2> QED BY <2>1, OldDocs, WallAssumption
  <1>2. PICK keep \in BOOLEAN : keep = (self /\ ChildrenOf({c}) # {})
    OBVIOUS
  <1>3. PICK d : d = Deletion(self, c, todo)
    OBVIOUS
  <1>4. d = [at |-> IF keep THEN "wipe" ELSE "doom", self |-> self, todo |-> todo,
             doomed |-> {c}, level |-> comments[c].depth,
             parent |-> IF keep THEN 0 ELSE comments[c].parent, above |-> 0]
    BY <1>2, <1>3 DEF Deletion
  <1>5. /\ DOMAIN h = DOMAIN d \cup {"met"} /\ h.met = b /\ h.at = d.at /\ h.self = d.self /\ h.todo = d.todo
        /\ h.doomed = d.doomed /\ h.level = d.level /\ h.parent = d.parent /\ h.above = d.above
    BY <1>3, <1>4 DEF Having
  <1>6. /\ {"at", "met", "self", "todo", "doomed", "level", "parent", "above"} \subseteq DOMAIN h
        /\ h.met = b /\ h.todo = todo /\ h.doomed = {c} /\ h.level = comments[c].depth /\ h.above = 0
        /\ keep => h.at = "wipe" /\ h.parent = 0
        /\ ~keep => h.at = "doom" /\ h.parent = comments[c].parent
    BY <1>4, <1>5
  <1>7. OpFields(h)
    BY <1>1, <1>6 DEF OpFields, Deletes
  <1>8. OpTidy(h)
    <2>1. CASE keep
      BY <1>6, <2>1 DEF OpTidy
    <2>2. CASE ~keep
      <3>1. posted \in 0 .. posted /\ Early(posted)
        BY <1>1, OldDocs DEF Early, CommentIds
      <3>2. Closed(posted, {c}, h.level)
        <4>2. comments[c].depth <= h.level
          BY <1>1, <1>6, OldDocs
        <4> SUFFICES ASSUME NEW x \in CommentIds, Exists(x), comments[x].parent = c
                     PROVE  comments[x].depth > h.level
          BY <4>2 DEF Closed
        <4>1. comments[x].depth = comments[c].depth + 1
          BY <1>1, OldDocs
        <4> QED BY <4>1, <1>1, <1>6
      <3> QED BY <1>6, <2>2, <3>1, <3>2 DEF OpTidy
    <2> QED BY <2>1, <2>2
  <1>9. OpAlone(h)
    BY <1>2, <1>6 DEF OpAlone
  <1> QED BY <1>6, <1>7, <1>8, <1>9

-----------------------------------------------------------------------------
LEMMA BusyIs == \E b \in BOOLEAN : b = (\E y \in WallOps : Active(y))
  OBVIOUS

LEMMA AddTidy ==
    ASSUME TidyInv, NEW o \in WallOps, NEW a \in Authors, NEW text \in Texts, NEW hold \in BOOLEAN,
           NEW c \in {0} \cup CommentIds, addComment(o, a, text, hold, c)
    PROVE  TidyInv'
  <1>1. PICK held \in BOOLEAN : held = holdReason(a, text, hold)
    BY DEF holdReason
  <1>2. PICK parent : parent = IF c = 0 THEN 0 ELSE Parent(c)
    OBVIOUS
  <1>3. PICK depth : depth = IF c = 0 THEN 0 ELSE comments[Parent(c)].depth + 1
    OBVIOUS
  <1>4. PICK op : op = [at |-> "post", author |-> a, text |-> text, held |-> held,
                        parent |-> parent, depth |-> depth]
    OBVIOUS
  <1>5. Start(o, op) /\ UNCHANGED <<comments, posted, likes>>
    BY <1>1, <1>2, <1>3, <1>4 DEF addComment
  <1>6. PICK b \in BOOLEAN : b = (\E y \in WallOps : Active(y))
    BY BusyIs
  <1>7. PICK h : h = Having(b, op)
    OBVIOUS
  <1>8. /\ {"at", "met", "author", "text", "held", "parent", "depth"} \subseteq DOMAIN h
        /\ h.met = b /\ h.at = "post" /\ h.text = text /\ h.held = held /\ h.parent = parent /\ h.depth = depth
    <2>1. op.at = "post" /\ op.text = text /\ op.held = held /\ op.parent = parent /\ op.depth = depth
          /\ DOMAIN op = {"at", "author", "text", "held", "parent", "depth"}
      BY <1>4
    <2> QED BY <2>1, <1>7 DEF Having
  <1>9. posted \in Nat /\ posted <= MaxComments /\ MaxComments \in Nat /\ CommentIds = 1 .. MaxComments /\ WALL_MAX_DEPTH \in Nat \ {0}
    BY WallAssumption DEF TidyInv, CommentIds
  <1>10. /\ parent \in 0 .. posted /\ depth \in 0 .. WALL_MAX_DEPTH /\ (depth = 0) = (parent = 0)
         /\ parent # 0 => Exists(parent) /\ depth = comments[parent].depth + 1
    <2>1. CASE c = 0
      BY <2>1, <1>2, <1>3, <1>9
    <2>2. CASE c # 0
      <3>1. Live(c) /\ Exists(c) /\ c \in CommentIds /\ (Parent(c) # 0 => Exists(Parent(c)))
        BY <2>2 DEF addComment, Live
      <3>2. parent = Parent(c) /\ depth = comments[parent].depth + 1
        BY <2>2, <1>2, <1>3
      <3>3. /\ c \in 1 .. posted /\ comments[c].depth \in 0 .. WALL_MAX_DEPTH
            /\ (comments[c].depth = 0) = (comments[c].parent = 0)
            /\ Exists(comments[c].parent) => comments[c].depth = comments[comments[c].parent].depth + 1
            /\ comments[c].parent \in 0 .. c - 1
        BY <3>1, OldDocs
      <3>4. CASE comments[c].depth >= WALL_MAX_DEPTH
        <4>1. parent = comments[c].parent /\ comments[c].depth = WALL_MAX_DEPTH
          BY <3>2, <3>3, <3>4, <1>9 DEF Parent
        <4>2. parent # 0 /\ Exists(parent)
          BY <4>1, <3>1, <3>2, <3>3, <1>9
        <4>3. depth = WALL_MAX_DEPTH /\ parent \in 0 .. posted
          BY <4>1, <4>2, <3>2, <3>3, <1>9
        <4> QED BY <4>2, <4>3, <3>2, <1>9
      <3>5. CASE ~(comments[c].depth >= WALL_MAX_DEPTH)
        <4>1. parent = c /\ parent # 0 /\ parent \in 0 .. posted
          BY <2>2, <3>2, <3>3, <3>5 DEF Parent
        <4>2. depth = comments[c].depth + 1 /\ comments[c].depth < WALL_MAX_DEPTH /\ comments[c].depth \in Nat
          <5>1. depth = comments[c].depth + 1
            BY <4>1, <3>2
          <5>2. PICK e : e = comments[c].depth
            OBVIOUS
          <5>3. e \in 0 .. WALL_MAX_DEPTH /\ ~(e >= WALL_MAX_DEPTH)
            BY <5>2, <3>3, <3>5
          <5>4. e < WALL_MAX_DEPTH /\ e \in Nat
            BY <5>3, <1>9
          <5> QED BY <5>1, <5>2, <5>4
        <4>3. depth \in 0 .. WALL_MAX_DEPTH /\ depth # 0
          BY <4>2, <1>9
        <4> QED BY <4>1, <4>2, <4>3, <3>1
      <3> QED BY <3>4, <3>5
    <2> QED BY <2>1, <2>2
  <1>11. OpFields(h)
    BY <1>8, <1>10 DEF OpFields, Deletes
  <1>12. OpTidy(h)
    <2>1. ~Exists(0)
      BY <1>9 DEF Exists
    <2> QED BY <2>1, <1>8, <1>10 DEF OpTidy
  <1>13. OpAlone(h)
    BY <1>8, <1>10 DEF OpAlone
  <1>14. h = Having(\E y \in WallOps : Active(y), op)
    BY <1>6, <1>7
  <1> QED BY <1>5, <1>11, <1>12, <1>13, <1>14, StartsTidy

LEMMA IdleTidy == OpFields(Idle)' /\ OpTidy(Idle)' /\ OpAlone(Idle)' /\ Idle.at = "idle"
                  /\ OpFields(Idle) /\ OpTidy(Idle) /\ OpAlone(Idle)
  <1>1. Idle.at = "idle" /\ Idle.met = FALSE /\ DOMAIN Idle = {"at", "met"}
    BY DEF Idle
  <1>2. OpFields(Idle)' /\ OpFields(Idle)
    BY <1>1 DEF OpFields, Deletes
  <1>3. OpTidy(Idle)' /\ OpTidy(Idle)
    BY <1>1 DEF OpTidy
  <1>4. OpAlone(Idle)' /\ OpAlone(Idle)
    BY <1>1 DEF OpAlone
  <1> QED BY <1>1, <1>2, <1>3, <1>4

LEMMA MarkIs == ASSUME TidyInv, NEW o \in WallOps
                PROVE  Mark(o) \in {"alone", "met"} /\ (Mark(o) = "met") = ops[o].met /\ (Mark(o) = "alone") = ~ops[o].met
                       /\ ops[o].met \in BOOLEAN
  BY DEF Mark, TidyInv, OpFields

LEMMA CreateTidy ==
    ASSUME TidyInv, NEW o \in WallOps, createComment(o)
    PROVE  TidyInv'
  <1>1. /\ Active(o) /\ ops[o].at = "post" /\ OpFields(ops[o]) /\ OpTidy(ops[o]) /\ OpAlone(ops[o])
        /\ posted \in Nat /\ posted < MaxComments /\ MaxComments \in Nat /\ CommentIds = 1 .. MaxComments
        /\ posted' = posted + 1 /\ likes' = likes /\ ops' = [ops EXCEPT ![o] = Idle]
        /\ WALL_MAX_DEPTH \in Nat
    BY WallAssumption DEF createComment, At, Active, TidyInv, CommentIds, Finish
  <1>2. PICK n : n = posted + 1
    OBVIOUS
  <1>3. n \in CommentIds /\ n \in Nat /\ n > posted /\ ~Exists(n) /\ posted' = n
    <2>1. n \in CommentIds /\ n \in Nat /\ n > posted /\ ~(n <= posted)
      BY <1>1, <1>2
    <2> QED BY <2>1, <1>1, <1>2, OldDocs
  <1>4. PICK doc : doc = [exists |-> TRUE, author |-> ops[o].author, parent |-> ops[o].parent,
                          depth |-> ops[o].depth, text |-> ops[o].text,
                          status |-> IF ops[o].held THEN "pending" ELSE "visible",
                          deleted |-> "no", pinned |-> "no", cleared |-> FALSE, by |-> Mark(o)]
    OBVIOUS
  <1>5. comments' = [comments EXCEPT ![n] = doc]
    BY <1>2, <1>4 DEF createComment
  <1>6. /\ comments'[n] = doc /\ \A c \in CommentIds \ {n} : comments'[c] = comments[c] /\ (Exists(c)' <=> Exists(c))
        /\ DOMAIN comments' = CommentIds
    BY <1>3, <1>5 DEF TidyInv, Exists
  <1>7. /\ DOMAIN doc = DocFields /\ doc.exists = TRUE /\ doc.depth = ops[o].depth /\ doc.parent = ops[o].parent
        /\ doc.status \in {"visible", "pending"} /\ doc.deleted = "no" /\ doc.pinned = "no" /\ doc.text \in Texts
        /\ doc.by = Mark(o)
    BY <1>1, <1>4 DEF DocFields, OpFields
  <1>0. PICK par : par = ops[o].parent
    OBVIOUS
  <1>8. /\ par \in 0 .. posted /\ ops[o].depth \in 0 .. WALL_MAX_DEPTH /\ (ops[o].depth = 0) = (par = 0)
        /\ Exists(par) => ops[o].depth = comments[par].depth + 1
        /\ ops[o].met \/ par = 0 \/ Exists(par)
    BY <1>0, <1>1 DEF OpFields, OpTidy, OpAlone
  <1>9. /\ par # n /\ par \in 0 .. n - 1 /\ doc.parent = par
        /\ Exists(par)' => Exists(par)
        /\ Exists(par) => Exists(par)' /\ comments'[par] = comments[par]
    <2>1. par # n /\ par \in 0 .. n - 1 /\ doc.parent = par
      BY <1>0, <1>1, <1>2, <1>7, <1>8
    <2>2. CASE par \in CommentIds
      BY <2>1, <2>2, <1>6
    <2>3. CASE par \notin CommentIds
      <3>1. ~Exists(par) /\ ~Exists(par)'
        BY <2>3 DEF Exists, CommentIds
      <3> QED BY <2>1, <3>1
    <2> QED BY <2>1, <2>2, <2>3
  <1>10. ASSUME NEW c \in CommentIds
         PROVE  DocTidy(c)'
    <2>1. CASE c = n
      <3>2. doc.text \in {"plain", "muted", "none"} /\ doc.deleted \in Marks /\ doc.pinned \in Marks
            /\ doc.by \in {"alone", "met"} /\ doc.status \in {"visible", "pending", "hidden"}
        BY <1>7, MarkIs DEF Texts, Marks
      <3>3. Exists(par)' => doc.depth = comments'[par].depth + 1
        BY <1>7, <1>8, <1>9
      <3> QED BY <2>1, <3>2, <3>3, <1>3, <1>6, <1>7, <1>8, <1>9 DEF DocTidy
    <2>2. CASE c # n
      <3>1. DocTidy(c) /\ comments'[c] = comments[c]
        BY <2>2, <1>6 DEF TidyInv
      <3>2. CASE comments[c] = NoComment
        BY <3>1, <3>2 DEF DocTidy
      <3>3. CASE comments[c] # NoComment
        <4>1. c <= posted /\ comments[c].parent \in 0 .. c - 1 /\ c \in Nat
          BY <3>1, <3>3, <1>1 DEF DocTidy
        <4>0. PICK q : q = comments[c].parent
          OBVIOUS
        <4>2. q # n /\ c <= posted'
          BY <4>0, <4>1, <1>1, <1>2, <1>3
        <4>3. Exists(q)' => Exists(q) /\ comments'[q] = comments[q]
          BY <4>2, <1>6 DEF Exists
        <4> QED BY <4>0, <4>2, <4>3, <3>1, <3>3 DEF DocTidy
      <3> QED BY <3>2, <3>3
    <2> QED BY <2>1, <2>2
  <1>11. ops[o].met => \A c \in CommentIds : DocStep(c)
    BY <1>2, <1>6, <1>7, MarkIs DEF DocStep
  <1>12. NoOrphans'
    <2> SUFFICES ASSUME NEW c \in CommentIds, Exists(c)', NEW q, q = comments'[c].parent, q # 0
                 PROVE  Exists(q)' \/ comments'[c].by = "met"
      BY DEF NoOrphans
    <2>1. CASE c = n
      BY <2>1, <1>6, <1>7, <1>8, <1>9, MarkIs
    <2>2. CASE c # n
      <3>1. Exists(c) /\ comments'[c] = comments[c]
        BY <2>2, <1>6
      <3>2. Exists(q) \/ comments[c].by = "met"
        BY <2>2, <3>1 DEF TidyInv, NoOrphans
      <3>3. Exists(q) => q \in CommentIds \ {n}
        BY <1>3 DEF Exists
      <3> QED BY <3>1, <3>2, <3>3, <1>6
    <2> QED BY <2>1, <2>2
  <1>13. PlaceholdersHold'
    <2> SUFFICES ASSUME NEW c \in CommentIds, Exists(c)', comments'[c].deleted = "alone"
                 PROVE  /\ comments'[c].text = "none"
                        /\ \/ ChildrenOf({c})' # {}
                           \/ \E p \in WallOps : ops'[p].at \in {"unlike", "climb", "drop"} /\ ops'[p].parent = c
      BY DEF PlaceholdersHold
    <2>1. c # n /\ Exists(c) /\ comments'[c] = comments[c]
      BY <1>6, <1>7
    <2>2. /\ comments[c].text = "none"
          /\ \/ ChildrenOf({c}) # {}
             \/ \E p \in WallOps : ops[p].at \in {"unlike", "climb", "drop"} /\ ops[p].parent = c
      BY <2>1 DEF TidyInv, PlaceholdersHold
    <2>3. ChildrenOf({c}) \subseteq ChildrenOf({c})'
      <3> SUFFICES ASSUME NEW d \in CommentIds, Exists(d), comments[d].parent = c
                   PROVE  Exists(d)' /\ comments'[d].parent = c
        BY DEF ChildrenOf
      <3> QED BY <1>3, <1>6
    <2>4. \A p \in WallOps : ops[p].at \in {"unlike", "climb", "drop"} => p # o /\ ops'[p] = ops[p]
      BY <1>1 DEF TidyInv
    <2> QED BY <2>1, <2>2, <2>3, <2>4
  <1>14. OneAlonePin'
    <2> SUFFICES ASSUME NEW c \in CommentIds, NEW d \in CommentIds, Exists(c)', Exists(d)',
                        comments'[c].pinned = "alone", comments'[d].pinned = "alone"
                 PROVE  c = d
      BY DEF OneAlonePin
    <2>1. c # n /\ d # n
      BY <1>6, <1>7
    <2> QED BY <2>1, <1>6 DEF TidyInv, OneAlonePin
  <1>15. LikesOfLive'
    <2> SUFFICES ASSUME NEW c \in CommentIds, likes'[c] = "alone", ~Live(c)'
                 PROVE  \E p \in WallOps : At(p, "unlike")' /\ c \in ops'[p].doomed
      BY DEF LikesOfLive
    <2>1. c # n
      BY <1>3, <1>6, <1>7 DEF Live, Exists
    <2>2. ~Live(c) /\ likes[c] = "alone"
      BY <2>1, <1>1, <1>6 DEF Live
    <2>3. PICK p \in WallOps : At(p, "unlike") /\ c \in ops[p].doomed
      BY <2>2 DEF TidyInv, LikesOfLive
    <2>4. p # o /\ ops'[p] = ops[p]
      BY <2>3, <1>1 DEF At, TidyInv
    <2> QED BY <2>3, <2>4 DEF At
  <1>16. posted' \in 0 .. MaxComments /\ posted <= posted' /\ likes' \in [CommentIds -> Marks]
    BY <1>1 DEF TidyInv
  <1> QED BY <1>1, <1>6, <1>10, <1>11, <1>12, <1>13, <1>14, <1>15, <1>16, IdleTidy, StepsTidy

LEMMA StartDeletionTidy ==
    ASSUME TidyInv, NEW o \in WallOps, NEW c \in CommentIds, Live(c), NEW self,
           Start(o, Deletion(self, c, {})), UNCHANGED <<comments, posted, likes>>
    PROVE  TidyInv'
  <1>1. PICK b \in BOOLEAN : b = (\E y \in WallOps : Active(y))
    BY BusyIs
  <1>2. PICK h : h = Having(b, Deletion(self, c, {}))
    OBVIOUS
  <1>3. OpFields(h) /\ OpTidy(h) /\ OpAlone(h)
    BY <1>2, DeletionTidy
  <1>4. h = Having(\E y \in WallOps : Active(y), Deletion(self, c, {}))
    BY <1>1, <1>2
  <1> QED BY <1>3, <1>4, StartsTidy

(* A handler that works on a document that is there, or only names it. *)
LEMMA StartOnTidy ==
    ASSUME TidyInv, NEW o \in WallOps, NEW op, Start(o, op), UNCHANGED <<comments, posted, likes>>,
           NEW c \in CommentIds, Exists(c),
           {"at", "comment"} \subseteq DOMAIN op, "met" \notin DOMAIN op, op.comment = c,
           \/ op.at \in {"unpin"}
           \/ op.at = "like" /\ Live(c)
           \/ op.at = "edit" /\ Live(c) /\ {"text", "held"} \subseteq DOMAIN op /\ op.text \in Texts /\ op.held \in BOOLEAN
           \/ op.at = "moderate" /\ "status" \in DOMAIN op /\ op.status \in {"visible", "hidden"}
    PROVE  TidyInv'
  <1>1. PICK b \in BOOLEAN : b = (\E y \in WallOps : Active(y))
    BY BusyIs
  <1>2. PICK h : h = Having(b, op)
    OBVIOUS
  <1>3. /\ DOMAIN h = DOMAIN op \cup {"met"} /\ h.met = b /\ h.at = op.at /\ h.comment = c
        /\ op.at = "edit" => h.text = op.text /\ h.held = op.held
        /\ op.at = "moderate" => h.status = op.status
    BY <1>2 DEF Having
  <1>4. c \in 1 .. posted
    BY OldDocs
  <1>5. OpFields(h)
    BY <1>3, <1>4 DEF OpFields, Deletes
  <1>6. OpTidy(h)
    BY <1>3 DEF OpTidy
  <1>7. OpAlone(h)
    BY <1>3 DEF OpAlone
  <1>8. h = Having(\E y \in WallOps : Active(y), op)
    BY <1>1, <1>2
  <1> QED BY <1>5, <1>6, <1>7, <1>8, StartsTidy

(* Documents that keep their places, and go no nearer to being there. *)
Placed ==
    /\ DOMAIN comments' = CommentIds
    /\ posted' = posted
    /\ \A c \in CommentIds : Exists(c)' <=> Exists(c)
    /\ \A c \in CommentIds : Exists(c) =>
         /\ comments'[c].parent = comments[c].parent /\ comments'[c].depth = comments[c].depth
         /\ comments'[c].by = comments[c].by
         /\ DOMAIN comments'[c] = DocFields /\ comments'[c].exists = TRUE
         /\ comments[c].deleted # "no" => comments'[c].deleted # "no"
         /\ comments'[c].status \in {"visible", "pending", "hidden"}
         /\ comments'[c].deleted \in Marks /\ comments'[c].pinned \in Marks
         /\ comments'[c].text \in {"plain", "muted", "none"}
    /\ \A c \in CommentIds : ~Exists(c) => comments'[c] = comments[c]

LEMMA PlacedTidy ==
    ASSUME TidyInv, Placed
    PROVE  /\ NoOrphans'
           /\ \A c \in CommentIds : DocTidy(c)' /\ DocStep(c)
           /\ \A c \in CommentIds : ChildrenOf({c})' = ChildrenOf({c})
  <1>1. CommentIds' = CommentIds
    BY DEF CommentIds
  <1>2. NoOrphans'
    <2> SUFFICES ASSUME NEW c \in CommentIds, Exists(c)', NEW q, q = comments'[c].parent, q # 0
                 PROVE  Exists(q)' \/ comments'[c].by = "met"
      BY DEF NoOrphans
    <2>1. Exists(c) /\ comments[c].parent = q /\ comments[c].by = comments'[c].by
      BY DEF Placed
    <2>2. Exists(q) \/ comments[c].by = "met"
      BY <2>1 DEF TidyInv, NoOrphans
    <2>3. Exists(q) => q \in CommentIds
      BY DEF Exists
    <2> QED BY <2>1, <2>2, <2>3 DEF Placed
  <1>3. ASSUME NEW c \in CommentIds
        PROVE  DocTidy(c)' /\ DocStep(c) /\ ChildrenOf({c})' = ChildrenOf({c})
    <2>1. ChildrenOf({c})' = ChildrenOf({c})
      BY DEF ChildrenOf, Placed
    <2>2. CASE ~Exists(c)
      <3>1. comments'[c] = comments[c] /\ comments[c] = NoComment
        BY <2>2 DEF Placed, TidyInv, DocTidy, Exists
      <3> QED BY <2>1, <3>1 DEF DocTidy, DocStep
    <2>3. CASE Exists(c)
      <3>1. PICK q : q = comments[c].parent
        OBVIOUS
      <3>2. /\ c <= posted /\ q \in 0 .. c - 1 /\ comments[c].depth \in 0 .. WALL_MAX_DEPTH
            /\ (comments[c].depth = 0) = (q = 0) /\ comments[c].by \in {"alone", "met"}
            /\ Exists(q) => comments[c].depth = comments[q].depth + 1
        BY <2>3, <3>1, OldDocs
      <3>3. Exists(q)' => Exists(q) /\ comments'[q].depth = comments[q].depth
        <4>1. CASE q \in CommentIds
          BY <4>1 DEF Placed
        <4>2. CASE q \notin CommentIds
          BY <4>2, <1>1 DEF Exists
        <4> QED BY <4>1, <4>2
      <3>4. /\ comments'[c].parent = q /\ comments'[c].depth = comments[c].depth /\ comments'[c].by = comments[c].by
            /\ DOMAIN comments'[c] = DocFields /\ comments'[c].exists = TRUE /\ posted' = posted
            /\ comments'[c].status \in {"visible", "pending", "hidden"}
            /\ comments'[c].deleted \in Marks /\ comments'[c].pinned \in Marks
            /\ comments'[c].text \in {"plain", "muted", "none"}
        BY <2>3, <3>1 DEF Placed
      <3>5. DocTidy(c)'
        BY <3>2, <3>3, <3>4 DEF DocTidy
      <3>6. DocStep(c)
        BY <2>3 DEF Placed, DocStep
      <3> QED BY <2>1, <3>5, <3>6
    <2> QED BY <2>2, <2>3
  <1> QED BY <1>2, <1>3

(* A handler that writes documents where they are. *)
LEMMA WriteTidy ==
    ASSUME TidyInv, NEW o \in WallOps, Active(o), NEW op, ops' = [ops EXCEPT ![o] = op],
           OpFields(op), OpTidy(op)', OpAlone(op)', op.at # "idle" => op.met = ops[o].met,
           Placed, likes' = likes, ops[o].at \notin {"unlike", "climb", "drop"},
           \A c \in CommentIds : Exists(c) =>
              \/ comments'[c].deleted = comments[c].deleted /\ (comments[c].deleted = "alone" => comments'[c].text = comments[c].text)
              \/ comments'[c].deleted # "alone" /\ op.at = "unlike" /\ c \in op.doomed
              \/ comments'[c].deleted # "alone" /\ comments[c].deleted # "no"
              \/ comments'[c].text = "none" /\ ChildrenOf({c}) # {} /\ op.at = "unlike" /\ c \in op.doomed,
           OneAlonePin'
    PROVE  TidyInv'
  <1>1. DOMAIN ops' = WallOps /\ ops'[o] = op /\ \A p \in WallOps \ {o} : ops'[p] = ops[p]
    BY DEF TidyInv
  <1>2. /\ NoOrphans' /\ \A c \in CommentIds : DocTidy(c)' /\ DocStep(c)
        /\ \A c \in CommentIds : ChildrenOf({c})' = ChildrenOf({c})
    BY PlacedTidy
  <1>3. OpFields(op)'
    BY DEF OpFields, Placed
  <1>4. PlaceholdersHold'
    <2> SUFFICES ASSUME NEW c \in CommentIds, Exists(c)', comments'[c].deleted = "alone"
                 PROVE  /\ comments'[c].text = "none"
                        /\ \/ ChildrenOf({c})' # {}
                           \/ \E p \in WallOps : ops'[p].at \in {"unlike", "climb", "drop"} /\ ops'[p].parent = c
      BY DEF PlaceholdersHold
    <2>1. Exists(c)
      BY DEF Placed
    <2>2. CASE comments'[c].text = "none" /\ ChildrenOf({c}) # {}
      BY <2>2, <1>2
    <2>3. CASE comments[c].deleted = "alone" /\ comments'[c].text = comments[c].text
      <3>1. /\ comments[c].text = "none"
            /\ \/ ChildrenOf({c}) # {}
               \/ \E p \in WallOps : ops[p].at \in {"unlike", "climb", "drop"} /\ ops[p].parent = c
        BY <2>1, <2>3 DEF TidyInv, PlaceholdersHold
      <3>2. \A p \in WallOps : ops[p].at \in {"unlike", "climb", "drop"} => ops'[p] = ops[p]
        BY <1>1
      <3> QED BY <2>3, <3>1, <3>2, <1>2
    <2> QED BY <2>1, <2>2, <2>3
  <1>5. LikesOfLive'
    <2> SUFFICES ASSUME NEW c \in CommentIds, likes'[c] = "alone", ~Live(c)'
                 PROVE  \E p \in WallOps : At(p, "unlike")' /\ c \in ops'[p].doomed
      BY DEF LikesOfLive
    <2>1. CASE ~Live(c)
      <3>1. PICK p \in WallOps : At(p, "unlike") /\ c \in ops[p].doomed
        BY <2>1 DEF TidyInv, LikesOfLive
      <3> QED BY <3>1, <1>1 DEF At
    <2>2. CASE Live(c)
      <3>1. Exists(c) /\ comments[c].deleted = "no" /\ comments'[c].deleted # "no"
        BY <2>2 DEF Live, Placed
      <3>2. op.at = "unlike" /\ c \in op.doomed
        BY <3>1
      <3> QED BY <3>2, <1>1 DEF At
    <2> QED BY <2>1, <2>2
  <1>6. /\ posted' \in 0 .. MaxComments /\ posted <= posted' /\ likes' \in [CommentIds -> Marks]
        /\ DOMAIN comments' = CommentIds
    BY WallAssumption DEF TidyInv, Placed
  <1> QED BY <1>2, <1>3, <1>4, <1>5, <1>6, StepsTidy

LEMMA HandlerIs ==
    ASSUME TidyInv, NEW o \in WallOps
    PROVE  /\ OpFields(ops[o]) /\ OpTidy(ops[o]) /\ OpAlone(ops[o])
           /\ posted \in Nat /\ posted <= MaxComments /\ MaxComments \in Nat /\ CommentIds = 1 .. MaxComments
           /\ WALL_MAX_DEPTH \in Nat
  BY WallAssumption DEF TidyInv, CommentIds

LEMMA WipeTidy ==
    ASSUME TidyInv, NEW o \in WallOps, wipe(o)
    PROVE  TidyInv'
  <1>1. Active(o) /\ ops[o].at = "wipe" /\ posted' = posted /\ likes' = likes
    BY DEF wipe, At, Active
  <1>2. PICK op : op = [ops[o] EXCEPT !.at = "unlike"]
    OBVIOUS
  <1>3. ops' = [ops EXCEPT ![o] = op]
    BY <1>2 DEF wipe, Goto
  <1>4. OpFields(ops[o]) /\ OpAlone(ops[o])
    BY HandlerIs
  <1>5. /\ DOMAIN op = DOMAIN ops[o] /\ op.at = "unlike" /\ op.met = ops[o].met /\ op.doomed = ops[o].doomed
        /\ op.self = ops[o].self /\ op.todo = ops[o].todo /\ op.level = ops[o].level
        /\ op.parent = ops[o].parent /\ op.above = ops[o].above
    BY <1>1, <1>2, <1>4 DEF OpFields
  <1>6. OpFields(op)
    BY <1>1, <1>4, <1>5 DEF OpFields, Deletes
  <1>7. OpTidy(op)' /\ OpAlone(op)'
    BY <1>5 DEF OpTidy, OpAlone
  <1>8. PICK m \in {"alone", "met"} : m = Mark(o) /\ (m = "alone" => ~ops[o].met)
    BY MarkIs
  <1>9. /\ \A c \in CommentIds : ~(c \in ops[o].doomed /\ Exists(c)) => comments'[c] = comments[c]
        /\ \A c \in CommentIds : c \in ops[o].doomed /\ Exists(c) => comments'[c] = Wiped(comments[c], m)
        /\ DOMAIN comments' = CommentIds
    BY <1>8 DEF wipe
  <1>10. ASSUME NEW c \in CommentIds, Exists(c)
         PROVE  /\ LET w == Wiped(comments[c], m) IN
                     /\ DOMAIN w = DocFields /\ w.exists = TRUE /\ w.deleted = m /\ w.text = "none" /\ w.pinned = "no"
                     /\ w.status = comments[c].status /\ w.parent = comments[c].parent
                     /\ w.depth = comments[c].depth /\ w.by = comments[c].by
                /\ comments[c].status \in {"visible", "pending", "hidden"} /\ comments[c].exists = TRUE
                /\ comments[c].text \in {"plain", "muted", "none"}
                /\ DOMAIN comments[c] = DocFields /\ comments[c].deleted \in Marks /\ comments[c].pinned \in Marks
    <2>1. DocTidy(c) /\ comments[c] # NoComment
      BY <1>10, OldDocs DEF TidyInv
    <2> QED BY <2>1 DEF DocTidy, Wiped, DocFields
  <1>11. Placed
    <2>1. ASSUME NEW c \in CommentIds, Exists(c), c \in ops[o].doomed
          PROVE  Exists(c)'
      BY <1>9, <1>10, <2>1 DEF Exists
    <2>2. ASSUME NEW c \in CommentIds
          PROVE  Exists(c)' <=> Exists(c)
      <3>1. CASE c \in ops[o].doomed /\ Exists(c)
        BY <2>1, <3>1
      <3>2. CASE ~(c \in ops[o].doomed /\ Exists(c))
        <4>1. comments'[c] = comments[c]
          BY <1>9, <3>2
        <4> QED BY <4>1 DEF Exists, CommentIds
      <3> QED BY <3>1, <3>2
    <2>3. ASSUME NEW c \in CommentIds, Exists(c)
          PROVE  /\ comments'[c].parent = comments[c].parent /\ comments'[c].depth = comments[c].depth
                 /\ comments'[c].by = comments[c].by
                 /\ DOMAIN comments'[c] = DocFields /\ comments'[c].exists = TRUE
                 /\ comments[c].deleted # "no" => comments'[c].deleted # "no"
                 /\ comments'[c].status \in {"visible", "pending", "hidden"}
                 /\ comments'[c].deleted \in Marks /\ comments'[c].pinned \in Marks
                 /\ comments'[c].text \in {"plain", "muted", "none"}
      <3>1. CASE c \in ops[o].doomed
        <4>1. PICK w : w = Wiped(comments[c], m)
          OBVIOUS
        <4>2. comments'[c] = w
          BY <1>9, <2>3, <3>1, <4>1
        <4>3. /\ DOMAIN w = DocFields /\ w.exists = TRUE /\ w.deleted = m /\ w.text = "none" /\ w.pinned = "no"
              /\ w.status = comments[c].status /\ w.parent = comments[c].parent
              /\ w.depth = comments[c].depth /\ w.by = comments[c].by
              /\ comments[c].status \in {"visible", "pending", "hidden"}
          BY <1>10, <2>3, <4>1
        <4> QED BY <1>8, <4>2, <4>3 DEF Marks
      <3>2. CASE c \notin ops[o].doomed
        BY <1>9, <1>10, <2>3, <3>2
      <3> QED BY <3>1, <3>2
    <2> QED BY <1>1, <1>9, <2>2, <2>3 DEF Placed
  <1>12. ASSUME NEW c \in CommentIds, Exists(c)
         PROVE  \/ comments'[c].deleted = comments[c].deleted /\ (comments[c].deleted = "alone" => comments'[c].text = comments[c].text)
                \/ comments'[c].deleted # "alone" /\ op.at = "unlike" /\ c \in op.doomed
                \/ comments'[c].text = "none" /\ ChildrenOf({c}) # {} /\ op.at = "unlike" /\ c \in op.doomed
    <2>1. CASE c \notin ops[o].doomed
      BY <1>9, <2>1
    <2>2. CASE c \in ops[o].doomed
      <3>1. comments'[c].deleted = m /\ comments'[c].text = "none" /\ op.at = "unlike" /\ c \in op.doomed
        BY <1>5, <1>9, <1>10, <1>12, <2>2
      <3>2. m = "alone" => ChildrenOf({c}) # {}
        BY <1>1, <1>4, <1>8, <2>2 DEF OpAlone
      <3> QED BY <3>1, <3>2
    <2> QED BY <2>1, <2>2
  <1>13. OneAlonePin'
    <2> SUFFICES ASSUME NEW c \in CommentIds, NEW d \in CommentIds, Exists(c)', Exists(d)',
                        comments'[c].pinned = "alone", comments'[d].pinned = "alone"
                 PROVE  c = d
      BY DEF OneAlonePin
    <2>1. Exists(c) /\ Exists(d)
      BY <1>11 DEF Placed
    <2>2. comments[c].pinned = "alone" /\ comments[d].pinned = "alone"
      BY <1>9, <1>10, <2>1
    <2> QED BY <2>1, <2>2 DEF TidyInv, OneAlonePin
  <1> QED BY <1>1, <1>3, <1>5, <1>6, <1>7, <1>11, <1>12, <1>13, WriteTidy

(* A handler that writes one document and ends. *)
LEMMA WriteOneTidy ==
    ASSUME TidyInv, NEW o \in WallOps, Active(o), Finish(o), UNCHANGED <<posted, likes>>,
           ops[o].at \notin {"unlike", "climb", "drop"},
           NEW c \in CommentIds, Exists(c), NEW doc, comments' = [comments EXCEPT ![c] = doc],
           DOMAIN doc = DocFields, doc.exists = TRUE,
           doc.parent = comments[c].parent, doc.depth = comments[c].depth, doc.by = comments[c].by,
           doc.status \in {"visible", "pending", "hidden"}, doc.pinned \in Marks, doc.text \in {"plain", "muted", "none"},
           \/ doc.deleted = comments[c].deleted /\ doc.text = comments[c].text
           \/ doc.deleted = comments[c].deleted /\ comments[c].deleted # "alone"
           \/ comments[c].deleted # "no" /\ doc.deleted = "met",
           \/ doc.pinned \in {comments[c].pinned, "met", "no"}
           \/ \A d \in CommentIds : Exists(d) => comments[d].pinned = "no"
    PROVE  TidyInv'
  <1>1. /\ comments'[c] = doc /\ DOMAIN comments' = CommentIds
        /\ \A d \in CommentIds : d # c => comments'[d] = comments[d]
    BY DEF TidyInv
  <1>2. ASSUME NEW d \in CommentIds, Exists(d)
        PROVE  /\ comments[d].status \in {"visible", "pending", "hidden"} /\ comments[d].exists = TRUE
               /\ comments[d].text \in {"plain", "muted", "none"}
               /\ DOMAIN comments[d] = DocFields /\ comments[d].deleted \in Marks /\ comments[d].pinned \in Marks
    BY <1>2, OldDocs DEF TidyInv, DocTidy
  <1>3. doc.deleted \in Marks /\ (comments[c].deleted # "no" => doc.deleted # "no")
    BY <1>2 DEF Marks
  <1>4. \A d \in CommentIds : Exists(d)' <=> Exists(d)
    <2>1. Exists(c)' /\ Exists(c)
      BY <1>1 DEF Exists
    <2>2. ASSUME NEW d \in CommentIds, d # c
          PROVE  Exists(d)' <=> Exists(d)
      BY <1>1, <2>2 DEF Exists, CommentIds
    <2> QED BY <2>1, <2>2
  <1>5. Placed
    <2>1. ASSUME NEW d \in CommentIds, Exists(d)
          PROVE  /\ comments'[d].parent = comments[d].parent /\ comments'[d].depth = comments[d].depth
                 /\ comments'[d].by = comments[d].by
                 /\ DOMAIN comments'[d] = DocFields /\ comments'[d].exists = TRUE
                 /\ comments[d].deleted # "no" => comments'[d].deleted # "no"
                 /\ comments'[d].status \in {"visible", "pending", "hidden"}
                 /\ comments'[d].deleted \in Marks /\ comments'[d].pinned \in Marks
                 /\ comments'[d].text \in {"plain", "muted", "none"}
      <3>1. CASE d = c
        BY <3>1, <1>1, <1>3
      <3>2. CASE d # c
        BY <3>2, <1>1, <1>2, <2>1
      <3> QED BY <3>1, <3>2
    <2>2. \A d \in CommentIds : ~Exists(d) => comments'[d] = comments[d]
      BY <1>1
    <2> QED BY <1>1, <1>4, <2>1, <2>2 DEF Placed
  <1>6. OneAlonePin'
    <2> SUFFICES ASSUME NEW d \in CommentIds, NEW e \in CommentIds, Exists(d)', Exists(e)',
                        comments'[d].pinned = "alone", comments'[e].pinned = "alone"
                 PROVE  d = e
      BY DEF OneAlonePin
    <2>1. Exists(d) /\ Exists(e)
      BY <1>4
    <2>2. CASE doc.pinned \in {comments[c].pinned, "met", "no"}
      <3>1. comments[d].pinned = "alone" /\ comments[e].pinned = "alone"
        BY <1>1, <2>2
      <3> QED BY <2>1, <3>1 DEF TidyInv, OneAlonePin
    <2>3. CASE \A f \in CommentIds : Exists(f) => comments[f].pinned = "no"
      <3>1. d = c /\ e = c
        BY <1>1, <2>1, <2>3
      <3> QED BY <3>1
    <2> QED BY <2>2, <2>3
  <1>7. ASSUME NEW d \in CommentIds, Exists(d)
        PROVE  \/ comments'[d].deleted = comments[d].deleted /\ (comments[d].deleted = "alone" => comments'[d].text = comments[d].text)
               \/ comments'[d].deleted # "alone" /\ comments[d].deleted # "no"
    <2>1. CASE d = c
      BY <1>1, <2>1
    <2>2. CASE d # c
      BY <1>1, <2>2
    <2> QED BY <2>1, <2>2
  <1>8. OpFields(Idle) /\ OpTidy(Idle)' /\ OpAlone(Idle)' /\ Idle.at = "idle" /\ ops' = [ops EXCEPT ![o] = Idle]
    BY IdleTidy DEF Finish
  <1> QED BY <1>5, <1>6, <1>7, <1>8, WriteTidy

(* A handler that ends, having written nothing. *)
LEMMA EndTidy ==
    ASSUME TidyInv, NEW o \in WallOps, Active(o), Finish(o), UNCHANGED <<comments, posted, likes>>,
           ops[o].at \notin {"unlike", "climb", "drop"}
    PROVE  TidyInv'
  BY IdleTidy, QuietTidy DEF Finish

LEMMA EditTidy ==
    ASSUME TidyInv, NEW o \in WallOps, saveEdit(o)
    PROVE  TidyInv'
  <1> DEFINE c == ops[o].comment
  <1>1. Active(o) /\ Finish(o) /\ ops[o].at = "edit" /\ UNCHANGED <<posted, likes>>
    BY DEF saveEdit, At, Active
  <1>2. OpFields(ops[o]) /\ OpAlone(ops[o])
    BY HandlerIs
  <1>3. CASE ~Exists(c)
    BY <1>1, <1>3, EndTidy DEF saveEdit
  <1>4. CASE Exists(c)
    <2>1. PICK m \in {"alone", "met"} : m = Mark(o) /\ (m = "alone" => ~ops[o].met)
      BY MarkIs
    <2>2. PICK doc : doc = Edited(comments[c], ops[o], m)
      OBVIOUS
    <2>3. comments' = [comments EXCEPT ![c] = doc]
      BY <1>4, <2>1, <2>2 DEF saveEdit
    <2>4. c \in CommentIds /\ DocTidy(c) /\ comments[c] # NoComment
      BY <1>4, OldDocs DEF TidyInv, Exists
    <2>5. /\ DOMAIN doc = DocFields /\ doc.exists = TRUE /\ doc.parent = comments[c].parent
          /\ doc.depth = comments[c].depth /\ doc.by = comments[c].by /\ doc.pinned = comments[c].pinned
          /\ doc.text = ops[o].text /\ doc.status \in {"pending", comments[c].status}
          /\ doc.deleted = IF comments[c].deleted = "no" THEN "no" ELSE m
      BY <2>2, <2>4 DEF Edited, DocTidy, DocFields
    <2>6. /\ doc.status \in {"visible", "pending", "hidden"} /\ doc.pinned \in Marks
          /\ doc.text \in {"plain", "muted", "none"}
      BY <1>1, <1>2, <2>4, <2>5 DEF OpFields, DocTidy, Texts
    <2>7. m = "alone" => comments[c].deleted = "no"
      BY <1>1, <1>2, <2>1 DEF OpAlone, Live
    <2>8. \/ doc.deleted = comments[c].deleted /\ comments[c].deleted # "alone"
          \/ comments[c].deleted # "no" /\ doc.deleted = "met"
      BY <2>5, <2>7
    <2> QED BY <1>1, <1>4, <2>3, <2>4, <2>5, <2>6, <2>8, WriteOneTidy
  <1> QED BY <1>3, <1>4

LEMMA ModerationTidy ==
    ASSUME TidyInv, NEW o \in WallOps, saveModeration(o)
    PROVE  TidyInv'
  <1> DEFINE c == ops[o].comment
  <1>1. Active(o) /\ Finish(o) /\ ops[o].at = "moderate" /\ UNCHANGED <<posted, likes>>
    BY DEF saveModeration, At, Active
  <1>2. OpFields(ops[o])
    BY HandlerIs
  <1>3. CASE ~Exists(c)
    BY <1>1, <1>3, EndTidy DEF saveModeration
  <1>4. CASE Exists(c)
    <2>2. PICK doc : doc = Decided(comments[c], ops[o].status)
      OBVIOUS
    <2>3. comments' = [comments EXCEPT ![c] = doc]
      BY <1>4, <2>2 DEF saveModeration
    <2>4. c \in CommentIds /\ DocTidy(c) /\ comments[c] # NoComment
      BY <1>4, OldDocs DEF TidyInv, Exists
    <2>5. /\ DOMAIN doc = DocFields /\ doc.exists = TRUE /\ doc.parent = comments[c].parent
          /\ doc.depth = comments[c].depth /\ doc.by = comments[c].by /\ doc.pinned = comments[c].pinned
          /\ doc.text = comments[c].text /\ doc.status = ops[o].status /\ doc.deleted = comments[c].deleted
      BY <2>2, <2>4 DEF Decided, DocTidy, DocFields
    <2>6. /\ doc.status \in {"visible", "pending", "hidden"} /\ doc.pinned \in Marks
          /\ doc.text \in {"plain", "muted", "none"}
      BY <1>1, <1>2, <2>4, <2>5 DEF OpFields, DocTidy
    <2> QED BY <1>1, <1>4, <2>3, <2>4, <2>5, <2>6, WriteOneTidy
  <1> QED BY <1>3, <1>4

LEMMA PinTidy ==
    ASSUME TidyInv, NEW o \in WallOps, pin(o)
    PROVE  TidyInv'
  <1> DEFINE c == ops[o].comment
  <1>1. Active(o) /\ Finish(o) /\ ops[o].at = "pin" /\ UNCHANGED <<posted, likes>>
    BY DEF pin, At, Active
  <1>2. OpAlone(ops[o])
    BY HandlerIs
  <1>3. CASE ~Exists(c)
    BY <1>1, <1>3, EndTidy DEF pin
  <1>4. CASE Exists(c)
    <2>1. PICK m \in {"alone", "met"} : m = Mark(o) /\ (m = "alone" => ~ops[o].met)
      BY MarkIs
    <2>2. PICK doc : doc = [comments[c] EXCEPT !.pinned = m]
      OBVIOUS
    <2>3. comments' = [comments EXCEPT ![c] = doc]
      BY <1>4, <2>1, <2>2 DEF pin
    <2>4. c \in CommentIds /\ DocTidy(c) /\ comments[c] # NoComment
      BY <1>4, OldDocs DEF TidyInv, Exists
    <2>5. /\ DOMAIN doc = DocFields /\ doc.exists = TRUE /\ doc.parent = comments[c].parent
          /\ doc.depth = comments[c].depth /\ doc.by = comments[c].by /\ doc.pinned = m
          /\ doc.text = comments[c].text /\ doc.status = comments[c].status /\ doc.deleted = comments[c].deleted
      BY <2>2, <2>4 DEF DocTidy, DocFields
    <2>6. /\ doc.status \in {"visible", "pending", "hidden"} /\ doc.pinned \in Marks
          /\ doc.text \in {"plain", "muted", "none"}
      BY <2>4, <2>5 DEF DocTidy, Marks
    <2>7. \/ doc.pinned \in {comments[c].pinned, "met", "no"}
          \/ \A d \in CommentIds : Exists(d) => comments[d].pinned = "no"
      BY <1>1, <1>2, <2>1, <2>5 DEF OpAlone
    <2> QED BY <1>1, <1>4, <2>3, <2>4, <2>5, <2>6, <2>7, WriteOneTidy
  <1> QED BY <1>3, <1>4

(* All documents that are there lose their pin, or one of them. *)
LEMMA UnpinnedPlaced ==
    ASSUME TidyInv, posted' = posted, NEW S,
           comments' = [c \in CommentIds |->
             IF Exists(c) /\ c \in S THEN [comments[c] EXCEPT !.pinned = "no"] ELSE comments[c]]
    PROVE  /\ Placed
           /\ \A c \in CommentIds : Exists(c) =>
                /\ comments'[c].deleted = comments[c].deleted /\ comments'[c].text = comments[c].text
                /\ comments'[c].pinned \in {comments[c].pinned, "no"}
                /\ c \in S => comments'[c].pinned = "no"
           /\ OneAlonePin'
  <1>1. DOMAIN comments' = CommentIds /\ \A c \in CommentIds : ~Exists(c) => comments'[c] = comments[c]
    OBVIOUS
  <1>2. ASSUME NEW c \in CommentIds, Exists(c)
        PROVE  /\ comments'[c].parent = comments[c].parent /\ comments'[c].depth = comments[c].depth
               /\ comments'[c].by = comments[c].by /\ comments'[c].text = comments[c].text
               /\ comments'[c].deleted = comments[c].deleted /\ comments'[c].status = comments[c].status
               /\ DOMAIN comments'[c] = DocFields /\ comments'[c].exists = TRUE
               /\ comments'[c].pinned \in {comments[c].pinned, "no"}
               /\ c \in S => comments'[c].pinned = "no"
    <2>1. DocTidy(c) /\ comments[c] # NoComment
      BY <1>2, OldDocs DEF TidyInv
    <2>2. CASE c \in S
      <3>1. comments'[c] = [comments[c] EXCEPT !.pinned = "no"]
        BY <1>2, <2>2
      <3> QED BY <2>1, <3>1 DEF DocTidy, DocFields
    <2>3. CASE c \notin S
      <3>1. comments'[c] = comments[c]
        BY <2>3
      <3> QED BY <2>1, <2>3, <3>1 DEF DocTidy
    <2> QED BY <2>2, <2>3
  <1>3. ASSUME NEW c \in CommentIds
        PROVE  Exists(c)' <=> Exists(c)
    <2>1. CASE Exists(c)
      BY <1>2, <2>1 DEF Exists
    <2>2. CASE ~Exists(c)
      BY <1>1, <2>2 DEF Exists, CommentIds
    <2> QED BY <2>1, <2>2
  <1>4. ASSUME NEW c \in CommentIds, Exists(c)
        PROVE  /\ comments[c].status \in {"visible", "pending", "hidden"}
               /\ comments[c].text \in {"plain", "muted", "none"}
               /\ comments[c].deleted \in Marks /\ comments[c].pinned \in Marks /\ "no" \in Marks
    BY <1>4, OldDocs DEF TidyInv, DocTidy, Marks
  <1>5. Placed
    <2>1. ASSUME NEW c \in CommentIds, Exists(c)
          PROVE  /\ comments'[c].parent = comments[c].parent /\ comments'[c].depth = comments[c].depth
                 /\ comments'[c].by = comments[c].by
                 /\ DOMAIN comments'[c] = DocFields /\ comments'[c].exists = TRUE
                 /\ comments[c].deleted # "no" => comments'[c].deleted # "no"
                 /\ comments'[c].status \in {"visible", "pending", "hidden"}
                 /\ comments'[c].deleted \in Marks /\ comments'[c].pinned \in Marks
                 /\ comments'[c].text \in {"plain", "muted", "none"}
      BY <2>1, <1>2, <1>4
    <2> QED BY <1>1, <1>3, <2>1 DEF Placed
  <1>6. OneAlonePin'
    <2> SUFFICES ASSUME NEW c \in CommentIds, NEW d \in CommentIds, Exists(c)', Exists(d)',
                        comments'[c].pinned = "alone", comments'[d].pinned = "alone"
                 PROVE  c = d
      BY DEF OneAlonePin
    <2>1. Exists(c) /\ Exists(d)
      BY <1>3
    <2>2. comments[c].pinned = "alone" /\ comments[d].pinned = "alone"
      BY <1>2, <2>1
    <2> QED BY <2>1, <2>2 DEF TidyInv, OneAlonePin
  <1> QED BY <1>2, <1>5, <1>6

LEMMA UnpinOthersTidy ==
    ASSUME TidyInv, NEW o \in WallOps, unpinOthers(o)
    PROVE  TidyInv'
  <1>1. Active(o) /\ ops[o].at = "unpin" /\ posted' = posted /\ likes' = likes
    BY DEF unpinOthers, At, Active
  <1>2. PICK op : op = [ops[o] EXCEPT !.at = "pin"]
    OBVIOUS
  <1>3. ops' = [ops EXCEPT ![o] = op]
    BY <1>2 DEF unpinOthers, Goto
  <1>4. OpFields(ops[o])
    BY HandlerIs
  <1>5. DOMAIN op = DOMAIN ops[o] /\ op.at = "pin" /\ op.met = ops[o].met /\ op.comment = ops[o].comment
    BY <1>1, <1>2, <1>4 DEF OpFields
  <1>6. OpFields(op)
    BY <1>1, <1>4, <1>5 DEF OpFields, Deletes
  <1>7. comments' = [c \in CommentIds |->
             IF Exists(c) /\ c \in CommentIds THEN [comments[c] EXCEPT !.pinned = "no"] ELSE comments[c]]
    BY DEF unpinOthers
  <1>8. /\ Placed /\ OneAlonePin'
        /\ \A c \in CommentIds : Exists(c) =>
             comments'[c].deleted = comments[c].deleted /\ comments'[c].text = comments[c].text /\ comments'[c].pinned = "no"
    BY <1>1, <1>7, UnpinnedPlaced
  <1>9. OpTidy(op)' /\ OpAlone(op)'
    <2>1. \A c \in CommentIds : Exists(c)' => comments'[c].pinned = "no"
      BY <1>8 DEF Placed
    <2>2. CommentIds' = CommentIds
      BY DEF CommentIds
    <2> QED BY <1>5, <2>1, <2>2 DEF OpTidy, OpAlone
  <1> QED BY <1>1, <1>3, <1>5, <1>6, <1>8, <1>9, WriteTidy

LEMMA DeleteThreadTidy ==
    ASSUME TidyInv, NEW o \in WallOps, deleteThread(o)
    PROVE  TidyInv'
  <1>1. Active(o) /\ ops[o].at = "doom" /\ posted' = posted /\ likes' = likes /\ ops[o].level >= WALL_MAX_DEPTH
    BY DEF deleteThread, At, Active, Deepest
  <1>2. PICK op : op = [ops[o] EXCEPT !.at = "unlike"]
    OBVIOUS
  <1>3. ops' = [ops EXCEPT ![o] = op]
    BY <1>2 DEF deleteThread, Goto
  <1>4. OpFields(ops[o]) /\ OpTidy(ops[o]) /\ posted \in Nat /\ WALL_MAX_DEPTH \in Nat
    BY HandlerIs
  <1>5. /\ DOMAIN op = DOMAIN ops[o] /\ op.at = "unlike" /\ op.met = ops[o].met /\ op.doomed = ops[o].doomed
        /\ op.self = ops[o].self /\ op.todo = ops[o].todo /\ op.level = ops[o].level
        /\ op.parent = ops[o].parent /\ op.above = ops[o].above
    BY <1>1, <1>2, <1>4 DEF OpFields
  <1>6. OpFields(op)'
    BY <1>1, <1>4, <1>5 DEF OpFields, Deletes
  <1>7. OpTidy(op)' /\ OpAlone(op)'
    BY <1>5 DEF OpTidy, OpAlone
  <1>8. /\ DOMAIN comments' = CommentIds
        /\ \A c \in CommentIds : c \in ops[o].doomed => comments'[c] = NoComment /\ ~Exists(c)'
        /\ \A c \in CommentIds : c \notin ops[o].doomed => comments'[c] = comments[c] /\ (Exists(c)' <=> Exists(c))
    BY NoDocs DEF deleteThread, Exists, CommentIds
  <1>9. \A c \in CommentIds : DocStep(c)
    BY <1>8 DEF DocStep
  <1>10. ASSUME NEW c \in CommentIds
         PROVE  DocTidy(c)'
    <2>1. CASE comments'[c] = NoComment
      BY <2>1 DEF DocTidy
    <2>2. CASE comments'[c] # NoComment
      <3>1. comments'[c] = comments[c] /\ DocTidy(c)
        BY <2>2, <1>8 DEF TidyInv
      <3>2. PICK q : q = comments[c].parent
        OBVIOUS
      <3>3. Exists(q)' => Exists(q) /\ comments'[q] = comments[q]
        BY <1>8 DEF Exists, CommentIds
      <3> QED BY <2>2, <3>1, <3>2, <3>3, <1>1 DEF DocTidy
    <2> QED BY <2>1, <2>2
  <1>11. NoOrphans'
    <2> SUFFICES ASSUME NEW c \in CommentIds, Exists(c)', NEW q, q = comments'[c].parent, q # 0
                 PROVE  Exists(q)' \/ comments'[c].by = "met"
      BY DEF NoOrphans
    <2>1. c \notin ops[o].doomed /\ comments'[c] = comments[c] /\ Exists(c)
      BY <1>8
    <2>2. Exists(q) \/ comments[c].by = "met"
      BY <2>1 DEF TidyInv, NoOrphans
    <2>3. CASE q \in ops[o].doomed
      <3>1. PICK n \in 0 .. posted : Early(n) /\ Closed(n, ops[o].doomed, ops[o].level)
        BY <1>1, <1>4 DEF OpTidy
      <3>2. c > n \/ c <= n
        BY <1>4, <3>1 DEF CommentIds
      <3>3. c <= n => comments[c].depth > ops[o].level \/ comments[c].by = "met"
        BY <2>1, <2>3, <3>1 DEF Closed
      <3>4. comments[c].depth \in 0 .. WALL_MAX_DEPTH /\ ops[o].level \in Nat
        BY <1>1, <1>4, <2>1, OldDocs DEF OpFields, Deletes
      <3>5. ~(c <= n) \/ comments[c].by = "met"
        BY <1>1, <1>4, <3>3, <3>4
      <3> QED BY <2>1, <3>1, <3>2, <3>5 DEF Early
    <2>4. CASE q \notin ops[o].doomed
      <3>1. Exists(q) => q \in CommentIds
        BY DEF Exists
      <3> QED BY <2>1, <2>2, <2>4, <3>1, <1>8
    <2> QED BY <2>3, <2>4
  <1>12. PlaceholdersHold'
    <2> SUFFICES ASSUME NEW c \in CommentIds, Exists(c)', comments'[c].deleted = "alone"
                 PROVE  /\ comments'[c].text = "none"
                        /\ \/ ChildrenOf({c})' # {}
                           \/ \E p \in WallOps : ops'[p].at \in {"unlike", "climb", "drop"} /\ ops'[p].parent = c
      BY DEF PlaceholdersHold
    <2>1. c \notin ops[o].doomed /\ comments'[c] = comments[c] /\ Exists(c)
      BY <1>8
    <2>2. /\ comments[c].text = "none"
          /\ \/ ChildrenOf({c}) # {}
             \/ \E p \in WallOps : ops[p].at \in {"unlike", "climb", "drop"} /\ ops[p].parent = c
      BY <2>1 DEF TidyInv, PlaceholdersHold
    <2>3. \A p \in WallOps : ops[p].at \in {"unlike", "climb", "drop"} => p # o /\ ops'[p] = ops[p]
      BY <1>1, <1>3 DEF TidyInv
    <2>4. ASSUME NEW d \in ChildrenOf({c}), ChildrenOf({c})' = {}
          PROVE  ops'[o].at = "unlike" /\ ops'[o].parent = c
      <3>1. d \in CommentIds /\ Exists(d) /\ comments[d].parent = c
        BY DEF ChildrenOf
      <3>2. d \in ops[o].doomed
        <4> SUFFICES ASSUME d \notin ops[o].doomed PROVE FALSE
          OBVIOUS
        <4>1. Exists(d)' /\ comments'[d].parent = c
          BY <3>1, <1>8
        <4>2. d \in ChildrenOf({c})'
          BY <3>1, <4>1 DEF ChildrenOf, CommentIds
        <4> QED BY <4>2, <2>4
      <3>3. comments[d].parent \in ops[o].doomed \cup {ops[o].parent}
        BY <1>1, <1>4, <3>1, <3>2 DEF OpTidy
      <3>4. ops[o].parent = c
        BY <2>1, <3>1, <3>3
      <3> QED BY <3>4, <1>3, <1>5 DEF TidyInv
    <2> QED BY <2>1, <2>2, <2>3, <2>4
  <1>13. OneAlonePin'
    BY <1>8 DEF TidyInv, OneAlonePin
  <1>14. LikesOfLive'
    <2> SUFFICES ASSUME NEW c \in CommentIds, likes'[c] = "alone", ~Live(c)'
                 PROVE  \E p \in WallOps : At(p, "unlike")' /\ c \in ops'[p].doomed
      BY DEF LikesOfLive
    <2>1. CASE c \in ops[o].doomed
      BY <2>1, <1>3, <1>5 DEF At, TidyInv
    <2>2. CASE c \notin ops[o].doomed
      <3>1. ~Live(c) /\ likes[c] = "alone"
        BY <2>2, <1>1, <1>8 DEF Live
      <3>2. PICK p \in WallOps : At(p, "unlike") /\ c \in ops[p].doomed
        BY <3>1 DEF TidyInv, LikesOfLive
      <3>3. ops'[p] = ops[p]
        BY <3>2, <1>1, <1>3 DEF At, TidyInv
      <3> QED BY <3>2, <3>3 DEF At
    <2> QED BY <2>1, <2>2
  <1>15. posted' \in 0 .. MaxComments /\ posted <= posted' /\ likes' \in [CommentIds -> Marks]
    BY <1>1, <1>4 DEF TidyInv
  <1> QED BY <1>1, <1>3, <1>5, <1>6, <1>7, <1>8, <1>9, <1>10, <1>11, <1>12, <1>13, <1>14, <1>15, StepsTidy

LEMMA DropTidy ==
    ASSUME TidyInv, NEW o \in WallOps, dropPlaceholder(o)
    PROVE  TidyInv'
  <1>1. Active(o) /\ ops[o].at = "drop" /\ posted' = posted /\ likes' = likes
    BY DEF dropPlaceholder, At, Active
  <1>2. PICK op : op = [ops[o] EXCEPT !.at = "climb", !.parent = ops[o].above]
    OBVIOUS
  <1>3. ops' = [ops EXCEPT ![o] = op]
    BY <1>2 DEF dropPlaceholder, Goto
  <1>4. OpFields(ops[o]) /\ OpTidy(ops[o]) /\ posted \in Nat
    BY HandlerIs
  <1>5. /\ DOMAIN op = DOMAIN ops[o] /\ op.at = "climb" /\ op.met = ops[o].met /\ op.doomed = ops[o].doomed
        /\ op.self = ops[o].self /\ op.todo = ops[o].todo /\ op.level = ops[o].level
        /\ op.parent = ops[o].above /\ op.above = ops[o].above
    BY <1>1, <1>2, <1>4 DEF OpFields, Deletes
  <1>6. OpFields(op)'
    BY <1>1, <1>4, <1>5 DEF OpFields, Deletes
  <1>7. OpTidy(op)' /\ OpAlone(op)'
    BY <1>5 DEF OpTidy, OpAlone
  <1>0. PICK par : par = ops[o].parent
    OBVIOUS
  <1>8. /\ DOMAIN comments' = CommentIds
        /\ par \in CommentIds => comments'[par] = NoComment /\ ~Exists(par)'
        /\ \A c \in CommentIds : c # par => comments'[c] = comments[c] /\ (Exists(c)' <=> Exists(c))
    BY <1>0, NoDocs DEF dropPlaceholder, Exists, CommentIds, TidyInv
  <1>9. \A c \in CommentIds : DocStep(c)
    BY <1>8 DEF DocStep
  <1>16. /\ \A c \in CommentIds : Exists(c) /\ comments[c].parent = par => comments[c].by = "met"
         /\ Exists(par) => ops[o].above = comments[par].parent /\ comments[par].deleted # "no"
    BY <1>0, <1>1, <1>4 DEF OpTidy
  <1>10. ASSUME NEW c \in CommentIds
         PROVE  DocTidy(c)'
    <2>1. CASE comments'[c] = NoComment
      BY <2>1 DEF DocTidy
    <2>2. CASE comments'[c] # NoComment
      <3>1. comments'[c] = comments[c] /\ DocTidy(c)
        BY <2>2, <1>8 DEF TidyInv
      <3>2. PICK q : q = comments[c].parent
        OBVIOUS
      <3>3. Exists(q)' => Exists(q) /\ comments'[q] = comments[q]
        BY <1>8 DEF Exists, CommentIds
      <3> QED BY <2>2, <3>1, <3>2, <3>3, <1>1 DEF DocTidy
    <2> QED BY <2>1, <2>2
  <1>11. NoOrphans'
    <2> SUFFICES ASSUME NEW c \in CommentIds, Exists(c)', NEW q, q = comments'[c].parent, q # 0
                 PROVE  Exists(q)' \/ comments'[c].by = "met"
      BY DEF NoOrphans
    <2>1. c # par /\ comments'[c] = comments[c] /\ Exists(c)
      BY <1>8
    <2>2. Exists(q) \/ comments[c].by = "met"
      BY <2>1 DEF TidyInv, NoOrphans
    <2>3. CASE q = par
      BY <2>1, <2>3, <1>16
    <2>4. CASE q # par
      <3>1. Exists(q) => q \in CommentIds
        BY DEF Exists
      <3> QED BY <2>1, <2>2, <2>4, <3>1, <1>8
    <2> QED BY <2>3, <2>4
  <1>12. PlaceholdersHold'
    <2> SUFFICES ASSUME NEW c \in CommentIds, Exists(c)', comments'[c].deleted = "alone"
                 PROVE  /\ comments'[c].text = "none"
                        /\ \/ ChildrenOf({c})' # {}
                           \/ \E p \in WallOps : ops'[p].at \in {"unlike", "climb", "drop"} /\ ops'[p].parent = c
      BY DEF PlaceholdersHold
    <2>1. c # par /\ comments'[c] = comments[c] /\ Exists(c)
      BY <1>8
    <2>2. /\ comments[c].text = "none"
          /\ \/ ChildrenOf({c}) # {}
             \/ \E p \in WallOps : ops[p].at \in {"unlike", "climb", "drop"} /\ ops[p].parent = c
      BY <2>1 DEF TidyInv, PlaceholdersHold
    <2>3. \A p \in WallOps : ops[p].at \in {"unlike", "climb", "drop"} /\ ops[p].parent = c => p # o /\ ops'[p] = ops[p]
      BY <2>1, <1>0, <1>3 DEF TidyInv
    <2>4. ASSUME NEW d \in ChildrenOf({c}), ChildrenOf({c})' = {}
          PROVE  ops'[o].at = "climb" /\ ops'[o].parent = c
      <3>1. d \in CommentIds /\ Exists(d) /\ comments[d].parent = c
        BY DEF ChildrenOf
      <3>2. d = par
        <4> SUFFICES ASSUME d # par PROVE FALSE
          OBVIOUS
        <4>1. Exists(d)' /\ comments'[d].parent = c
          BY <3>1, <1>8
        <4>2. d \in ChildrenOf({c})'
          BY <3>1, <4>1 DEF ChildrenOf, CommentIds
        <4> QED BY <4>2, <2>4
      <3>3. ops[o].above = c
        BY <3>1, <3>2, <1>16
      <3> QED BY <3>3, <1>3, <1>5 DEF TidyInv
    <2> QED BY <2>1, <2>2, <2>3, <2>4
  <1>13. OneAlonePin'
    BY <1>8 DEF TidyInv, OneAlonePin
  <1>14. LikesOfLive'
    <2> SUFFICES ASSUME NEW c \in CommentIds, likes'[c] = "alone", ~Live(c)'
                 PROVE  \E p \in WallOps : At(p, "unlike")' /\ c \in ops'[p].doomed
      BY DEF LikesOfLive
    <2>1. ~Live(c)
      <3>1. CASE c = par
        BY <3>1, <1>16 DEF Live
      <3>2. CASE c # par
        BY <3>2, <1>8 DEF Live
      <3> QED BY <3>1, <3>2
    <2>2. PICK p \in WallOps : At(p, "unlike") /\ c \in ops[p].doomed
      BY <2>1, <1>1 DEF TidyInv, LikesOfLive
    <2>3. ops'[p] = ops[p]
      BY <2>2, <1>1, <1>3 DEF At, TidyInv
    <2> QED BY <2>2, <2>3 DEF At
  <1>15. posted' \in 0 .. MaxComments /\ posted <= posted' /\ likes' \in [CommentIds -> Marks]
    BY <1>1, <1>4 DEF TidyInv
  <1> QED BY <1>1, <1>3, <1>5, <1>6, <1>7, <1>8, <1>9, <1>10, <1>11, <1>12, <1>13, <1>14, <1>15, StepsTidy

LEMMA AfterTidy ==
    ASSUME TidyInv, NEW o \in WallOps, ops[o].at \in Deletes, UNCHANGED <<comments, posted>>,
           NEW op, op = AfterDeletion(o)
    PROVE  /\ OpFields(op) /\ OpTidy(op) /\ OpAlone(op) /\ OpFields(op)' /\ OpTidy(op)' /\ OpAlone(op)'
           /\ op.at \in {"idle", "purge"} /\ (op.at # "idle" => op.met = ops[o].met)
  <1>1. OpFields(ops[o])
    BY HandlerIs
  <1>2. CASE ops[o].todo = {}
    BY <1>2, IdleTidy DEF AfterDeletion
  <1>3. CASE ops[o].todo # {}
    <2>1. op = [at |-> "purge", met |-> ops[o].met, self |-> ops[o].self, todo |-> ops[o].todo]
      BY <1>3 DEF AfterDeletion
    <2>2. DOMAIN op = {"at", "met", "self", "todo"} /\ op.at = "purge" /\ op.met = ops[o].met /\ op.todo = ops[o].todo
      BY <2>1
    <2>3. OpFields(op) /\ OpTidy(op) /\ OpAlone(op)
      BY <1>1, <2>2 DEF OpFields, Deletes, OpTidy, OpAlone
    <2> QED BY <2>2, <2>3, SameRead
  <1> QED BY <1>2, <1>3

LEMMA DeleteLikesTidy ==
    ASSUME TidyInv, NEW o \in WallOps, deleteLikes(o)
    PROVE  TidyInv'
  <1>1. /\ Active(o) /\ ops[o].at = "unlike" /\ UNCHANGED <<comments, posted>> /\ ops[o].at \in Deletes
        /\ likes' = [c \in CommentIds |-> IF c \in ops[o].doomed THEN "no" ELSE likes[c]]
    BY DEF deleteLikes, At, Active, Deletes
  <1>2. PICK op : op = IF ops[o].parent = 0 THEN AfterDeletion(o) ELSE [ops[o] EXCEPT !.at = "climb"]
    OBVIOUS
  <1>3. ops' = [ops EXCEPT ![o] = op]
    BY <1>2 DEF deleteLikes
  <1>4. OpFields(ops[o]) /\ posted \in Nat
    BY HandlerIs
  <1>5. /\ OpFields(op)' /\ OpTidy(op)' /\ OpAlone(op)' /\ (op.at # "idle" => op.met = ops[o].met)
        /\ ops[o].parent # 0 => op.at = "climb" /\ op.parent = ops[o].parent
    <2>1. CASE ops[o].parent = 0
      BY <2>1, <1>1, <1>2, AfterTidy
    <2>2. CASE ops[o].parent # 0
      <3>1. op = [ops[o] EXCEPT !.at = "climb"]
        BY <2>2, <1>2
      <3>2. /\ DOMAIN op = DOMAIN ops[o] /\ op.at = "climb" /\ op.met = ops[o].met /\ op.doomed = ops[o].doomed
            /\ op.self = ops[o].self /\ op.todo = ops[o].todo /\ op.level = ops[o].level
            /\ op.parent = ops[o].parent /\ op.above = ops[o].above
        BY <1>1, <1>4, <3>1 DEF OpFields
      <3>3. OpFields(op)'
        BY <1>1, <1>4, <3>2 DEF OpFields, Deletes
      <3> QED BY <3>2, <3>3 DEF OpTidy, OpAlone
    <2> QED BY <2>1, <2>2
  <1>6. NoOrphans' /\ OneAlonePin' /\ \A c \in CommentIds : DocTidy(c)' /\ DocStep(c)
    BY <1>1 DEF TidyInv, NoOrphans, OneAlonePin, DocTidy, Exists, DocStep
  <1>7. ops'[o] = op /\ \A p \in WallOps \ {o} : ops'[p] = ops[p]
    BY <1>3 DEF TidyInv
  <1>8. PlaceholdersHold'
    <2> SUFFICES ASSUME NEW c \in CommentIds, Exists(c)', comments'[c].deleted = "alone"
                 PROVE  /\ comments'[c].text = "none"
                        /\ \/ ChildrenOf({c})' # {}
                           \/ \E p \in WallOps : ops'[p].at \in {"unlike", "climb", "drop"} /\ ops'[p].parent = c
      BY DEF PlaceholdersHold
    <2>1. /\ comments[c].text = "none"
          /\ \/ ChildrenOf({c}) # {}
             \/ \E p \in WallOps : ops[p].at \in {"unlike", "climb", "drop"} /\ ops[p].parent = c
      BY <1>1 DEF TidyInv, PlaceholdersHold, Exists
    <2>2. ChildrenOf({c})' = ChildrenOf({c}) /\ c # 0
      BY <1>1 DEF ChildrenOf, Exists, CommentIds
    <2>3. ASSUME NEW p \in WallOps, ops[p].at \in {"unlike", "climb", "drop"}, ops[p].parent = c
          PROVE  ops'[p].at \in {"unlike", "climb", "drop"} /\ ops'[p].parent = c
      BY <1>5, <1>7, <2>2, <2>3
    <2> QED BY <1>1, <2>1, <2>2, <2>3
  <1>9. LikesOfLive'
    <2> SUFFICES ASSUME NEW c \in CommentIds, likes'[c] = "alone", ~Live(c)'
                 PROVE  \E p \in WallOps : At(p, "unlike")' /\ c \in ops'[p].doomed
      BY DEF LikesOfLive
    <2>1. c \notin ops[o].doomed /\ likes[c] = "alone" /\ ~Live(c)
      BY <1>1 DEF Live, Exists
    <2>2. PICK p \in WallOps : At(p, "unlike") /\ c \in ops[p].doomed
      BY <2>1 DEF TidyInv, LikesOfLive
    <2> QED BY <2>1, <2>2, <1>7 DEF At
  <1>10. likes' \in [CommentIds -> Marks]
    BY <1>1 DEF TidyInv, Marks
  <1>11. posted' \in 0 .. MaxComments /\ posted <= posted' /\ DOMAIN comments' = CommentIds
    BY <1>1, <1>4 DEF TidyInv
  <1> QED BY <1>1, <1>3, <1>5, <1>6, <1>8, <1>9, <1>10, <1>11, StepsTidy

LEMMA ClimbTidy ==
    ASSUME TidyInv, NEW o \in WallOps, climb(o)
    PROVE  TidyInv'
  <1>0. PICK par : par = ops[o].parent
    OBVIOUS
  <1>1. /\ Active(o) /\ ops[o].at = "climb" /\ UNCHANGED <<comments, posted, likes>> /\ ops[o].at \in Deletes
        /\ ops' = [ops EXCEPT ![o] = IF Exists(par) /\ ~Live(par) /\ ChildrenOf({par}) = {}
                                     THEN [ops[o] EXCEPT !.at = "drop", !.above = Above(par)] ELSE AfterDeletion(o)]
    BY <1>0 DEF climb, At, Active, Deletes
  <1>4. OpFields(ops[o]) /\ posted \in Nat
    BY HandlerIs
  <1>2. CASE Exists(par) /\ ~Live(par) /\ ChildrenOf({par}) = {}
    <2>1. PICK op : op = [ops[o] EXCEPT !.at = "drop", !.above = Above(par)]
      OBVIOUS
    <2>2. ops' = [ops EXCEPT ![o] = op]
      BY <1>1, <1>2, <2>1
    <2>3. /\ DOMAIN op = DOMAIN ops[o] /\ op.at = "drop" /\ op.met = ops[o].met /\ op.doomed = ops[o].doomed
          /\ op.self = ops[o].self /\ op.todo = ops[o].todo /\ op.level = ops[o].level
          /\ op.parent = par /\ op.above = comments[par].parent
      BY <1>0, <1>1, <1>4, <2>1 DEF OpFields, Above
    <2>4. comments[par].parent \in 0 .. posted
      <3>1. par \in CommentIds
        BY <1>2 DEF Exists
      <3>2. comments[par].parent \in 0 .. par - 1 /\ par \in 1 .. posted
        BY <1>2, <3>1, OldDocs
      <3> QED BY <3>2, <1>4
    <2>5. OpFields(op)
      BY <1>0, <1>1, <1>4, <2>3, <2>4 DEF OpFields, Deletes
    <2>6. OpTidy(op)
      <3>1. \A c \in CommentIds : ~(Exists(c) /\ comments[c].parent = par)
        BY <1>2 DEF ChildrenOf
      <3>2. comments[par].deleted # "no"
        BY <1>2 DEF Live
      <3> QED BY <2>3, <3>1, <3>2 DEF OpTidy
    <2>7. OpAlone(op)
      BY <2>3 DEF OpAlone
    <2> QED BY <1>0, <1>1, <2>2, <2>3, <2>5, <2>6, <2>7, QuietTidy
  <1>3. CASE ~(Exists(par) /\ ~Live(par) /\ ChildrenOf({par}) = {})
    <2>1. PICK op : op = AfterDeletion(o)
      OBVIOUS
    <2>2. ops' = [ops EXCEPT ![o] = op]
      BY <1>1, <1>3, <2>1
    <2>3. OpFields(op) /\ OpTidy(op) /\ OpAlone(op) /\ (op.at # "idle" => op.met = ops[o].met)
      BY <1>1, <2>1, AfterTidy
    <2> QED BY <1>0, <1>1, <1>3, <2>2, <2>3, QuietTidy
  <1> QED BY <1>2, <1>3

LEMMA CollectTidy ==
    ASSUME TidyInv, NEW o \in WallOps, collect(o)
    PROVE  TidyInv'
  <1>0. PICK S, below, level : S = ops[o].doomed /\ level = ops[o].level
                                  /\ below = {c \in ChildrenOf(S) : comments[c].depth = level + 1}
    OBVIOUS
  <1>n. PICK next : next = IF below = {} THEN WALL_MAX_DEPTH ELSE level + 1
    OBVIOUS
  <1>1. Active(o) /\ ops[o].at = "doom" /\ UNCHANGED <<comments, posted, likes>>
    BY DEF collect, At, Active
  <1>2. PICK op : op = [ops[o] EXCEPT !.doomed = S \cup below, !.level = next]
    OBVIOUS
  <1>4. OpFields(ops[o]) /\ OpTidy(ops[o]) /\ posted \in Nat /\ WALL_MAX_DEPTH \in Nat
    BY HandlerIs
  <1>5. /\ DOMAIN op = DOMAIN ops[o] /\ op.at = "doom" /\ op.met = ops[o].met /\ op.doomed = S \cup below
        /\ op.self = ops[o].self /\ op.todo = ops[o].todo /\ op.level = next
        /\ op.parent = ops[o].parent /\ op.above = ops[o].above
    BY <1>1, <1>2, <1>4 DEF OpFields, Deletes
  <1>3. ops' = [ops EXCEPT ![o] = op] /\ level < WALL_MAX_DEPTH
    BY <1>0, <1>n, <1>2 DEF collect, Goto, Deepest
  <1>6. /\ S \subseteq 1 .. posted /\ level \in Nat
        /\ \A d \in below : d \in CommentIds /\ Exists(d) /\ comments[d].parent \in S /\ comments[d].depth = level + 1
        /\ \A d \in CommentIds : Exists(d) /\ comments[d].parent \in S /\ comments[d].depth = level + 1 => d \in below
    BY <1>0, <1>1, <1>4 DEF OpFields, Deletes, ChildrenOf
  <1>m. next \in Nat /\ level < next /\ next <= WALL_MAX_DEPTH /\ (below # {} => next = level + 1)
    BY <1>3, <1>4, <1>6, <1>n
  <1>7. below \subseteq 1 .. posted
    BY <1>6, OldDocs
  <1>8. OpFields(op)
    BY <1>1, <1>4, <1>5, <1>6, <1>7, <1>m DEF OpFields, Deletes
  <1>9. OpTidy(op)
    <2>1. PICK n \in 0 .. posted : Early(n) /\ Closed(n, S, level)
      BY <1>0, <1>1, <1>4 DEF OpTidy
    <2>2. Closed(n, S \cup below, next)
      <3>1. ASSUME NEW x \in S \cup below, x \in CommentIds, Exists(x) PROVE comments[x].depth <= next
        <4>1. CASE x \in S
          <5>1. comments[x].depth <= level /\ comments[x].depth \in 0 .. WALL_MAX_DEPTH
            BY <2>1, <3>1, <4>1, OldDocs DEF Closed
          <5> QED BY <1>6, <1>m, <5>1
        <4>2. CASE x \in below
          BY <1>6, <1>m, <4>2
        <4> QED BY <4>1, <4>2
      <3> SUFFICES ASSUME NEW x \in CommentIds, Exists(x), x <= n, comments[x].parent \in S \cup below,
                          x \notin S \cup below, comments[x].by # "met"
                   PROVE  comments[x].depth > next
        BY <3>1 DEF Closed
      <3>2. PICK y : y = comments[x].parent
        OBVIOUS
      <3>3. y \in 1 .. posted /\ Exists(y)
        <4>1. y \in 1 .. posted
          BY <1>6, <1>7, <3>2
        <4> QED BY <1>4, <3>2, <4>1 DEF TidyInv, NoOrphans
      <3>4. x \in 1 .. posted /\ comments[x].depth = comments[y].depth + 1 /\ comments[x].depth \in 0 .. WALL_MAX_DEPTH
            /\ y \in CommentIds /\ comments[y].depth \in 0 .. WALL_MAX_DEPTH
        BY <3>2, <3>3, OldDocs DEF Exists
      <3>5. CASE y \in S
        <4>1. comments[x].depth > level /\ comments[y].depth <= level
          BY <2>1, <3>2, <3>3, <3>4, <3>5 DEF Closed
        <4>2. comments[x].depth = level + 1
          BY <1>6, <3>4, <4>1
        <4> QED BY <1>6, <3>2, <3>5, <4>2
      <3>6. CASE y \in below
        BY <1>6, <1>m, <3>4, <3>6
      <3> QED BY <3>2, <3>5, <3>6
    <2>3. \A d \in S \cup below : Exists(d) => comments[d].parent \in (S \cup below) \cup {ops[o].parent}
      BY <1>0, <1>1, <1>4, <1>6 DEF OpTidy
    <2> QED BY <1>5, <2>1, <2>2, <2>3 DEF OpTidy
  <1>10. OpAlone(op)
    BY <1>5 DEF OpAlone
  <1> QED BY <1>1, <1>3, <1>5, <1>8, <1>9, <1>10, QuietTidy

LEMMA PurgeTidy ==
    ASSUME TidyInv, NEW o \in WallOps, NEW who \in {Owner, Staff}, NEW a \in Authors,
           purgeAuthorComments(o, who, a)
    PROVE  TidyInv'
  <1>1. PICK op : op = [at |-> "purge", self |-> who = a,
                        todo |-> {c \in CommentIds : Exists(c) /\ comments[c].author = a}]
    OBVIOUS
  <1>2. Start(o, op) /\ UNCHANGED <<comments, posted, likes>>
    BY <1>1 DEF purgeAuthorComments
  <1>3. PICK b \in BOOLEAN : b = (\E y \in WallOps : Active(y))
    BY BusyIs
  <1>4. PICK h : h = Having(b, op)
    OBVIOUS
  <1>5. DOMAIN op = {"at", "self", "todo"} /\ op.at = "purge" /\ op.todo \subseteq 1 .. posted
    BY <1>1, OldDocs
  <1>6. DOMAIN h = DOMAIN op \cup {"met"} /\ h.met = b /\ h.at = "purge" /\ h.todo = op.todo
    BY <1>4, <1>5 DEF Having
  <1>7. OpFields(h) /\ OpTidy(h) /\ OpAlone(h)
    BY <1>5, <1>6 DEF OpFields, Deletes, OpTidy, OpAlone
  <1>8. h = Having(\E y \in WallOps : Active(y), op)
    BY <1>3, <1>4
  <1> QED BY <1>2, <1>7, <1>8, StartsTidy

LEMMA PurgeNextTidy ==
    ASSUME TidyInv, NEW o \in WallOps, purgeNext(o)
    PROVE  TidyInv'
  <1>1. Active(o) /\ ops[o].at = "purge" /\ UNCHANGED <<comments, posted, likes>>
    BY DEF purgeNext, At, Active
  <1>2. OpFields(ops[o]) /\ posted \in Nat /\ CommentIds = 1 .. MaxComments /\ posted <= MaxComments /\ MaxComments \in Nat
    BY HandlerIs
  <1>3. PICK c \in ops[o].todo : ops' = [ops EXCEPT ![o] =
           IF Live(c) THEN Having(ops[o].met, Deletion(ops[o].self, c, ops[o].todo \ {c}))
           ELSE IF ops[o].todo \ {c} = {} THEN Idle ELSE [ops[o] EXCEPT !.todo = ops[o].todo \ {c}]]
    BY DEF purgeNext
  <1>4. c \in CommentIds /\ ops[o].todo \ {c} \in SUBSET (1 .. posted) /\ ops[o].met \in BOOLEAN
        /\ {"at", "met", "self", "todo"} \subseteq DOMAIN ops[o]
    BY <1>1, <1>2 DEF OpFields
  <1>5. CASE Live(c)
    <2>1. PICK h : h = Having(ops[o].met, Deletion(ops[o].self, c, ops[o].todo \ {c}))
      OBVIOUS
    <2>2. ops' = [ops EXCEPT ![o] = h]
      BY <1>3, <1>5, <2>1
    <2>3. OpFields(h) /\ OpTidy(h) /\ OpAlone(h) /\ h.met = ops[o].met
      BY <1>4, <1>5, <2>1, DeletionTidy
    <2> QED BY <1>1, <2>2, <2>3, QuietTidy
  <1>6. CASE ~Live(c) /\ ops[o].todo \ {c} = {}
    <2>1. ops' = [ops EXCEPT ![o] = Idle]
      BY <1>3, <1>6
    <2> QED BY <1>1, <2>1, IdleTidy, QuietTidy
  <1>7. CASE ~Live(c) /\ ops[o].todo \ {c} # {}
    <2>1. PICK op : op = [ops[o] EXCEPT !.todo = ops[o].todo \ {c}]
      OBVIOUS
    <2>2. ops' = [ops EXCEPT ![o] = op]
      BY <1>3, <1>7, <2>1
    <2>3. DOMAIN op = DOMAIN ops[o] /\ op.at = "purge" /\ op.met = ops[o].met /\ op.todo = ops[o].todo \ {c}
      BY <1>1, <1>4, <2>1
    <2>4. OpFields(op) /\ OpTidy(op) /\ OpAlone(op)
      BY <1>4, <2>3 DEF OpFields, Deletes, OpTidy, OpAlone
    <2> QED BY <1>1, <2>2, <2>3, <2>4, QuietTidy
  <1> QED BY <1>5, <1>6, <1>7

LEMMA InsertLikeTidy ==
    ASSUME TidyInv, NEW o \in WallOps, insertLike(o)
    PROVE  TidyInv'
  <1> DEFINE c == ops[o].comment
  <1>1. Active(o) /\ ops[o].at = "like" /\ UNCHANGED <<comments, posted>> /\ ops' = [ops EXCEPT ![o] = Idle]
    BY DEF insertLike, At, Active, Finish
  <1>2. OpFields(ops[o]) /\ OpAlone(ops[o]) /\ posted \in Nat
    BY HandlerIs
  <1>3. PICK m \in {"alone", "met"} : m = Mark(o) /\ (m = "alone" => ~ops[o].met)
    BY MarkIs
  <1>4. likes' = [likes EXCEPT ![c] = IF likes[c] = "no" THEN m ELSE likes[c]]
    BY <1>3 DEF insertLike
  <1>5. likes' \in [CommentIds -> Marks]
    BY <1>4 DEF TidyInv, Marks
  <1>6. NoOrphans' /\ OneAlonePin' /\ \A d \in CommentIds : DocTidy(d)' /\ DocStep(d)
    BY <1>1 DEF TidyInv, NoOrphans, OneAlonePin, DocTidy, Exists, DocStep
  <1>7. \A p \in WallOps : p # o => ops'[p] = ops[p]
    BY <1>1 DEF TidyInv
  <1>8. PlaceholdersHold'
    <2> SUFFICES ASSUME NEW d \in CommentIds, Exists(d)', comments'[d].deleted = "alone"
                 PROVE  /\ comments'[d].text = "none"
                        /\ \/ ChildrenOf({d})' # {}
                           \/ \E p \in WallOps : ops'[p].at \in {"unlike", "climb", "drop"} /\ ops'[p].parent = d
      BY DEF PlaceholdersHold
    <2>1. /\ comments[d].text = "none"
          /\ \/ ChildrenOf({d}) # {}
             \/ \E p \in WallOps : ops[p].at \in {"unlike", "climb", "drop"} /\ ops[p].parent = d
      BY <1>1 DEF TidyInv, PlaceholdersHold, Exists
    <2>2. ChildrenOf({d})' = ChildrenOf({d})
      BY <1>1 DEF ChildrenOf, Exists
    <2>3. \A p \in WallOps : ops[p].at \in {"unlike", "climb", "drop"} => ops'[p] = ops[p]
      BY <1>1, <1>7
    <2> QED BY <1>1, <2>1, <2>2, <2>3
  <1>9. LikesOfLive'
    <2> SUFFICES ASSUME NEW d \in CommentIds, likes'[d] = "alone", ~Live(d)'
                 PROVE  \E p \in WallOps : At(p, "unlike")' /\ d \in ops'[p].doomed
      BY DEF LikesOfLive
    <2>1. ~Live(d)
      BY <1>1 DEF Live, Exists
    <2>2. likes[d] = "alone"
      <3>1. CASE d = c /\ likes[c] = "no"
        <4>1. likes'[d] = m
          BY <3>1, <1>4 DEF TidyInv
        <4>2. Live(c)
          BY <4>1, <1>1, <1>2, <1>3 DEF OpAlone
        <4> QED BY <2>1, <3>1, <4>2
      <3>2. CASE ~(d = c /\ likes[c] = "no")
        BY <3>2, <1>4 DEF TidyInv
      <3> QED BY <3>1, <3>2
    <2>3. PICK p \in WallOps : At(p, "unlike") /\ d \in ops[p].doomed
      BY <2>1, <2>2 DEF TidyInv, LikesOfLive
    <2>4. ops'[p] = ops[p]
      BY <1>1, <1>7, <2>3 DEF At
    <2> QED BY <2>3, <2>4 DEF At
  <1>10. posted' \in 0 .. MaxComments /\ posted <= posted' /\ DOMAIN comments' = CommentIds
    BY <1>1, <1>2 DEF TidyInv
  <1> QED BY <1>1, <1>5, <1>6, <1>8, <1>9, <1>10, IdleTidy, StepsTidy

(* What one write by itself leaves: a like taken back, a pin removed. *)
LEMMA UnlikeTidy ==
    ASSUME TidyInv, NEW c \in CommentIds, unlike(c)
    PROVE  TidyInv'
  <1>1. UNCHANGED <<comments, posted, ops>> /\ likes' = [likes EXCEPT ![c] = "no"]
    BY DEF unlike
  <1>2. likes' \in [CommentIds -> Marks] /\ \A d \in CommentIds : likes'[d] = "alone" => likes[d] = "alone"
    BY <1>1 DEF TidyInv, Marks
  <1>3. \A o \in WallOps : (OpFields(ops[o]) /\ OpTidy(ops[o]) /\ OpAlone(ops[o]))'
    <2> SUFFICES ASSUME NEW o \in WallOps
                 PROVE  (OpFields(ops[o]) /\ OpTidy(ops[o]) /\ OpAlone(ops[o]))'
      OBVIOUS
    <2>1. PICK op : op = ops[o]
      OBVIOUS
    <2>2. OpFields(op)' /\ OpTidy(op)' /\ OpAlone(op)' /\ op = ops'[o]
      BY <1>1, <2>1, SameRead DEF TidyInv
    <2> QED BY <2>2
  <1>4. NoOrphans' /\ OneAlonePin' /\ PlaceholdersHold' /\ Meet' /\ \A d \in CommentIds : DocTidy(d)'
    BY <1>1 DEF TidyInv, NoOrphans, OneAlonePin, PlaceholdersHold, Meet, Active, ChildrenOf, DocTidy, Exists
  <1>5. LikesOfLive'
    BY <1>1, <1>2 DEF TidyInv, LikesOfLive, Live, Exists, At
  <1>6. DOMAIN ops' = WallOps /\ DOMAIN comments' = CommentIds /\ posted' \in 0 .. MaxComments
    BY <1>1 DEF TidyInv
  <1> QED BY <1>2, <1>3, <1>4, <1>5, <1>6 DEF TidyInv

LEMMA UnpinTidy ==
    ASSUME TidyInv, NEW c \in CommentIds, unpin(c)
    PROVE  TidyInv'
  <1>1. UNCHANGED <<likes, posted, ops>> /\ comments' = [comments EXCEPT ![c].pinned = "no"] /\ Exists(c)
    BY DEF unpin
  <1>2. comments' = [d \in CommentIds |->
             IF Exists(d) /\ d \in {c} THEN [comments[d] EXCEPT !.pinned = "no"] ELSE comments[d]]
    <2>1. PICK w : w = [comments[c] EXCEPT !.pinned = "no"]
      OBVIOUS
    <2>2. comments' = [comments EXCEPT ![c] = w] /\ DOMAIN comments = CommentIds
      BY <1>1, <2>1 DEF TidyInv
    <2>3. comments' = [d \in CommentIds |-> IF d = c THEN w ELSE comments[d]]
      BY <2>2
    <2>4. \A d \in CommentIds : (IF d = c THEN w ELSE comments[d])
             = IF Exists(d) /\ d \in {c} THEN [comments[d] EXCEPT !.pinned = "no"] ELSE comments[d]
      BY <1>1, <2>1
    <2> QED BY <2>3, <2>4
  <1>3. /\ Placed /\ OneAlonePin'
        /\ \A d \in CommentIds : Exists(d) =>
             /\ comments'[d].deleted = comments[d].deleted /\ comments'[d].text = comments[d].text
             /\ comments'[d].pinned \in {comments[d].pinned, "no"}
    BY <1>1, <1>2, UnpinnedPlaced
  <1>4. /\ NoOrphans' /\ \A d \in CommentIds : DocTidy(d)'
        /\ \A d \in CommentIds : ChildrenOf({d})' = ChildrenOf({d})
    BY <1>3, PlacedTidy
  <1>5. \A d \in CommentIds : Live(d)' <=> Live(d)
    BY <1>3 DEF Live, Placed
  <1>6. ASSUME NEW op, OpFields(op), OpTidy(op), OpAlone(op)
        PROVE  OpFields(op)' /\ OpTidy(op)' /\ OpAlone(op)'
    <2>1. OpFields(op)'
      BY <1>1, <1>6 DEF OpFields
    <2>2. \A q : Exists(q) => q \in CommentIds
      BY DEF Exists
    <2>3. \A q : Exists(q)' => q \in CommentIds /\ Exists(q)
      BY <1>3 DEF Exists, CommentIds, Placed
    <2>4. \A q : Exists(q) => Exists(q)' /\ comments'[q].parent = comments[q].parent
                              /\ comments'[q].depth = comments[q].depth /\ comments'[q].by = comments[q].by
                              /\ comments'[q].deleted = comments[q].deleted
      BY <1>3, <2>2 DEF Placed
    <2>5. OpTidy(op)'
      <3>1. op.at = "post" /\ Exists(op.parent)' => op.depth = comments'[op.parent].depth + 1
        BY <1>6, <2>3, <2>4 DEF OpTidy
      <3>2. ASSUME op.at = "doom"
            PROVE  /\ \E n \in 0 .. posted' : Early(n)' /\ Closed(n, op.doomed, op.level)'
                   /\ \A d \in op.doomed : Exists(d)' => comments'[d].parent \in op.doomed \cup {op.parent}
        <4>1. PICK n \in 0 .. posted : Early(n) /\ Closed(n, op.doomed, op.level)
          BY <1>6, <3>2 DEF OpTidy
        <4>2. Early(n)'
          BY <4>1, <2>3, <2>4 DEF Early
        <4>3. Closed(n, op.doomed, op.level)'
          BY <4>1, <2>3, <2>4 DEF Closed
        <4>4. \A d \in op.doomed : Exists(d)' => comments'[d].parent \in op.doomed \cup {op.parent}
          BY <1>6, <3>2, <2>3, <2>4 DEF OpTidy
        <4> QED BY <1>1, <4>2, <4>3, <4>4
      <3>3. ASSUME op.at = "drop"
            PROVE  /\ \A d \in CommentIds : Exists(d)' /\ comments'[d].parent = op.parent => comments'[d].by = "met"
                   /\ Exists(op.parent)' => op.above = comments'[op.parent].parent /\ comments'[op.parent].deleted # "no"
        BY <1>6, <3>3, <2>3, <2>4 DEF OpTidy
      <3> QED BY <3>1, <3>2, <3>3 DEF OpTidy, CommentIds
    <2>6. OpAlone(op)'
      <3> SUFFICES ASSUME ~op.met PROVE OpAlone(op)'
        BY DEF OpAlone
      <3>1. op.at = "post" /\ op.parent # 0 => Exists(op.parent)'
        BY <1>6, <2>4 DEF OpAlone
      <3>2. op.at \in {"edit", "like"} => Live(op.comment)'
        BY <1>5, <1>6 DEF OpAlone, Live, Exists
      <3>3. op.at = "wipe" => \A d \in op.doomed : ChildrenOf({d})' # {}
        <4>1. \A d : ChildrenOf({d}) \subseteq ChildrenOf({d})'
          BY <2>4 DEF ChildrenOf, CommentIds
        <4> QED BY <1>6, <4>1 DEF OpAlone
      <3>4. op.at = "pin" => \A d \in CommentIds : Exists(d)' => comments'[d].pinned = "no"
        BY <1>3, <1>6, <2>3 DEF OpAlone
      <3> QED BY <3>1, <3>2, <3>3, <3>4 DEF OpAlone, CommentIds
    <2> QED BY <2>1, <2>5, <2>6
  <1>7. \A o \in WallOps : (OpFields(ops[o]) /\ OpTidy(ops[o]) /\ OpAlone(ops[o]))'
    <2> SUFFICES ASSUME NEW o \in WallOps
                 PROVE  (OpFields(ops[o]) /\ OpTidy(ops[o]) /\ OpAlone(ops[o]))'
      OBVIOUS
    <2>1. PICK op : op = ops[o]
      OBVIOUS
    <2>2. OpFields(op)' /\ OpTidy(op)' /\ OpAlone(op)' /\ op = ops'[o]
      BY <1>1, <1>6, <2>1 DEF TidyInv
    <2> QED BY <2>2
  <1>8. Meet'
    BY <1>1 DEF TidyInv, Meet, Active
  <1>9. PlaceholdersHold'
    <2> SUFFICES ASSUME NEW d \in CommentIds, Exists(d)', comments'[d].deleted = "alone"
                 PROVE  /\ comments'[d].text = "none"
                        /\ \/ ChildrenOf({d})' # {}
                           \/ \E p \in WallOps : ops'[p].at \in {"unlike", "climb", "drop"} /\ ops'[p].parent = d
      BY DEF PlaceholdersHold
    <2>1. Exists(d) /\ comments[d].deleted = "alone" /\ comments'[d].text = comments[d].text
      BY <1>3 DEF Placed
    <2> QED BY <1>1, <1>4, <2>1 DEF TidyInv, PlaceholdersHold
  <1>10. LikesOfLive'
    BY <1>1, <1>5 DEF TidyInv, LikesOfLive, At
  <1>11. DOMAIN ops' = WallOps /\ DOMAIN comments' = CommentIds /\ posted' \in 0 .. MaxComments /\ likes' \in [CommentIds -> Marks]
    BY <1>1, <1>3 DEF TidyInv, Placed
  <1> QED BY <1>3, <1>4, <1>7, <1>8, <1>9, <1>10, <1>11 DEF TidyInv

LEMMA StartWriteTidy ==
    ASSUME TidyInv, NEW o \in WallOps, NEW c \in CommentIds,
           \/ setLike(o, c)
           \/ \E text \in {"plain", "muted"} : editComment(o, c, text)
           \/ \E action \in {"approve", "hide", "unhide"} : moderateComment(o, c, action)
           \/ setPin(o, c)
    PROVE  TidyInv'
  <1>1. CASE setLike(o, c)
    <2>1. PICK op : op = [at |-> "like", comment |-> c]
      OBVIOUS
    <2>2. DOMAIN op = {"at", "comment"} /\ op.at = "like" /\ op.comment = c
      BY <2>1
    <2>3. Start(o, op) /\ UNCHANGED <<comments, posted, likes>> /\ Live(c) /\ Exists(c)
      BY <1>1, <2>1 DEF setLike, Live
    <2> QED BY <2>2, <2>3, StartOnTidy
  <1>2. ASSUME NEW text \in {"plain", "muted"}, editComment(o, c, text)
        PROVE  TidyInv'
    <2>0. PICK held \in BOOLEAN : held = HeldByEdit(c, text)
      BY DEF HeldByEdit
    <2>1. PICK op : op = [at |-> "edit", comment |-> c, text |-> text, held |-> held]
      OBVIOUS
    <2>2. /\ DOMAIN op = {"at", "comment", "text", "held"} /\ op.at = "edit" /\ op.comment = c
          /\ op.text \in Texts /\ op.held \in BOOLEAN
      BY <2>1 DEF Texts
    <2>3. Start(o, op) /\ UNCHANGED <<comments, posted, likes>> /\ Live(c) /\ Exists(c)
      BY <1>2, <2>0, <2>1 DEF editComment, Live
    <2> QED BY <2>2, <2>3, StartOnTidy
  <1>3. ASSUME NEW action \in {"approve", "hide", "unhide"}, moderateComment(o, c, action)
        PROVE  TidyInv'
    <2>1. PICK op : op = [at |-> "moderate", comment |-> c, status |-> Moderated(action)]
      OBVIOUS
    <2>2. DOMAIN op = {"at", "comment", "status"} /\ op.at = "moderate" /\ op.comment = c /\ op.status \in {"visible", "hidden"}
      BY <2>1 DEF Moderated
    <2>3. Start(o, op) /\ UNCHANGED <<comments, posted, likes>> /\ Exists(c)
      BY <1>3, <2>1 DEF moderateComment
    <2> QED BY <2>2, <2>3, StartOnTidy
  <1>4. CASE setPin(o, c)
    <2>1. PICK op : op = [at |-> "unpin", comment |-> c]
      OBVIOUS
    <2>2. DOMAIN op = {"at", "comment"} /\ op.at = "unpin" /\ op.comment = c
      BY <2>1
    <2>3. Start(o, op) /\ UNCHANGED <<comments, posted, likes>> /\ Exists(c)
      BY <1>4, <2>1 DEF setPin
    <2> QED BY <2>2, <2>3, StartOnTidy
  <1> QED BY <1>1, <1>2, <1>3, <1>4

LEMMA TidyStep == TidyInv /\ [WallNext]_wallVars => TidyInv'
  <1> SUFFICES ASSUME TidyInv, [WallNext]_wallVars
               PROVE  TidyInv'
    OBVIOUS
  <1>1. CASE Posting({"plain", "muted"}, BOOLEAN)
    BY <1>1, AddTidy, CreateTidy DEF Posting, Texts
  <1>2. CASE Deleting
    <2>1. ASSUME NEW o \in WallOps, NEW c \in CommentIds, NEW who \in Authors \cup {Staff}, deleteComment(o, who, c)
          PROVE  TidyInv'
      BY <2>1, StartDeletionTidy DEF deleteComment
    <2> QED BY <1>2, <2>1, WipeTidy, CollectTidy, DeleteThreadTidy, DeleteLikesTidy, ClimbTidy, DropTidy DEF Deleting
  <1>3. CASE Purging
    BY <1>3, PurgeTidy, PurgeNextTidy DEF Purging
  <1>4. CASE Liking
    BY <1>4, StartWriteTidy, InsertLikeTidy, UnlikeTidy DEF Liking
  <1>5. CASE Editing
    BY <1>5, StartWriteTidy, EditTidy DEF Editing
  <1>6. CASE Moderating
    <2>1. ASSUME NEW o \in WallOps, NEW c \in CommentIds, NEW who \in {Owner, Staff}, rejectComment(o, who, c)
          PROVE  TidyInv'
      BY <2>1, StartDeletionTidy DEF rejectComment
    <2> QED BY <1>6, <2>1, StartWriteTidy, ModerationTidy DEF Moderating
  <1>7. CASE Pinning
    BY <1>7, StartWriteTidy, UnpinOthersTidy, PinTidy, UnpinTidy DEF Pinning
  <1>8. CASE UNCHANGED wallVars
    <2>1. UNCHANGED <<comments, posted, likes, ops>>
      BY <1>8 DEF wallVars
    <2>2. \A o \in WallOps : (OpFields(ops[o]) /\ OpTidy(ops[o]) /\ OpAlone(ops[o]))'
      <3> SUFFICES ASSUME NEW o \in WallOps
                   PROVE  (OpFields(ops[o]) /\ OpTidy(ops[o]) /\ OpAlone(ops[o]))'
        OBVIOUS
      <3>1. PICK op : op = ops[o]
        OBVIOUS
      <3>2. OpFields(op)' /\ OpTidy(op)' /\ OpAlone(op)' /\ op = ops'[o]
        BY <2>1, <3>1, SameRead DEF TidyInv
      <3> QED BY <3>2
    <2>3. NoOrphans' /\ OneAlonePin' /\ PlaceholdersHold' /\ Meet' /\ LikesOfLive' /\ \A d \in CommentIds : DocTidy(d)'
      BY <2>1 DEF TidyInv, NoOrphans, OneAlonePin, PlaceholdersHold, Meet, Active, ChildrenOf, DocTidy, Exists, LikesOfLive, Live, At
    <2>4. DOMAIN ops' = WallOps /\ DOMAIN comments' = CommentIds /\ posted' \in 0 .. MaxComments /\ likes' \in [CommentIds -> Marks]
      BY <2>1 DEF TidyInv
    <2> QED BY <2>2, <2>3, <2>4 DEF TidyInv
  <1> QED BY <1>1, <1>2, <1>3, <1>4, <1>5, <1>6, <1>7, <1>8 DEF WallNext

(* Two comments are pinned only when pins met. *)
LEMMA TidyPins == TidyInv => OnePin
  <1> SUFFICES ASSUME TidyInv
               PROVE  OnePin
    OBVIOUS
  <1>1. PICK pins : pins = {c \in CommentIds : Exists(c) /\ comments[c].pinned # "no"}
    OBVIOUS
  <1>2. SUFFICES ASSUME ~\E c \in pins : comments[c].pinned = "met"
                 PROVE  Cardinality(pins) <= 1
    BY <1>1 DEF OnePin
  <1>3. \A c \in pins : comments[c].pinned = "alone"
    BY <1>1, <1>2, OldDocs DEF Marks
  <1>4. \A c, d \in pins : c = d
    BY <1>1, <1>3 DEF TidyInv, OneAlonePin
  <1>5. CASE pins = {}
    BY <1>5, FS_EmptySet
  <1>6. CASE pins # {}
    <2>1. PICK c : pins = {c}
      BY <1>4, <1>6
    <2> QED BY <2>1, FS_Singleton
  <1> QED BY <1>5, <1>6

(* The comments of a wall keep their shape, whoever answers, deletes,
   purges, edits, pins or likes beside whom: every reply one level below
   what it answers and none without it, placeholders only for the replies
   below them, one pin, and no like of what is gone, but for what the
   property allows to handlers that met; for any number of handlers,
   authors and comments, to any depth (wall.service.ts). *)
THEOREM WallsAreTidy == WallSpec => []WallTidy
  <1>1. WallInit => TidyInv
    BY TidyBegins
  <1>2. TidyInv /\ [WallNext]_wallVars => TidyInv'
    BY TidyStep
  <1>3. TidyInv => WallTidy
    <2> SUFFICES ASSUME TidyInv
                 PROVE  WallTidy
      OBVIOUS
    <2>1. ASSUME NEW c \in CommentIds, comments[c] # NoComment
          PROVE  /\ comments[c].depth \in 0 .. WALL_MAX_DEPTH
                 /\ comments[c].status \in {"visible", "pending", "hidden"}
                 /\ comments[c].deleted \in Marks /\ comments[c].pinned \in Marks
                 /\ comments[c].text \in {"plain", "muted", "none"}
                 /\ (comments[c].depth = 0) = (comments[c].parent = 0)
                 /\ Exists(comments[c].parent) =>
                     comments[c].depth = comments[comments[c].parent].depth + 1
      BY <2>1 DEF TidyInv, DocTidy
    <2>2. WallTypeOK
      BY <2>1 DEF TidyInv, WallTypeOK
    <2> QED BY <2>2, TidyPins DEF TidyInv, WallTidy
  <1> QED BY <1>1, <1>2, <1>3, PTL DEF WallSpec

-----------------------------------------------------------------------------
(* The members of a set in an order: each in one place. *)
OnceEach(q) == \A n, m \in DOMAIN q : q[n] = q[m] => n = m
(* R puts the members of S in one line. *)
Orders(R, S) ==
    /\ \A x \in S : <<x, x>> \notin R
    /\ \A x, y \in S : x = y \/ <<x, y>> \in R \/ <<y, x>> \in R
    /\ \A x, y, z \in S : <<x, y>> \in R /\ <<y, z>> \in R => <<x, z>> \in R

LEMMA RankedIs ==
  ASSUME NEW S, IsFiniteSet(S), NEW R, Orders(R, S)
  PROVE  /\ Ranked(S, R) \in Seq(S) /\ Len(Ranked(S, R)) = Cardinality(S)
         /\ DOMAIN Ranked(S, R) = 1 .. Cardinality(S)
         /\ OnceEach(Ranked(S, R)) /\ ToSet(Ranked(S, R)) = S
<1> DEFINE C == Cardinality(S)
           Below(x) == {y \in S : <<y, x>> \in R}
           Rank == [x \in S |-> Cardinality(Below(x))]
           q == Ranked(S, R)
<1>1. C \in Nat
  BY FS_CardinalityType
<1>2. \A x \in S : Below(x) \in SUBSET S /\ x \notin Below(x)
  BY DEF Orders
<1>3. \A x \in S : IsFiniteSet(Below(x)) /\ Cardinality(Below(x)) \in Nat
  BY <1>2, FS_Subset, FS_CardinalityType
<1>4. \A x \in S : Cardinality(Below(x)) \in 0 .. C - 1
  <2> TAKE x \in S
  <2> PICK B : B = Below(x)
    OBVIOUS
  <2>1. B \in SUBSET S /\ B # S /\ Cardinality(B) \in Nat
    BY <1>2, <1>3
  <2>2. Cardinality(B) <= C /\ (C = Cardinality(B) => S = B)
    BY <2>1, FS_Subset
  <2> HIDE DEF C
  <2>3. Cardinality(B) \in 0 .. C - 1
    BY <2>1, <2>2, <1>1
  <2> QED BY <2>3
<1>5. \A x, y \in S : <<x, y>> \in R => Cardinality(Below(x)) < Cardinality(Below(y))
  <2> SUFFICES ASSUME NEW x \in S, NEW y \in S, <<x, y>> \in R
               PROVE  Cardinality(Below(x)) < Cardinality(Below(y))
    OBVIOUS
  <2> PICK A : A = Below(x)
    OBVIOUS
  <2> PICK B : B = Below(y)
    OBVIOUS
  <2>1. A \in SUBSET B
    BY DEF Orders
  <2>2. x \in B /\ x \notin A
    BY <1>2
  <2>3. IsFiniteSet(B) /\ Cardinality(A) \in Nat /\ Cardinality(B) \in Nat
    BY <1>3
  <2>4. Cardinality(A) <= Cardinality(B) /\ (Cardinality(B) = Cardinality(A) => B = A)
    BY <2>1, <2>3, FS_Subset
  <2>5. Cardinality(A) < Cardinality(B)
    BY <2>2, <2>3, <2>4
  <2> QED BY <2>5
<1> HIDE DEF Below
<1>6. \A x, y \in S : Rank[x] = Rank[y] => x = y
  <2> SUFFICES ASSUME NEW x \in S, NEW y \in S, Rank[x] = Rank[y], x # y PROVE FALSE
    OBVIOUS
  <2>1. <<x, y>> \in R \/ <<y, x>> \in R
    BY DEF Orders
  <2>2. Cardinality(Below(x)) \in Nat /\ Cardinality(Below(y)) \in Nat
    BY <1>3
  <2> QED BY <2>1, <2>2, <1>5
<1>7. Rank \in Injection(S, 0 .. C - 1)
  <2>1. Rank \in [S -> 0 .. C - 1]
    BY <1>4
  <2> HIDE DEF Rank
  <2> QED BY <2>1, <1>6 DEF Injection, IsInjective
<1>8. Rank \in Surjection(S, 0 .. C - 1)
  <2> HIDE DEF C, Rank
  <2>1. IsFiniteSet(0 .. C - 1) /\ Cardinality(0 .. C - 1) = C
    BY <1>1, FS_Interval
  <2>2. Cardinality(S) = Cardinality(0 .. C - 1) <=> Rank \in Surjection(S, 0 .. C - 1)
    BY <1>7, <2>1, FS_Injection
  <2> QED BY <2>1, <2>2 DEF C
<1>9. \A n \in 0 .. C - 1 : \E x \in S : Rank[x] = n
  <2> HIDE DEF C, Rank
  <2> QED BY <1>8 DEF Surjection
<1>10. \A n \in 1 .. C : q[n] \in S /\ Rank[q[n]] = n - 1
  <2> TAKE n \in 1 .. C
  <2>1. q[n] = CHOOSE x \in S : Cardinality(Below(x)) = n - 1
    BY DEF Ranked, Below
  <2>2. n - 1 \in 0 .. C - 1
    BY <1>1
  <2>3. PICK x \in S : Cardinality(Below(x)) = n - 1
    BY <2>2, <1>9
  <2>4. q[n] \in S /\ Cardinality(Below(q[n])) = n - 1
    BY <2>1, <2>3
  <2> QED BY <2>4
<1>11. DOMAIN q = 1 .. C /\ q = [n \in 1 .. C |-> q[n]]
  <2> PICK f : f = q
    OBVIOUS
  <2>1. f = [n \in 1 .. C |-> CHOOSE x \in S : Cardinality({y \in S : <<y, x>> \in R}) = n - 1]
    BY DEF Ranked
  <2>2. DOMAIN f = 1 .. C
    BY <2>1, Zenon
  <2> HIDE DEF C
  <2>3. f = [n \in 1 .. C |-> f[n]]
    BY <2>1, <2>2, Zenon
  <2> QED BY <2>2, <2>3, Zenon
<1>12. OnceEach(q)
  <2> HIDE DEF q, Rank, C
  <2>1. \A n, m \in 1 .. C : q[n] = q[m] => n - 1 = m - 1
    BY <1>10
  <2>2. \A n, m \in 1 .. C : n - 1 = m - 1 => n = m
    BY <1>1
  <2> QED BY <2>1, <2>2, <1>11 DEF OnceEach
<1>13. ToSet(q) = S
  <2> HIDE DEF q, C
  <2>1. \A x \in S : \E n \in 1 .. C : q[n] = x
    <3> TAKE x \in S
    <3>0. Rank[x] \in 0 .. C - 1
      BY <1>4
    <3> HIDE DEF Rank
    <3>1. Rank[x] + 1 \in 1 .. C /\ (Rank[x] + 1) - 1 = Rank[x]
      BY <3>0, <1>1
    <3>2. q[Rank[x] + 1] \in S /\ Rank[q[Rank[x] + 1]] = Rank[x]
      BY <3>1, <1>10
    <3> QED BY <3>1, <3>2, <1>6
  <2>2. \A n \in 1 .. C : q[n] \in S
    BY <1>10
  <2> QED BY <2>1, <2>2, <1>11 DEF ToSet
<1>14. q \in Seq(S) /\ Len(q) = C
  <2> HIDE DEF q, C
  <2>1. \A n \in 1 .. C : q[n] \in S
    BY <1>10
  <2> QED BY <2>1, <1>11, <1>1
<1> QED BY <1>11, <1>12, <1>13, <1>14

LEMMA SequencesOfMore ==
  ASSUME NEW S, NEW T, S \subseteq T, NEW q \in Seq(S)
  PROVE  q \in Seq(T)
<1>1. Len(q) \in Nat /\ DOMAIN q = 1 .. Len(q) /\ q = [i \in 1 .. Len(q) |-> q[i]]
  OBVIOUS
<1>2. \A i \in 1 .. Len(q) : q[i] \in T
  OBVIOUS
<1> QED BY <1>1, <1>2

LEMMA AscendingIs ==
  ASSUME NEW P, IsFiniteSet(P), P \in SUBSET Nat
  PROVE  /\ Ascending(P) \in Seq(P) /\ Len(Ascending(P)) = Cardinality(P)
         /\ DOMAIN Ascending(P) = 1 .. Cardinality(P)
         /\ OnceEach(Ascending(P)) /\ ToSet(Ascending(P)) = P
<1> DEFINE R == {pair \in P \X P : pair[1] < pair[2]}
<1>1. Orders(R, P)
  BY DEF Orders
<1> HIDE DEF R
<1>2. /\ Ranked(P, R) \in Seq(P) /\ Len(Ranked(P, R)) = Cardinality(P)
      /\ DOMAIN Ranked(P, R) = 1 .. Cardinality(P)
      /\ OnceEach(Ranked(P, R)) /\ ToSet(Ranked(P, R)) = P
  BY <1>1, RankedIs
<1> QED BY <1>2 DEF Ascending, R

(* A sequence that has each in one place is as long as what it has. *)
LEMMA OnceEachCounts ==
  ASSUME NEW S, NEW q \in Seq(S), OnceEach(q)
  PROVE  IsFiniteSet(ToSet(q)) /\ Cardinality(ToSet(q)) = Len(q)
<1>1. Len(q) \in Nat /\ DOMAIN q = 1 .. Len(q)
  OBVIOUS
<1> DEFINE T == ToSet(q)
           n == Len(q)
<1>2. q \in [1 .. n -> T]
  <2>1. \A i \in 1 .. n : q[i] \in T
    BY <1>1 DEF ToSet
  <2>2. q = [i \in 1 .. n |-> q[i]]
    BY <1>1
  <2> HIDE DEF T
  <2> QED BY <2>1, <2>2
<1>3. \A t \in T : \E i \in 1 .. n : q[i] = t
  BY <1>1 DEF ToSet
<1>4. \A i, j \in 1 .. n : q[i] = q[j] => i = j
  BY <1>1 DEF OnceEach
<1>5. n \in Nat
  BY <1>1
<1> HIDE DEF T, n
<1>6. q \in Bijection(1 .. n, T)
  BY <1>2, <1>3, <1>4 DEF Bijection, Injection, Surjection, IsInjective
<1>7. ExistsBijection(1 .. n, T)
  BY <1>6 DEF ExistsBijection
<1>8. Cardinality(T) = n
  BY <1>5, <1>7, FS_CountingElements
<1>9. IsFiniteSet(T)
  BY <1>5, <1>7, FS_NatBijection
<1> QED BY <1>8, <1>9 DEF T, n
(* Counting up from zero. *)
LEMMA CountingUp ==
  ASSUME NEW N \in Nat, NEW G, 0 \in G, \A n \in 0 .. N : n \in G /\ n < N => n + 1 \in G
  PROVE  \A n \in 0 .. N : n \in G
<1> DEFINE Less == {p \in Nat \X Nat : p[1] < p[2]}
           Bad == {n \in 0 .. N : n \notin G}
<1>1. IsWellFoundedOn(Less, Nat)
  BY NatLessThanWellFounded DEF OpToRel
<1>2. IsWellFoundedOn(Less, Bad)
  BY <1>1, IsWellFoundedOnSubset
<1>3. SUFFICES ASSUME Bad # {} PROVE FALSE
  OBVIOUS
<1>4. PICK m \in Bad : \A x \in Bad : <<x, m>> \notin Less
  BY <1>2, <1>3, WFMin
<1>5. m # 0 /\ m - 1 \in 0 .. N /\ m - 1 < N
  BY <1>4
<1>6. m - 1 \notin Bad
  <2>1. m \in Nat /\ m - 1 \in Nat /\ m - 1 < m
    BY <1>4, <1>5
  <2>2. <<m - 1, m>> \in Less
    BY <2>1
  <2> QED BY <1>4, <2>2
<1>7. m \in G
  BY <1>5, <1>6
<1> QED  BY <1>4, <1>7

(* Two sequences, one after the other. *)
LEMMA JoinIs ==
  ASSUME NEW S, NEW s \in Seq(S), NEW t \in Seq(S)
  PROVE  /\ s \o t \in Seq(S) /\ ToSet(s \o t) = ToSet(s) \cup ToSet(t)
         /\ OnceEach(s) /\ OnceEach(t) /\ ToSet(s) \cap ToSet(t) = {} => OnceEach(s \o t)
<1> DEFINE l == Len(s)
           m == Len(t)
           j == s \o t
<1>1. /\ j \in Seq(S) /\ l \in Nat /\ m \in Nat /\ DOMAIN j = 1 .. l + m
      /\ DOMAIN s = 1 .. l /\ DOMAIN t = 1 .. m
  BY ConcatProperties
<1>2. \A i \in 1 .. l : i \in 1 .. l + m /\ j[i] = s[i]
  BY ConcatProperties, <1>1
<1>3. \A i \in 1 .. l + m : i \notin 1 .. l => i - l \in 1 .. m /\ j[i] = t[i - l]
  BY ConcatProperties, <1>1
<1>4. \A i \in 1 .. m : i + l \in 1 .. l + m /\ i + l \notin 1 .. l /\ (i + l) - l = i
  BY <1>1
<1> HIDE DEF j, l, m
<1>5. ToSet(j) = ToSet(s) \cup ToSet(t)
  <2>1. \A x \in ToSet(j) : x \in ToSet(s) \cup ToSet(t)
    BY <1>1, <1>2, <1>3 DEF ToSet
  <2>2. \A x \in ToSet(s) : x \in ToSet(j)
    BY <1>1, <1>2 DEF ToSet
  <2>3. \A x \in ToSet(t) : x \in ToSet(j)
    <3> TAKE x \in ToSet(t)
    <3>1. PICK i \in 1 .. m : t[i] = x
      BY <1>1 DEF ToSet
    <3>2. j[i + l] = x /\ i + l \in DOMAIN j
      BY <3>1, <1>4, <1>3, <1>1
    <3> QED BY <3>2 DEF ToSet
  <2> QED BY <2>1, <2>2, <2>3
<1>6. ASSUME OnceEach(s), OnceEach(t), ToSet(s) \cap ToSet(t) = {} PROVE OnceEach(j)
  <2> SUFFICES ASSUME NEW a \in 1 .. l + m, NEW b \in 1 .. l + m, j[a] = j[b] PROVE a = b
    BY <1>1 DEF OnceEach
  <2>1. CASE a \in 1 .. l /\ b \in 1 .. l
    BY <2>1, <1>2, <1>6, <1>1 DEF OnceEach
  <2>2. CASE a \notin 1 .. l /\ b \notin 1 .. l
    <3>1. a - l \in DOMAIN t /\ b - l \in DOMAIN t /\ t[a - l] = t[b - l]
      BY <2>2, <1>3, <1>1
    <3>2. a - l = b - l
      BY <3>1, <1>6 DEF OnceEach
    <3> QED BY <3>2, <1>1
  <2>3. CASE a \in 1 .. l /\ b \notin 1 .. l
    <3>1. j[a] \in ToSet(s) /\ j[b] \in ToSet(t)
      BY <2>3, <1>1, <1>2, <1>3 DEF ToSet
    <3> QED BY <3>1, <1>6
  <2>4. CASE a \notin 1 .. l /\ b \in 1 .. l
    <3>1. j[b] \in ToSet(s) /\ j[a] \in ToSet(t)
      BY <2>4, <1>1, <1>2, <1>3 DEF ToSet
    <3> QED BY <3>1, <1>6
  <2> QED BY <2>1, <2>2, <2>3, <2>4
<1> QED BY <1>1, <1>5, <1>6 DEF j

(* What flattening computes, part by part. *)
Joins(seqs, n, f) == f = [i \in 1 .. n |-> IF i = 1 THEN seqs[i] ELSE f[i - 1] \o seqs[i]]

LEMMA JoinsExists ==
  ASSUME NEW seqs, Len(seqs) \in Nat
  PROVE  \E f : Joins(seqs, Len(seqs), f)
<1> DEFINE N == Len(seqs)
           G == {n \in 0 .. N : \E f : Joins(seqs, n, f)}
<1>1. 0 \in G
  <2>1. \A f : [i \in 1 .. 0 |-> IF i = 1 THEN seqs[i] ELSE f[i - 1] \o seqs[i]] = <<>>
    OBVIOUS
  <2>2. Joins(seqs, 0, <<>>)
    BY <2>1 DEF Joins
  <2> QED BY <2>2
<1>2. ASSUME NEW n \in 0 .. N, n \in G, n < N PROVE n + 1 \in G
  <2>1. PICK f : Joins(seqs, n, f)
    BY <1>2
  <2> DEFINE last == IF n + 1 = 1 THEN seqs[n + 1] ELSE f[n] \o seqs[n + 1]
             g == [i \in 1 .. n + 1 |-> IF i = n + 1 THEN last ELSE f[i]]
  <2>2. \A i \in 1 .. n : g[i] = f[i]
    <3>1. \A i \in 1 .. n : i \in 1 .. n + 1 /\ i # n + 1
      BY <1>2
    <3> HIDE DEF last
    <3> QED BY <3>1
  <2>3. \A i \in 1 .. n : f[i] = IF i = 1 THEN seqs[i] ELSE f[i - 1] \o seqs[i]
    BY <2>1 DEF Joins
  <2>4. g[n + 1] = last /\ DOMAIN g = 1 .. n + 1
    OBVIOUS
  <2> HIDE DEF g
  <2>5. \A i \in 1 .. n + 1 : g[i] = IF i = 1 THEN seqs[i] ELSE g[i - 1] \o seqs[i]
    <3> TAKE i \in 1 .. n + 1
    <3>1. CASE i = n + 1
      <4>1. CASE n = 0
        BY <3>1, <4>1, <2>4
      <4>2. CASE n # 0
        <5>1. n \in 1 .. n /\ i - 1 = n /\ i # 1
          BY <4>2, <3>1
        <5>2. g[n] = f[n]
          BY <5>1, <2>2
        <5> QED BY <5>1, <5>2, <3>1, <2>4
      <4> QED BY <4>1, <4>2
    <3>2. CASE i \in 1 .. n
      <4>1. i # 1 => i - 1 \in 1 .. n
        BY <3>2
      <4> QED BY <4>1, <3>2, <2>2, <2>3
    <3> QED BY <3>1, <3>2
  <2>6. g = [i \in 1 .. n + 1 |-> g[i]]
    BY DEF g
  <2>7. Joins(seqs, n + 1, g)
    BY <2>5, <2>6 DEF Joins
  <2> QED BY <2>7, <1>2
<1>3. N \in G
  <2>1. N \in Nat /\ N \in 0 .. N
    OBVIOUS
  <2> HIDE DEF G, N
  <2>2. \A n \in 0 .. N : n \in G
    BY <1>1, <1>2, <2>1, CountingUp
  <2> QED BY <2>1, <2>2
<1> QED BY <1>3

LEMMA FlattenStep ==
  ASSUME NEW seqs, Len(seqs) \in Nat, Len(seqs) # 0
  PROVE  \E f : /\ FlattenSeq(seqs) = f[Len(seqs)] /\ f[1] = seqs[1]
                /\ \A i \in 1 .. Len(seqs) : i # 1 => f[i] = f[i - 1] \o seqs[i]
<1> DEFINE f == CHOOSE f : Joins(seqs, Len(seqs), f)
<1>1. Joins(seqs, Len(seqs), f)
  BY JoinsExists
<1>2. FlattenSeq(seqs) = f[Len(seqs)]
  BY DEF FlattenSeq, Joins
<1> HIDE DEF f
<1>3. f[1] = seqs[1] /\ \A i \in 1 .. Len(seqs) : i # 1 => f[i] = f[i - 1] \o seqs[i]
  <2> DEFINE body(i) == IF i = 1 THEN seqs[i] ELSE f[i - 1] \o seqs[i]
  <2>1. f = [i \in 1 .. Len(seqs) |-> body(i)]
    BY <1>1 DEF Joins
  <2> HIDE DEF body
  <2>2. \A i \in 1 .. Len(seqs) : f[i] = body(i)
    BY <2>1
  <2>3. 1 \in 1 .. Len(seqs)
    OBVIOUS
  <2> QED BY <2>2, <2>3 DEF body
<1> QED BY <1>2, <1>3

(* Parts that have each in one place, and nothing in common. *)
PartsApart(seqs) ==
    /\ \A i \in DOMAIN seqs : OnceEach(seqs[i])
    /\ \A i, j \in DOMAIN seqs : i # j => ToSet(seqs[i]) \cap ToSet(seqs[j]) = {}
AllOf(seqs, n) == UNION {ToSet(seqs[i]) : i \in 1 .. n}
LEMMA FlattenIs ==
  ASSUME NEW S, NEW seqs \in Seq(Seq(S)), PartsApart(seqs)
  PROVE  /\ FlattenSeq(seqs) \in Seq(S) /\ OnceEach(FlattenSeq(seqs))
         /\ ToSet(FlattenSeq(seqs)) = AllOf(seqs, Len(seqs))
<1> DEFINE N == Len(seqs)
<1>0. N \in Nat /\ DOMAIN seqs = 1 .. N /\ \A k \in 1 .. N : seqs[k] \in Seq(S)
  OBVIOUS
<1>1. CASE N = 0
  <2>1. FlattenSeq(seqs) = seqs /\ seqs = <<>>
    BY <1>1, <1>0 DEF FlattenSeq
  <2>2. AllOf(seqs, 0) = {} /\ ToSet(seqs) = {} /\ OnceEach(seqs) /\ seqs \in Seq(S)
    BY <2>1, <1>0, <1>1 DEF ToSet, OnceEach, AllOf
  <2> QED BY <2>1, <2>2, <1>1
<1>2. CASE N # 0
  <2>1. PICK f : /\ FlattenSeq(seqs) = f[N] /\ f[1] = seqs[1]
                 /\ \A i \in 1 .. N : i # 1 => f[i] = f[i - 1] \o seqs[i]
    BY <1>0, <1>2, FlattenStep
  <2> HIDE DEF N
  <2> DEFINE Right(n) == /\ f[n] \in Seq(S) /\ OnceEach(f[n])
                         /\ ToSet(f[n]) = AllOf(seqs, n)
             G == {n \in 0 .. N : n = 0 \/ Right(n)}
  <2>2. 0 \in G
    BY <1>0
  <2>3. ASSUME NEW n \in 0 .. N, n \in G, n < N PROVE n + 1 \in G
    <3>1. CASE n = 0
      <4>1. 1 \in 1 .. N /\ n + 1 = 1 /\ 1 .. 1 = {1}
        BY <3>1, <2>3, <1>0
      <4>2. Right(1)
        BY <4>1, <2>1, <1>0 DEF PartsApart, AllOf
      <4> QED BY <4>2, <4>1
    <3>2. CASE n # 0
      <4>0. n + 1 \in 1 .. N /\ n + 1 \in 0 .. N /\ n + 1 # 1 /\ (n + 1) - 1 = n /\ n \in 1 .. N
        BY <3>2, <2>3, <1>0
      <4>1. f[n + 1] = f[n] \o seqs[n + 1] /\ seqs[n + 1] \in Seq(S)
        BY <2>1, <4>0, <1>0
      <4>2. Right(n)
        BY <2>3, <3>2
      <4>3. AllOf(seqs, n + 1) = AllOf(seqs, n) \cup ToSet(seqs[n + 1])
        <5>1. 1 .. n + 1 = 1 .. n \cup {n + 1}
          BY <2>3
        <5>2. \A x : x \in AllOf(seqs, n + 1) <=> \E i \in 1 .. n + 1 : x \in ToSet(seqs[i])
          BY DEF AllOf
        <5>3. \A x : x \in AllOf(seqs, n) <=> \E i \in 1 .. n : x \in ToSet(seqs[i])
          BY DEF AllOf
        <5>4. \A x : x \in AllOf(seqs, n + 1) <=> x \in AllOf(seqs, n) \/ x \in ToSet(seqs[n + 1])
          BY <5>1, <5>2, <5>3
        <5> QED BY <5>4
      <4>4. ToSet(f[n]) \cap ToSet(seqs[n + 1]) = {}
        <5>1. \A i \in 1 .. n : i \in 1 .. N /\ i # n + 1
          BY <4>0, <1>0
        <5>2. \A i \in 1 .. n : ToSet(seqs[i]) \cap ToSet(seqs[n + 1]) = {}
          BY <5>1, <4>0, <1>0 DEF PartsApart
        <5> QED BY <5>2, <4>2 DEF AllOf
      <4>5. OnceEach(seqs[n + 1])
        BY <4>0, <1>0 DEF PartsApart
      <4>6. /\ f[n + 1] \in Seq(S) /\ OnceEach(f[n + 1])
            /\ ToSet(f[n + 1]) = ToSet(f[n]) \cup ToSet(seqs[n + 1])
        BY <4>1, <4>2, <4>4, <4>5, JoinIs
      <4>7. Right(n + 1)
        BY <4>6, <4>3, <4>2
      <4> QED BY <4>7, <4>0
    <3> QED BY <3>1, <3>2
  <2>4. \A n \in 0 .. N : n \in G
    <3> HIDE DEF G
    <3> QED BY <1>0, <2>2, <2>3, CountingUp
  <2>5. N \in 0 .. N
    BY <1>0
  <2>6. N \in G
    BY <2>4, <2>5
  <2>7. Right(N)
    <3> HIDE DEF Right
    <3> QED BY <2>6, <1>2
  <2> QED BY <2>7, <2>1, <1>0
<1> QED BY <1>1, <1>2

(* The least of two and the greatest of some numbers. *)
LEMMA MinIs ==
  ASSUME NEW a \in Nat, NEW b \in Nat
  PROVE  Min({a, b}) = IF a <= b THEN a ELSE b
<1> DEFINE m == IF a <= b THEN a ELSE b
<1>1. m \in {a, b} /\ \A y \in {a, b} : m =< y
  <2>1. CASE a <= b
    <3>1. m = a /\ m =< a /\ m =< b
      BY <2>1
    <3> HIDE DEF m
    <3> QED BY <3>1
  <2>2. CASE b < a
    <3>1. m = b /\ m =< a /\ m =< b
      BY <2>2
    <3> HIDE DEF m
    <3> QED BY <3>1
  <2> QED BY <2>1, <2>2
<1>2. \A x \in {a, b} : (\A y \in {a, b} : x =< y) => x = m
  <2>1. CASE a <= b
    <3>1. m = a /\ (b =< a => b = a)
      BY <2>1
    <3> HIDE DEF m
    <3> QED BY <3>1
  <2>2. CASE b < a
    <3>1. m = b /\ ~(a =< b)
      BY <2>2
    <3> HIDE DEF m
    <3> QED BY <3>1
  <2> QED BY <2>1, <2>2
<1> HIDE DEF m
<1>3. Min({a, b}) = m
  BY <1>1, <1>2 DEF Min
<1> QED BY <1>3 DEF m

LEMMA MaxIs ==
  ASSUME NEW P \in SUBSET Nat, P # {}, NEW top \in Nat, \A x \in P : x <= top
  PROVE  Max(P) \in P
<1> DEFINE Less == {p \in Nat \X Nat : p[1] < p[2]}
           Down == {top - x : x \in P}
<1>1. IsWellFoundedOn(Less, Nat)
  BY NatLessThanWellFounded DEF OpToRel
<1>2. Down \in SUBSET Nat /\ Down # {}
  <2>1. \A x \in P : x \in Nat /\ top - x \in Nat
    OBVIOUS
  <2>2. PICK x \in P : TRUE
    OBVIOUS
  <2>3. top - x \in Down
    OBVIOUS
  <2> QED BY <2>1, <2>3
<1>3. IsWellFoundedOn(Less, Down)
  BY <1>1, <1>2, IsWellFoundedOnSubset
<1>4. PICK m \in Down : \A x \in Down : <<x, m>> \notin Less
  BY <1>2, <1>3, WFMin
<1>5. PICK x \in P : m = top - x
  BY <1>4
<1>6. \A y \in P : x >= y
  <2> TAKE y \in P
  <2>1. top - y \in Down /\ top - y \in Nat /\ m \in Nat
    <3>1. top - y \in Down
      OBVIOUS
    <3> HIDE DEF Down
    <3> QED BY <3>1, <1>2
  <2>2. ~(top - y < m)
    BY <2>1, <1>4
  <2>3. x \in Nat /\ y \in Nat
    OBVIOUS
  <2> HIDE DEF Down, Less
  <2> QED BY <2>1, <2>2, <2>3, <1>5
<1> QED BY <1>6 DEF Max
-----------------------------------------------------------------------------
(* The conversation of a report: who wrote what, and what it answers. *)
Message == [by : People, fromReporter : BOOLEAN, parent : Nat]
PostingOp == [kind : {"counts", "writes", "tells"}, by : People, parent : Nat]
ViewingOp == [kind : {"views"}, by : People, moderator : BOOLEAN]
ThreadTypes ==
    /\ messages \in Seq(Message)
    /\ threadOps \in [ThreadOps -> {NoThreadOp} \cup PostingOp \cup ViewingOp]
(* A reply answers a root. *)
MessagesRight ==
    \A i \in DOMAIN messages :
        /\ messages[i].fromReporter <=> messages[i].by = Reporter
        /\ \/ messages[i].parent = NoMessage
           \/ messages[i].parent \in DOMAIN messages /\ messages[messages[i].parent].parent = NoMessage
PostingsAnswer ==
    \A o \in ThreadOps : threadOps[o].kind \in {"counts", "writes", "tells"} =>
        threadOps[o].parent \in {NoMessage} \cup DOMAIN messages
ThreadInv == ThreadTypes /\ MessagesRight /\ PostingsAnswer /\ ThreadsHold

LEMMA NumberOfMessages ==
  ASSUME messages \in Seq(Message)
  PROVE  /\ Len(messages) \in Nat /\ DOMAIN messages = 1 .. Len(messages)
         /\ IsFiniteSet(DOMAIN messages) /\ Cardinality(DOMAIN messages) = Len(messages)
         /\ \A i \in DOMAIN messages : messages[i] \in Message
<1> DEFINE n == Len(messages)
<1>1. n \in Nat /\ DOMAIN messages = 1 .. n /\ \A i \in DOMAIN messages : messages[i] \in Message
  OBVIOUS
<1> HIDE DEF n
<1>2. IsFiniteSet(1 .. n) /\ Cardinality(1 .. n) = n
  BY <1>1, FS_Interval
<1> QED BY <1>1, <1>2 DEF n

LEMMA RepliesAre ==
  ASSUME messages \in Seq(Message), NEW root
  PROVE  /\ Replies(root) \in Seq(Nat) /\ OnceEach(Replies(root))
         /\ ToSet(Replies(root)) = {i \in DOMAIN messages : messages[i].parent = root}
<1> DEFINE P == {i \in DOMAIN messages : messages[i].parent = root}
<1>1. P \in SUBSET (DOMAIN messages)
  OBVIOUS
<1>2. IsFiniteSet(P) /\ P \in SUBSET Nat
  <2>1. IsFiniteSet(P)
    BY <1>1, NumberOfMessages, FS_Subset
  <2>2. DOMAIN messages \subseteq Nat
    BY NumberOfMessages
  <2> QED BY <2>1, <2>2, <1>1
<1> HIDE DEF P
<1>3. Ascending(P) \in Seq(P) /\ OnceEach(Ascending(P)) /\ ToSet(Ascending(P)) = P
  BY <1>2, AscendingIs
<1>4. Ascending(P) \in Seq(Nat)
  BY <1>3, <1>2, SequencesOfMore
<1> QED BY <1>3, <1>4 DEF Replies, P

(* Every message is in one place of what a reader sees. *)
LEMMA ViewsShowEach ==
  ASSUME messages \in Seq(Message), MessagesRight
  PROVE  Views \in Seq(Nat) /\ OnceEach(Views) /\ ToSet(Views) = DOMAIN messages
<1> DEFINE roots == Replies(NoMessage)
           Block(r) == <<r>> \o Replies(r)
           parts == [k \in DOMAIN roots |-> Block(roots[k])]
           P(r) == {i \in DOMAIN messages : messages[i].parent = r}
<1>1. roots \in Seq(Nat) /\ OnceEach(roots) /\ ToSet(roots) = P(NoMessage)
  BY RepliesAre
<1>2. \A k \in DOMAIN roots : roots[k] \in DOMAIN messages /\ messages[roots[k]].parent = NoMessage
  <2>1. \A k \in DOMAIN roots : roots[k] \in P(NoMessage)
    BY <1>1 DEF ToSet
  <2> QED BY <2>1
<1>3. \A i \in DOMAIN messages : i \in Nat /\ i # NoMessage
  BY NumberOfMessages DEF NoMessage
<1>4. \A k \in DOMAIN roots : /\ Block(roots[k]) \in Seq(Nat) /\ OnceEach(Block(roots[k]))
                              /\ ToSet(Block(roots[k])) = {roots[k]} \cup P(roots[k])
  <2> TAKE k \in DOMAIN roots
  <2> PICK r : r = roots[k]
    OBVIOUS
  <2>1. r \in Nat /\ r # NoMessage /\ r \in DOMAIN messages /\ messages[r].parent = NoMessage
    BY <1>2, <1>3
  <2>2. /\ Replies(r) \in Seq(Nat) /\ OnceEach(Replies(r))
        /\ ToSet(Replies(r)) = P(r)
    BY RepliesAre
  <2>3. <<r>> \in Seq(Nat) /\ OnceEach(<<r>>) /\ ToSet(<<r>>) = {r}
    BY <2>1 DEF OnceEach, ToSet
  <2>4. r \notin P(r)
    BY <2>1
  <2> HIDE DEF P
  <2>5. ToSet(<<r>>) \cap ToSet(Replies(r)) = {}
    BY <2>2, <2>3, <2>4
  <2> PICK s : s = <<r>>
    OBVIOUS
  <2> PICK t : t = Replies(r)
    OBVIOUS
  <2>6. /\ s \o t \in Seq(Nat) /\ OnceEach(s \o t)
        /\ ToSet(s \o t) = ToSet(s) \cup ToSet(t)
    <3>1. s \in Seq(Nat) /\ t \in Seq(Nat) /\ OnceEach(s) /\ OnceEach(t) /\ ToSet(s) \cap ToSet(t) = {}
      BY <2>2, <2>3, <2>5
    <3> QED BY ONLY <3>1, JoinIs
  <2>7. Block(r) = s \o t
    OBVIOUS
  <2> HIDE DEF Block
  <2> QED BY <2>6, <2>7, <2>2, <2>3
<1>5. DOMAIN roots = 1 .. Len(roots) /\ Len(roots) \in Nat
  BY <1>1
<1>6. parts \in Seq(Seq(Nat)) /\ DOMAIN parts = DOMAIN roots /\ Len(parts) = Len(roots)
  <2> HIDE DEF roots, Block
  <2> QED BY <1>4, <1>5
<1>7. \A k \in DOMAIN roots : parts[k] = Block(roots[k])
  OBVIOUS
<1> HIDE DEF roots, Block, parts
<1>8. PartsApart(parts)
  <2>1. \A k \in DOMAIN parts : OnceEach(parts[k])
    BY <1>4, <1>6, <1>7
  <2>2. ASSUME NEW k \in DOMAIN parts, NEW l \in DOMAIN parts, k # l
        PROVE  ToSet(parts[k]) \cap ToSet(parts[l]) = {}
    <3>1. roots[k] # roots[l]
      BY <2>2, <1>1, <1>6 DEF OnceEach
    <3>2. ToSet(parts[k]) = {roots[k]} \cup P(roots[k]) /\ ToSet(parts[l]) = {roots[l]} \cup P(roots[l])
      BY <1>4, <1>6, <1>7
    <3>3. /\ roots[k] \in DOMAIN messages /\ messages[roots[k]].parent = NoMessage /\ roots[k] # NoMessage
          /\ roots[l] \in DOMAIN messages /\ messages[roots[l]].parent = NoMessage /\ roots[l] # NoMessage
      BY <1>2, <1>3, <1>6
    <3> QED BY <3>1, <3>2, <3>3
  <2> QED BY <2>1, <2>2 DEF PartsApart
<1>9. /\ FlattenSeq(parts) \in Seq(Nat) /\ OnceEach(FlattenSeq(parts))
      /\ ToSet(FlattenSeq(parts)) = AllOf(parts, Len(parts))
  BY <1>6, <1>8, FlattenIs
<1>10. \A x : x \in AllOf(parts, Len(parts)) <=> \E k \in DOMAIN roots : x = roots[k] \/ x \in P(roots[k])
  <2>1. \A x : x \in AllOf(parts, Len(parts)) <=> \E k \in DOMAIN roots : x \in ToSet(parts[k])
    BY <1>5, <1>6 DEF AllOf
  <2> HIDE DEF P
  <2> QED BY <2>1, <1>4, <1>7
<1>11. \A i \in DOMAIN messages : \E k \in DOMAIN roots : i = roots[k] \/ i \in P(roots[k])
  <2> TAKE i \in DOMAIN messages
  <2>1. \A j \in P(NoMessage) : \E k \in DOMAIN roots : roots[k] = j
    <3> HIDE DEF P
    <3> QED BY <1>1 DEF ToSet
  <2>2. CASE messages[i].parent = NoMessage
    BY <2>1, <2>2
  <2>3. CASE messages[i].parent \in P(NoMessage)
    <3>1. PICK k \in DOMAIN roots : roots[k] = messages[i].parent
      BY <2>1, <2>3
    <3> QED BY <3>1
  <2> QED BY <2>2, <2>3 DEF MessagesRight
<1>12. AllOf(parts, Len(parts)) = DOMAIN messages
  <2>1. \A x \in AllOf(parts, Len(parts)) : x \in DOMAIN messages
    BY <1>10, <1>2
  <2>2. \A x \in DOMAIN messages : x \in AllOf(parts, Len(parts))
    <3> HIDE DEF P
    <3> QED BY <1>10, <1>11
  <2> QED BY <2>1, <2>2
<1>13. Views = FlattenSeq(parts)
  BY DEF Views, roots, parts, Block
<1> QED BY <1>9, <1>12, <1>13

(* ... under one name each. *)
NamesTo(p, m) == {<<i, NameShown(i, p, m)>> : i \in DOMAIN messages}
LEMMA NamesAreOfEach ==
  ASSUME messages \in Seq(Message), NEW p, NEW m
  PROVE  {seen[1] : seen \in NamesTo(p, m)} = DOMAIN messages /\ Cardinality(NamesTo(p, m)) = Len(messages)
<1> PICK names : names = NamesTo(p, m)
  OBVIOUS
<1>0. names = {<<i, NameShown(i, p, m)>> : i \in DOMAIN messages}
  BY DEF NamesTo
<1> DEFINE f == [i \in DOMAIN messages |-> <<i, NameShown(i, p, m)>>]
<1>1. {seen[1] : seen \in names} = DOMAIN messages
  <2>1. \A i \in DOMAIN messages : <<i, NameShown(i, p, m)>> \in names
    BY <1>0
  <2>2. \A seen \in names : seen[1] \in DOMAIN messages
    BY <1>0
  <2>3. \A i \in DOMAIN messages : i \in {seen[1] : seen \in names}
    <3> TAKE i \in DOMAIN messages
    <3>1. \E seen \in names : seen[1] = i
      BY <2>1
    <3> QED BY <3>1
  <2> QED BY <2>2, <2>3
<1>2. f \in Bijection(DOMAIN messages, names)
  <2>1. f \in [DOMAIN messages -> names]
    BY <1>0
  <2>2. \A i, j \in DOMAIN messages : f[i] = f[j] => i = j
    OBVIOUS
  <2>3. \A x \in names : \E i \in DOMAIN messages : f[i] = x
    BY <1>0
  <2> HIDE DEF f
  <2> QED BY <2>1, <2>2, <2>3 DEF Bijection, Injection, Surjection, IsInjective
<1>3. Cardinality(names) = Cardinality(DOMAIN messages)
  <2>1. ExistsBijection(DOMAIN messages, names)
    BY <1>2 DEF ExistsBijection
  <2>2. IsFiniteSet(DOMAIN messages)
    BY NumberOfMessages
  <2> QED BY <2>1, <2>2, FS_Bijection
<1> QED BY <1>1, <1>3, NumberOfMessages
LEMMA ThreadStarts == ThreadsInit => ThreadInv
<1> SUFFICES ASSUME ThreadsInit PROVE ThreadInv
  OBVIOUS
<1> USE DEF ThreadsInit
<1>1. ThreadTypes /\ MessagesRight /\ PostingsAnswer
  BY DEF ThreadTypes, MessagesRight, PostingsAnswer, NoThreadOp
<1>2. ThreadsHold
  <2>1. lastSeen.told = {} /\ lastSeen.names = {} /\ lastSeen.shown = <<>>
    BY DEF NothingSeen
  <2>2. ToSet(lastSeen.shown) = {seen[1] : seen \in lastSeen.names}
    BY <2>1 DEF ToSet
  <2>3. Len(lastSeen.shown) = Cardinality(lastSeen.names)
    BY <2>1, FS_EmptySet
  <2> QED BY <2>1, <2>2, <2>3 DEF ThreadsHold
<1> QED BY <1>1, <1>2 DEF ThreadInv

(* A step that writes no message and shows nothing. *)
LEMMA ThreadKept ==
  ASSUME ThreadInv, UNCHANGED <<messages, lastSeen>>,
         threadOps' \in [ThreadOps -> {NoThreadOp} \cup PostingOp \cup ViewingOp],
         \A o \in ThreadOps : threadOps'[o].kind \in {"counts", "writes", "tells"} =>
             threadOps'[o].parent \in {NoMessage} \cup DOMAIN messages
  PROVE  ThreadInv'
<1>1. ThreadTypes' /\ MessagesRight' /\ PostingsAnswer'
  BY DEF ThreadInv, ThreadTypes, MessagesRight, PostingsAnswer
<1>2. ThreadsHold'
  BY DEF ThreadInv, ThreadsHold, WroteAsModerator
<1> QED BY <1>1, <1>2 DEF ThreadInv

LEMMA ThreadOpKept ==
  ASSUME ThreadInv, NEW o \in ThreadOps, NEW op \in {NoThreadOp} \cup PostingOp \cup ViewingOp, TGoto(o, op),
         UNCHANGED <<messages, lastSeen>>,
         op.kind \in {"counts", "writes", "tells"} => op.parent \in {NoMessage} \cup DOMAIN messages
  PROVE  ThreadInv'
<1>1. threadOps' \in [ThreadOps -> {NoThreadOp} \cup PostingOp \cup ViewingOp]
  BY DEF ThreadInv, ThreadTypes, TGoto
<1>2. \A p \in ThreadOps : threadOps'[p].kind \in {"counts", "writes", "tells"} =>
         threadOps'[p].parent \in {NoMessage} \cup DOMAIN messages
  BY DEF ThreadInv, ThreadTypes, PostingsAnswer, TGoto
<1> QED BY <1>1, <1>2, ThreadKept

LEMMA PostingAt ==
  ASSUME ThreadTypes, NEW o \in ThreadOps, threadOps[o].kind \in {"counts", "writes", "tells"}
  PROVE  threadOps[o] \in PostingOp /\ threadOps[o].by \in People /\ threadOps[o].parent \in Nat
BY DEF ThreadTypes, NoThreadOp, PostingOp, ViewingOp

LEMMA AddKeeps ==
  ASSUME ThreadInv, NEW o \in ThreadOps, NEW p \in People, NEW parent \in {NoMessage} \cup DOMAIN messages,
         addReportMessage(o, p, parent)
  PROVE  ThreadInv'
<1> DEFINE op == [kind |-> "counts", by |-> p, parent |-> parent]
<1>1. parent \in Nat
  BY NumberOfMessages DEF ThreadInv, ThreadTypes, NoMessage
<1>2. op \in PostingOp /\ op.parent = parent
  BY <1>1 DEF PostingOp
<1>3. TGoto(o, op) /\ UNCHANGED <<messages, lastSeen>>
  BY DEF addReportMessage
<1> HIDE DEF op
<1> QED BY <1>2, <1>3, ThreadOpKept

LEMMA CountsKeeps ==
  ASSUME ThreadInv, NEW o \in ThreadOps, countsMessages(o)
  PROVE  ThreadInv'
<1>1. threadOps[o] \in PostingOp
  BY PostingAt DEF ThreadInv, countsMessages, TAt
<1>2. threadOps[o].parent \in {NoMessage} \cup DOMAIN messages
  BY DEF ThreadInv, PostingsAnswer, countsMessages, TAt
<1> DEFINE next == [threadOps[o] EXCEPT !.kind = "writes"]
<1>3. next \in PostingOp /\ next.parent = threadOps[o].parent
  BY <1>1 DEF PostingOp
<1>4. UNCHANGED <<messages, lastSeen>> /\ (TGoto(o, NoThreadOp) \/ TGoto(o, next))
  BY DEF countsMessages
<1>5. NoThreadOp.kind \notin {"counts", "writes", "tells"}
  BY DEF NoThreadOp
<1> HIDE DEF next
<1>6. CASE TGoto(o, NoThreadOp)
  BY <1>6, <1>4, <1>5, ThreadOpKept
<1>7. CASE TGoto(o, next)
  BY <1>7, <1>4, <1>3, <1>2, ThreadOpKept
<1> QED BY <1>4, <1>6, <1>7

LEMMA ListKeeps ==
  ASSUME ThreadInv, NEW o \in ThreadOps, NEW p \in People, listReportMessages(o, p)
  PROVE  ThreadInv'
<1> PICK b \in BOOLEAN : b = (p \in moderators)
  <2>1. CASE p \in moderators
    <3>1. TRUE = (p \in moderators)
      BY <2>1
    <3> QED BY <3>1
  <2>2. CASE p \notin moderators
    <3>1. FALSE = (p \in moderators)
      BY <2>2
    <3> QED BY <3>1
  <2> QED BY <2>1, <2>2
<1> DEFINE op == [kind |-> "views", by |-> p, moderator |-> b]
<1>1. op \in ViewingOp /\ op.kind = "views"
  BY DEF ViewingOp
<1>2. TGoto(o, op) /\ UNCHANGED <<messages, lastSeen>>
  BY DEF listReportMessages
<1> HIDE DEF op
<1> QED BY <1>1, <1>2, ThreadOpKept

LEMMA WritesKeeps ==
  ASSUME ThreadInv, NEW o \in ThreadOps, writesMessage(o)
  PROVE  ThreadInv'
<1> DEFINE op == threadOps[o]
           n == Len(messages)
           msg == [by |-> op.by, fromReporter |-> op.by = Reporter, parent |-> RootOf(op.parent)]
           next == [op EXCEPT !.kind = "tells"]
<1>1. messages \in Seq(Message) /\ ThreadTypes /\ MessagesRight /\ PostingsAnswer /\ ThreadsHold
  BY DEF ThreadInv, ThreadTypes
<1>2. op \in PostingOp /\ op.by \in People /\ op.parent \in {NoMessage} \cup DOMAIN messages
  BY <1>1, PostingAt DEF writesMessage, TAt, PostingsAnswer
<1>3. n \in Nat /\ DOMAIN messages = 1 .. n /\ \A i \in DOMAIN messages : messages[i] \in Message
  BY <1>1, NumberOfMessages
<1>6. PICK root : root = RootOf(op.parent)
  OBVIOUS
<1>4. root \in Nat /\ (root = NoMessage \/ (root \in DOMAIN messages /\ messages[root].parent = NoMessage))
  <2>1. CASE op.parent = NoMessage
    <3>1. RootOf(op.parent) = NoMessage
      BY <2>1 DEF RootOf
    <3>2. NoMessage \in Nat
      BY DEF NoMessage
    <3> QED BY <3>1, <3>2, <1>6
  <2>2. CASE op.parent \in DOMAIN messages /\ op.parent # NoMessage
    <3>1. \/ messages[op.parent].parent = NoMessage
          \/ messages[op.parent].parent \in DOMAIN messages /\ messages[messages[op.parent].parent].parent = NoMessage
      BY <2>2, <1>1 DEF MessagesRight
    <3>2. RootOf(op.parent) = IF messages[op.parent].parent # NoMessage THEN messages[op.parent].parent ELSE op.parent
      BY <2>2 DEF RootOf
    <3>3. op.parent \in Nat /\ messages[op.parent].parent \in Nat
      BY <2>2, <1>3 DEF Message
    <3> HIDE DEF op
    <3> QED BY <2>2, <3>1, <3>2, <3>3, <1>6
  <2> QED BY <1>2, <2>1, <2>2
<1>5. PICK b \in BOOLEAN : b = (op.by = Reporter)
  OBVIOUS
<1>7. PICK m : m = [by |-> op.by, fromReporter |-> b, parent |-> root]
  OBVIOUS
<1>8. m \in Message /\ m.by = op.by /\ (m.fromReporter <=> m.by = Reporter) /\ m.parent = root
  BY <1>7, <1>5, <1>2, <1>4 DEF Message
<1>9. messages' = Append(messages, m) /\ TGoto(o, next) /\ UNCHANGED lastSeen
  BY <1>5, <1>6, <1>7 DEF writesMessage
<1>10. /\ messages' \in Seq(Message) /\ DOMAIN messages' = 1 .. n + 1
       /\ \A i \in 1 .. n : messages'[i] = messages[i]
       /\ messages'[n + 1] = m
  BY <1>1, <1>3, <1>8, <1>9
<1>11. next \in PostingOp /\ next.parent = op.parent
  BY <1>2 DEF PostingOp
<1>12. \A i \in 1 .. n + 1 : i \in 1 .. n \/ i = n + 1
  BY <1>3
<1>13. \A i \in 1 .. n : i \in 1 .. n + 1
  BY <1>3
<1>14. root = NoMessage \/ (root \in 1 .. n /\ messages[root].parent = NoMessage)
  BY <1>4, <1>6, <1>3
<1>15. \A p \in ThreadOps : threadOps[p].kind \in {"counts", "writes", "tells"} =>
          threadOps[p].parent \in {NoMessage} \cup (1 .. n)
  BY <1>1, <1>3 DEF PostingsAnswer
<1>16. threadOps \in [ThreadOps -> {NoThreadOp} \cup PostingOp \cup ViewingOp]
  BY <1>1 DEF ThreadTypes
<1>17. threadOps' = [threadOps EXCEPT ![o] = next]
  BY <1>9 DEF TGoto
<1>18. op.parent \in {NoMessage} \cup (1 .. n)
  BY <1>2, <1>3
<1> HIDE DEF op, next, n
<1>19. ThreadTypes'
  <2>1. threadOps' \in [ThreadOps -> {NoThreadOp} \cup PostingOp \cup ViewingOp]
    BY <1>16, <1>17, <1>11
  <2> QED BY <2>1, <1>10 DEF ThreadTypes
<1>20. MessagesRight'
  <2> PICK q : q = messages'
    OBVIOUS
  <2>0. q[n + 1] = m /\ \A i \in 1 .. n : q[i] = messages[i]
    BY <1>10
  <2>1. ASSUME NEW i \in 1 .. n + 1
        PROVE  /\ q[i].fromReporter <=> q[i].by = Reporter
               /\ \/ q[i].parent = NoMessage
                  \/ q[i].parent \in 1 .. n + 1 /\ q[q[i].parent].parent = NoMessage
    <3>1. CASE i \in 1 .. n
      <4>1. /\ messages[i].fromReporter <=> messages[i].by = Reporter
            /\ \/ messages[i].parent = NoMessage
               \/ messages[i].parent \in 1 .. n /\ messages[messages[i].parent].parent = NoMessage
        BY <3>1, <1>1, <1>3 DEF MessagesRight
      <4> PICK up : up = messages[i].parent
        OBVIOUS
      <4>2. up \in 1 .. n => up \in 1 .. n + 1 /\ q[up] = messages[up]
        BY <2>0, <1>13
      <4>3. q[i] = messages[i] /\ q[i].parent = up
        BY <3>1, <2>0
      <4>4. up = NoMessage \/ (up \in 1 .. n + 1 /\ q[up].parent = NoMessage)
        BY <4>1, <4>2
      <4>5. q[i].fromReporter <=> q[i].by = Reporter
        BY <4>1, <4>3
      <4> QED BY <4>3, <4>4, <4>5
    <3>2. CASE i = n + 1
      <4>1. q[i] = m
        BY <3>2, <2>0
      <4>2. root \in 1 .. n => root \in 1 .. n + 1 /\ q[root] = messages[root]
        BY <2>0, <1>13
      <4>3. q[i].parent = root
        BY <4>1, <1>8
      <4>4. root = NoMessage \/ (root \in 1 .. n + 1 /\ q[root].parent = NoMessage)
        BY <4>2, <1>14
      <4>5. q[i].fromReporter <=> q[i].by = Reporter
        BY <4>1, <1>8
      <4> QED BY <4>3, <4>4, <4>5
    <3> QED BY <3>1, <3>2, <1>12
  <2> QED BY <2>1, <1>10 DEF MessagesRight
<1>21. PostingsAnswer'
  <2>1. ASSUME NEW p \in ThreadOps, threadOps'[p].kind \in {"counts", "writes", "tells"}
        PROVE  threadOps'[p].parent \in {NoMessage} \cup (1 .. n)
    <3>1. CASE p = o
      BY <3>1, <1>16, <1>17, <1>11, <1>18
    <3>2. CASE p # o
      BY <3>2, <2>1, <1>16, <1>17, <1>15
    <3> QED BY <3>1, <3>2
  <2> QED BY <2>1, <1>10, <1>13 DEF PostingsAnswer
<1>22. ThreadsHold'
  <2>1. WroteAsModerator \subseteq WroteAsModerator'
    <3> SUFFICES ASSUME NEW i \in 1 .. n, ~messages[i].fromReporter PROVE messages[i].by \in WroteAsModerator'
      BY <1>3 DEF WroteAsModerator
    <3>1. i \in DOMAIN messages' /\ messages'[i] = messages[i]
      BY <1>10, <1>13
    <3> QED BY <3>1 DEF WroteAsModerator
  <2>2. \A told \in lastSeen.told : told[1] \in {Reporter} \cup WroteAsModerator'
    BY <2>1, <1>1 DEF ThreadsHold
  <2> QED BY <2>2, <1>1, <1>9 DEF ThreadsHold
<1> QED BY <1>19, <1>20, <1>21, <1>22 DEF ThreadInv

LEMMA TellKeeps ==
  ASSUME ThreadInv, NEW o \in ThreadOps, tell(o)
  PROVE  ThreadInv'
<1> DEFINE op == threadOps[o]
<1>1. messages \in Seq(Message) /\ ThreadTypes /\ MessagesRight /\ PostingsAnswer
  BY DEF ThreadInv, ThreadTypes
<1>2. op.by \in People /\ op.parent \in {NoMessage} \cup DOMAIN messages
  BY <1>1, PostingAt DEF tell, TAt, PostingsAnswer
<1>3. UNCHANGED messages /\ threadOps' = [threadOps EXCEPT ![o] = NoThreadOp]
  BY DEF tell, TGoto
<1>4. NoThreadOp.kind \notin {"counts", "writes", "tells"}
  BY DEF NoThreadOp
<1>5. ThreadTypes' /\ MessagesRight' /\ PostingsAnswer'
  BY <1>1, <1>3, <1>4 DEF ThreadTypes, MessagesRight, PostingsAnswer
<1>6. /\ lastSeen'.by = op.by /\ lastSeen'.names = {} /\ lastSeen'.shown = <<>>
      /\ lastSeen'.told = {<<p, ActorFor(op, p)>> : p \in Recipients(op)}
  BY DEF tell, NothingSeen
<1>7. \A p \in Recipients(op) : p # op.by /\ p \in {Reporter} \cup WroteAsModerator
  <2>1. ASSUME op.parent # NoMessage
        PROVE  messages[op.parent].by \in {Reporter} \cup WroteAsModerator
    <3>1. op.parent \in DOMAIN messages
      BY <2>1, <1>2
    <3> QED BY <3>1, <1>1 DEF MessagesRight, WroteAsModerator
  <2> HIDE DEF op
  <2> QED BY <2>1 DEF Recipients
<1>8. \A p \in Recipients(op) : p = Reporter => ActorFor(op, p) = NoName
  BY <1>7 DEF ActorFor
<1>9. WroteAsModerator' = WroteAsModerator
  BY <1>3 DEF WroteAsModerator
<1> HIDE DEF op
<1>10. \A told \in lastSeen'.told :
          /\ told[1] # lastSeen'.by
          /\ told[1] = Reporter => told[2] = NoName
          /\ told[1] \in {Reporter} \cup WroteAsModerator'
  BY <1>6, <1>7, <1>8, <1>9
<1>11. ToSet(lastSeen'.shown) = {seen[1] : seen \in lastSeen'.names}
  BY <1>6 DEF ToSet
<1>12. Len(lastSeen'.shown) = Cardinality(lastSeen'.names)
  BY <1>6, FS_EmptySet
<1>13. ThreadsHold'
  BY <1>10, <1>11, <1>12, <1>6 DEF ThreadsHold
<1> QED BY <1>5, <1>13 DEF ThreadInv

LEMMA ViewsKeeps ==
  ASSUME ThreadInv, NEW o \in ThreadOps, views(o)
  PROVE  ThreadInv'
<1> DEFINE op == threadOps[o]
<1>1. messages \in Seq(Message) /\ ThreadTypes /\ MessagesRight /\ PostingsAnswer
  BY DEF ThreadInv, ThreadTypes
<1>2. UNCHANGED messages /\ threadOps' = [threadOps EXCEPT ![o] = NoThreadOp]
  BY DEF views, TGoto
<1>3. NoThreadOp.kind \notin {"counts", "writes", "tells"}
  BY DEF NoThreadOp
<1>4. ThreadTypes' /\ MessagesRight' /\ PostingsAnswer'
  BY <1>1, <1>2, <1>3 DEF ThreadTypes, MessagesRight, PostingsAnswer
<1>5. /\ lastSeen'.by = op.by /\ lastSeen'.told = {} /\ lastSeen'.shown = Views
      /\ lastSeen'.moderator = op.moderator
      /\ lastSeen'.names = {<<i, NameShown(i, op.by, op.moderator)>> : i \in DOMAIN messages}
  BY DEF views
<1>6. Views \in Seq(Nat) /\ OnceEach(Views) /\ ToSet(Views) = DOMAIN messages
  BY <1>1, ViewsShowEach
<1>7. Cardinality(ToSet(Views)) = Len(Views)
  BY <1>6, OnceEachCounts
<1> HIDE DEF op
<1>8. PICK names : names = NamesTo(op.by, op.moderator)
  OBVIOUS
<1>9. {seen[1] : seen \in names} = DOMAIN messages /\ Cardinality(names) = Len(messages)
  BY <1>1, <1>8, NamesAreOfEach
<1>10. Cardinality(DOMAIN messages) = Len(messages)
  BY <1>1, NumberOfMessages
<1>11. lastSeen'.names = names
  BY <1>5, <1>8 DEF NamesTo
<1>12. ToSet(lastSeen'.shown) = {seen[1] : seen \in lastSeen'.names}
  BY <1>5, <1>6, <1>9, <1>11
<1>13. Len(lastSeen'.shown) = Cardinality(lastSeen'.names)
  BY <1>5, <1>6, <1>7, <1>9, <1>10, <1>11
<1>14. lastSeen'.by = Reporter /\ ~lastSeen'.moderator => \A seen \in lastSeen'.names : seen[2] \in {NoName, Reporter}
  BY <1>1, <1>5 DEF MessagesRight, NameShown
<1>15. ThreadsHold'
  BY <1>5, <1>12, <1>13, <1>14 DEF ThreadsHold
<1> QED BY <1>4, <1>15 DEF ThreadInv

LEMMA ThreadStep == ThreadInv /\ [ThreadsNext]_threadVars => ThreadInv'
<1> SUFFICES ASSUME ThreadInv, [ThreadsNext]_threadVars PROVE ThreadInv'
  OBVIOUS
<1>1. ASSUME NEW p \in People, roleChanges_(p) PROVE ThreadInv'
  <2>1. UNCHANGED <<messages, threadOps, lastSeen>>
    BY <1>1 DEF roleChanges_
  <2> QED BY <2>1, ThreadKept DEF ThreadInv, ThreadTypes, PostingsAnswer
<1>2. CASE UNCHANGED threadVars
  <2>1. UNCHANGED <<messages, threadOps, lastSeen>>
    BY <1>2 DEF threadVars
  <2> QED BY <2>1, ThreadKept DEF ThreadInv, ThreadTypes, PostingsAnswer
<1> QED BY <1>1, <1>2, AddKeeps, CountsKeeps, ListKeeps, WritesKeeps, TellKeeps, ViewsKeeps DEF ThreadsNext

(* The conversation of a report tells its reporter no moderator's name,
   and shows every message once (buildViews, tellThread). *)
THEOREM ThreadsHoldAlways == ThreadsSpec => []ThreadsHold
<1>1. ThreadInv => ThreadsHold
  BY DEF ThreadInv
<1> QED BY <1>1, ThreadStarts, ThreadStep, PTL DEF ThreadsSpec
-----------------------------------------------------------------------------
(* The lists of reports: when each was filed and settled. *)
FiledRow == [status : {"none"} \cup Statuses, at : Nat, resolved : Nat]
ByTarget(V) == UNION {[D -> V] : D \in SUBSET Matters}
Grouping == [at : {"group"}, status : Statuses, latest : Seq(Matters), quiet : BOOLEAN]
Filling == [at : {"fill"}, status : Statuses, latest : Seq(Matters), quiet : BOOLEAN,
            reports : ByTarget(SUBSET Filers), open : ByTarget(Nat), preview : SUBSET Matters]
QueueTypes ==
    /\ filed \in [Keys -> FiledRow]
    /\ moment \in Nat
    /\ record \in [acted : SUBSET Matters, again : BOOLEAN]
    /\ listing \in {NoListing} \cup Grouping \cup Filling
(* No two byTarget are filed at a time, nor two targets settled. *)
StampsApart ==
    /\ \A k \in Keys : filed[k].at <= moment /\ filed[k].resolved <= moment
    /\ \A k \in Keys : filed[k] = NotFiled \/ (filed[k].status # "none" /\ filed[k].at # 0)
    /\ \A k \in Keys : filed[k].status \in {"dismissed", "actioned"} => filed[k].resolved # 0
    /\ \A k, l \in Keys : k # l /\ filed[k].at # 0 => filed[k].at # filed[l].at
    /\ \A k, l \in Keys : k[1] # l[1] /\ filed[k].resolved # 0 => filed[k].resolved # filed[l].resolved

Targets(status) == {t \in Matters : Of(t, status) # {}}
FilersOf(t, status) == {k[2] : k \in Of(t, status)}
ListingRight ==
    listing # NoListing =>
        /\ OnceEach(listing.latest)
        /\ listing.quiet =>
             /\ ToSet(listing.latest) \subseteq Targets(listing.status)
             /\ Targets(listing.status) \subseteq ToSet(listing.latest) \/ Len(listing.latest) = QueueLimit
        /\ listing.at = "fill" /\ listing.quiet => \A t \in ToSet(listing.latest) :
             /\ listing.reports[t] = FilersOf(t, listing.status)
             /\ listing.status = "open" => listing.open[t] = Cardinality(listing.reports[t])
AnswerRight ==
    answer # NoListing =>
         LET groups == answer.groups IN
         /\ \A i, j \in DOMAIN groups : groups[i] = groups[j] => i = j
         /\ \A i \in DOMAIN groups : answer.reports[groups[i]] # {}
         /\ answer.quiet =>
              /\ \A i \in DOMAIN groups : answer.reports[groups[i]] = answer.truth[groups[i]]
              /\ \A t \in Matters \ ToSet(groups) : answer.truth[t] = {} \/ Len(groups) = QueueLimit
              /\ answer.status = "open" => \A i \in DOMAIN groups : answer.open[groups[i]] = Cardinality(answer.reports[groups[i]])
ActedRight == record.again \/ record.acted = Targets("actioned")
QueueInv == QueueTypes /\ StampsApart /\ ListingRight /\ AnswerRight /\ ActedRight

LEMMA KeysAreFinite ==
  /\ IsFiniteSet(Keys) /\ IsFiniteSet(Matters)
  /\ \A P \in SUBSET Keys : IsFiniteSet(P) /\ Cardinality(P) \in Nat
  /\ \A P \in SUBSET Matters : IsFiniteSet(P) /\ Cardinality(P) \in Nat
<1>1. IsFiniteSet(Keys) /\ IsFiniteSet(Matters)
  BY QueueAssumption, FS_Product DEF Keys
<1>2. ASSUME NEW P \in SUBSET Keys PROVE IsFiniteSet(P) /\ Cardinality(P) \in Nat
  <2>1. IsFiniteSet(P)
    BY <1>1, <1>2, FS_Subset
  <2> QED BY <2>1, FS_CardinalityType
<1>3. ASSUME NEW P \in SUBSET Matters PROVE IsFiniteSet(P) /\ Cardinality(P) \in Nat
  <2>1. IsFiniteSet(P)
    BY <1>1, <1>3, FS_Subset
  <2> QED BY <2>1, FS_CardinalityType
<1> QED BY <1>1, <1>2, <1>3

(* As many byTarget of a target as reporters. *)
LEMMA FilersCount ==
  ASSUME NEW t, NEW status
  PROVE  Cardinality(FilersOf(t, status)) = Cardinality(Of(t, status)) /\ FilersOf(t, status) \subseteq Filers
<1> DEFINE K == Of(t, status)
           F == FilersOf(t, status)
           f == [k \in K |-> k[2]]
<1>1. K \in SUBSET Keys /\ \A k \in K : k = <<t, k[2]>> /\ k[2] \in Filers
  BY DEF Of, Keys
<1>2. f \in [K -> F] /\ \A x \in F : \E k \in K : f[k] = x
  BY DEF FilersOf
<1>3. \A k, l \in K : f[k] = f[l] => k = l
  <2> TAKE k, l \in K
  <2>1. f[k] = k[2] /\ f[l] = l[2] /\ k = <<t, k[2]>> /\ l = <<t, l[2]>>
    BY <1>1
  <2> HIDE DEF f, K
  <2> QED BY <2>1
<1> HIDE DEF f
<1>4. f \in Bijection(K, F)
  <2> HIDE DEF K, F
  <2> QED BY <1>2, <1>3 DEF Bijection, Injection, Surjection, IsInjective
<1>5. Cardinality(F) = Cardinality(K)
  <2>1. IsFiniteSet(K)
    BY <1>1, KeysAreFinite
  <2>2. ExistsBijection(K, F)
    BY <1>4 DEF ExistsBijection
  <2> HIDE DEF K, F
  <2> QED BY <2>1, <2>2, FS_Bijection
<1>6. F \subseteq Filers
  BY <1>1 DEF FilersOf
<1> QED BY <1>5, <1>6

(* Where a target stands: at the time of one of its byTarget. *)
LEMMA StandsAt ==
  ASSUME QueueTypes, StampsApart, NEW status \in Statuses, NEW t \in Targets(status)
  PROVE  \E k \in Of(t, status) : AtOf(t, status) = IF status = "open" THEN filed[k].at ELSE filed[k].resolved
<1> DEFINE Place(k) == IF status # "open" /\ filed[k].resolved # 0 THEN filed[k].resolved ELSE filed[k].at
           P == {Place(k) : k \in Of(t, status)}
<1>1. \A k \in Of(t, status) : k \in Keys /\ filed[k].status = status /\ filed[k] \in FiledRow
  BY DEF Of, QueueTypes
<1>2. \A k \in Of(t, status) : Place(k) \in Nat /\ Place(k) <= moment
  BY <1>1 DEF StampsApart, FiledRow
<1>3. P # {} /\ P \in SUBSET Nat /\ moment \in Nat /\ \A x \in P : x <= moment
  BY <1>2 DEF Targets, QueueTypes
<1> HIDE DEF Place
<1>4. Max(P) \in P
  <2> HIDE DEF P
  <2> QED BY <1>3, MaxIs
<1>5. AtOf(t, status) = Max(P)
  BY DEF AtOf, Place
<1>6. PICK k \in Of(t, status) : AtOf(t, status) = Place(k)
  BY <1>4, <1>5
<1>7. status # "open" => filed[k].resolved # 0
  BY <1>1 DEF Statuses, StampsApart
<1>8. AtOf(t, status) = IF status = "open" THEN filed[k].at ELSE filed[k].resolved
  BY <1>6, <1>7 DEF Place
<1> QED BY <1>8

LEMMA StandApart ==
  ASSUME QueueTypes, StampsApart, NEW status \in Statuses
  PROVE  /\ \A t \in Targets(status) : AtOf(t, status) \in Nat
         /\ \A t, u \in Targets(status) : t # u => AtOf(t, status) # AtOf(u, status)
<1>1. \A t \in Targets(status) : \A k \in Of(t, status) :
         /\ k \in Keys /\ k[1] = t /\ filed[k] \in FiledRow
         /\ filed[k].at # 0 /\ (status # "open" => filed[k].resolved # 0)
  <2> TAKE t \in Targets(status)
  <2> TAKE k \in Of(t, status)
  <2>1. k \in Keys /\ k[1] = t /\ filed[k].status = status /\ filed[k] \in FiledRow
    BY DEF Of, QueueTypes
  <2>2. filed[k] # NotFiled /\ status # "none"
    BY <2>1 DEF NotFiled, Statuses
  <2>3. filed[k].at # 0
    BY <2>1, <2>2 DEF StampsApart
  <2>4. status # "open" => filed[k].resolved # 0
    BY <2>1 DEF StampsApart, Statuses
  <2> QED BY <2>1, <2>3, <2>4
<1>2. ASSUME NEW t \in Targets(status) PROVE AtOf(t, status) \in Nat
  <2>1. PICK k \in Of(t, status) : AtOf(t, status) = IF status = "open" THEN filed[k].at ELSE filed[k].resolved
    BY StandsAt
  <2> QED BY <2>1, <1>1 DEF FiledRow
<1>3. ASSUME NEW t \in Targets(status), NEW u \in Targets(status), t # u
      PROVE  AtOf(t, status) # AtOf(u, status)
  <2>1. PICK k \in Of(t, status) : AtOf(t, status) = IF status = "open" THEN filed[k].at ELSE filed[k].resolved
    BY StandsAt
  <2>2. PICK l \in Of(u, status) : AtOf(u, status) = IF status = "open" THEN filed[l].at ELSE filed[l].resolved
    BY StandsAt
  <2>3. k \in Keys /\ l \in Keys /\ k[1] # l[1] /\ k # l
    BY <1>1, <1>3
  <2>4. filed[k].at # filed[l].at /\ (status # "open" => filed[k].resolved # filed[l].resolved)
    BY <2>3, <1>1 DEF StampsApart
  <2> QED BY <2>1, <2>2, <2>4
<1> QED BY <1>2, <1>3

LEMMA PrefixIs ==
  ASSUME NEW S, NEW q \in Seq(S), NEW n \in 0 .. Len(q)
  PROVE  /\ SubSeq(q, 1, n) \in Seq(S) /\ Len(SubSeq(q, 1, n)) = n
         /\ ToSet(SubSeq(q, 1, n)) \subseteq ToSet(q)
         /\ n = Len(q) => SubSeq(q, 1, n) = q
         /\ OnceEach(q) => OnceEach(SubSeq(q, 1, n))
<1> PICK s : s = SubSeq(q, 1, n)
  OBVIOUS
<1>1. Len(q) \in Nat /\ DOMAIN q = 1 .. Len(q) /\ n \in Nat /\ \A i \in 1 .. n : i \in DOMAIN q /\ q[i] \in S
  OBVIOUS
<1>2. s \in Seq(S) /\ Len(s) = n /\ \A i \in 1 .. n : s[i] = q[i]
  <2>1. 1 \in Int /\ n \in Int /\ \A i \in 1 .. n : q[i] \in S
    BY <1>1
  <2>2. /\ s \in Seq(S) /\ Len(s) = IF 1 <= n THEN n - 1 + 1 ELSE 0
        /\ \A i \in 1 .. n - 1 + 1 : s[i] = q[1 + i - 1]
    BY <2>1, SubSeqProperties
  <2>3. n - 1 + 1 = n /\ \A i \in 1 .. n : 1 + i - 1 = i
    BY <1>1
  <2>4. Len(s) = n
    BY <2>2, <1>1
  <2> QED BY <2>2, <2>3, <2>4
<1>3. DOMAIN s = 1 .. n
  BY <1>2
<1>4. ToSet(s) \subseteq ToSet(q)
  BY <1>1, <1>2, <1>3 DEF ToSet
<1>5. OnceEach(q) => OnceEach(s)
  BY <1>1, <1>2, <1>3 DEF OnceEach
<1>6. n = Len(q) => s = q
  BY SubSeqFull
<1> QED BY <1>2, <1>4, <1>5, <1>6

(* The targets of a list: each once, and all of them unless it is full. *)
LEMMA GroupedIs ==
  ASSUME QueueTypes, StampsApart, NEW status \in Statuses
  PROVE  /\ Grouped(status) \in Seq(Matters) /\ OnceEach(Grouped(status))
         /\ ToSet(Grouped(status)) \subseteq Targets(status)
         /\ Targets(status) \subseteq ToSet(Grouped(status)) \/ Len(Grouped(status)) = QueueLimit
         /\ Len(Grouped(status)) = Min({QueueLimit, Cardinality(Targets(status))})
<1> DEFINE T == Targets(status)
           R == {p \in T \X T : IF status = "open" THEN AtOf(p[1], status) < AtOf(p[2], status) ELSE AtOf(p[1], status) > AtOf(p[2], status)}
           all == Ranked(T, R)
           m == Min({QueueLimit, Len(all)})
<1>1. T \subseteq Matters
  BY DEF Targets
<1>2. IsFiniteSet(T) /\ Cardinality(T) \in Nat
  BY <1>1, KeysAreFinite
<1>3. Orders(R, T)
  <2>1. \A t, u \in T : <<t, u>> \in R <=> IF status = "open" THEN AtOf(t, status) < AtOf(u, status) ELSE AtOf(t, status) > AtOf(u, status)
    OBVIOUS
  <2>2. /\ \A t \in T : AtOf(t, status) \in Nat
        /\ \A t, u \in T : t # u => AtOf(t, status) # AtOf(u, status)
    BY StandApart
  <2> HIDE DEF R, T
  <2>3. \A t \in T : <<t, t>> \notin R
    BY <2>1, <2>2
  <2>4. ASSUME NEW t \in T, NEW u \in T, t # u
        PROVE  <<t, u>> \in R \/ <<u, t>> \in R
    <3>1. PICK a, b \in Nat : a = AtOf(t, status) /\ b = AtOf(u, status)
      BY <2>2
    <3>2. a < b \/ a > b
      BY <3>1, <2>2, <2>4
    <3>3. a < b => b > a
      OBVIOUS
    <3>4. a > b => b < a
      OBVIOUS
    <3> QED BY <3>1, <3>2, <3>3, <3>4, <2>1
  <2>5. ASSUME NEW t \in T, NEW u \in T, NEW v \in T, <<t, u>> \in R, <<u, v>> \in R
        PROVE  <<t, v>> \in R
    <3>1. PICK a, b, c \in Nat : a = AtOf(t, status) /\ b = AtOf(u, status) /\ c = AtOf(v, status)
      BY <2>2
    <3>2. CASE status = "open"
      <4>1. a < b /\ b < c
        BY <3>1, <3>2, <2>1, <2>5
      <4>2. a < c
        BY <4>1
      <4> QED BY <4>2, <3>1, <3>2, <2>1
    <3>3. CASE status # "open"
      <4>1. a > b /\ b > c
        BY <3>1, <3>3, <2>1, <2>5
      <4>2. a > c
        BY <4>1
      <4> QED BY <4>2, <3>1, <3>3, <2>1
    <3> QED BY <3>2, <3>3
  <2> QED BY <2>3, <2>4, <2>5 DEF Orders
<1>4. Grouped(status) = SubSeq(all, 1, m)
  BY DEF Grouped, Targets
<1> HIDE DEF T, R
<1>5. all \in Seq(T) /\ Len(all) = Cardinality(T) /\ OnceEach(all) /\ ToSet(all) = T
  BY <1>2, <1>3, RankedIs
<1> HIDE DEF all
<1>6. m = IF QueueLimit <= Len(all) THEN QueueLimit ELSE Len(all)
  BY <1>2, <1>5, QueueAssumption, MinIs
<1> HIDE DEF m
<1>7. m \in 0 .. Len(all)
  BY <1>6, <1>2, <1>5, QueueAssumption
<1> PICK s : s = SubSeq(all, 1, m)
  OBVIOUS
<1>8. /\ s \in Seq(T) /\ Len(s) = m /\ ToSet(s) \subseteq ToSet(all)
      /\ m = Len(all) => s = all
      /\ OnceEach(all) => OnceEach(s)
  BY <1>5, <1>7, PrefixIs
<1>9. s \in Seq(Matters)
  BY <1>8, <1>1, SequencesOfMore
<1>10. T \subseteq ToSet(s) \/ Len(s) = QueueLimit
  BY <1>5, <1>6, <1>8
<1>11. m = Min({QueueLimit, Cardinality(T)})
  BY <1>5 DEF m
<1> QED BY <1>4, <1>5, <1>8, <1>9, <1>10, <1>11 DEF T

(* The tab counts what an unlimited list has. *)
LEMMA TabCounts ==
  ASSUME QueueTypes, StampsApart
  PROVE  Len(Grouped("open")) = Min({QueueLimit, openReportCount})
<1>1. {k[1] : k \in {k \in Keys : filed[k].status = "open"}} = Targets("open")
  <2>1. ASSUME NEW k \in Keys, filed[k].status = "open" PROVE k[1] \in Targets("open")
    <3>1. k \in Of(k[1], "open") /\ k[1] \in Matters
      BY <2>1 DEF Of, Keys
    <3> QED BY <3>1 DEF Targets
  <2>2. ASSUME NEW t \in Targets("open") PROVE \E k \in Keys : filed[k].status = "open" /\ k[1] = t
    BY <2>2 DEF Targets, Of
  <2> QED BY <2>1, <2>2
<1>2. openReportCount = Cardinality(Targets("open"))
  BY <1>1 DEF openReportCount
<1>3. "open" \in Statuses
  BY DEF Statuses
<1> QED BY <1>2, <1>3, GroupedIs
(* A page of one is the report in its place, or nothing. *)
PageOf(q, p) == SubSeq(q, (p - 1) + 1, Min({(p - 1) + 1, Len(q)}))
LEMMA PageIs ==
  ASSUME NEW S, NEW q \in Seq(S), NEW p \in Nat \ {0}
  PROVE  /\ PageOf(q, p) \in Seq(S) /\ OnceEach(PageOf(q, p))
         /\ p <= Len(q) => ToSet(PageOf(q, p)) = {q[p]}
         /\ p > Len(q) => ToSet(PageOf(q, p)) = {}
<1> DEFINE page == PageOf(q, p)
<1>1. Len(q) \in Nat /\ (p - 1) + 1 = p /\ p \in Int /\ p \in Nat
  OBVIOUS
<1>2. Min({p, Len(q)}) = IF p <= Len(q) THEN p ELSE Len(q)
  BY <1>1, MinIs
<1>3. page = SubSeq(q, p, Min({p, Len(q)}))
  BY <1>1 DEF PageOf
<1> PICK s : s = page
  OBVIOUS
<1> HIDE DEF page
<1>4. CASE p <= Len(q)
  <2>1. s = SubSeq(q, p, p)
    BY <1>2, <1>3, <1>4
  <2>2. \A i \in p .. p : i = p /\ q[i] \in S
    BY <1>1, <1>4
  <2>3. s \in Seq(S) /\ Len(s) = p - p + 1 /\ \A i \in 1 .. p - p + 1 : s[i] = q[p + i - 1]
    <3>1. /\ s \in Seq(S) /\ Len(s) = IF p <= p THEN p - p + 1 ELSE 0
          /\ \A i \in 1 .. p - p + 1 : s[i] = q[p + i - 1]
      BY <2>1, <2>2, <1>1, SubSeqProperties
    <3> QED BY <3>1, <1>1
  <2>4. p - p + 1 = 1 /\ p + 1 - 1 = p /\ 1 \in 1 .. 1
    BY <1>1
  <2>5. s \in Seq(S) /\ Len(s) = 1 /\ s[1] = q[p]
    BY <2>3, <2>4
  <2>6. DOMAIN s = {1}
    BY <2>5
  <2>7. OnceEach(s) /\ ToSet(s) = {q[p]}
    BY <2>5, <2>6 DEF OnceEach, ToSet
  <2> QED BY <2>5, <2>7, <1>4, <1>1 DEF page
<1>5. CASE p > Len(q)
  <2>1. s = SubSeq(q, p, Len(q)) /\ Len(q) < p /\ Len(q) \in Int
    BY <1>1, <1>2, <1>3, <1>5
  <2>2. s = <<>>
    BY <2>1, <1>1, SubSeqEmpty
  <2>3. s \in Seq(S) /\ OnceEach(s) /\ ToSet(s) = {}
    BY <2>2 DEF OnceEach, ToSet
  <2> QED BY <2>3, <1>5, <1>1 DEF page
<1> QED BY <1>4, <1>5, <1>1

(* The pages of a reporter's own byTarget have each of them once. *)
LEMMA PagesAreAll ==
  ASSUME QueueTypes, StampsApart, NEW r \in Filers
  PROVE  LET pages == FlattenSeq([p \in 1 .. Cardinality(Matters) |-> MyPage(r, p - 1, 1)]) IN
         ToSet(pages) = {t \in Matters : filed[<<t, r>>] # NotFiled} /\ Len(pages) = Cardinality(ToSet(pages))
<1> DEFINE mine == {t \in Matters : filed[<<t, r>>] # NotFiled}
           R == {p \in mine \X mine : filed[<<p[1], r>>].at > filed[<<p[2], r>>].at}
           q == Ranked(mine, R)
           N == Cardinality(Matters)
           seqs == [p \in 1 .. N |-> MyPage(r, p - 1, 1)]
<1>1. /\ IsFiniteSet(mine) /\ Cardinality(mine) \in Nat /\ N \in Nat /\ Cardinality(mine) <= N
  <2>1. mine \in SUBSET Matters /\ Matters \in SUBSET Matters
    OBVIOUS
  <2> HIDE DEF mine
  <2>2. Cardinality(mine) <= N
    BY <2>1, KeysAreFinite, FS_Subset
  <2> QED BY <2>1, <2>2, KeysAreFinite
<1>2. Orders(R, mine)
  <2>1. \A t \in mine : <<t, r>> \in Keys /\ filed[<<t, r>>].at \in Nat /\ filed[<<t, r>>].at # 0
    BY DEF Keys, QueueTypes, FiledRow, StampsApart
  <2>2. \A t, u \in mine : t # u => filed[<<t, r>>].at # filed[<<u, r>>].at
    <3> TAKE t, u \in mine
    <3>1. t # u => <<t, r>> # <<u, r>>
      OBVIOUS
    <3> QED BY <3>1, <2>1 DEF StampsApart
  <2>3. \A t, u \in mine : <<t, u>> \in R <=> filed[<<t, r>>].at > filed[<<u, r>>].at
    OBVIOUS
  <2> DEFINE at(t) == filed[<<t, r>>].at
  <2>4. /\ \A t \in mine : at(t) \in Nat
        /\ \A t, u \in mine : t # u => at(t) # at(u)
        /\ \A t, u \in mine : <<t, u>> \in R <=> at(t) > at(u)
    BY <2>1, <2>2, <2>3
  <2> HIDE DEF R, mine, at
  <2>5. \A t \in mine : <<t, t>> \notin R
    BY <2>4
  <2>6. ASSUME NEW t \in mine, NEW u \in mine, t # u
        PROVE  <<t, u>> \in R \/ <<u, t>> \in R
    <3>1. at(t) \in Nat /\ at(u) \in Nat /\ at(t) # at(u)
      BY <2>4, <2>6
    <3>2. at(t) > at(u) \/ at(u) > at(t)
      BY <3>1
    <3> QED BY <3>2, <2>4
  <2>7. ASSUME NEW t \in mine, NEW u \in mine, NEW v \in mine, <<t, u>> \in R, <<u, v>> \in R
        PROVE  <<t, v>> \in R
    <3>1. at(t) \in Nat /\ at(u) \in Nat /\ at(v) \in Nat /\ at(t) > at(u) /\ at(u) > at(v)
      BY <2>4, <2>7
    <3>2. at(t) > at(v)
      BY <3>1
    <3> QED BY <3>2, <2>4
  <2> QED BY <2>5, <2>6, <2>7 DEF Orders
<1>3. q \in Seq(mine) /\ Len(q) = Cardinality(mine) /\ OnceEach(q) /\ ToSet(q) = mine
  <2> HIDE DEF R, mine
  <2> QED BY <1>1, <1>2, RankedIs
<1>4. MyReports(r) = q
  BY DEF MyReports
<1> HIDE DEF R, mine
<1>5. q \in Seq(Matters)
  <2>1. mine \subseteq Matters
    BY DEF mine
  <2> HIDE DEF q
  <2> QED BY <2>1, <1>3, SequencesOfMore
<1> HIDE DEF q
<1>6. \A p \in 1 .. N : /\ seqs[p] \in Seq(Matters) /\ OnceEach(seqs[p])
                        /\ p <= Len(q) => ToSet(seqs[p]) = {q[p]}
                        /\ p > Len(q) => ToSet(seqs[p]) = {}
  <2> TAKE p \in 1 .. N
  <2>1. p \in Nat \ {0}
    BY <1>1
  <2>2. seqs[p] = PageOf(q, p)
    BY <1>4 DEF MyPage, PageOf
  <2>3. /\ PageOf(q, p) \in Seq(Matters) /\ OnceEach(PageOf(q, p))
        /\ p <= Len(q) => ToSet(PageOf(q, p)) = {q[p]}
        /\ p > Len(q) => ToSet(PageOf(q, p)) = {}
    <3> HIDE DEF N, seqs
    <3> QED BY <2>1, <1>5, PageIs
  <2> HIDE DEF N, seqs
  <2> QED BY <2>2, <2>3
<1>7. seqs \in Seq(Seq(Matters)) /\ Len(seqs) = N /\ DOMAIN seqs = 1 .. N
  <2>0. DOMAIN seqs = 1 .. N /\ seqs = [p \in 1 .. N |-> seqs[p]]
    OBVIOUS
  <2> HIDE DEF seqs, N
  <2> QED BY <2>0, <1>6, <1>1
<1>0. Len(q) \in Nat /\ Len(q) <= N /\ DOMAIN q = 1 .. Len(q)
  BY <1>1, <1>3
<1> HIDE DEF seqs, N
<1>8. PartsApart(seqs)
  <2>1. ASSUME NEW i \in 1 .. N, NEW j \in 1 .. N, i # j PROVE ToSet(seqs[i]) \cap ToSet(seqs[j]) = {}
    <3>1. CASE i <= Len(q) /\ j <= Len(q)
      <4>1. i \in DOMAIN q /\ j \in DOMAIN q
        BY <3>1, <1>0, <1>1
      <4>2. q[i] # q[j]
        BY <4>1, <2>1, <1>3 DEF OnceEach
      <4> QED BY <4>2, <3>1, <1>6
    <3>2. CASE i > Len(q) \/ j > Len(q)
      BY <3>2, <1>6
    <3>3. i \in Nat /\ j \in Nat
      BY <1>1
    <3> QED BY <3>1, <3>2, <3>3, <1>0
  <2> QED BY <2>1, <1>6, <1>7 DEF PartsApart
<1>9. /\ FlattenSeq(seqs) \in Seq(Matters) /\ OnceEach(FlattenSeq(seqs))
      /\ ToSet(FlattenSeq(seqs)) = AllOf(seqs, Len(seqs))
  BY <1>7, <1>8, FlattenIs
<1>10. AllOf(seqs, Len(seqs)) = mine
  <2>1. \A x : x \in AllOf(seqs, Len(seqs)) <=> \E p \in 1 .. N : x \in ToSet(seqs[p])
    BY <1>7 DEF AllOf
  <2>2. \A x \in mine : \E i \in 1 .. Len(q) : q[i] = x
    BY <1>3, <1>0 DEF ToSet
  <2>3. \A i \in 1 .. Len(q) : q[i] \in mine /\ i \in 1 .. N /\ i <= Len(q)
    BY <1>3, <1>0, <1>1
  <2>4. \A x \in mine : x \in AllOf(seqs, Len(seqs))
    BY <2>1, <2>2, <2>3, <1>6
  <2>5. \A p \in 1 .. N : p \in 1 .. Len(q) \/ p > Len(q)
    BY <1>0, <1>1
  <2>6. ASSUME NEW x \in AllOf(seqs, Len(seqs)) PROVE x \in mine
    <3>1. PICK p \in 1 .. N : x \in ToSet(seqs[p])
      BY <2>1
    <3>2. CASE p \in 1 .. Len(q)
      BY <3>1, <3>2, <2>3, <1>6
    <3>3. CASE p > Len(q)
      BY <3>1, <3>3, <1>6
    <3> QED BY <3>2, <3>3, <2>5
  <2> QED BY <2>4, <2>6
<1>11. Len(FlattenSeq(seqs)) = Cardinality(ToSet(FlattenSeq(seqs)))
  BY <1>9, OnceEachCounts
<1> QED BY <1>9, <1>10, <1>11 DEF seqs, N, mine

LEMMA QueueInvHolds == QueueInv => QueueHolds
<1> SUFFICES ASSUME QueueInv PROVE QueueHolds
  OBVIOUS
<1>1. QueueTypes /\ StampsApart /\ AnswerRight /\ ActedRight
  BY DEF QueueInv
<1>2. Len(Grouped("open")) = Min({QueueLimit, openReportCount})
  BY <1>1, TabCounts
<1>3. \A r \in Filers :
         LET pages == FlattenSeq([p \in 1 .. Cardinality(Matters) |-> MyPage(r, p - 1, 1)]) IN
         ToSet(pages) = {t \in Matters : filed[<<t, r>>] # NotFiled} /\ Len(pages) = Cardinality(ToSet(pages))
  BY <1>1, PagesAreAll
<1>4. ActionedCount = Cardinality(record.acted) \/ record.again
  BY <1>1 DEF ActedRight, ActionedCount, Targets
<1> QED BY <1>1, <1>2, <1>3, <1>4 DEF QueueHolds, AnswerRight
LEMMA QueueStarts == QueueInit => QueueInv
<1> SUFFICES ASSUME QueueInit PROVE QueueInv
  OBVIOUS
<1> USE DEF QueueInit
<1>1. \A k \in Keys : filed[k] = NotFiled
  OBVIOUS
<1>2. QueueTypes
  BY DEF QueueTypes, NotFiled, FiledRow, NoListing
<1>3. StampsApart
  BY <1>1 DEF StampsApart, NotFiled
<1>4. Targets("actioned") = {}
  BY <1>1 DEF Targets, Of, NotFiled
<1>5. ListingRight /\ AnswerRight /\ ActedRight
  BY <1>4 DEF ListingRight, AnswerRight, ActedRight
<1> QED BY <1>2, <1>3, <1>5 DEF QueueInv

(* A write is remembered by the listing under way. *)
LEMMA WrittenKeeps ==
  ASSUME QueueInv, Written
  PROVE  listing' \in {NoListing} \cup Grouping \cup Filling /\ ListingRight' /\ AnswerRight'
<1>1. listing \in {NoListing} \cup Grouping \cup Filling /\ ListingRight
  BY DEF QueueInv, QueueTypes
<1>2. answer' = NoListing /\ listing' = IF listing = NoListing THEN listing ELSE [listing EXCEPT !.quiet = FALSE]
  BY DEF Written
<1>3. AnswerRight'
  BY <1>2 DEF AnswerRight
<1>4. CASE listing = NoListing
  BY <1>4, <1>2, <1>3 DEF ListingRight
<1>5. CASE listing # NoListing
  <2>1. listing' = [listing EXCEPT !.quiet = FALSE] /\ (listing \in Grouping \/ listing \in Filling)
    BY <1>1, <1>2, <1>5
  <2>2. /\ listing' \in Grouping \cup Filling
        /\ listing'.latest = listing.latest /\ listing'.quiet = FALSE
    BY <2>1 DEF Grouping, Filling
  <2>3. OnceEach(listing.latest)
    BY <1>1, <1>5 DEF ListingRight
  <2>4. ListingRight'
    BY <2>2, <2>3 DEF ListingRight
  <2> QED BY <2>2, <2>4, <1>3
<1> QED BY <1>4, <1>5

LEMMA TargetsFollow ==
  ASSUME NEW status, \A k \in Keys : filed'[k].status = status <=> filed[k].status = status
  PROVE  Targets(status)' = Targets(status)
<1>1. \A t \in Matters : Of(t, status)' = Of(t, status)
  BY DEF Of
<1> QED BY <1>1 DEF Targets

LEMMA DeskFiles ==
  ASSUME QueueInv, NEW t \in Matters, NEW r \in Filers, file(t, r)
  PROVE  QueueInv'
<1> DEFINE key == <<t, r>>
           row == [status |-> "open", at |-> moment + 1, resolved |-> 0]
<1>1. QueueTypes /\ StampsApart /\ ActedRight
  BY DEF QueueInv
<1>2. moment' = moment + 1 /\ filed' = [filed EXCEPT ![key] = row] /\ key \in Keys
  BY DEF file, Clock, Keys
<1>3. record' = [record EXCEPT !.again = @ \/ filed[key].status = "actioned"]
  BY DEF file
<1>4. listing' \in {NoListing} \cup Grouping \cup Filling /\ ListingRight' /\ AnswerRight'
  BY WrittenKeeps DEF file
<1>5. filed \in [Keys -> FiledRow] /\ moment \in Nat /\ record \in [acted : SUBSET Matters, again : BOOLEAN]
  BY <1>1 DEF QueueTypes
<1>6. row \in FiledRow /\ row.status = "open" /\ row.at = moment + 1 /\ row.resolved = 0
  BY <1>5 DEF FiledRow, Statuses
<1> HIDE DEF key, row
<1>7. /\ filed' \in [Keys -> FiledRow] /\ filed'[key] = row
      /\ \A k \in Keys : k # key => filed'[k] = filed[k]
  BY <1>2, <1>5, <1>6
<1>8. PICK b \in BOOLEAN : b = (record.again \/ filed[key].status = "actioned")
  OBVIOUS
<1>9. record' \in [acted : SUBSET Matters, again : BOOLEAN] /\ record'.acted = record.acted /\ record'.again = b
  BY <1>3, <1>5, <1>8
<1>10. QueueTypes'
  BY <1>2, <1>4, <1>5, <1>7, <1>9 DEF QueueTypes
<1>11. \A k \in Keys : /\ filed[k].at \in Nat /\ filed[k].resolved \in Nat
                       /\ filed[k].at <= moment /\ filed[k].resolved <= moment
  BY <1>1, <1>5 DEF StampsApart, FiledRow
<1>12. StampsApart'
  <2>1. ASSUME NEW k \in Keys
        PROVE  /\ filed'[k].at <= moment' /\ filed'[k].resolved <= moment'
               /\ filed'[k] = NotFiled \/ (filed'[k].status # "none" /\ filed'[k].at # 0)
               /\ filed'[k].status \in {"dismissed", "actioned"} => filed'[k].resolved # 0
    <3>1. CASE k = key
      BY <3>1, <1>7, <1>6, <1>2, <1>5
    <3>2. CASE k # key
      <4>1. filed'[k] = filed[k]
        BY <3>2, <1>7
      <4>2. filed[k].at <= moment' /\ filed[k].resolved <= moment'
        BY <1>11, <1>2, <1>5
      <4> QED BY <4>1, <4>2, <1>1 DEF StampsApart
    <3> QED BY <3>1, <3>2
  <2>2. ASSUME NEW k \in Keys, NEW l \in Keys, k # l, filed'[k].at # 0
        PROVE  filed'[k].at # filed'[l].at
    <3>1. CASE k = key
      <4>1. filed'[l] = filed[l] /\ filed'[k].at = moment + 1
        BY <3>1, <2>2, <1>7, <1>6
      <4> QED BY <4>1, <1>11, <1>5
    <3>2. CASE l = key
      <4>1. filed'[k] = filed[k] /\ filed'[l].at = moment + 1
        BY <3>2, <2>2, <1>7, <1>6
      <4> QED BY <4>1, <1>11, <1>5
    <3>3. CASE k # key /\ l # key
      BY <3>3, <2>2, <1>7, <1>1 DEF StampsApart
    <3> QED BY <3>1, <3>2, <3>3
  <2>3. ASSUME NEW k \in Keys, NEW l \in Keys, k[1] # l[1], filed'[k].resolved # 0
        PROVE  filed'[k].resolved # filed'[l].resolved
    <3>1. filed'[k] = filed[k]
      BY <2>3, <1>7, <1>6
    <3>2. CASE l = key
      BY <3>1, <3>2, <2>3, <1>7, <1>6
    <3>3. CASE l # key
      BY <3>1, <3>3, <2>3, <1>7, <1>1 DEF StampsApart
    <3> QED BY <3>2, <3>3
  <2> QED BY <2>1, <2>2, <2>3 DEF StampsApart
<1>13. ActedRight'
  <2>1. CASE b = TRUE
    BY <2>1, <1>9 DEF ActedRight
  <2>2. CASE b = FALSE
    <3>1. filed[key].status # "actioned" /\ ~record.again
      BY <2>2, <1>8
    <3>2. \A k \in Keys : filed'[k].status = "actioned" <=> filed[k].status = "actioned"
      BY <3>1, <1>7, <1>6
    <3>3. Targets("actioned")' = Targets("actioned")
      BY <3>2, TargetsFollow
    <3> QED BY <3>1, <3>3, <1>9, <1>1 DEF ActedRight
  <2> QED BY <2>1, <2>2
<1> QED BY <1>4, <1>10, <1>12, <1>13 DEF QueueInv

LEMMA DeskSettles ==
  ASSUME QueueInv, NEW t \in Matters, NEW outcome \in {"dismissed", "actioned"}, NEW deletes \in BOOLEAN,
         settleAll(t, outcome, deletes)
  PROVE  QueueInv'
<1>1. QueueTypes /\ StampsApart /\ ActedRight
  BY DEF QueueInv
<1>2. /\ moment' = moment + 1 /\ Of(t, "open") # {}
      /\ filed' = [k \in Keys |-> IF k \in Of(t, "open")
                                  THEN [filed[k] EXCEPT !.status = outcome, !.resolved = moment'] ELSE filed[k]]
      /\ record' = IF outcome = "actioned" THEN [record EXCEPT !.acted = @ \cup {t}] ELSE record
  BY DEF settleAll, Clock
<1>3. listing' \in {NoListing} \cup Grouping \cup Filling /\ ListingRight' /\ AnswerRight'
  BY WrittenKeeps DEF settleAll
<1>4. filed \in [Keys -> FiledRow] /\ moment \in Nat /\ record \in [acted : SUBSET Matters, again : BOOLEAN]
  BY <1>1 DEF QueueTypes
<1>5. \A k \in Keys : k \in Of(t, "open") <=> k[1] = t /\ filed[k].status = "open"
  BY DEF Of
<1>6. ASSUME NEW k \in Keys
      PROVE  /\ filed'[k] \in FiledRow /\ filed'[k].at = filed[k].at
             /\ k \in Of(t, "open") => filed'[k].status = outcome /\ filed'[k].resolved = moment + 1
             /\ k \notin Of(t, "open") => filed'[k] = filed[k]
  <2>1. filed[k] \in FiledRow
    BY <1>4
  <2>2. CASE k \in Of(t, "open")
    <3>1. filed'[k] = [filed[k] EXCEPT !.status = outcome, !.resolved = moment + 1]
      BY <1>2, <2>2
    <3>2. moment + 1 \in Nat /\ outcome \in {"none"} \cup Statuses
      BY <1>4 DEF Statuses
    <3> QED BY <2>1, <2>2, <3>1, <3>2 DEF FiledRow
  <2>3. CASE k \notin Of(t, "open")
    <3>1. filed'[k] = filed[k]
      BY <1>2, <2>3
    <3> QED BY <2>1, <2>3, <3>1
  <2> QED BY <2>2, <2>3
<1>7. filed' \in [Keys -> FiledRow]
  <2>1. DOMAIN filed' = Keys /\ filed' = [k \in Keys |-> filed'[k]]
    BY <1>2
  <2> QED BY <2>1, <1>6
<1>8. /\ record' \in [acted : SUBSET Matters, again : BOOLEAN] /\ record'.again = record.again
      /\ record'.acted = IF outcome = "actioned" THEN record.acted \cup {t} ELSE record.acted
  BY <1>2, <1>4
<1>0. moment' = moment + 1 /\ moment' \in Nat
  <2>1. moment' = moment + 1
    BY DEF settleAll, Clock
  <2>2. moment \in Nat
    BY <1>4
  <2> QED BY ONLY <2>1, <2>2
<1>9. QueueTypes'
  BY <1>0, <1>3, <1>7, <1>8 DEF QueueTypes
<1>10. \A k \in Keys : /\ filed[k].at \in Nat /\ filed[k].resolved \in Nat
                       /\ filed[k].at <= moment /\ filed[k].resolved <= moment
  BY <1>1, <1>4 DEF StampsApart, FiledRow
<1>11. StampsApart'
  <2>1. ASSUME NEW k \in Keys
        PROVE  /\ filed'[k].at <= moment' /\ filed'[k].resolved <= moment'
               /\ filed'[k] = NotFiled \/ (filed'[k].status # "none" /\ filed'[k].at # 0)
               /\ filed'[k].status \in {"dismissed", "actioned"} => filed'[k].resolved # 0
    <3>0. filed[k].at <= moment' /\ filed[k].resolved <= moment' /\ moment' # 0 /\ moment' <= moment'
      BY <1>10, <1>0, <1>4
    <3>1. CASE k \in Of(t, "open")
      <4>1. filed[k].status = "open"
        BY <3>1, <1>5
      <4>2. filed[k] # NotFiled
        BY <4>1 DEF NotFiled
      <4>3. filed[k].at # 0
        BY <4>2, <1>1 DEF StampsApart
      <4>4. filed'[k].status = outcome /\ filed'[k].resolved = moment' /\ filed'[k].at = filed[k].at
        BY <3>1, <1>6, <1>2
      <4> QED BY <4>3, <4>4, <3>0
    <3>2. CASE k \notin Of(t, "open")
      <4>1. filed'[k] = filed[k]
        BY <3>2, <1>6
      <4> QED BY <4>1, <3>0, <1>1 DEF StampsApart
    <3> QED BY <3>1, <3>2
  <2>2. ASSUME NEW k \in Keys, NEW l \in Keys, k # l, filed'[k].at # 0
        PROVE  filed'[k].at # filed'[l].at
    BY <2>2, <1>6, <1>1 DEF StampsApart
  <2>3. ASSUME NEW k \in Keys, NEW l \in Keys, k[1] # l[1], filed'[k].resolved # 0
        PROVE  filed'[k].resolved # filed'[l].resolved
    <3>1. CASE k \in Of(t, "open")
      <4>1. l \notin Of(t, "open")
        BY <3>1, <2>3, <1>5
      <4>2. filed'[l] = filed[l] /\ filed'[k].resolved = moment + 1
        BY <4>1, <3>1, <1>6
      <4> QED BY <4>2, <1>10, <1>4
    <3>2. CASE l \in Of(t, "open")
      <4>1. k \notin Of(t, "open")
        BY <3>2, <2>3, <1>5
      <4>2. filed'[k] = filed[k] /\ filed'[l].resolved = moment + 1
        BY <4>1, <3>2, <1>6
      <4> QED BY <4>2, <1>10, <1>4
    <3>3. CASE k \notin Of(t, "open") /\ l \notin Of(t, "open")
      <4>1. filed'[k] = filed[k] /\ filed'[l] = filed[l]
        BY <3>3, <1>6
      <4> QED BY <4>1, <2>3, <1>1 DEF StampsApart
    <3> QED BY <3>1, <3>2, <3>3
  <2> QED BY <2>1, <2>2, <2>3 DEF StampsApart
<1>12. ActedRight'
  <2>1. CASE outcome = "dismissed"
    <3>1. \A k \in Keys : filed'[k].status = "actioned" <=> filed[k].status = "actioned"
      BY <2>1, <1>5, <1>6
    <3>2. Targets("actioned")' = Targets("actioned")
      BY <3>1, TargetsFollow
    <3> QED BY <3>2, <2>1, <1>8, <1>1 DEF ActedRight
  <2>2. CASE outcome = "actioned"
    <3>1. \A k \in Keys : filed'[k].status = "actioned" <=> filed[k].status = "actioned" \/ k \in Of(t, "open")
      BY <2>2, <1>5, <1>6
    <3>2. \A u \in Matters : u # t => Of(u, "actioned")' = Of(u, "actioned")
      BY <3>1, <1>5 DEF Of
    <3>3. Of(t, "actioned")' # {}
      <4>1. PICK k \in Keys : k \in Of(t, "open")
        BY <1>2 DEF Of
      <4>2. k[1] = t /\ filed'[k].status = "actioned"
        BY <4>1, <1>5, <3>1
      <4> QED BY <4>2 DEF Of
    <3>4. Targets("actioned")' = Targets("actioned") \cup {t}
      BY <3>2, <3>3 DEF Targets
    <3> QED BY <3>4, <2>2, <1>8, <1>1 DEF ActedRight
  <2> QED BY <2>1, <2>2
<1> QED BY <1>3, <1>9, <1>11, <1>12 DEF QueueInv

LEMMA SightKeeps ==
  ASSUME QueueInv, Written, UNCHANGED <<filed, record, moment>>
  PROVE  QueueInv'
<1>1. listing' \in {NoListing} \cup Grouping \cup Filling /\ ListingRight' /\ AnswerRight'
  BY WrittenKeeps
<1>2. Targets("actioned")' = Targets("actioned")
  BY TargetsFollow
<1> QED BY <1>1, <1>2 DEF QueueInv, QueueTypes, StampsApart, ActedRight

(* A step that writes no report. *)
LEMMA ReadKeeps ==
  ASSUME QueueInv, UNCHANGED <<filed, record, moment>>,
         listing' \in {NoListing} \cup Grouping \cup Filling, ListingRight', AnswerRight'
  PROVE  QueueInv'
<1>1. Targets("actioned")' = Targets("actioned")
  BY TargetsFollow
<1> QED BY <1>1 DEF QueueInv, QueueTypes, StampsApart, ActedRight

LEMMA GroupKeeps ==
  ASSUME QueueInv, NEW status \in Statuses, listReportGroups(status)
  PROVE  QueueInv'
<1>1. QueueTypes /\ StampsApart /\ AnswerRight
  BY DEF QueueInv
<1>2. /\ listing' = [at |-> "group", status |-> status, latest |-> Grouped(status), quiet |-> TRUE]
      /\ UNCHANGED <<filed, sight, answer, record, moment>>
  BY DEF listReportGroups
<1> PICK latest : latest = Grouped(status)
  OBVIOUS
<1>3. /\ latest \in Seq(Matters) /\ OnceEach(latest) /\ ToSet(latest) \subseteq Targets(status)
      /\ Targets(status) \subseteq ToSet(latest) \/ Len(latest) = QueueLimit
  BY <1>1, GroupedIs
<1>4. /\ listing' \in Grouping /\ listing'.latest = latest /\ listing'.status = status
      /\ listing'.at = "group" /\ listing'.quiet = TRUE
  BY <1>2, <1>3 DEF Grouping
<1>5. \A s : Targets(s)' = Targets(s)
  BY <1>2 DEF Targets, Of
<1>6. Targets(listing.status)' = Targets(status)
  BY <1>5, <1>4, <1>2 DEF Targets, Of
<1>7. ListingRight'
  BY <1>3, <1>4, <1>6 DEF ListingRight
<1>8. AnswerRight'
  BY <1>1, <1>2 DEF AnswerRight
<1> QED BY <1>2, <1>4, <1>7, <1>8, ReadKeeps
LEMMA ReadsKeeps ==
  ASSUME QueueInv, readGroups
  PROVE  QueueInv'
<1>1. QueueTypes /\ ListingRight /\ AnswerRight
  BY DEF QueueInv
<1>2. listing \in Grouping /\ UNCHANGED <<filed, sight, answer, record, moment>>
  BY <1>1 DEF QueueTypes, readGroups, NoListing, Filling
<1> PICK latest : latest = listing.latest
  OBVIOUS
<1> PICK status : status = listing.status
  OBVIOUS
<1> PICK quiet : quiet = listing.quiet
  OBVIOUS
<1> DEFINE L == ToSet(latest)
           byTarget == [t \in L |-> {k[2] : k \in Of(t, status)}]
           open == [t \in L |-> Cardinality(Of(t, "open"))]
           preview == {t \in L : sight[t] # "gone"}
<1>3. listing' = [at |-> "fill", status |-> status, latest |-> latest, quiet |-> quiet,
                  reports |-> byTarget, open |-> open, preview |-> preview]
  BY DEF readGroups
<1>4. latest \in Seq(Matters) /\ status \in Statuses /\ quiet \in BOOLEAN
  BY <1>2 DEF Grouping
<1>5. L \in SUBSET Matters
  BY <1>4 DEF ToSet
<1>6. \A t \in L : byTarget[t] = FilersOf(t, status) /\ open[t] = Cardinality(Of(t, "open"))
  BY DEF FilersOf
<1>7. byTarget \in ByTarget(SUBSET Filers)
  <2>1. \A t \in L : byTarget[t] \in SUBSET Filers
    BY <1>6, FilersCount
  <2>2. byTarget \in [L -> SUBSET Filers]
    <3>1. DOMAIN byTarget = L /\ byTarget = [t \in L |-> byTarget[t]]
      OBVIOUS
    <3> HIDE DEF byTarget, L
    <3> QED BY <2>1, <3>1
  <2> HIDE DEF byTarget, L
  <2> QED BY <2>2, <1>5 DEF ByTarget
<1>8. open \in ByTarget(Nat)
  <2>1. \A t \in L : open[t] \in Nat
    <3> TAKE t \in L
    <3>1. Of(t, "open") \in SUBSET Keys
      BY DEF Of
    <3> HIDE DEF L
    <3> QED BY <3>1, <1>6, KeysAreFinite
  <2>2. open \in [L -> Nat]
    <3>1. DOMAIN open = L /\ open = [t \in L |-> open[t]]
      OBVIOUS
    <3> HIDE DEF open, L
    <3> QED BY <2>1, <3>1
  <2> HIDE DEF open, L
  <2> QED BY <2>2, <1>5 DEF ByTarget
<1>9. preview \in SUBSET Matters
  BY <1>5
<1> HIDE DEF byTarget, open, preview
<1>10. /\ listing' \in Filling /\ listing'.latest = latest /\ listing'.status = status /\ listing'.quiet = quiet
       /\ listing'.at = "fill" /\ listing'.reports = byTarget /\ listing'.open = open
  BY <1>3, <1>4, <1>7, <1>8, <1>9 DEF Filling
<1>11. listing # NoListing
  BY <1>2 DEF Grouping, NoListing
<1>12. Targets(listing.status)' = Targets(status)
  BY <1>10, <1>2 DEF Targets, Of
<1>13. \A t : FilersOf(t, listing.status)' = FilersOf(t, status)
  BY <1>10, <1>2 DEF FilersOf, Of
<1>14. status = "open" => \A t \in L : open[t] = Cardinality(byTarget[t])
  BY <1>6, FilersCount
<1>15. ListingRight'
  <2>1. /\ OnceEach(latest)
        /\ quiet => /\ L \subseteq Targets(status)
                    /\ Targets(status) \subseteq L \/ Len(latest) = QueueLimit
    BY <1>1, <1>11 DEF ListingRight
  <2>2. \A t \in L : /\ byTarget[t] = FilersOf(t, listing.status)'
                     /\ status = "open" => open[t] = Cardinality(byTarget[t])
    BY <1>6, <1>13, <1>14
  <2> QED BY <2>1, <2>2, <1>10, <1>12 DEF ListingRight
<1>16. AnswerRight'
  BY <1>1, <1>2 DEF AnswerRight
<1> QED BY <1>2, <1>10, <1>15, <1>16, ReadKeeps

(* The entries of a sequence in some of its places. *)
LEMMA KeptIs ==
  ASSUME NEW S, NEW q \in Seq(S), OnceEach(q), NEW P \in SUBSET (DOMAIN q), NEW g,
         g = [n \in DOMAIN Ascending(P) |-> q[Ascending(P)[n]]]
  PROVE  /\ g \in Seq(S) /\ OnceEach(g) /\ \A i \in DOMAIN g : \E j \in P : g[i] = q[j]
         /\ P = DOMAIN q => ToSet(g) = ToSet(q) /\ Len(g) = Len(q)
<1> PICK a : a = Ascending(P)
  OBVIOUS
<1>1. Len(q) \in Nat /\ DOMAIN q = 1 .. Len(q) /\ DOMAIN q \subseteq Nat /\ \A i \in DOMAIN q : q[i] \in S
  OBVIOUS
<1>2. IsFiniteSet(DOMAIN q) /\ Cardinality(DOMAIN q) = Len(q)
  <2> PICK n \in Nat : n = Len(q)
    BY <1>1
  <2>0. 1 \in Int /\ n \in Int /\ (1 > n => n = 0) /\ n - 1 + 1 = n
    OBVIOUS
  <2>1. IsFiniteSet(1 .. n) /\ Cardinality(1 .. n) = n
    BY <2>0, FS_Interval
  <2> QED BY <2>1, <1>1
<1>3. IsFiniteSet(P) /\ P \in SUBSET Nat
  BY <1>1, <1>2, FS_Subset
<1>4. /\ a \in Seq(P) /\ Len(a) = Cardinality(P) /\ DOMAIN a = 1 .. Cardinality(P)
      /\ OnceEach(a) /\ ToSet(a) = P /\ Cardinality(P) \in Nat
  BY <1>3, AscendingIs, FS_CardinalityType
<1>5. \A n \in DOMAIN a : a[n] \in P /\ a[n] \in DOMAIN q
  BY <1>4
<1>6. g = [n \in 1 .. Cardinality(P) |-> q[a[n]]] /\ DOMAIN g = DOMAIN a
  BY <1>4
<1>7. g \in Seq(S) /\ Len(g) = Cardinality(P)
  BY <1>1, <1>4, <1>5, <1>6
<1>8. OnceEach(g)
  BY <1>4, <1>5, <1>6 DEF OnceEach
<1>9. \A i \in DOMAIN g : \E j \in P : g[i] = q[j]
  BY <1>4, <1>5, <1>6
<1>10. ASSUME P = DOMAIN q PROVE ToSet(g) = ToSet(q) /\ Len(g) = Len(q)
  <2>1. \A x \in ToSet(g) : x \in ToSet(q)
    BY <1>9 DEF ToSet
  <2>2. ASSUME NEW j \in DOMAIN q PROVE q[j] \in ToSet(g)
    <3>0. j \in ToSet(a)
      BY <1>4, <1>10, <2>2
    <3>1. PICK n \in DOMAIN a : a[n] = j
      BY <3>0 DEF ToSet
    <3>2. n \in DOMAIN g /\ g[n] = q[j]
      BY <3>1, <1>6, <1>4
    <3> QED BY <3>2 DEF ToSet
  <2>3. ToSet(g) = ToSet(q)
    BY <2>1, <2>2 DEF ToSet
  <2> QED BY <2>3, <1>7, <1>2, <1>10
<1> QED BY <1>7, <1>8, <1>9, <1>10

LEMMA FillKeeps ==
  ASSUME QueueInv, fillGroups
  PROVE  QueueInv'
<1>1. QueueTypes /\ ListingRight
  BY DEF QueueInv
<1>2. listing.at = "fill" /\ listing' = NoListing /\ UNCHANGED <<filed, sight, record, moment>>
  BY DEF fillGroups
<1>3. listing \in Filling /\ listing # NoListing
  BY <1>1, <1>2 DEF QueueTypes, NoListing, Grouping
<1> PICK latest : latest = listing.latest
  OBVIOUS
<1> PICK status : status = listing.status
  OBVIOUS
<1> PICK quiet : quiet = listing.quiet
  OBVIOUS
<1> PICK byTarget : byTarget = listing.reports
  OBVIOUS
<1> PICK open : open = listing.open
  OBVIOUS
<1> DEFINE P == {i \in DOMAIN latest : byTarget[latest[i]] # {}}
           groups == [n \in DOMAIN Ascending(P) |-> latest[Ascending(P)[n]]]
           truth == [t \in Matters |-> {k[2] : k \in Of(t, status)}]
<1>4. answer' = [at |-> "done", status |-> status, quiet |-> quiet, open |-> open,
                 groups |-> groups, reports |-> byTarget, preview |-> listing.preview, actioned |-> ActionedCount,
                 truth |-> truth]
  BY DEF fillGroups
<1>5. /\ latest \in Seq(Matters) /\ OnceEach(latest) /\ quiet \in BOOLEAN
      /\ quiet => /\ ToSet(latest) \subseteq Targets(status)
                  /\ Targets(status) \subseteq ToSet(latest) \/ Len(latest) = QueueLimit
      /\ quiet => \A t \in ToSet(latest) :
             /\ byTarget[t] = FilersOf(t, status)
             /\ status = "open" => open[t] = Cardinality(byTarget[t])
  BY <1>1, <1>2, <1>3 DEF ListingRight, Filling
<1>6. \A t \in Matters : truth[t] = FilersOf(t, status)
  BY DEF FilersOf
<1> PICK g : g = groups
  OBVIOUS
<1>7. /\ g \in Seq(Matters) /\ OnceEach(g) /\ \A i \in DOMAIN g : \E j \in P : g[i] = latest[j]
      /\ P = DOMAIN latest => ToSet(g) = ToSet(latest) /\ Len(g) = Len(latest)
  <2>1. P \in SUBSET (DOMAIN latest)
    OBVIOUS
  <2>2. g = [n \in DOMAIN Ascending(P) |-> latest[Ascending(P)[n]]]
    OBVIOUS
  <2> HIDE DEF P, groups
  <2> QED BY <2>1, <2>2, <1>5, KeptIs
<1>8. \A i \in DOMAIN g : g[i] \in ToSet(latest) /\ byTarget[g[i]] # {}
  <2>1. \A j \in P : latest[j] \in ToSet(latest) /\ byTarget[latest[j]] # {}
    BY DEF ToSet
  <2> HIDE DEF P
  <2> QED BY <2>1, <1>7
<1>9. \A t \in Targets(status) : FilersOf(t, status) # {}
  BY DEF Targets, FilersOf
<1>10. \A t \in Matters : t \notin Targets(status) => FilersOf(t, status) = {}
  BY DEF Targets, FilersOf
<1>11. ASSUME quiet PROVE ToSet(g) = ToSet(latest) /\ Len(g) = Len(latest)
  <2>1. \A i \in DOMAIN latest : latest[i] \in ToSet(latest)
    BY DEF ToSet
  <2>2. \A i \in DOMAIN latest : byTarget[latest[i]] # {}
    BY <2>1, <1>11, <1>5, <1>9
  <2>3. P = DOMAIN latest
    BY <2>2
  <2> QED BY <2>3, <1>7
<1>12. ToSet(latest) \subseteq Matters
  BY <1>5 DEF ToSet
<1> HIDE DEF P, groups, truth
<1>13. ASSUME quiet
       PROVE  /\ \A i \in DOMAIN g : byTarget[g[i]] = truth[g[i]]
              /\ \A t \in Matters \ ToSet(g) : truth[t] = {} \/ Len(g) = QueueLimit
              /\ status = "open" => \A i \in DOMAIN g : open[g[i]] = Cardinality(byTarget[g[i]])
  <2>1. \A i \in DOMAIN g : byTarget[g[i]] = truth[g[i]]
    BY <1>13, <1>5, <1>6, <1>8, <1>12
  <2>2. \A t \in Matters \ ToSet(g) : truth[t] = {} \/ Len(g) = QueueLimit
    BY <1>13, <1>5, <1>6, <1>10, <1>11
  <2>3. status = "open" => \A i \in DOMAIN g : open[g[i]] = Cardinality(byTarget[g[i]])
    BY <1>13, <1>5, <1>8
  <2> QED BY <2>1, <2>2, <2>3
<1>14. /\ answer'.groups = g /\ answer'.reports = byTarget /\ answer'.quiet = quiet /\ answer'.truth = truth
       /\ answer'.status = status /\ answer'.open = open
  BY <1>4
<1>15. \A i, j \in DOMAIN g : g[i] = g[j] => i = j
  BY <1>7 DEF OnceEach
<1>16. AnswerRight'
  BY <1>8, <1>13, <1>14, <1>15 DEF AnswerRight
<1>17. ListingRight'
  BY <1>2 DEF ListingRight
<1> QED BY <1>2, <1>16, <1>17, ReadKeeps

LEMMA QueueStep == QueueInv /\ [QueueNext]_queueVars => QueueInv'
<1> SUFFICES ASSUME QueueInv, [QueueNext]_queueVars PROVE QueueInv'
  OBVIOUS
<1>1. ASSUME NEW t \in Matters, NEW how \in {"hidden", "gone"}, sightChanges(t, how) PROVE QueueInv'
  BY <1>1, SightKeeps DEF sightChanges
<1>2. CASE UNCHANGED queueVars
  <2>1. UNCHANGED <<filed, record, moment, listing, answer>>
    BY <1>2 DEF queueVars
  <2>2. listing' \in {NoListing} \cup Grouping \cup Filling /\ AnswerRight'
    BY <2>1 DEF QueueInv, QueueTypes, AnswerRight
  <2>3. ListingRight'
    <3>1. Targets(listing.status)' = Targets(listing.status)
      BY <2>1 DEF Targets, Of
    <3>2. \A t : FilersOf(t, listing.status)' = FilersOf(t, listing.status)
      BY <2>1 DEF FilersOf, Of
    <3> QED BY <2>1, <3>1, <3>2 DEF QueueInv, ListingRight
  <2> QED BY <2>1, <2>2, <2>3, ReadKeeps
<1> QED BY <1>1, <1>2, DeskFiles, DeskSettles, GroupKeeps, ReadsKeeps, FillKeeps DEF QueueNext

(* A list of byTarget has each target once, with every report it stands for
   when nothing was written beside it; the tab, the pages and the record
   of a subject count the same (listReportGroups, openReportCount,
   listMyReports). *)
THEOREM QueueHoldsAlways == QueueSpec => []QueueHolds
<1> QED BY QueueStarts, QueueStep, QueueInvHolds, PTL DEF QueueSpec

-----------------------------------------------------------------------------
(* A claimed request is executed once, the conversation of a report keeps
   to itself, and the queue lists what was reported (executeRequest,
   buildViews, listReportGroups). *)
THEOREM ModeratorsActAlways == StaffSpec /\ ThreadsSpec /\ QueueSpec => []ModeratorsAct
<1>1. RequestsOnce /\ ThreadsHold /\ QueueHolds => ModeratorsAct
  BY DEF ModeratorsAct
<1> QED BY <1>1, RequestsRunOnce, ThreadsHoldAlways, QueueHoldsAlways, PTL
=============================================================================
