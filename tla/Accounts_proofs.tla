------------------------ MODULE Accounts_proofs ------------------------
(***************************************************************************)
(* Proofs about the sign-ins of an account, the ways into it, its streak   *)
(* of days, the reports filed and settled, and the accounts followed and   *)
(* blocked, for any number of handlers under way, of devices, tokens,      *)
(* families, links, passwords, identities, addresses, passkeys, days, time *)
(* zones, targets of reports and accounts.                                 *)
(***************************************************************************)
EXTENDS MCAccountSessions, Streaks, Reports, Follows, FiniteSetTheorems, TLAPS

-----------------------------------------------------------------------------
(* What a handler under way holds. *)
Op ==
    {Idle}
    \cup [kind : {"signin"}, device : Devices, via : {"direct", "ott"}, epoch : Nat]
    \cup [kind : {"rotate", "grace"}, token : Nat, device : Devices]
    \cup [kind : {"reused"}, token : Nat, row : Nat]
    \cup [kind : {"end"}, families : SUBSET Families, row : Nat]
    \cup [kind : {"newlink"}]
    \cup [kind : {"reset"}, link : Nat]
    \cup [kind : {"change"}, keep : Nat]

Refreshing == {"rotate", "grace", "reused"}

Types ==
    /\ account \in [password : 0 .. MaxPasswords, isDeleted : BOOLEAN]
    /\ rows \in Seq(Row)
    /\ familyOf \in Seq(Families)
    /\ held \subseteq Tokens /\ otts \subseteq Tokens \ held
    /\ links \in Seq({"open", "used", "expired"})
    /\ ops \in [Ops -> Op]
    /\ lastReset \in [by : Nat, killed : Nat, before : Nat]
    /\ judged \subseteq UsedFamilies

(* A row's hash and family were issued, and no other row has either. *)
RowsOK ==
    \A i, j \in DOMAIN rows :
        /\ rows[i].hash \in Tokens
        /\ rows[i].family \in UsedFamilies
        /\ rows[i].grace => rows[i].previous \in Tokens
        /\ i # j => rows[i].hash # rows[j].hash /\ rows[i].family # rows[j].family

(* Unless the grace path gave it a second successor, a live family's
   tokens form a chain: the newest is the row's, the one before it is the
   one rotated away last, and a later one than any other was presented. *)
Chain ==
    \A i \in DOMAIN rows : rows[i].valid /\ ~rows[i].forked =>
        \A n \in Tokens : familyOf[n] = rows[i].family =>
            /\ n <= rows[i].hash
            /\ n \in {rows[i].hash, rows[i].previous} \/ rows[i].tip > n

(* What a refresh has seen of its family stays so while the family lives. *)
SeenOf(o) ==
    LET t == ops[o].token IN
    /\ t \in Tokens
    /\ \A i \in DOMAIN rows : rows[i].valid /\ rows[i].family = familyOf[t] =>
        /\ rows[i].tip >= t
        /\ ops[o].kind # "rotate" => rows[i].hash # t
        /\ ops[o].kind = "reused" => ~(rows[i].previous = t /\ rows[i].grace)
    /\ ops[o].kind = "reused" =>
        /\ ops[o].row \in DOMAIN rows
        /\ \A j \in DOMAIN rows : rows[j].family = familyOf[t] => j = ops[o].row

Seen == \A o \in Ops : ops[o].kind \in Refreshing => SeenOf(o)

JudgedGone == \A f \in judged : ~Live(f)

EpochsOK == \A i \in DOMAIN rows : rows[i].valid => rows[i].epoch = account.password \/ rows[i].raced

(* No link there was at the last reset can be used again. *)
LinksOK ==
    /\ \A o \in Ops : ops[o].kind = "reset" => ops[o].link \in DOMAIN links
    /\ lastReset.killed <= Len(links)
    /\ \A k \in DOMAIN links : links[k] = "open" => k > lastReset.killed
    /\ OldLinksDie

IInv == Types /\ RowsOK /\ Chain /\ Seen /\ JudgedGone /\ EpochsOK /\ LinksOK

-----------------------------------------------------------------------------
(* Sequences that are changed in place. *)
LEMMA InPlace ==
  ASSUME NEW S, NEW T, NEW s \in Seq(S), NEW t, DOMAIN t = DOMAIN s,
         t = [i \in DOMAIN s |-> t[i]],
         \A i \in DOMAIN s : t[i] \in T
  PROVE  t \in Seq(T) /\ Len(t) = Len(s)
<1>1. DOMAIN s = 1 .. Len(s) /\ Len(s) \in Nat
  OBVIOUS
<1>2. t \in [1 .. Len(s) -> T]
  BY <1>1
<1>3. t \in Seq(T)
  BY <1>1, <1>2
<1> QED  BY <1>1, <1>3

LEMMA DeadRow ==
  ASSUME NEW r \in Row
  PROVE  /\ Dead(r) \in Row /\ ~Dead(r).valid /\ Dead(r).family = r.family
         /\ Dead(r).hash = r.hash /\ Dead(r).previous = r.previous /\ Dead(r).grace = r.grace
BY DEF Dead, Row, None

-----------------------------------------------------------------------------
(* A step that issues no token, and only ends sessions, lets a grace run
   out or notes that a token was presented. *)
Weakened(r, q) ==
    /\ r.family = q.family /\ r.hash = q.hash /\ r.previous = q.previous
    /\ r.grace => q.grace
    /\ r.valid => /\ q.valid
                  /\ r.tip >= q.tip
                  /\ r.forked = q.forked

RowsWeaken ==
    /\ rows' \in Seq(Row) /\ Len(rows') = Len(rows)
    /\ \A i \in DOMAIN rows : Weakened(rows'[i], rows[i])
    /\ UNCHANGED familyOf

LEMMA UnchangedWeaken ==
  ASSUME Types, UNCHANGED <<rows, familyOf>>
  PROVE  RowsWeaken
<1>1. \A i \in DOMAIN rows : rows[i] \in Row
  BY DEF Types
<1>2. \A i \in DOMAIN rows : rows[i].tip \in Nat
  BY <1>1 DEF Row
<1>3. \A i \in DOMAIN rows : Weakened(rows'[i], rows[i])
  BY <1>2 DEF Weakened
<1> QED  BY <1>3 DEF Types, RowsWeaken

LEMMA EndedWeaken ==
  ASSUME Types, NEW which, rows' = Ended(which), UNCHANGED familyOf
  PROVE  /\ RowsWeaken
         /\ \A i \in DOMAIN rows : rows'[i] = IF i \in which THEN Dead(rows[i]) ELSE rows[i]
<1>1. \A i \in DOMAIN rows : rows[i] \in Row
  BY DEF Types
<1>2. /\ DOMAIN rows' = DOMAIN rows
      /\ rows' = [i \in DOMAIN rows |-> rows'[i]]
      /\ \A i \in DOMAIN rows : rows'[i] = IF i \in which THEN Dead(rows[i]) ELSE rows[i]
  BY DEF Ended
<1>3. \A i \in DOMAIN rows : rows'[i] \in Row /\ Weakened(rows'[i], rows[i])
  BY <1>1, <1>2, DeadRow DEF Weakened, Row
<1>4. rows' \in Seq(Row) /\ Len(rows') = Len(rows)
  BY <1>2, <1>3, InPlace DEF Types
<1> QED  BY <1>2, <1>3, <1>4 DEF RowsWeaken

(* Such a step keeps the rows and the chains, and what the refreshes have
   seen, if it starts none. *)
LEMMA WeakenKeeps ==
  ASSUME IInv, RowsWeaken
  PROVE  /\ DOMAIN rows' = DOMAIN rows
         /\ RowsOK' /\ Chain'
         /\ \A f : Live(f)' => Live(f)
<1>1. /\ DOMAIN rows' = DOMAIN rows /\ familyOf' = familyOf
      /\ \A i \in DOMAIN rows : /\ rows[i] \in Row /\ rows'[i] \in Row
                                /\ Weakened(rows'[i], rows[i])
  BY DEF IInv, Types, RowsWeaken
<1>2. RowsOK'
  BY <1>1 DEF IInv, RowsOK, Weakened, Tokens, UsedFamilies
<1>3. Chain'
  <2> SUFFICES ASSUME NEW i \in DOMAIN rows, rows'[i].valid, ~rows'[i].forked,
                      NEW n \in Tokens, familyOf[n] = rows'[i].family
               PROVE  /\ n <= rows'[i].hash
                      /\ n \in {rows'[i].hash, rows'[i].previous} \/ rows'[i].tip > n
    BY <1>1 DEF Chain, Tokens
  <2>1. /\ rows[i].valid /\ ~rows[i].forked /\ familyOf[n] = rows[i].family
        /\ rows'[i].hash = rows[i].hash /\ rows'[i].previous = rows[i].previous
        /\ rows'[i].tip >= rows[i].tip
    BY <1>1 DEF Weakened
  <2>2. rows'[i].tip \in Nat /\ rows[i].tip \in Nat /\ n \in Nat
    <3>1. rows[i] \in Row /\ rows'[i] \in Row /\ familyOf \in Seq(Families)
      BY <1>1 DEF IInv, Types
    <3> QED  BY <3>1 DEF Row, Tokens
  <2>3. /\ n <= rows[i].hash
        /\ n \in {rows[i].hash, rows[i].previous} \/ rows[i].tip > n
    BY <2>1 DEF IInv, Chain
  <2>4. CASE rows[i].tip > n
    BY <2>1, <2>2, <2>3, <2>4
  <2> QED  BY <2>1, <2>3, <2>4
<1>4. \A f : Live(f)' => Live(f)
  BY <1>1 DEF Live, Weakened
<1> QED  BY <1>1, <1>2, <1>3, <1>4

LEMMA WeakenKeepsSeen ==
  ASSUME IInv, RowsWeaken, NEW o \in Ops, ops'[o] = ops[o], ops[o].kind \in Refreshing
  PROVE  SeenOf(o)'
<1>1. /\ DOMAIN rows' = DOMAIN rows /\ familyOf' = familyOf
      /\ \A i \in DOMAIN rows : /\ rows[i] \in Row /\ rows'[i] \in Row
                                /\ Weakened(rows'[i], rows[i])
  BY DEF IInv, Types, RowsWeaken
<1>2. SeenOf(o) /\ ops'[o] = ops[o]
  BY DEF IInv, Seen
<1>3. ops[o].token \in Nat
  <2>1. ops[o].token \in Tokens /\ familyOf \in Seq(Families)
    BY <1>2 DEF SeenOf, IInv, Types
  <2> QED  BY <2>1 DEF Tokens
<1>4. \A i \in DOMAIN rows : rows[i].tip \in Nat /\ rows'[i].tip \in Nat
  BY <1>1 DEF Row
<1> DEFINE t == ops[o].token
<1>5. \A i \in DOMAIN rows : rows'[i].valid /\ rows'[i].family = familyOf[t] =>
        /\ rows'[i].tip >= t
        /\ ops[o].kind # "rotate" => rows'[i].hash # t
        /\ ops[o].kind = "reused" => ~(rows'[i].previous = t /\ rows'[i].grace)
  <2> SUFFICES ASSUME NEW i \in DOMAIN rows, rows'[i].valid, rows'[i].family = familyOf[t]
               PROVE  /\ rows'[i].tip >= t
                      /\ ops[o].kind # "rotate" => rows'[i].hash # t
                      /\ ops[o].kind = "reused" => ~(rows'[i].previous = t /\ rows'[i].grace)
    OBVIOUS
  <2>1. Weakened(rows'[i], rows[i])
    BY <1>1
  <2>2. rows[i].valid /\ rows[i].family = familyOf[t]
    BY <2>1 DEF Weakened
  <2>3. rows'[i].tip >= rows[i].tip /\ rows[i].tip >= t
    BY <2>1, <2>2, <1>2 DEF Weakened, SeenOf
  <2>4. rows'[i].tip >= t
    BY <2>3, <1>3, <1>4
  <2> QED  BY <2>1, <2>2, <2>4, <1>2 DEF Weakened, SeenOf
<1>6. ops[o].kind = "reused" =>
        /\ ops[o].row \in DOMAIN rows
        /\ \A j \in DOMAIN rows : rows'[j].family = familyOf[t] => j = ops[o].row
  BY <1>1, <1>2 DEF Weakened, SeenOf
<1>7. t \in Tokens'
  BY <1>1, <1>2 DEF SeenOf, Tokens
<1> QED  BY <1>1, <1>2, <1>5, <1>6, <1>7 DEF SeenOf

-----------------------------------------------------------------------------
(* What the handlers hold changes one at a time. *)
LEMMA OpChange ==
  ASSUME Types, NEW o \in Ops, NEW op \in Op, ops' = [ops EXCEPT ![o] = op]
  PROVE  /\ ops' \in [Ops -> Op] /\ ops'[o] = op
         /\ \A p \in Ops : p # o => ops'[p] = ops[p]
BY DEF Types

LEMMA IdleOp == Idle \in Op /\ Idle.kind = "idle"
BY DEF Op, Idle

LEMMA OpFields ==
  ASSUME NEW op \in Op
  PROVE  /\ op.kind = "signin" => op \in [kind : {"signin"}, device : Devices,
                                         via : {"direct", "ott"}, epoch : Nat]
         /\ op.kind \in {"rotate", "grace"} =>
              op \in [kind : {"rotate", "grace"}, token : Nat, device : Devices]
         /\ op.kind = "reused" => op \in [kind : {"reused"}, token : Nat, row : Nat]
         /\ op.kind = "reset" => op \in [kind : {"reset"}, link : Nat]
BY DEF Op, Idle

(* A step that writes no row, issues no token and leaves the password
   keeps the invariant if what it changes is well formed. *)
LEMMA Quiet ==
  ASSUME IInv, Types', LinksOK', Seen',
         UNCHANGED <<rows, familyOf, judged>>, account'.password = account.password
  PROVE  IInv'
<1>1. RowsOK' /\ Chain' /\ \A f : Live(f)' => Live(f)
  BY UnchangedWeaken, WeakenKeeps DEF IInv
<1>2. JudgedGone'
  BY <1>1 DEF IInv, JudgedGone
<1>3. EpochsOK'
  BY DEF IInv, EpochsOK
<1> QED  BY <1>1, <1>2, <1>3 DEF IInv

LEMMA QuietSeen ==
  ASSUME IInv, RowsWeaken,
         \A o \in Ops : ops'[o] = ops[o] \/ ops'[o].kind \notin Refreshing
  PROVE  Seen'
BY WeakenKeepsSeen DEF Seen

(* A handler that starts has read the documents and written none. *)
LEMMA StartInv ==
  ASSUME IInv, NEW o \in Ops, NEW op \in Op, Start(o, op), op.kind \notin Refreshing,
         op.kind = "reset" => op.link \in DOMAIN links,
         UNCHANGED <<account, rows, familyOf, held, otts, links, seen>>
  PROVE  IInv'
<1>1. /\ ops' \in [Ops -> Op] /\ ops'[o] = op
      /\ \A p \in Ops : p # o => ops'[p] = ops[p]
  BY OpChange DEF Start, IInv
<1>2. Types'
  BY <1>1 DEF IInv, Types, Tokens, UsedFamilies, seen
<1>3. LinksOK'
  BY <1>1 DEF IInv, LinksOK, OldLinksDie, seen
<1>4. Seen'
  BY <1>1, UnchangedWeaken, QuietSeen DEF IInv
<1> QED  BY <1>2, <1>3, <1>4, Quiet DEF seen

LEMMA UsedAreFamilies ==
  ASSUME Types, NEW f \in UsedFamilies
  PROVE  f \in Families /\ f \in Nat
<1>1. PICK t \in DOMAIN familyOf : f = familyOf[t]
  BY DEF UsedFamilies, Tokens
<1>2. familyOf \in Seq(Families)
  BY DEF Types
<1>3. f \in Families
  BY <1>1, <1>2
<1> QED  BY <1>3 DEF Families

LEMMA Starts ==
  ASSUME IInv, NEW o \in Ops,
         \/ \E d \in Devices : login(o, d) \/ \E via \in {"direct", "ott"} : signInWithout(o, d, via)
         \/ \E f \in UsedFamilies : \/ logout(o, f)
                                    \/ revokeAllSessions(o, f, f) \/ revokeAllSessions(o, f, None)
                                    \/ \E i \in DOMAIN rows : revokeSession(o, f, i)
                                    \/ changePassword(o, f)
         \/ requestPasswordReset(o)
         \/ \E l \in DOMAIN links : resetPassword(o, l)
  PROVE  IInv'
<1>1. Types /\ account.password \in Nat /\ links \in Seq({"open", "used", "expired"}) /\ rows \in Seq(Row)
  BY BoundsAssumption DEF IInv, Types
<1>2. ASSUME NEW d \in Devices, login(o, d) PROVE IInv'
  <2> DEFINE op == [kind |-> "signin", device |-> d, via |-> "direct", epoch |-> account.password]
  <2>1. op \in Op /\ op.kind = "signin"
    BY <1>1 DEF Op
  <2> QED  BY <1>2, <2>1, StartInv DEF login, Refreshing
<1>3. ASSUME NEW d \in Devices, NEW via \in {"direct", "ott"}, signInWithout(o, d, via) PROVE IInv'
  <2> DEFINE op == [kind |-> "signin", device |-> d, via |-> via, epoch |-> account.password]
  <2>1. op \in Op /\ op.kind = "signin"
    BY <1>1 DEF Op
  <2> QED  BY <1>3, <2>1, StartInv DEF signInWithout, Refreshing
<1>4. ASSUME NEW families \in SUBSET Families, NEW i \in Nat,
             Start(o, [kind |-> "end", families |-> families, row |-> i]),
             UNCHANGED <<account, rows, familyOf, held, otts, links, seen>>
      PROVE  IInv'
  <2> DEFINE op == [kind |-> "end", families |-> families, row |-> i]
  <2>1. op \in Op /\ op.kind = "end"
    BY DEF Op
  <2> QED  BY <1>4, <2>1, StartInv DEF Refreshing
<1>5. ASSUME NEW f \in UsedFamilies, logout(o, f) PROVE IInv'
  BY <1>1, <1>4, <1>5, UsedAreFamilies DEF logout, None
<1>6. ASSUME NEW f \in UsedFamilies, NEW keep, revokeAllSessions(o, f, keep) PROVE IInv'
  BY <1>4, <1>6 DEF revokeAllSessions, None
<1>7. ASSUME NEW f \in UsedFamilies, NEW i \in DOMAIN rows, revokeSession(o, f, i) PROVE IInv'
  <2>1. i \in Nat /\ {} \in SUBSET Families
    BY <1>1
  <2> QED  BY <2>1, <1>4, <1>7 DEF revokeSession
<1>8. ASSUME NEW f \in UsedFamilies, changePassword(o, f) PROVE IInv'
  <2> DEFINE op == [kind |-> "change", keep |-> f]
  <2>1. op \in Op /\ op.kind = "change"
    BY <1>1, UsedAreFamilies DEF Op
  <2> QED  BY <1>8, <2>1, StartInv DEF changePassword, Refreshing
<1>9. CASE requestPasswordReset(o)
  <2> DEFINE op == [kind |-> "newlink"]
  <2>1. op \in Op /\ op.kind = "newlink"
    BY DEF Op
  <2> QED  BY <1>9, <2>1, StartInv DEF requestPasswordReset, Refreshing
<1>10. ASSUME NEW l \in DOMAIN links, resetPassword(o, l) PROVE IInv'
  <2> DEFINE op == [kind |-> "reset", link |-> l]
  <2>1. op \in Op /\ op.kind = "reset" /\ op.link = l
    BY <1>1 DEF Op
  <2> QED  BY <1>10, <2>1, StartInv DEF resetPassword, Refreshing
<1> QED  BY <1>2, <1>3, <1>5, <1>6, <1>7, <1>8, <1>9, <1>10

-----------------------------------------------------------------------------
(* The other steps that leave the rows alone. *)
LEMMA QuietSteps ==
  ASSUME IInv,
         \/ \E n \in otts : consumeOtt(n) \/ OttExpires(n)
         \/ \E f \in UsedFamilies : deactivateUser(f)
         \/ reactivateUser
  PROVE  IInv'
<1>1. UNCHANGED <<rows, familyOf, links, ops, seen>> /\ account'.password = account.password
  BY DEF consumeOtt, OttExpires, deactivateUser, reactivateUser, IInv, Types
<1>2. held' \subseteq Tokens /\ otts' \subseteq Tokens \ held'
  BY DEF consumeOtt, OttExpires, deactivateUser, reactivateUser, IInv, Types
<1>3. account' \in [password : 0 .. MaxPasswords, isDeleted : BOOLEAN]
  BY DEF consumeOtt, OttExpires, deactivateUser, reactivateUser, IInv, Types
<1>4. Types' /\ LinksOK'
  BY <1>1, <1>2, <1>3 DEF IInv, Types, LinksOK, OldLinksDie, Tokens, UsedFamilies, seen
<1>5. Seen'
  BY <1>1, UnchangedWeaken, QuietSeen DEF IInv
<1> QED  BY <1>1, <1>4, <1>5, Quiet DEF seen

LEMMA CreateLink ==
  ASSUME IInv, NEW o \in Ops, createLink(o)
  PROVE  IInv'
<1>1. /\ ops' \in [Ops -> Op] /\ ops'[o] = Idle
      /\ \A p \in Ops : p # o => ops'[p] = ops[p]
  BY OpChange, IdleOp DEF createLink, Done, IInv
<1>2. /\ links' \in Seq({"open", "used", "expired"}) /\ Len(links') = Len(links) + 1
      /\ Len(links) \in Nat /\ DOMAIN links = 1 .. Len(links) /\ DOMAIN links' = 1 .. Len(links')
      /\ \A k \in DOMAIN links : links'[k] = links[k]
  BY DEF createLink, IInv, Types
<1>3. Types'
  BY <1>1, <1>2 DEF IInv, Types, Tokens, UsedFamilies, createLink, seen
<1>4. LinksOK'
  <2>1. lastReset' = lastReset /\ lastReset.killed \in Nat
    BY DEF createLink, seen, IInv, Types
  <2>2. \A p \in Ops : ops'[p].kind = "reset" => ops'[p].link \in DOMAIN links'
    BY <1>1, <1>2, IdleOp DEF IInv, LinksOK
  <2>3. lastReset.killed <= Len(links') /\ \A k \in DOMAIN links' : links'[k] = "open" => k > lastReset.killed
    BY <1>2, <2>1 DEF IInv, LinksOK
  <2> QED  BY <2>1, <2>2, <2>3 DEF IInv, LinksOK, OldLinksDie
<1>5. Seen'
  BY <1>1, UnchangedWeaken, QuietSeen, IdleOp DEF IInv, createLink, Refreshing
<1> QED  BY <1>3, <1>4, <1>5, Quiet DEF createLink, seen

LEMMA LinkExpiresInv ==
  ASSUME IInv, NEW l \in DOMAIN links, LinkExpires(l)
  PROVE  IInv'
<1>1. /\ links' \in Seq({"open", "used", "expired"}) /\ Len(links') = Len(links)
      /\ DOMAIN links' = DOMAIN links
      /\ \A k \in DOMAIN links : links'[k] = "open" => links[k] = "open"
  BY DEF LinkExpires, IInv, Types
<1>2. UNCHANGED <<account, rows, familyOf, held, otts, ops, lastReset, judged>>
  BY DEF LinkExpires, seen
<1>3. Types'
  BY <1>1, <1>2 DEF IInv, Types, Tokens, UsedFamilies
<1>4. LinksOK'
  BY <1>1, <1>2 DEF IInv, LinksOK, OldLinksDie
<1>5. Seen'
  BY <1>2, UnchangedWeaken, QuietSeen DEF IInv
<1> QED  BY <1>2, <1>3, <1>4, <1>5, Quiet

-----------------------------------------------------------------------------
(* The steps that end sessions or let them weaken. *)
LEMMA Weakening ==
  ASSUME IInv, RowsWeaken, Seen', LinksOK', EpochsOK',
         account' \in [password : 0 .. MaxPasswords, isDeleted : BOOLEAN],
         links' \in Seq({"open", "used", "expired"}),
         ops' \in [Ops -> Op],
         lastReset' \in [by : Nat, killed : Nat, before : Nat],
         judged' \subseteq UsedFamilies, \A f \in judged' : f \in judged \/ ~Live(f)',
         UNCHANGED <<held, otts>>
  PROVE  IInv'
<1>1. RowsOK' /\ Chain' /\ \A f : Live(f)' => Live(f)
  BY WeakenKeeps
<1>2. JudgedGone'
  BY <1>1 DEF IInv, JudgedGone
<1>3. Types'
  BY DEF IInv, Types, RowsWeaken, Tokens, UsedFamilies
<1> QED  BY <1>1, <1>2, <1>3 DEF IInv

LEMMA GraceEndsInv ==
  ASSUME IInv, NEW i \in DOMAIN rows, GraceEnds(i)
  PROVE  IInv'
<1>1. \A j \in DOMAIN rows : rows[j] \in Row
  BY DEF IInv, Types
<1>2. /\ DOMAIN rows' = DOMAIN rows /\ rows' = [j \in DOMAIN rows |-> rows'[j]]
      /\ \A j \in DOMAIN rows : rows'[j] = IF j = i THEN [rows[i] EXCEPT !.grace = FALSE] ELSE rows[j]
  BY DEF GraceEnds
<1>3. \A j \in DOMAIN rows : rows'[j] \in Row /\ Weakened(rows'[j], rows[j])
                            /\ rows'[j].valid = rows[j].valid /\ rows'[j].epoch = rows[j].epoch
                            /\ rows'[j].raced = rows[j].raced
  <2> SUFFICES ASSUME NEW j \in DOMAIN rows
               PROVE  /\ rows'[j] \in Row /\ Weakened(rows'[j], rows[j])
                      /\ rows'[j].valid = rows[j].valid /\ rows'[j].epoch = rows[j].epoch
                      /\ rows'[j].raced = rows[j].raced
    OBVIOUS
  <2>1. rows[j] \in Row /\ rows[j].tip \in Nat
    BY <1>1 DEF Row
  <2>2. rows'[j] = rows[j] \/ rows'[j] = [rows[j] EXCEPT !.grace = FALSE]
    BY <1>2
  <2>3. CASE rows'[j] = rows[j]
    BY <2>1, <2>3 DEF Weakened
  <2>4. CASE rows'[j] = [rows[j] EXCEPT !.grace = FALSE]
    <3>1. /\ rows'[j] \in Row /\ ~rows'[j].grace
          /\ rows'[j].family = rows[j].family /\ rows'[j].hash = rows[j].hash
          /\ rows'[j].previous = rows[j].previous /\ rows'[j].valid = rows[j].valid
          /\ rows'[j].tip = rows[j].tip /\ rows'[j].forked = rows[j].forked
          /\ rows'[j].epoch = rows[j].epoch /\ rows'[j].raced = rows[j].raced
      BY <2>1, <2>4 DEF Row
    <3> QED  BY <2>1, <3>1 DEF Weakened
  <2> QED  BY <2>2, <2>3, <2>4
<1>4. rows' \in Seq(Row) /\ Len(rows') = Len(rows)
  BY <1>2, <1>3, InPlace DEF IInv, Types
<1>5. RowsWeaken
  BY <1>3, <1>4 DEF RowsWeaken, GraceEnds
<1>6. Seen'
  BY <1>5, QuietSeen DEF GraceEnds
<1>7. EpochsOK'
  BY <1>2, <1>3 DEF EpochsOK, IInv, GraceEnds
<1>8. LinksOK'
  BY DEF IInv, LinksOK, OldLinksDie, GraceEnds, seen
<1> QED  BY <1>5, <1>6, <1>7, <1>8, Weakening DEF GraceEnds, seen, IInv, Types

LEMMA EndSessions ==
  ASSUME IInv, NEW o \in Ops, endSessions(o)
  PROVE  IInv'
<1> DEFINE which == {i \in DOMAIN rows : rows[i].family \in ops[o].families \/ i = ops[o].row}
<1>1. /\ ops' \in [Ops -> Op] /\ ops'[o] = Idle
      /\ \A p \in Ops : p # o => ops'[p] = ops[p]
  BY OpChange, IdleOp DEF endSessions, Done, IInv
<1>2. /\ RowsWeaken
      /\ \A i \in DOMAIN rows : rows'[i] = IF i \in which THEN Dead(rows[i]) ELSE rows[i]
  BY EndedWeaken DEF endSessions, IInv
<1>3. Seen'
  BY <1>1, <1>2, IdleOp, QuietSeen DEF Refreshing
<1>4. EpochsOK'
  <2>1. \A i \in DOMAIN rows : rows[i] \in Row
    BY DEF IInv, Types
  <2>2. \A i \in DOMAIN rows : rows'[i].valid => rows'[i] = rows[i]
    BY <1>2, <2>1, DeadRow
  <2>3. DOMAIN rows' = DOMAIN rows
    BY <1>2, WeakenKeeps
  <2> QED  BY <2>2, <2>3 DEF IInv, EpochsOK, endSessions
<1>5. LinksOK'
  BY <1>1, IdleOp DEF IInv, LinksOK, OldLinksDie, endSessions, seen
<1> QED  BY <1>1, <1>2, <1>3, <1>4, <1>5, Weakening DEF endSessions, seen, IInv, Types

LEMMA NextPassword ==
  ASSUME Types, account.password < MaxPasswords,
         account' = [account EXCEPT !.password = @ + 1]
  PROVE  /\ account' \in [password : 0 .. MaxPasswords, isDeleted : BOOLEAN]
         /\ account'.password = account.password + 1 /\ account.password + 1 \in Nat
<1>1. account \in [password : 0 .. MaxPasswords, isDeleted : BOOLEAN] /\ account.password \in Nat
  BY BoundsAssumption DEF Types
<1>2. account.password + 1 \in 0 .. MaxPasswords
  BY <1>1, BoundsAssumption
<1>3. account'.password = account.password + 1 /\ account'.isDeleted = account.isDeleted
  BY <1>1
<1> QED  BY <1>1, <1>2, <1>3

LEMMA ChangePassword ==
  ASSUME IInv, NEW o \in Ops, changePasswordAtomically(o)
  PROVE  IInv'
<1>1. /\ ops' \in [Ops -> Op] /\ ops'[o] = Idle
      /\ \A p \in Ops : p # o => ops'[p] = ops[p]
  BY OpChange, IdleOp DEF changePasswordAtomically, Done, IInv
<1>2. \A i \in DOMAIN rows : rows[i] \in Row
  BY DEF IInv, Types
<1>3. /\ account' \in [password : 0 .. MaxPasswords, isDeleted : BOOLEAN]
      /\ account'.password = account.password + 1 /\ account.password + 1 \in Nat
  BY NextPassword DEF changePasswordAtomically, IInv
<1>4. /\ DOMAIN rows' = DOMAIN rows /\ rows' = [i \in DOMAIN rows |-> rows'[i]]
      /\ \A i \in DOMAIN rows :
            rows'[i] = IF rows[i].family = ops[o].keep
                         THEN [rows[i] EXCEPT !.epoch = account.password + 1] ELSE Dead(rows[i])
  BY DEF changePasswordAtomically
<1>5. \A i \in DOMAIN rows : /\ rows'[i] \in Row /\ Weakened(rows'[i], rows[i])
                             /\ rows'[i].valid => rows'[i].epoch = account'.password
  <2> SUFFICES ASSUME NEW i \in DOMAIN rows
               PROVE  /\ rows'[i] \in Row /\ Weakened(rows'[i], rows[i])
                      /\ rows'[i].valid => rows'[i].epoch = account'.password
    OBVIOUS
  <2>1. CASE rows[i].family = ops[o].keep
    <3>1. rows'[i] = [rows[i] EXCEPT !.epoch = account.password + 1]
      BY <1>4, <2>1
    <3> QED  BY <3>1, <1>2, <1>3 DEF Row, Weakened
  <2>2. CASE rows[i].family # ops[o].keep
    <3>1. rows'[i] = Dead(rows[i])
      BY <1>4, <2>2
    <3> QED  BY <3>1, <1>2, DeadRow DEF Weakened
  <2> QED  BY <2>1, <2>2
<1>6. rows' \in Seq(Row) /\ Len(rows') = Len(rows)
  BY <1>4, <1>5, InPlace DEF IInv, Types
<1>7. RowsWeaken
  BY <1>5, <1>6 DEF RowsWeaken, changePasswordAtomically
<1>8. Seen'
  BY <1>1, <1>7, IdleOp, QuietSeen DEF Refreshing
<1>9. EpochsOK'
  BY <1>4, <1>5 DEF EpochsOK
<1>10. LinksOK'
  BY <1>1, IdleOp DEF IInv, LinksOK, OldLinksDie, changePasswordAtomically, seen
<1> QED  BY <1>1, <1>3, <1>7, <1>8, <1>9, <1>10, Weakening DEF changePasswordAtomically, seen, IInv, Types

LEMMA ResetPassword ==
  ASSUME IInv, NEW o \in Ops, resetPasswordAtomically(o)
  PROVE  IInv'
<1> DEFINE l == ops[o].link
<1>1. /\ ops' \in [Ops -> Op] /\ ops'[o] = Idle
      /\ \A p \in Ops : p # o => ops'[p] = ops[p]
  BY OpChange, IdleOp DEF resetPasswordAtomically, Done, IInv
<1>2. /\ l \in DOMAIN links /\ UNCHANGED <<familyOf, held, otts, judged>>
      /\ Len(links) \in Nat /\ DOMAIN links = 1 .. Len(links)
  BY DEF resetPasswordAtomically, At, IInv, LinksOK, Types
<1>3. CASE ~Usable(l) /\ UNCHANGED <<links, account, rows, lastReset>>
  <2>1. LinksOK'
    BY <1>1, <1>3, IdleOp DEF IInv, LinksOK, OldLinksDie
  <2>2. Types'
    BY <1>1, <1>2, <1>3 DEF IInv, Types, Tokens, UsedFamilies
  <2>3. Seen'
    BY <1>1, <1>2, <1>3, IdleOp, UnchangedWeaken, QuietSeen DEF Refreshing, IInv
  <2> QED  BY <1>2, <1>3, <2>1, <2>2, <2>3, Quiet
<1>4. CASE /\ Usable(l) /\ account.password < MaxPasswords
           /\ links' = Consumed(l)
           /\ account' = [account EXCEPT !.password = @ + 1]
           /\ rows' = Ended(EvictedByReset)
           /\ lastReset' = [by |-> l, killed |-> Len(links), before |-> lastReset.killed]
  <2>1. account' \in [password : 0 .. MaxPasswords, isDeleted : BOOLEAN]
    BY <1>4, NextPassword DEF IInv
  <2>2. /\ RowsWeaken
        /\ \A i \in DOMAIN rows : rows'[i] = Dead(rows[i])
    BY <1>2, <1>4, EndedWeaken DEF IInv, EvictedByReset
  <2>3. EpochsOK'
    <3>1. DOMAIN rows' = DOMAIN rows
      BY <2>2, WeakenKeeps
    <3> QED  BY <2>2, <3>1, DeadRow DEF EpochsOK, IInv, Types
  <2>4. /\ links' \in Seq({"open", "used", "expired"}) /\ Len(links') = Len(links)
        /\ DOMAIN links' = DOMAIN links /\ \A k \in DOMAIN links : links'[k] = "used"
    <3>1. /\ DOMAIN links' = DOMAIN links /\ links' = [k \in DOMAIN links |-> links'[k]]
          /\ \A k \in DOMAIN links : links'[k] = "used"
      BY <1>4 DEF Consumed
    <3> QED  BY <3>1, InPlace DEF IInv, Types
  <2>5. lastReset.killed \in Nat /\ l \in Nat /\ links[l] = "open" /\ l > lastReset.killed
    BY <1>2, <1>4 DEF IInv, Types, Usable, LinksOK
  <2>6. LinksOK'
    BY <1>1, <1>2, <1>4, <2>4, <2>5, IdleOp DEF IInv, LinksOK, OldLinksDie, None
  <2>7. lastReset' \in [by : Nat, killed : Nat, before : Nat]
    BY <1>2, <1>4, <2>5
  <2>8. Seen'
    BY <1>1, <2>2, IdleOp, QuietSeen DEF Refreshing
  <2> QED  BY <1>1, <1>2, <2>1, <2>2, <2>3, <2>4, <2>6, <2>7, <2>8, Weakening DEF IInv, Types
<1> QED  BY <1>3, <1>4 DEF resetPasswordAtomically

-----------------------------------------------------------------------------
(* A refresh presents its token, and looks for it twice in vain. *)
LEMMA RefreshInv ==
  ASSUME IInv, NEW o \in Ops, NEW t \in held, NEW d \in Devices, refresh(o, t, d)
  PROVE  IInv'
<1> DEFINE op == [kind |-> "rotate", token |-> t, device |-> d]
<1>1. t \in Tokens /\ t \in Nat
  BY DEF IInv, Types, Tokens
<1>2. op \in Op /\ op.kind = "rotate" /\ op.token = t
  BY <1>1 DEF Op
<1>3. /\ ops' \in [Ops -> Op] /\ ops'[o] = op
      /\ \A p \in Ops : p # o => ops'[p] = ops[p]
  BY <1>2, OpChange DEF refresh, Start, IInv
<1>4. /\ DOMAIN rows' = DOMAIN rows /\ rows' = [i \in DOMAIN rows |-> rows'[i]]
      /\ \A i \in DOMAIN rows :
            rows'[i] = IF rows[i].valid /\ rows[i].family = familyOf[t] /\ rows[i].tip < t
                         THEN [rows[i] EXCEPT !.tip = t] ELSE rows[i]
  BY DEF refresh
<1>5. \A i \in DOMAIN rows :
        /\ rows'[i] \in Row /\ Weakened(rows'[i], rows[i])
        /\ rows'[i].valid = rows[i].valid /\ rows'[i].epoch = rows[i].epoch
        /\ rows'[i].raced = rows[i].raced
        /\ rows'[i].valid /\ rows'[i].family = familyOf[t] => rows'[i].tip >= t
  <2> SUFFICES ASSUME NEW i \in DOMAIN rows
               PROVE  /\ rows'[i] \in Row /\ Weakened(rows'[i], rows[i])
                      /\ rows'[i].valid = rows[i].valid /\ rows'[i].epoch = rows[i].epoch
                      /\ rows'[i].raced = rows[i].raced
                      /\ rows'[i].valid /\ rows'[i].family = familyOf[t] => rows'[i].tip >= t
    OBVIOUS
  <2>0. rows[i] \in Row
    BY DEF IInv, Types
  <2>1. rows[i].tip \in Nat
    BY <2>0 DEF Row
  <2>2. CASE rows[i].valid /\ rows[i].family = familyOf[t] /\ rows[i].tip < t
    <3>1. rows'[i] = [rows[i] EXCEPT !.tip = t]
      BY <1>4, <2>2
    <3>2. /\ rows'[i] \in Row /\ rows'[i].tip = t
          /\ rows'[i].family = rows[i].family /\ rows'[i].hash = rows[i].hash
          /\ rows'[i].previous = rows[i].previous /\ rows'[i].grace = rows[i].grace
          /\ rows'[i].valid = rows[i].valid /\ rows'[i].forked = rows[i].forked
          /\ rows'[i].epoch = rows[i].epoch /\ rows'[i].raced = rows[i].raced
      BY <2>0, <3>1, <1>1 DEF Row
    <3> QED  BY <2>1, <2>2, <1>1, <3>2 DEF Weakened
  <2>3. CASE ~(rows[i].valid /\ rows[i].family = familyOf[t] /\ rows[i].tip < t)
    <3>1. rows'[i] = rows[i]
      BY <1>4, <2>3
    <3> QED  BY <3>1, <2>0, <2>1, <2>3, <1>1 DEF Weakened
  <2> QED  BY <2>2, <2>3
<1>6. rows' \in Seq(Row) /\ Len(rows') = Len(rows)
  BY <1>4, <1>5, InPlace DEF IInv, Types
<1>7. RowsWeaken
  BY <1>5, <1>6 DEF RowsWeaken, refresh
<1>8. Seen'
  <2>1. SeenOf(o)'
    <3>1. t \in Tokens' /\ familyOf' = familyOf
      BY <1>1 DEF Tokens, refresh
    <3> QED  BY <1>2, <1>3, <1>4, <1>5, <3>1 DEF SeenOf
  <2> QED  BY <1>3, <1>7, <2>1, WeakenKeepsSeen DEF Seen
<1>9. EpochsOK'
  BY <1>4, <1>5 DEF EpochsOK, IInv, refresh
<1>10. LinksOK'
  BY <1>2, <1>3 DEF IInv, LinksOK, OldLinksDie, refresh, seen
<1> QED  BY <1>3, <1>7, <1>8, <1>9, <1>10, Weakening DEF refresh, seen, IInv, Types

LEMMA NotCurrentInv ==
  ASSUME IInv, NEW o \in Ops, notCurrent(o)
  PROVE  IInv'
<1> DEFINE op == [ops[o] EXCEPT !.kind = "grace"]
           t == ops[o].token
<1>1. ops[o] \in [kind : {"rotate", "grace"}, token : Nat, device : Devices] /\ ops[o].kind = "rotate"
  <2>1. ops[o] \in Op
    BY DEF IInv, Types
  <2> QED  BY <2>1, OpFields DEF notCurrent, At
<1>2. op \in Op /\ op.kind = "grace" /\ op.token = t
  BY <1>1 DEF Op
<1>3. /\ ops' \in [Ops -> Op] /\ ops'[o] = op
      /\ \A p \in Ops : p # o => ops'[p] = ops[p]
  <2>1. ops' = [ops EXCEPT ![o] = op]
    BY DEF notCurrent, Goto
  <2> QED  BY <2>1, <1>2, OpChange DEF IInv
<1>4. SeenOf(o)'
  <2>1. SeenOf(o) /\ UNCHANGED <<rows, familyOf>>
    BY <1>1 DEF IInv, Seen, Refreshing, notCurrent
  <2>2. \A i \in DOMAIN rows : rows[i].valid /\ rows[i].family = familyOf[t] => rows[i].hash # t
    BY DEF notCurrent, Current
  <2> QED  BY <1>2, <1>3, <2>1, <2>2 DEF SeenOf, Tokens
<1>5. Seen'
  BY <1>3, <1>4, UnchangedWeaken, WeakenKeepsSeen DEF Seen, notCurrent, IInv
<1>6. Types'
  BY <1>3 DEF IInv, Types, Tokens, UsedFamilies, notCurrent, seen
<1>7. LinksOK'
  BY <1>2, <1>3 DEF IInv, LinksOK, OldLinksDie, notCurrent, seen
<1> QED  BY <1>5, <1>6, <1>7, Quiet DEF notCurrent, seen

LEMMA LookInv ==
  ASSUME IInv, NEW o \in Ops, look(o)
  PROVE  IInv'
<1> DEFINE t == ops[o].token
<1>1. ops[o] \in [kind : {"rotate", "grace"}, token : Nat, device : Devices] /\ ops[o].kind = "grace"
  <2>1. ops[o] \in Op
    BY DEF IInv, Types
  <2> QED  BY <2>1, OpFields DEF look, At
<1>2. SeenOf(o) /\ UNCHANGED <<rows, familyOf, account, held, otts, links, seen>> /\ t \in Nat
  BY <1>1 DEF IInv, Seen, Refreshing, look
<1>3. CASE Done(o)
  <2>1. /\ ops' \in [Ops -> Op] /\ ops'[o] = Idle
        /\ \A p \in Ops : p # o => ops'[p] = ops[p]
    BY <1>3, OpChange, IdleOp DEF Done, IInv
  <2>2. Types'
    BY <1>2, <2>1 DEF IInv, Types, Tokens, UsedFamilies, seen
  <2>4. LinksOK'
    BY <1>2, <2>1, IdleOp DEF IInv, LinksOK, OldLinksDie, seen
  <2>3. Seen'
    BY <1>2, <2>1, IdleOp, UnchangedWeaken, QuietSeen DEF IInv, Refreshing
  <2> QED  BY <1>2, <2>2, <2>3, <2>4, Quiet DEF seen
<1>4. ASSUME NEW i \in DOMAIN rows, rows[i].family = familyOf[t], rows[i].valid,
             ops' = [ops EXCEPT ![o] = [kind |-> "reused", token |-> t, row |-> i]]
      PROVE  IInv'
  <2> DEFINE op == [kind |-> "reused", token |-> t, row |-> i]
  <2>0. i \in Nat
    BY DEF IInv, Types
  <2>1. op \in Op /\ op.kind = "reused" /\ op.token = t /\ op.row = i
    BY <1>2, <2>0 DEF Op
  <2>2. /\ ops' \in [Ops -> Op] /\ ops'[o] = op
        /\ \A p \in Ops : p # o => ops'[p] = ops[p]
    BY <1>4, <2>1, OpChange DEF IInv
  <2>3. SeenOf(o)'
    <3>1. \A j \in DOMAIN rows : rows[j].valid /\ rows[j].family = familyOf[t] =>
            rows[j].tip >= t /\ rows[j].hash # t /\ ~(rows[j].previous = t /\ rows[j].grace)
      BY <1>1, <1>2 DEF SeenOf, look, Graced
    <3>2. \A j \in DOMAIN rows : rows[j].family = familyOf[t] => j = i
      BY <1>4 DEF IInv, RowsOK
    <3> QED  BY <1>2, <2>1, <2>2, <3>1, <3>2 DEF SeenOf, Tokens
  <2>4. Seen'
    BY <1>2, <2>2, <2>3, UnchangedWeaken, WeakenKeepsSeen DEF Seen, IInv
  <2>5. Types'
    BY <1>2, <2>2 DEF IInv, Types, Tokens, UsedFamilies, seen
  <2>6. LinksOK'
    BY <1>2, <2>1, <2>2 DEF IInv, LinksOK, OldLinksDie, seen
  <2> QED  BY <1>2, <2>4, <2>5, <2>6, Quiet DEF seen
<1> QED  BY <1>3, <1>4 DEF look

LEMMA RevokeReusedInv ==
  ASSUME IInv, NEW o \in Ops, revokeReused(o)
  PROVE  IInv'
<1> DEFINE t == ops[o].token
           i == ops[o].row
<1>1. SeenOf(o) /\ ops[o].kind = "reused"
  BY DEF IInv, Seen, Refreshing, revokeReused, At
<1>2. /\ ops' \in [Ops -> Op] /\ ops'[o] = Idle
      /\ \A p \in Ops : p # o => ops'[p] = ops[p]
  BY OpChange, IdleOp DEF revokeReused, Done, IInv
<1>3. /\ RowsWeaken
      /\ \A j \in DOMAIN rows : rows'[j] = IF j \in {i} THEN Dead(rows[j]) ELSE rows[j]
  BY EndedWeaken DEF revokeReused, IInv
<1>4. \A j \in DOMAIN rows : rows[j] \in Row
  BY DEF IInv, Types
<1>5. DOMAIN rows' = DOMAIN rows
  BY <1>3, WeakenKeeps
<1>6. PICK g : g = familyOf[t]
  OBVIOUS
<1>11. ~Live(g)'
  <2> SUFFICES ASSUME NEW j \in DOMAIN rows', rows'[j].valid, rows'[j].family = g
               PROVE  FALSE
    BY DEF Live
  <2>1. rows'[j] = IF j \in {i} THEN Dead(rows[j]) ELSE rows[j]
    BY <1>3, <1>5
  <2>2. j = i
    BY <1>1, <1>5, <1>6, <2>1 DEF SeenOf
  <2> QED  BY <1>4, <1>5, <2>1, <2>2, DeadRow
<1>7. judged' = judged \cup {g} /\ g \in UsedFamilies
  BY <1>1, <1>6 DEF SeenOf, UsedFamilies, revokeReused
<1>12. judged' \subseteq UsedFamilies /\ \A f \in judged' : f \in judged \/ ~Live(f)'
  BY <1>7, <1>11 DEF IInv, Types
<1>8. Seen'
  BY <1>2, <1>3, IdleOp, QuietSeen DEF Refreshing
<1>9. EpochsOK'
  <2>1. \A j \in DOMAIN rows : rows'[j].valid => rows'[j] = rows[j]
    BY <1>3, <1>4, DeadRow
  <2> QED  BY <1>5, <2>1 DEF IInv, EpochsOK, revokeReused
<1>10. LinksOK'
  BY <1>2, IdleOp DEF IInv, LinksOK, OldLinksDie, revokeReused
<1> QED  BY <1>2, <1>3, <1>8, <1>9, <1>10, <1>12, Weakening DEF revokeReused, IInv, Types

-----------------------------------------------------------------------------
(* The steps that issue a token: row i holds it, for family f, and the
   other rows stay as they were. *)
Issued(i, f) ==
    /\ familyOf' = Append(familyOf, f) /\ f \in Families
    /\ rows' \in Seq(Row) /\ DOMAIN rows' = DOMAIN rows \cup {i}
    /\ \A j \in DOMAIN rows \ {i} : rows'[j] = rows[j]
    /\ rows'[i].valid /\ rows'[i].family = f /\ rows'[i].hash = NextToken
    /\ rows'[i].grace => rows'[i].previous \in Tokens
    /\ \/ f \notin UsedFamilies
       \/ /\ i \in DOMAIN rows /\ rows[i].valid /\ rows[i].family = f
          /\ rows'[i].tip = rows[i].tip
          /\ rows'[i].grace => \/ rows'[i].previous = rows[i].hash
                               \/ rows[i].grace /\ rows'[i].previous = rows[i].previous

LEMMA IssuedTokens ==
  ASSUME IInv, NEW f \in Families, familyOf' = Append(familyOf, f)
  PROVE  /\ familyOf' \in Seq(Families)
         /\ NextToken \in Nat /\ NextToken \notin Tokens
         /\ \A t \in Tokens : t \in Nat /\ t < NextToken /\ familyOf'[t] = familyOf[t]
         /\ Tokens' = Tokens \cup {NextToken} /\ familyOf'[NextToken] = f
         /\ UsedFamilies' = UsedFamilies \cup {f}
<1>1. familyOf \in Seq(Families)
  BY DEF IInv, Types
<1>2. /\ familyOf' \in Seq(Families)
      /\ DOMAIN familyOf' = DOMAIN familyOf \cup {Len(familyOf) + 1}
      /\ Len(familyOf) + 1 \notin DOMAIN familyOf /\ Len(familyOf) + 1 \in Nat
      /\ \A t \in DOMAIN familyOf : t \in Nat /\ t < Len(familyOf) + 1
      /\ \A t \in DOMAIN familyOf : familyOf'[t] = familyOf[t]
      /\ familyOf'[Len(familyOf) + 1] = f
  BY <1>1
<1>3. UsedFamilies' = UsedFamilies \cup {f}
  BY <1>2 DEF UsedFamilies, Tokens
<1> QED  BY <1>2, <1>3 DEF NextToken, Tokens

LEMMA IssuedRows ==
  ASSUME IInv, NEW i, NEW f, Issued(i, f)
  PROVE  /\ \A j \in DOMAIN rows \ {i} : rows[j].family # f
         /\ RowsOK'
         /\ \A g \in UsedFamilies : Live(g)' => Live(g)
<1>1. /\ NextToken \notin Tokens /\ \A t \in Tokens : t < NextToken
      /\ Tokens' = Tokens \cup {NextToken} /\ UsedFamilies' = UsedFamilies \cup {f}
  BY IssuedTokens DEF Issued
<1>2. \A j \in DOMAIN rows \ {i} : rows[j].family # f
  BY DEF Issued, IInv, RowsOK
<1>3. RowsOK'
  <2> SUFFICES ASSUME NEW j \in DOMAIN rows', NEW k \in DOMAIN rows'
               PROVE  /\ rows'[j].hash \in Tokens'
                      /\ rows'[j].family \in UsedFamilies'
                      /\ rows'[j].grace => rows'[j].previous \in Tokens'
                      /\ j # k => rows'[j].hash # rows'[k].hash /\ rows'[j].family # rows'[k].family
    BY DEF RowsOK
  <2>1. CASE j = i /\ k = i
    BY <1>1, <2>1 DEF Issued
  <2>2. CASE j = i /\ k # i
    BY <1>1, <1>2, <2>2 DEF Issued, IInv, RowsOK
  <2>3. CASE j # i /\ k = i
    BY <1>1, <1>2, <2>3 DEF Issued, IInv, RowsOK
  <2>4. CASE j # i /\ k # i
    BY <1>1, <2>4 DEF Issued, IInv, RowsOK
  <2> QED  BY <2>1, <2>2, <2>3, <2>4
<1>4. \A g \in UsedFamilies : Live(g)' => Live(g)
  BY <1>2 DEF Issued, Live
<1> QED  BY <1>2, <1>3, <1>4 DEF IInv

LEMMA IssuedChain ==
  ASSUME IInv, NEW i, NEW f, Issued(i, f),
         ~rows'[i].forked => \A n \in Tokens : familyOf[n] = f => n = rows'[i].previous \/ rows'[i].tip > n
  PROVE  Chain'
<1>1. /\ NextToken \in Nat /\ NextToken \notin Tokens
      /\ \A t \in Tokens : t \in Nat /\ t < NextToken /\ familyOf'[t] = familyOf[t]
      /\ Tokens' = Tokens \cup {NextToken} /\ familyOf'[NextToken] = f
  BY IssuedTokens DEF Issued
<1> SUFFICES ASSUME NEW j \in DOMAIN rows', rows'[j].valid, ~rows'[j].forked,
                    NEW n \in Tokens', familyOf'[n] = rows'[j].family
             PROVE  /\ n <= rows'[j].hash
                    /\ n \in {rows'[j].hash, rows'[j].previous} \/ rows'[j].tip > n
  BY DEF Chain
<1>2. CASE j = i /\ n = NextToken
  BY <1>1, <1>2 DEF Issued
<1>3. CASE j = i /\ n # NextToken
  <2>1. n \in Tokens /\ n \in Nat /\ n < NextToken /\ familyOf[n] = f /\ rows'[i].hash = NextToken
    BY <1>1, <1>3 DEF Issued
  <2>2. n = rows'[i].previous \/ rows'[i].tip > n
    BY <1>3, <2>1
  <2> QED  BY <1>1, <1>3, <2>1, <2>2
<1>4. CASE j # i
  <2>1. j \in DOMAIN rows /\ rows'[j] = rows[j] /\ rows[j].family # f
    BY <1>4, IssuedRows DEF Issued
  <2>2. n \in Tokens /\ familyOf[n] = rows[j].family
    BY <1>1, <2>1
  <2> QED  BY <2>1, <2>2 DEF IInv, Chain
<1> QED  BY <1>2, <1>3, <1>4

LEMMA IssuedSeen ==
  ASSUME IInv, NEW i, NEW f, Issued(i, f), NEW o \in Ops, ops' = [ops EXCEPT ![o] = Idle]
  PROVE  Seen'
<1>1. /\ NextToken \in Nat /\ NextToken \notin Tokens
      /\ \A t \in Tokens : t \in Nat /\ t < NextToken /\ familyOf'[t] = familyOf[t]
      /\ Tokens' = Tokens \cup {NextToken}
  BY IssuedTokens DEF Issued
<1>2. ops'[o] = Idle /\ \A p \in Ops : p # o => ops'[p] = ops[p]
  BY OpChange, IdleOp DEF IInv
<1> SUFFICES ASSUME NEW p \in Ops, p # o, ops[p].kind \in Refreshing
             PROVE  SeenOf(p)'
  BY <1>2, IdleOp DEF Seen, Refreshing
<1> DEFINE t == ops[p].token
<1>3. SeenOf(p) /\ ops'[p] = ops[p] /\ t \in Tokens /\ familyOf'[t] = familyOf[t] /\ t # NextToken
  BY <1>1, <1>2 DEF IInv, Seen, SeenOf
<1>4. familyOf[t] \in UsedFamilies
  BY <1>3 DEF UsedFamilies
<1>5. ASSUME NEW j \in DOMAIN rows', rows'[j].valid, rows'[j].family = familyOf[t]
      PROVE  /\ j \in DOMAIN rows
             /\ rows'[j].tip >= t
             /\ ops[p].kind # "rotate" => rows'[j].hash # t
             /\ ops[p].kind = "reused" => ~(rows'[j].previous = t /\ rows'[j].grace)
  <2>1. CASE j # i
    <3>1. j \in DOMAIN rows /\ rows'[j] = rows[j]
      BY <2>1 DEF Issued
    <3> QED  BY <3>1, <1>3, <1>5 DEF SeenOf
  <2>2. CASE j = i
    <3>1. /\ j \in DOMAIN rows /\ rows[j].valid /\ rows[j].family = familyOf[t]
          /\ rows'[j].tip = rows[j].tip /\ rows'[j].hash = NextToken
          /\ rows'[j].grace => \/ rows'[j].previous = rows[j].hash
                               \/ rows[j].grace /\ rows'[j].previous = rows[j].previous
      BY <1>4, <1>5, <2>2 DEF Issued
    <3> QED  BY <3>1, <1>3 DEF SeenOf
  <2> QED  BY <2>1, <2>2
<1>6. ASSUME ops[p].kind = "reused"
      PROVE  /\ ops[p].row \in DOMAIN rows'
             /\ \A j \in DOMAIN rows' : rows'[j].family = familyOf[t] => j = ops[p].row
  <2>1. /\ ops[p].row \in DOMAIN rows
        /\ \A j \in DOMAIN rows : rows[j].family = familyOf[t] => j = ops[p].row
    BY <1>3, <1>6 DEF SeenOf
  <2>2. ASSUME NEW j \in DOMAIN rows', rows'[j].family = familyOf[t]
        PROVE  j \in DOMAIN rows /\ rows[j].family = familyOf[t]
    BY <1>4, <2>2 DEF Issued
  <2> QED  BY <2>1, <2>2 DEF Issued
<1> QED  BY <1>1, <1>3, <1>5, <1>6 DEF SeenOf

(* Together: what is left to show of an issue is its documents' types. *)
LEMMA IssuedInv ==
  ASSUME IInv, NEW i, NEW f, Issued(i, f), NEW o \in Ops, Done(o),
         ~rows'[i].forked => \A n \in Tokens : familyOf[n] = f => n = rows'[i].previous \/ rows'[i].tip > n,
         rows'[i].epoch = account.password \/ rows'[i].raced,
         \/ held' = held \cup {NextToken} /\ otts' = otts
         \/ otts' = otts \cup {NextToken} /\ held' = held,
         UNCHANGED <<account, links, seen>>
  PROVE  IInv'
<1>1. /\ NextToken \notin Tokens /\ Tokens' = Tokens \cup {NextToken}
      /\ UsedFamilies' = UsedFamilies \cup {f} /\ familyOf' \in Seq(Families)
  BY IssuedTokens DEF Issued
<1>2. /\ ops' \in [Ops -> Op] /\ ops'[o] = Idle
      /\ \A p \in Ops : p # o => ops'[p] = ops[p]
  BY OpChange, IdleOp DEF Done, IInv
<1>3. held' \subseteq Tokens' /\ otts' \subseteq Tokens' \ held'
  BY <1>1 DEF IInv, Types
<1>4. Types'
  BY <1>1, <1>2, <1>3 DEF IInv, Types, Issued, seen
<1>5. RowsOK' /\ JudgedGone'
  <2>1. \A g \in UsedFamilies : Live(g)' => Live(g)
    BY IssuedRows
  <2> QED  BY <2>1, IssuedRows DEF IInv, Types, JudgedGone, seen
<1>6. EpochsOK'
  BY DEF Issued, EpochsOK, IInv
<1>7. LinksOK'
  BY <1>2, IdleOp DEF IInv, LinksOK, OldLinksDie, seen
<1>8. Chain' /\ Seen'
  BY IssuedChain, IssuedSeen DEF Done
<1> QED  BY <1>4, <1>5, <1>6, <1>7, <1>8 DEF IInv

(* Each of the three writes that issue a token is such a step. *)
LEMMA RowChanges ==
  ASSUME NEW r \in Row, NEW f \in Families, NEW n \in Nat, NEW t \in Nat, NEW d \in Devices,
         NEW e \in Nat, NEW b \in BOOLEAN
  PROVE  /\ [r EXCEPT !.family = f, !.hash = n, !.epoch = e, !.raced = b, !.tip = t, !.forked = FALSE] \in Row
         /\ [r EXCEPT !.hash = n, !.previous = t, !.grace = TRUE, !.device = d] \in Row
         /\ [r EXCEPT !.hash = n, !.device = d, !.forked = TRUE] \in Row
BY DEF Row
SignsIn(o, i, f) ==
    /\ At(o, "signin") /\ f \in Families \ UsedFamilies
    /\ \/ i \in SameDevice(ops[o].device) /\ rows' = [rows EXCEPT ![i] = Reused(rows[i], f, NextToken, ops[o])]
       \/ i = Len(rows) + 1 /\ rows' = Append(rows, NewRow(f, NextToken, ops[o]))
    /\ familyOf' = Append(familyOf, f)

LEMMA LoginIssues ==
  ASSUME IInv, NEW o \in Ops, NEW i, NEW f, SignsIn(o, i, f)
  PROVE  /\ Issued(i, f) /\ rows'[i].tip = None /\ ~rows'[i].forked
         /\ rows'[i].epoch = account.password \/ rows'[i].raced
<1>1. ops[o] \in [kind : {"signin"}, device : Devices, via : {"direct", "ott"}, epoch : Nat]
  BY OpFields DEF IInv, Types, SignsIn, At
<1>2. NextToken \in Nat /\ NextToken \notin Tokens /\ f \in Families /\ f \notin UsedFamilies
  BY IssuedTokens DEF SignsIn
<1>3. CASE i \in SameDevice(ops[o].device) /\ rows' = [rows EXCEPT ![i] = Reused(rows[i], f, NextToken, ops[o])]
  <2>1. i \in DOMAIN rows /\ rows[i] \in Row /\ rows[i].valid
    BY <1>3 DEF SameDevice, IInv, Types
  <2>2. /\ rows'[i] = Reused(rows[i], f, NextToken, ops[o]) /\ DOMAIN rows' = DOMAIN rows
        /\ \A j \in DOMAIN rows \ {i} : rows'[j] = rows[j]
        /\ rows' = [j \in DOMAIN rows |-> rows'[j]]
    BY <1>3, <2>1
  <2>3. /\ rows'[i] \in Row /\ rows'[i].family = f /\ rows'[i].hash = NextToken
        /\ rows'[i].valid /\ rows'[i].tip = None /\ ~rows'[i].forked
        /\ rows'[i].grace = rows[i].grace /\ rows'[i].previous = rows[i].previous
        /\ rows'[i].epoch = account.password \/ rows'[i].raced
    <3>1. rows'[i] = [rows[i] EXCEPT !.family = f, !.hash = NextToken, !.epoch = ops[o].epoch,
                                     !.raced = ops[o].epoch # account.password,
                                     !.tip = None, !.forked = FALSE]
      BY <2>2 DEF Reused
    <3>2. ops[o].device \in Devices /\ ops[o].epoch \in Nat /\ None \in Nat /\ (ops[o].epoch # account.password) \in BOOLEAN
      BY <1>1 DEF None
    <3>3. rows'[i] \in Row
      <4>1. PICK b \in BOOLEAN, e \in Nat, z \in Nat :
                b = (ops[o].epoch # account.password) /\ e = ops[o].epoch /\ z = None
        BY <3>2
      <4>2. rows'[i] = [rows[i] EXCEPT !.family = f, !.hash = NextToken, !.epoch = e, !.raced = b,
                                       !.tip = z, !.forked = FALSE]
        BY <3>1, <4>1
      <4>3. ASSUME NEW r \in Row PROVE [r EXCEPT !.family = f, !.hash = NextToken, !.epoch = e, !.raced = b,
                                       !.tip = z, !.forked = FALSE] \in Row
        BY <1>2, <3>2, <4>1, RowChanges, Zenon
      <4> QED  BY <2>1, <4>2, <4>3, Zenon
    <3>4. /\ rows'[i].epoch = ops[o].epoch
          /\ rows'[i].raced = (ops[o].epoch # account.password)
      BY <2>1, <3>1 DEF Row
    <3> QED  BY <2>1, <3>1, <3>3, <3>4 DEF Row
  <2>4. \A j \in DOMAIN rows : rows'[j] \in Row
    <3>1. \A j \in DOMAIN rows : rows[j] \in Row
      BY DEF IInv, Types
    <3> QED  BY <2>2, <2>3, <3>1
  <2>5. rows' \in Seq(Row)
    BY <2>2, <2>4, InPlace DEF IInv, Types
  <2>6. rows'[i].grace => rows'[i].previous \in Tokens
    BY <2>1, <2>3 DEF IInv, RowsOK
  <2> QED  BY <1>2, <2>1, <2>2, <2>3, <2>5, <2>6 DEF Issued, SignsIn
<1>4. CASE i = Len(rows) + 1 /\ rows' = Append(rows, NewRow(f, NextToken, ops[o]))
  <2> DEFINE r == NewRow(f, NextToken, ops[o])
  <2>1. /\ r \in Row /\ r.family = f /\ r.hash = NextToken /\ ~r.grace
        /\ r.valid /\ r.tip = None /\ ~r.forked
        /\ r.epoch = account.password \/ r.raced
    BY <1>1, <1>2 DEF NewRow, Row, None
  <2>2. /\ rows' \in Seq(Row) /\ DOMAIN rows' = DOMAIN rows \cup {i} /\ rows'[i] = r
        /\ \A j \in DOMAIN rows \ {i} : rows'[j] = rows[j]
    BY <1>4, <2>1 DEF IInv, Types
  <2> QED  BY <1>2, <2>1, <2>2 DEF Issued, SignsIn
<1> QED  BY <1>3, <1>4 DEF SignsIn

Rotates(o, i, f) ==
    /\ At(o, "rotate") /\ i \in Current(ops[o].token) /\ f = rows[i].family
    /\ rows' = [rows EXCEPT ![i] = Rotated(rows[i], ops[o].token, ops[o].device)]
    /\ familyOf' = Append(familyOf, f)

GraceRotates(o, i, f) ==
    /\ At(o, "grace") /\ i \in Graced(ops[o].token) /\ f = rows[i].family
    /\ rows' = [rows EXCEPT ![i].hash = NextToken, ![i].device = ops[o].device, ![i].forked = TRUE]
    /\ familyOf' = Append(familyOf, f)

LEMMA RotateIssues ==
  ASSUME IInv, NEW o \in Ops, NEW i, NEW f, Rotates(o, i, f) \/ GraceRotates(o, i, f)
  PROVE  /\ Issued(i, f)
         /\ ~rows'[i].forked => \A n \in Tokens : familyOf[n] = f => n = rows'[i].previous \/ rows'[i].tip > n
         /\ rows'[i].epoch = account.password \/ rows'[i].raced
<1> DEFINE t == ops[o].token
<1>1. /\ ops[o] \in [kind : {"rotate", "grace"}, token : Nat, device : Devices]
      /\ SeenOf(o) /\ t \in Tokens
  BY OpFields DEF IInv, Types, Rotates, GraceRotates, At, Seen, Refreshing, SeenOf
<1>0. ops[o].device \in Devices
  BY <1>1
<1>2. i \in DOMAIN rows /\ rows[i] \in Row /\ rows[i].valid /\ rows[i].family = f /\ f = familyOf[t]
  BY DEF Rotates, GraceRotates, Current, Graced, IInv, Types
<1>3. f \in Families /\ NextToken \in Nat /\ t \in Nat
  <2>1. familyOf \in Seq(Families)
    BY DEF IInv, Types
  <2> QED  BY <1>1, <1>2, <2>1 DEF Row, NextToken, Tokens
<1>4. /\ DOMAIN rows' = DOMAIN rows /\ \A j \in DOMAIN rows \ {i} : rows'[j] = rows[j]
      /\ rows' = [j \in DOMAIN rows |-> rows'[j]]
  BY DEF Rotates, GraceRotates
<1>5. /\ rows'[i] \in Row /\ rows'[i].valid /\ rows'[i].family = f /\ rows'[i].hash = NextToken
      /\ rows'[i].tip = rows[i].tip /\ rows'[i].epoch = rows[i].epoch /\ rows'[i].raced = rows[i].raced
      /\ \/ rows'[i].previous = t /\ t = rows[i].hash /\ rows'[i].forked = rows[i].forked
         \/ rows'[i].previous = rows[i].previous /\ rows'[i].grace = rows[i].grace /\ rows'[i].forked
  <2>1. CASE Rotates(o, i, f)
    <3>1. rows'[i] = Rotated(rows[i], t, ops[o].device) /\ rows[i].hash = t
      BY <1>2, <2>1 DEF Rotates, Current
    <3>2. rows'[i] = [rows[i] EXCEPT !.hash = NextToken, !.previous = t, !.grace = TRUE,
                                     !.device = ops[o].device]
      BY <3>1 DEF Rotated
    <3>3. rows'[i] \in Row
      <4>1. ASSUME NEW r \in Row PROVE [r EXCEPT !.hash = NextToken, !.previous = t, !.grace = TRUE,
                                     !.device = ops[o].device] \in Row
        BY <1>0, <1>3, RowChanges, Zenon
      <4> QED  BY <1>2, <3>2, <4>1, Zenon
    <3> QED  BY <1>2, <3>1, <3>2, <3>3 DEF Row
  <2>2. CASE GraceRotates(o, i, f)
    <3>1. rows'[i] = [rows[i] EXCEPT !.hash = NextToken, !.device = ops[o].device, !.forked = TRUE]
      BY <1>2, <2>2 DEF GraceRotates
    <3>2. rows'[i] \in Row
      <4>1. ASSUME NEW r \in Row
            PROVE  [r EXCEPT !.hash = NextToken, !.device = ops[o].device, !.forked = TRUE] \in Row
        BY <1>0, <1>3, RowChanges, Zenon
      <4> QED  BY <1>2, <3>1, <4>1, Zenon
    <3> QED  BY <1>2, <3>1, <3>2 DEF Row
  <2> QED  BY <2>1, <2>2
<1>6. rows' \in Seq(Row)
  <2>1. \A j \in DOMAIN rows : rows'[j] \in Row
    BY <1>4, <1>5 DEF IInv, Types
  <2> QED  BY <1>4, <2>1, InPlace DEF IInv, Types
<1>7. rows'[i].grace => rows'[i].previous \in Tokens
  BY <1>1, <1>2, <1>5 DEF IInv, RowsOK
<1>8. Issued(i, f)
  BY <1>2, <1>3, <1>4, <1>5, <1>6, <1>7 DEF Issued, Rotates, GraceRotates
<1>9. ASSUME ~rows'[i].forked, NEW n \in Tokens, familyOf[n] = f
      PROVE  n = rows'[i].previous \/ rows'[i].tip > n
  <2>1. rows'[i].previous = t /\ t = rows[i].hash /\ ~rows[i].forked
    BY <1>5, <1>9
  <2>2. n <= t /\ rows[i].tip >= t
    BY <1>1, <1>2, <1>9, <2>1 DEF IInv, Chain, SeenOf
  <2>3. n \in Nat /\ rows[i].tip \in Nat
    <3>1. familyOf \in Seq(Families)
      BY DEF IInv, Types
    <3> QED  BY <1>2, <3>1 DEF Row, Tokens
  <2> QED  BY <1>3, <1>5, <2>1, <2>2, <2>3
<1>10. rows'[i].epoch = account.password \/ rows'[i].raced
  BY <1>2, <1>5 DEF IInv, EpochsOK
<1> QED  BY <1>8, <1>9, <1>10

(* A step that issues a token is one of the three. *)
LEMMA Issues ==
  ASSUME NEW o \in Ops, loginAtomically(o) \/ rotate(o) \/ graceRotate(o), IInv
  PROVE  \E i, f : SignsIn(o, i, f) \/ Rotates(o, i, f) \/ GraceRotates(o, i, f)
<1>1. CASE loginAtomically(o)
  BY <1>1 DEF loginAtomically, SignsIn
<1>2. CASE rotate(o)
  BY <1>2 DEF rotate, Rotates, Issue
<1>3. CASE graceRotate(o)
  BY <1>3 DEF graceRotate, GraceRotates, Issue
<1> QED  BY <1>1, <1>2, <1>3

LEMMA IssueSteps ==
  ASSUME IInv, NEW o \in Ops, loginAtomically(o) \/ rotate(o) \/ graceRotate(o)
  PROVE  IInv' /\ \E i, f : Issued(i, f)
<1>1. PICK i, f : SignsIn(o, i, f) \/ Rotates(o, i, f) \/ GraceRotates(o, i, f)
  BY Issues
<1>2. /\ Done(o) /\ UNCHANGED <<account, links, seen>>
      /\ \/ held' = held \cup {NextToken} /\ otts' = otts
         \/ otts' = otts \cup {NextToken} /\ held' = held
  BY DEF loginAtomically, rotate, graceRotate, Issue
<1>3. CASE SignsIn(o, i, f)
  <2>1. ASSUME NEW n \in Tokens, familyOf[n] = f PROVE FALSE
    BY <1>3, <2>1 DEF SignsIn, UsedFamilies
  <2> QED  BY <1>2, <1>3, <2>1, LoginIssues, IssuedInv
<1>4. CASE Rotates(o, i, f) \/ GraceRotates(o, i, f)
  BY <1>2, <1>4, RotateIssues, IssuedInv
<1> QED  BY <1>1, <1>3, <1>4

-----------------------------------------------------------------------------
LEMMA InitInv == Init => IInv
<1> SUFFICES ASSUME Init PROVE IInv
  OBVIOUS
<1>1. Types
  <2>1. /\ rows \in Seq(Row) /\ familyOf \in Seq(Families)
        /\ links \in Seq({"open", "used", "expired"})
    BY DEF Init
  <2>2. account \in [password : 0 .. MaxPasswords, isDeleted : BOOLEAN]
    <3>1. account.password \in {0, 1} /\ account.isDeleted = FALSE
          /\ account \in [password : {0, 1}, isDeleted : {FALSE}]
      BY DEF Init
    <3>2. {0, 1} \subseteq 0 .. MaxPasswords
      BY BoundsAssumption
    <3> QED  BY <3>1, <3>2
  <2>3. ops \in [Ops -> Op] /\ lastReset \in [by : Nat, killed : Nat, before : Nat]
    BY IdleOp DEF Init, None
  <2> QED  BY <2>1, <2>2, <2>3 DEF Init, Types
<1>2. RowsOK /\ Chain /\ EpochsOK /\ JudgedGone
  BY DEF Init, RowsOK, Chain, EpochsOK, JudgedGone
<1>3. Seen /\ LinksOK
  BY IdleOp DEF Init, Seen, Refreshing, LinksOK, OldLinksDie, None
<1> QED  BY <1>1, <1>2, <1>3 DEF IInv

LEMMA NextInv == IInv /\ [Next]_vars => IInv'
<1> SUFFICES ASSUME IInv, [Next]_vars PROVE IInv'
  OBVIOUS
<1>1. ASSUME NEW o \in Ops, NEW d \in Devices, NEW t \in held, refresh(o, t, d) PROVE IInv'
  BY <1>1, RefreshInv
<1>2. ASSUME NEW o \in Ops, loginAtomically(o) \/ rotate(o) \/ graceRotate(o) PROVE IInv'
  BY <1>2, IssueSteps
<1>3. ASSUME NEW o \in Ops, notCurrent(o) \/ look(o) \/ revokeReused(o) PROVE IInv'
  BY <1>3, NotCurrentInv, LookInv, RevokeReusedInv
<1>4. ASSUME NEW o \in Ops,
             \/ endSessions(o) \/ createLink(o)
             \/ resetPasswordAtomically(o) \/ changePasswordAtomically(o)
      PROVE  IInv'
  BY <1>4, EndSessions, CreateLink, ResetPassword, ChangePassword
<1>5. ASSUME NEW i \in DOMAIN rows, GraceEnds(i) PROVE IInv'
  BY <1>5, GraceEndsInv
<1>6. ASSUME NEW l \in DOMAIN links, LinkExpires(l) PROVE IInv'
  BY <1>6, LinkExpiresInv
<1>7. CASE UNCHANGED vars
  <2>1. Types' /\ LinksOK'
    BY <1>7 DEF vars, IInv, Types, LinksOK, OldLinksDie, Tokens, UsedFamilies
  <2>2. Seen'
    BY <1>7, UnchangedWeaken, QuietSeen DEF vars, IInv
  <2> QED  BY <1>7, <2>1, <2>2, Quiet DEF vars
<1> QED  BY <1>1, <1>2, <1>3, <1>4, <1>5, <1>6, <1>7, Starts, QuietSteps DEF Next

LEMMA Inductive == Spec => []IInv
BY InitInv, NextInv, PTL DEF Spec

(* Nobody signed in before a change of the password stays signed in, but
   for who asked for it and a sign-in whose credential had been checked. *)
THEOREM EvictedForGood == Spec => []EvictedStayOut
<1>1. IInv => EvictedStayOut
  BY DEF IInv, Types, RowsOK, EpochsOK, EvictedStayOut, TypeOK
<1> QED  BY <1>1, Inductive, PTL

(* Only a token whose grace is over, or that a later one of its family
   overtook, is taken for reused; the family so answered is gone. *)
THEOREM ReuseIsReuse == Spec => []ReuseDetection
<1>1. IInv => ReuseDetection
  <2> SUFFICES ASSUME IInv PROVE ReuseDetection
    OBVIOUS
  <2>1. ASSUME NEW o \in Ops, At(o, "reused"),
               rows[ops[o].row].valid, rows[ops[o].row].family = familyOf[ops[o].token],
               ~(rows[ops[o].row].previous = ops[o].token /\ ~rows[ops[o].row].grace),
               ~rows[ops[o].row].forked
        PROVE  rows[ops[o].row].tip > ops[o].token
    <3>1. SeenOf(o) /\ ops[o].kind = "reused"
      BY <2>1 DEF IInv, Seen, At, Refreshing
    <3>2. /\ ops[o].token \in Tokens /\ ops[o].row \in DOMAIN rows
          /\ rows[ops[o].row].hash # ops[o].token
          /\ rows[ops[o].row].previous # ops[o].token
      BY <2>1, <3>1 DEF SeenOf, IInv, Types, Row
    <3> QED  BY <2>1, <3>2 DEF IInv, Chain
  <2> QED  BY <2>1 DEF ReuseDetection, IInv, JudgedGone
<1> QED  BY <1>1, Inductive, PTL

(* A link that sets the password was asked for after the last reset. *)
THEOREM OldLinksAreDead == Spec => []OldLinksDie
<1>1. IInv => OldLinksDie
  BY DEF IInv, LinksOK
<1> QED  BY <1>1, Inductive, PTL

(* Every token is given out for a session that is live then. *)
THEOREM TokensAreOfLive == Spec => TokensOfLive
<1>1. ASSUME IInv, [Next]_vars, NEW n \in DOMAIN familyOf' \ DOMAIN familyOf
      PROVE  \E i \in DOMAIN rows' : rows'[i].valid /\ rows'[i].family = familyOf'[n]
  <2>1. CASE \E o \in Ops : loginAtomically(o) \/ rotate(o) \/ graceRotate(o)
    <3>1. PICK i, f : Issued(i, f)
      BY <1>1, <2>1, IssueSteps
    <3>2. n = NextToken /\ familyOf'[n] = f
      BY <1>1, <3>1, IssuedTokens DEF Issued, Tokens
    <3> QED  BY <3>1, <3>2 DEF Issued
  <2>2. CASE UNCHANGED familyOf
    BY <1>1, <2>2
  <2> QED
    BY <1>1, <2>1, <2>2
    DEF Next, vars, login, signInWithout, refresh, notCurrent, look, revokeReused, logout,
        revokeAllSessions, revokeSession, changePassword, endSessions, requestPasswordReset,
        createLink, resetPassword, resetPasswordAtomically, changePasswordAtomically,
        consumeOtt, OttExpires, GraceEnds, LinkExpires, deactivateUser, reactivateUser
<1>2. IInv /\ [Next]_vars =>
        [\A n \in DOMAIN familyOf' \ DOMAIN familyOf :
            \E i \in DOMAIN rows' : rows'[i].valid /\ rows'[i].family = familyOf'[n]]_vars
  BY <1>1
<1> QED  BY <1>2, Inductive, PTL DEF Spec, TokensOfLive

-----------------------------------------------------------------------------
(* The ways into an account. *)
Member == [there : BOOLEAN, password : BOOLEAN, google : Identities \cup {Nobody},
           email : Addresses \cup {Nobody}, challenge : Nat]
Connecting == [kind : {"connects"}, a : Members, g : Identities]
Disconnecting == [kind : {"disconnects"}, a : Members]
Calling == [kind : {"byEmail", "links", "creates", "returns"}, g : Identities, e : Addresses,
            a : Members \cup {Nobody}, held : SUBSET Members]
Verifying == [kind : {"clearsToAdd", "clearsToGrant", "adds", "grants"}, a : Members, k : Passkeys,
              c : Nat, expected : Nat, late : BOOLEAN]
Entering == [kind : {"grants"}, a : Members, k : Passkeys, late : BOOLEAN]
SignOp == {NoSign} \cup Connecting \cup Disconnecting \cup Calling \cup Verifying \cup Entering
MethodTypes ==
    /\ members \in [Members -> Member]
    /\ keyOf \in [Passkeys -> Members \cup {Nobody}]
    /\ asked \in Seq(Members) /\ consumed \subseteq DOMAIN asked
    /\ signOps \in [SignOps -> SignOp]

(* An account has a way in, an address and its identity to itself. *)
There(a) ==
    /\ members[a].there => members[a].email # Nobody /\ (members[a].password \/ members[a].google # Nobody)
    /\ ~members[a].there => members[a].google = Nobody
    /\ members[a].challenge # 0 =>
          members[a].challenge \in DOMAIN asked \ consumed /\ asked[members[a].challenge] = a
WaysApart(a, b) ==
    a # b /\ members[a].there /\ members[b].there
    => members[a].email # members[b].email /\ (members[a].google # Nobody => members[a].google # members[b].google)
(* What a handler has read is so still, or is looked at again. *)
Holders(g, e) == {a \in Members : members[a].there /\ (members[a].google = g \/ members[a].email = e)}
SignsRight(o) ==
    LET op == signOps[o] IN
    /\ op.kind \in {"connects", "links"} => op.a \in Members /\ members[op.a].there
    /\ op.kind = "disconnects" => members[op.a].there /\ members[op.a].password
    /\ op.kind \in {"byEmail", "links", "creates", "returns"} => Holders(op.g, op.e) \subseteq op.held
    /\ op.kind \in {"links", "returns"} => op.a \in op.held
    /\ op.kind = "creates" => op.a \in Members
    /\ op.kind \in {"clearsToAdd", "clearsToGrant"} =>
          op.expected \in DOMAIN asked /\ asked[op.expected] = op.a /\ (op.late => op.c # op.expected)
    /\ op.kind = "grants" => ~op.late
MethodsInv ==
    /\ MethodTypes
    /\ \A a \in Members : There(a)
    /\ \A a, b \in Members : WaysApart(a, b)
    /\ \A o \in SignOps : SignsRight(o)
    /\ signedIn.to # Nobody => signedIn.to \in signedIn.held

LEMMA MethodsBegin == MethodsInit => MethodsInv
  <1> SUFFICES ASSUME MethodsInit PROVE MethodsInv
    OBVIOUS
  <1>1. \A a \in Members : members[a] = Absent
    BY DEF MethodsInit
  <1>2. Absent \in Member /\ ~Absent.there /\ Absent.google = Nobody /\ Absent.challenge = 0
    BY DEF Absent, Member
  <1>3. MethodTypes
    BY <1>2 DEF MethodsInit, MethodTypes, SignOp
  <1>4. \A o \in SignOps : signOps[o].kind = "free"
    BY DEF MethodsInit, NoSign
  <1> QED BY <1>1, <1>2, <1>3, <1>4 DEF MethodsInit, MethodsInv, There, WaysApart, SignsRight, NoSignIn

LEMMA MethodsHoldThen == MethodsInv => MethodsHold
  BY DEF MethodsInv, There, WaysApart, MethodsHold

(* What an operation can be. *)
LEMMA SignOpsAre ==
  ASSUME MethodTypes, NEW o \in SignOps
  PROVE  /\ signOps[o] \in SignOp
         /\ signOps[o].kind = "connects" => signOps[o] \in Connecting
         /\ signOps[o].kind = "disconnects" => signOps[o] \in Disconnecting
         /\ signOps[o].kind \in {"byEmail", "links", "creates", "returns"} => signOps[o] \in Calling
         /\ signOps[o].kind \in {"clearsToAdd", "clearsToGrant", "adds"} => signOps[o] \in Verifying
         /\ "held" \in DOMAIN signOps[o] <=> signOps[o] \in Calling
  <1>1. signOps[o] \in SignOp
    BY DEF MethodTypes
  <1> QED BY <1>1 DEF SignOp, NoSign, Connecting, Disconnecting, Calling, Verifying, Entering

(* Steps that leave who has which address and identity as they are. *)
LEMMA MethodsQuiet ==
  ASSUME MethodsInv, members' \in [Members -> Member],
         \A a \in Members :
            /\ members'[a].there = members[a].there /\ members'[a].google = members[a].google
            /\ members'[a].email = members[a].email /\ (members[a].password => members'[a].password)
            /\ members'[a].challenge # 0 =>
                  members'[a].challenge \in DOMAIN asked' \ consumed' /\ asked'[members'[a].challenge] = a,
         asked' \in Seq(Members), consumed' \subseteq DOMAIN asked',
         \A i \in DOMAIN asked : i \in DOMAIN asked' /\ asked'[i] = asked[i],
         keyOf' \in [Passkeys -> Members \cup {Nobody}], signOps' \in [SignOps -> SignOp],
         \A o \in SignOps : signOps'[o] = signOps[o] \/ SignsRight(o)',
         signedIn'.to # Nobody => signedIn'.to \in signedIn'.held
  PROVE  MethodsInv'
  <1>1. MethodTypes'
    BY DEF MethodTypes
  <1>2. \A a \in Members : There(a)'
    BY DEF MethodsInv, There
  <1>3. \A a, b \in Members : WaysApart(a, b)'
    BY DEF MethodsInv, WaysApart
  <1>4. \A g, e : Holders(g, e)' = Holders(g, e)
    BY DEF Holders
  <1>5. ASSUME NEW o \in SignOps, signOps'[o] = signOps[o] PROVE SignsRight(o)'
    <2>1. signOps[o].kind = "disconnects" => signOps[o].a \in Members
      BY SignOpsAre DEF MethodsInv, Disconnecting
    <2>2. SignsRight(o)
      BY DEF MethodsInv
    <2> QED BY <1>4, <1>5, <2>1, <2>2 DEF SignsRight
  <1> QED BY <1>1, <1>2, <1>3, <1>5 DEF MethodsInv

(* A write of one account that takes no address and identity of another. *)
LEMMA MemberWritten ==
  ASSUME MethodsInv, NEW a \in Members, NEW user \in Member, members' = [members EXCEPT ![a] = user],
         UNCHANGED <<asked, consumed, keyOf, signedIn>>, user.there, user.challenge \in {0, members[a].challenge},
         user.email # Nobody, user.password \/ user.google # Nobody, members[a].there /\ members[a].password => user.password,
         \A b \in Members \ {a} : members[b].there =>
            members[b].email # user.email /\ (user.google # Nobody => members[b].google # user.google),
         signOps' \in [SignOps -> SignOp],
         \A o \in SignOps :
            \/ signOps'[o] = Watch(signOps, members')[o] \/ signOps'[o] = NoSign
            \/ signOps'[o].kind = "returns" /\ signOps'[o].a \in signOps'[o].held
               /\ Holders(signOps[o].g, signOps[o].e)' \subseteq signOps'[o].held
  PROVE  MethodsInv'
  <1>1. members'[a] = user /\ \A b \in Members \ {a} : members'[b] = members[b]
    BY DEF MethodsInv, MethodTypes
  <1>2. MethodTypes'
    BY DEF MethodsInv, MethodTypes
  <1>3. \A b \in Members : There(b)'
    BY <1>1 DEF MethodsInv, There
  <1>4. \A b, c \in Members : WaysApart(b, c)'
    <2>1. ASSUME NEW b \in Members, NEW c \in Members, b # a, c # a PROVE WaysApart(b, c)'
      BY <1>1, <2>1 DEF MethodsInv, WaysApart
    <2>2. ASSUME NEW b \in Members PROVE WaysApart(a, b)'
      BY <1>1 DEF WaysApart
    <2>3. ASSUME NEW b \in Members PROVE WaysApart(b, a)'
      BY <1>1 DEF WaysApart
    <2> QED BY <2>1, <2>2, <2>3
  <1>5. ASSUME NEW o \in SignOps PROVE SignsRight(o)'
    <2>1. CASE signOps'[o] = NoSign
      <3>1. signOps'[o].kind = "free"
        BY <2>1 DEF NoSign
      <3> QED BY <3>1 DEF SignsRight
    <2>2. CASE /\ signOps'[o].kind = "returns" /\ signOps'[o].a \in signOps'[o].held
               /\ Holders(signOps[o].g, signOps[o].e)' \subseteq signOps'[o].held
      BY <2>2 DEF SignsRight
    <2>3. CASE signOps'[o] = Watch(signOps, members')[o]
      <3>0. SignsRight(o) /\ \A b \in Members : members[b].there => members'[b].there
        BY <1>1 DEF MethodsInv
      <3>1. CASE signOps[o] \in Calling
        <4>0. PICK g, e : g = signOps[o].g /\ e = signOps[o].e
          OBVIOUS
        <4>1. PICK H : H = Holders(g, e)'
          OBVIOUS
        <4>2. signOps'[o] = [signOps[o] EXCEPT !.held = @ \cup H]
          <5>1. "held" \in DOMAIN signOps[o]
            BY <3>1, SignOpsAre DEF MethodsInv
          <5> QED BY <2>3, <4>0, <4>1, <5>1 DEF Watch, Holders
        <4>3. /\ signOps'[o].kind = signOps[o].kind /\ signOps'[o].a = signOps[o].a /\ signOps'[o].g = signOps[o].g
              /\ signOps'[o].e = signOps[o].e /\ signOps'[o].held = signOps[o].held \cup H
          BY <3>1, <4>2 DEF Calling
        <4>4. signOps[o].kind \in {"byEmail", "links", "creates", "returns"}
          BY <3>1 DEF Calling
        <4>5. Holders(signOps[o].g, signOps[o].e)' = H
          BY <4>0, <4>1, <4>3 DEF Holders
        <4> QED BY <3>0, <4>3, <4>4, <4>5 DEF SignsRight
      <3>2. CASE signOps[o] \notin Calling
        <4>1. signOps'[o] = signOps[o]
          BY <2>3, <3>2, SignOpsAre DEF Watch, MethodsInv
        <4>2. signOps[o].kind \notin {"byEmail", "links", "creates", "returns"}
          BY <3>2, SignOpsAre DEF MethodsInv
        <4>3. signOps[o].kind = "disconnects" => signOps[o].a \in Members
          BY SignOpsAre DEF MethodsInv, Disconnecting
        <4>4. signOps[o].kind = "disconnects" => members'[signOps[o].a].password
          BY <1>1, <3>0, <4>3 DEF SignsRight
        <4> QED BY <3>0, <4>1, <4>2, <4>3, <4>4 DEF SignsRight
      <3> QED BY <3>1, <3>2
    <2> QED BY <2>1, <2>2, <2>3
  <1> QED BY <1>2, <1>3, <1>4, <1>5 DEF MethodsInv

LEMMA WatchTypes ==
  ASSUME MethodTypes, NEW o \in SignOps
  PROVE  Watch(signOps, members')[o] \in SignOp
  <1>1. CASE signOps[o] \in Calling
    <2>1. PICK H \in SUBSET Members : Watch(signOps, members')[o] = [signOps[o] EXCEPT !.held = @ \cup H]
      <3>1. "held" \in DOMAIN signOps[o]
        BY <1>1, SignOpsAre
      <3>0. PICK g, e : g = signOps[o].g /\ e = signOps[o].e
        OBVIOUS
      <3> DEFINE H == Holders(g, e)'
      <3>2. H \in SUBSET Members
        BY DEF Holders
      <3> QED BY <3>0, <3>1, <3>2 DEF Watch, Holders
    <2> QED BY <1>1, <2>1 DEF SignOp, Calling
  <1>2. CASE signOps[o] \notin Calling
    BY <1>2, SignOpsAre DEF Watch
  <1> QED BY <1>1, <1>2

(* A write that also ends its handler, or sends it on to its account. *)
LEMMA MemberWrittenBy ==
  ASSUME MethodsInv, NEW o \in SignOps, NEW a \in Members, NEW user \in Member, NEW op \in SignOp, Write(o, a, user, op),
         UNCHANGED <<asked, consumed, keyOf, signedIn>>, user.there, user.challenge \in {0, members[a].challenge},
         user.email # Nobody, user.password \/ user.google # Nobody, members[a].there /\ members[a].password => user.password,
         \A b \in Members \ {a} : members[b].there =>
            members[b].email # user.email /\ (user.google # Nobody => members[b].google # user.google),
         \/ op = NoSign
         \/ op.kind = "returns" /\ op.a \in op.held /\ Holders(op.g, op.e) \cup {a} \subseteq op.held
  PROVE  MethodsInv'
  <1>1. signOps'[o] = op /\ \A q \in SignOps \ {o} : signOps'[q] = Watch(signOps, members')[q]
    BY DEF Write, Watch
  <1>2. signOps' \in [SignOps -> SignOp]
    <2>1. DOMAIN signOps' = SignOps /\ signOps' = [q \in SignOps |-> signOps'[q]]
      BY DEF Write, Watch
    <2>2. \A q \in SignOps : signOps'[q] \in SignOp
      BY <1>1, WatchTypes DEF MethodsInv
    <2> QED BY <2>1, <2>2
  <1>3. op # NoSign => Holders(signOps[o].g, signOps[o].e)' \subseteq op.held
    <2>1. \A b \in Members \ {a} : members'[b] = members[b]
      BY DEF Write, MethodsInv, MethodTypes
    <2> QED BY <1>1, <2>1 DEF Holders
  <1> QED BY <1>1, <1>2, <1>3, MemberWritten DEF Write

LEMMA RegisterKeeps ==
  ASSUME MethodsInv, NEW a \in Members, NEW e \in Addresses, registerMember(a, e)
  PROVE  MethodsInv'
  <1> DEFINE user == [Absent EXCEPT !.there = TRUE, !.password = TRUE, !.email = e]
  <1>1. user \in Member /\ user.there /\ user.challenge = 0 /\ user.email = e /\ user.password /\ user.google = Nobody
    BY DEF Absent, Member
  <1>2. e # Nobody
    BY MethodsAssumption DEF Nobody
  <1>3. \A b \in Members \ {a} : members[b].there => members[b].email # e
    BY <1>2 DEF registerMember, Taken, HasAddress
  <1>4. members' = [members EXCEPT ![a] = user] /\ signOps' = Watch(signOps, members')
        /\ UNCHANGED <<asked, consumed, keyOf, signedIn>> /\ ~members[a].there
    BY DEF registerMember
  <1>5. signOps' \in [SignOps -> SignOp]
    <2>1. signOps' = [q \in SignOps |-> signOps'[q]]
      BY <1>4 DEF Watch
    <2>2. \A q \in SignOps : signOps'[q] \in SignOp
      BY <1>4, WatchTypes DEF MethodsInv
    <2> QED BY <2>1, <2>2
  <1> HIDE DEF user
  <1> QED BY <1>1, <1>2, <1>3, <1>4, <1>5, MemberWritten

LEMMA SettingKeeps ==
  ASSUME MethodsInv, NEW a \in Members, setPassword(a) \/ challengeAsked(a)
  PROVE  MethodsInv'
  <1>1. members[a] \in Member /\ asked \in Seq(Members) /\ consumed \subseteq DOMAIN asked
    BY DEF MethodsInv, MethodTypes
  <1>2. CASE setPassword(a)
    <2>1. members' = [members EXCEPT ![a] = [members[a] EXCEPT !.password = TRUE]]
      BY <1>2 DEF setPassword
    <2>2. /\ members' \in [Members -> Member]
          /\ \A b \in Members :
            /\ members'[b].there = members[b].there /\ members'[b].google = members[b].google
            /\ members'[b].email = members[b].email /\ (members[b].password => members'[b].password)
            /\ members'[b].challenge = members[b].challenge
      BY <1>1, <2>1 DEF MethodsInv, MethodTypes, Member
    <2> QED BY <1>2, <2>2, MethodsQuiet DEF setPassword, MethodsInv, MethodTypes, There
  <1>3. CASE challengeAsked(a)
    <2>1. PICK n \in Nat : n = Len(asked) + 1
      BY <1>1
    <2>2. members' = [members EXCEPT ![a] = [members[a] EXCEPT !.challenge = n]] /\ asked' = Append(asked, a)
          /\ UNCHANGED <<keyOf, signOps, signedIn, consumed>>
      BY <1>3, <2>1 DEF challengeAsked, NewChallenge
    <2>3. /\ members' \in [Members -> Member]
          /\ \A b \in Members :
            /\ members'[b].there = members[b].there /\ members'[b].google = members[b].google
            /\ members'[b].email = members[b].email /\ (members[b].password => members'[b].password)
            /\ members'[b].challenge = IF b = a THEN n ELSE members[b].challenge
      BY <1>1, <2>2 DEF MethodsInv, MethodTypes, Member
    <2>4. /\ asked' \in Seq(Members) /\ consumed' \subseteq DOMAIN asked' /\ n \in DOMAIN asked' \ consumed' /\ asked'[n] = a
          /\ \A i \in DOMAIN asked : i \in DOMAIN asked' /\ asked'[i] = asked[i]
      BY <1>1, <2>1, <2>2
    <2> QED BY <2>2, <2>3, <2>4, MethodsQuiet DEF MethodsInv, MethodTypes, There
  <1> QED BY <1>2, <1>3

(* A handler reads, ends, or writes a passkey. *)
LEMMA AccountsStay ==
  ASSUME MethodsInv, NEW o \in SignOps, NEW op \in SignOp, SGoto(o, op), UNCHANGED <<members, asked, consumed>>,
         keyOf' \in [Passkeys -> Members \cup {Nobody}], op = NoSign \/ SignsRight(o)',
         signedIn'.to # Nobody => signedIn'.to \in signedIn'.held
  PROVE  MethodsInv'
  <1>1. signOps'[o] = op /\ \A q \in SignOps \ {o} : signOps'[q] = signOps[q]
    BY DEF SGoto, MethodsInv, MethodTypes
  <1>2. signOps' \in [SignOps -> SignOp]
    BY DEF SGoto, MethodsInv, MethodTypes
  <1>3. op = NoSign => SignsRight(o)'
    BY <1>1 DEF SignsRight, NoSign
  <1>4. \A q \in SignOps : signOps'[q] = signOps[q] \/ SignsRight(q)'
    BY <1>1, <1>3
  <1> QED BY <1>2, <1>4, MethodsQuiet DEF MethodsInv, MethodTypes, There

LEMMA ConnectionsKeep ==
  ASSUME MethodsInv, NEW o \in SignOps,
         \/ \E a \in Members, g \in Identities : connectGoogle(o, a, g)
         \/ connects(o) \/ disconnects(o)
         \/ \E a \in Members : disconnectGoogle(o, a)
  PROVE  MethodsInv'
  <1>0. MethodTypes /\ keyOf \in [Passkeys -> Members \cup {Nobody}] /\ members \in [Members -> Member] /\ NoSign \in SignOp
    BY DEF MethodsInv, MethodTypes, SignOp
  <1>1. ASSUME NEW a \in Members, NEW g \in Identities, connectGoogle(o, a, g) PROVE MethodsInv'
    <2> DEFINE op == [kind |-> "connects", a |-> a, g |-> g]
    <2>1. op \in SignOp /\ op.kind = "connects" /\ op.a = a
      BY DEF SignOp, Connecting
    <2>2. SGoto(o, op) /\ UNCHANGED <<members, keyOf, asked, signedIn, consumed>> /\ members[a].there
      BY <1>1 DEF connectGoogle
    <2> HIDE DEF op
    <2>3. SignsRight(o)'
      BY <1>0, <2>1, <2>2 DEF SGoto, MethodTypes, SignsRight
    <2> QED BY <1>0, <2>1, <2>2, <2>3, AccountsStay DEF MethodsInv
  <1>2. ASSUME NEW a \in Members, disconnectGoogle(o, a) PROVE MethodsInv'
    <2> DEFINE op == [kind |-> "disconnects", a |-> a]
    <2>1. op \in SignOp /\ op.kind = "disconnects" /\ op.a = a
      BY DEF SignOp, Disconnecting
    <2>2. SGoto(o, op) /\ UNCHANGED <<members, keyOf, asked, signedIn, consumed>> /\ members[a].there /\ members[a].password
      BY <1>2 DEF disconnectGoogle, MayDisconnect
    <2> HIDE DEF op
    <2>3. SignsRight(o)'
      BY <1>0, <2>1, <2>2 DEF SGoto, MethodTypes, SignsRight
    <2> QED BY <1>0, <2>1, <2>2, <2>3, AccountsStay DEF MethodsInv
  <1>3. CASE connects(o)
    <2>1. signOps[o] \in Connecting
      BY <1>0, <1>3, SignOpsAre DEF connects, SAt
    <2>2. PICK a \in Members, g \in Identities : a = signOps[o].a /\ g = signOps[o].g
      BY <2>1 DEF Connecting
    <2>3. members[a].there
      BY <1>3, <2>2 DEF MethodsInv, SignsRight, connects, SAt
    <2>4. CASE Taken(g, Nobody, a)
      BY <1>0, <1>3, <2>2, <2>4, AccountsStay DEF connects, SEnd, MethodsInv
    <2>5. CASE ~Taken(g, Nobody, a)
      <3> DEFINE user == [members[a] EXCEPT !.google = g]
      <3>1. user \in Member /\ user.there /\ user.challenge = members[a].challenge /\ user.email = members[a].email
            /\ user.google = g /\ user.password = members[a].password
        BY <1>0, <2>3 DEF Member
      <3>2. g # Nobody
        BY MethodsAssumption DEF Nobody
      <3>3. Write(o, a, user, NoSign) /\ UNCHANGED <<asked, consumed, keyOf, signedIn>>
        BY <1>3, <2>2, <2>5 DEF connects
      <3>4. \A b \in Members \ {a} : members[b].google # g
        BY <2>5, <3>2 DEF Taken, Linked
      <3>5. \A b \in Members \ {a} : members[b].there => members[b].email # members[a].email
        BY <2>3 DEF MethodsInv, WaysApart
      <3>6. members[a].email # Nobody
        BY <2>3 DEF MethodsInv, There
      <3> HIDE DEF user
      <3> QED BY <1>0, <3>1, <3>2, <3>3, <3>4, <3>5, <3>6, MemberWrittenBy
    <2> QED BY <2>4, <2>5
  <1>4. CASE disconnects(o)
    <2>1. signOps[o] \in Disconnecting
      BY <1>0, <1>4, SignOpsAre DEF disconnects, SAt
    <2>2. PICK a \in Members : a = signOps[o].a
      BY <2>1 DEF Disconnecting
    <2>3. members[a].there /\ members[a].password
      BY <1>4, <2>2 DEF MethodsInv, SignsRight, disconnects, SAt
    <2> DEFINE user == [members[a] EXCEPT !.google = Nobody]
    <2>4. user \in Member /\ user.there /\ user.challenge = members[a].challenge /\ user.email = members[a].email
            /\ user.google = Nobody /\ user.password
      BY <1>0, <2>3 DEF Member
    <2>5. Write(o, a, user, NoSign) /\ UNCHANGED <<asked, consumed, keyOf, signedIn>>
      BY <1>4, <2>2 DEF disconnects
    <2>6. \A b \in Members \ {a} : members[b].there => members[b].email # members[a].email
      BY <2>3 DEF MethodsInv, WaysApart
    <2>7. members[a].email # Nobody
      BY <2>3 DEF MethodsInv, There
    <2> HIDE DEF user
    <2> QED BY <1>0, <2>4, <2>5, <2>6, <2>7, MemberWrittenBy
  <1> QED BY <1>1, <1>2, <1>3, <1>4

LEMMA CallbackKeeps ==
  ASSUME MethodsInv, NEW o \in SignOps,
         \/ \E g \in Identities, e \in Addresses : googleCallback(o, g, e)
         \/ findByEmail(o) \/ linksByEmail(o) \/ createsMember(o) \/ loginByUserId(o)
  PROVE  MethodsInv'
  <1>0. MethodTypes /\ keyOf \in [Passkeys -> Members \cup {Nobody}] /\ members \in [Members -> Member] /\ NoSign \in SignOp
    BY DEF MethodsInv, MethodTypes, SignOp
  <1>1. ASSUME NEW g \in Identities, NEW e \in Addresses, googleCallback(o, g, e) PROVE MethodsInv'
    <2>0. PICK H \in SUBSET Members : H = Holders(g, e)
      BY DEF Holders
    <2>1. PICK kind \in {"returns", "byEmail"}, a \in Members \cup {Nobody} :
            /\ SGoto(o, [kind |-> kind, g |-> g, e |-> e, a |-> a, held |-> H])
            /\ kind = "returns" => a \in Linked(g)
      BY <1>1, <2>0 DEF googleCallback, GoogleOp, Linked, Holders
    <2> DEFINE op == [kind |-> kind, g |-> g, e |-> e, a |-> a, held |-> H]
    <2>2. op \in SignOp /\ op.kind = kind /\ op.g = g /\ op.e = e /\ op.a = a /\ op.held = H
      BY DEF SignOp, Calling
    <2>3. kind = "returns" => a \in H
      <3>1. g # Nobody
        BY MethodsAssumption DEF Nobody
      <3> QED BY <2>0, <2>1, <3>1 DEF Linked, Holders, MethodsInv, There
    <2>4. SGoto(o, op) /\ UNCHANGED <<members, keyOf, asked, signedIn, consumed>>
      BY <1>1, <2>1 DEF googleCallback
    <2> HIDE DEF op
    <2>5. SignsRight(o)'
      BY <1>0, <2>0, <2>2, <2>3, <2>4 DEF SGoto, MethodTypes, SignsRight, Holders
    <2> QED BY <1>0, <2>2, <2>4, <2>5, AccountsStay DEF MethodsInv
  <1>2. ASSUME findByEmail(o) \/ linksByEmail(o) \/ createsMember(o) \/ loginByUserId(o) PROVE MethodsInv'
    <2>0. signOps[o] \in Calling
      BY <1>0, <1>2, SignOpsAre DEF findByEmail, linksByEmail, createsMember, loginByUserId, SAt
    <2>1. PICK g \in Identities, e \in Addresses, H \in SUBSET Members :
            g = signOps[o].g /\ e = signOps[o].e /\ H = signOps[o].held
      BY <2>0 DEF Calling
    <2>2. Holders(g, e) \subseteq H
      BY <2>0, <2>1 DEF MethodsInv, SignsRight, Calling
    <2>3. g # Nobody /\ e # Nobody
      BY MethodsAssumption DEF Nobody
    <2>4. CASE findByEmail(o)
      <3>1. PICK kind \in {"links", "creates"}, a \in Members :
              /\ SGoto(o, [signOps[o] EXCEPT !.kind = kind, !.a = a])
              /\ kind = "links" => a \in HasAddress(e)
        BY <2>1, <2>4 DEF findByEmail, HasAddress
      <3> DEFINE op == [signOps[o] EXCEPT !.kind = kind, !.a = a]
      <3>2. op \in SignOp /\ op.kind = kind /\ op.g = g /\ op.e = e /\ op.a = a /\ op.held = H
        BY <2>0, <2>1 DEF SignOp, Calling
      <3>3. kind = "links" => a \in H /\ members[a].there
        BY <2>2, <3>1 DEF HasAddress, Holders
      <3>4. SGoto(o, op) /\ UNCHANGED <<members, keyOf, asked, signedIn, consumed>>
        BY <2>4, <3>1 DEF findByEmail
      <3> HIDE DEF op
      <3>5. SignsRight(o)'
        BY <1>0, <2>2, <3>2, <3>3, <3>4 DEF SGoto, MethodTypes, SignsRight, Holders
      <3> QED BY <1>0, <3>2, <3>4, <3>5, AccountsStay DEF MethodsInv
    <2>5. CASE linksByEmail(o)
      <3>1. PICK a \in Members : a = signOps[o].a
        BY <2>5 DEF MethodsInv, SignsRight, linksByEmail, SAt
      <3>2. members[a].there /\ a \in H
        BY <2>1, <2>5, <3>1 DEF MethodsInv, SignsRight, linksByEmail, SAt
      <3>3. CASE Taken(g, Nobody, a)
        BY <1>0, <2>1, <2>5, <3>1, <3>3, AccountsStay DEF linksByEmail, SEnd, MethodsInv
      <3>4. CASE ~Taken(g, Nobody, a)
        <4> DEFINE user == [members[a] EXCEPT !.google = g]
                   op == [signOps[o] EXCEPT !.kind = "returns"]
        <4>1. user \in Member /\ user.there /\ user.challenge = members[a].challenge /\ user.email = members[a].email
              /\ user.google = g /\ user.password = members[a].password
          BY <1>0, <3>2 DEF Member
        <4>2. op \in SignOp /\ op.kind = "returns" /\ op.g = g /\ op.e = e /\ op.a = a /\ op.held = H
          BY <2>0, <2>1, <3>1 DEF SignOp, Calling
        <4>3. Write(o, a, user, op) /\ UNCHANGED <<asked, consumed, keyOf, signedIn>>
          BY <2>1, <2>5, <3>1, <3>4 DEF linksByEmail
        <4>4. \A b \in Members \ {a} : members[b].google # g
          BY <2>3, <3>4 DEF Taken, Linked
        <4>5. \A b \in Members \ {a} : members[b].there => members[b].email # members[a].email
          BY <3>2 DEF MethodsInv, WaysApart
        <4>6. members[a].email # Nobody
          BY <3>2 DEF MethodsInv, There
        <4> HIDE DEF user, op
        <4> QED BY <1>0, <2>2, <2>3, <3>2, <4>1, <4>2, <4>3, <4>4, <4>5, <4>6, MemberWrittenBy
      <3> QED BY <3>3, <3>4
    <2>6. CASE createsMember(o)
      <3>1. PICK a \in Members : a = signOps[o].a
        BY <2>6 DEF MethodsInv, SignsRight, createsMember, SAt
      <3>3. CASE Taken(g, e, Nobody) \/ members[a].there
        BY <1>0, <2>1, <2>6, <3>1, <3>3, AccountsStay DEF createsMember, SEnd, MethodsInv
      <3>4. CASE ~(Taken(g, e, Nobody) \/ members[a].there)
        <4> DEFINE user == [Absent EXCEPT !.there = TRUE, !.google = g, !.email = e]
                   op == [signOps[o] EXCEPT !.kind = "returns", !.held = @ \cup {a}]
        <4>1. user \in Member /\ user.there /\ user.challenge = 0 /\ user.email = e /\ user.google = g
          BY DEF Member, Absent
        <4>2. op \in SignOp /\ op.kind = "returns" /\ op.g = g /\ op.e = e /\ op.a = a /\ op.held = H \cup {a}
          BY <2>0, <2>1, <3>1 DEF SignOp, Calling
        <4>3. Write(o, a, user, op) /\ UNCHANGED <<asked, consumed, keyOf, signedIn>>
          BY <2>1, <2>6, <3>1, <3>4 DEF createsMember
        <4>4. \A b \in Members : b # Nobody
          BY MethodsAssumption DEF Nobody
        <4>5. \A b \in Members \ {a} : members[b].google # g
          BY <2>3, <3>4, <4>4 DEF Taken, Linked
        <4>6. \A b \in Members \ {a} : members[b].there => members[b].email # e
          BY <2>3, <3>4, <4>4 DEF Taken, HasAddress
        <4> HIDE DEF user, op
        <4> QED BY <1>0, <2>2, <2>3, <3>4, <4>1, <4>2, <4>3, <4>5, <4>6, MemberWrittenBy
      <3> QED BY <3>3, <3>4
    <2>7. CASE loginByUserId(o)
      <3>1. signedIn' = [by |-> signOps[o].g, to |-> signOps[o].a, held |-> signOps[o].held] /\ signOps[o].a \in signOps[o].held
        BY <2>7 DEF loginByUserId, MethodsInv, SignsRight, SAt
      <3>2. signedIn'.to \in signedIn'.held
        BY <3>1
      <3> QED BY <1>0, <2>7, <3>2, AccountsStay DEF loginByUserId, SEnd
    <2> QED BY <1>2, <2>4, <2>5, <2>6, <2>7
  <1> QED BY <1>1, <1>2

(* A challenge is cleared before its answer counts. *)
LEMMA PasskeysKeep ==
  ASSUME MethodsInv, NEW o \in SignOps, PasskeySteps(o)
  PROVE  MethodsInv'
  <1>0. MethodTypes /\ keyOf \in [Passkeys -> Members \cup {Nobody}] /\ members \in [Members -> Member] /\ NoSign \in SignOp
        /\ asked \in Seq(Members) /\ consumed \subseteq DOMAIN asked
    BY DEF MethodsInv, MethodTypes, SignOp
  <1>1. ASSUME NEW a \in Members, NEW k \in Passkeys, NEW c \in DOMAIN asked, NEW kind \in {"clearsToAdd", "clearsToGrant"},
               verifyBegins(o, a, k, c, kind)
        PROVE  MethodsInv'
    <2>0. PICK late \in BOOLEAN : late <=> c \in consumed
      <3>1. CASE c \in consumed
        BY <3>1
      <3>2. CASE c \notin consumed
        BY <3>2
      <3> QED BY <3>1, <3>2
    <2>1. (c \in consumed) = late
      BY <2>0, Zenon
    <2> DEFINE op == [kind |-> kind, a |-> a, k |-> k, c |-> c, expected |-> members[a].challenge, late |-> late]
    <2>2. op \in SignOp /\ op.kind = kind /\ op.a = a /\ op.c = c /\ op.expected = members[a].challenge /\ op.late = late
      BY <1>0 DEF SignOp, Verifying, Member
    <2>3. SGoto(o, op) /\ UNCHANGED <<members, keyOf, asked, signedIn, consumed>> /\ members[a].challenge # 0
      BY <1>1, <2>1 DEF verifyBegins
    <2>4. members[a].challenge \in DOMAIN asked \ consumed /\ asked[members[a].challenge] = a
      BY <2>3 DEF MethodsInv, There
    <2> HIDE DEF op
    <2>5. SignsRight(o)'
      BY <1>0, <2>1, <2>2, <2>3, <2>4 DEF SGoto, MethodTypes, SignsRight
    <2> QED BY <1>0, <2>2, <2>3, <2>5, AccountsStay DEF MethodsInv
  <1>2. CASE clears(o)
    <2>1. signOps[o] \in Verifying /\ signOps[o].kind \in {"clearsToAdd", "clearsToGrant"}
      BY <1>0, <1>2, SignOpsAre DEF clears
    <2>2. PICK a \in Members : a = signOps[o].a
      BY <2>1 DEF Verifying
    <2>3. members' = [members EXCEPT ![a] = [members[a] EXCEPT !.challenge = 0]]
          /\ consumed' = consumed \cup {signOps[o].expected} /\ UNCHANGED <<keyOf, asked, signedIn>>
      BY <1>2, <2>2 DEF clears
    <2>4. signOps[o].expected \in DOMAIN asked /\ asked[signOps[o].expected] = a
          /\ (signOps[o].late => signOps[o].c # signOps[o].expected)
      BY <2>1, <2>2 DEF MethodsInv, SignsRight
    <2>5. /\ members' \in [Members -> Member]
          /\ \A b \in Members :
            /\ members'[b].there = members[b].there /\ members'[b].google = members[b].google
            /\ members'[b].email = members[b].email /\ (members[b].password => members'[b].password)
            /\ members'[b].challenge = IF b = a THEN 0 ELSE members[b].challenge
      BY <1>0, <2>3 DEF Member
    <2>6. \A b \in Members : members'[b].challenge # 0 =>
            members'[b].challenge \in DOMAIN asked' \ consumed' /\ asked'[members'[b].challenge] = b
      BY <2>3, <2>4, <2>5 DEF MethodsInv, There
    <2>7. PICK op \in SignOp : SGoto(o, op) /\ op.kind \in {"free", "adds", "grants"} /\ (op.kind = "grants" => ~op.late)
      <3>1. CASE signOps[o].c # signOps[o].expected
        <4>1. SGoto(o, NoSign) /\ NoSign.kind = "free"
          BY <1>2, <3>1 DEF clears, SEnd, NoSign
        <4> QED BY <1>0, <4>1
      <3>2. CASE signOps[o].c = signOps[o].expected
        <4>1. PICK kind \in {"adds", "grants"} : SGoto(o, [signOps[o] EXCEPT !.kind = kind])
          BY <1>2, <3>2 DEF clears
        <4>2. [signOps[o] EXCEPT !.kind = kind] \in Verifying /\ [signOps[o] EXCEPT !.kind = kind].kind = kind
              /\ [signOps[o] EXCEPT !.kind = kind].late = signOps[o].late
          BY <2>1 DEF Verifying
        <4> QED BY <2>4, <3>2, <4>1, <4>2 DEF SignOp
      <3> QED BY <3>1, <3>2
    <2>8. signOps' \in [SignOps -> SignOp] /\ signOps'[o] = op /\ \A q \in SignOps \ {o} : signOps'[q] = signOps[q]
      BY <1>0, <2>7 DEF SGoto, MethodTypes
    <2>9. SignsRight(o)'
      BY <2>7, <2>8 DEF SignsRight
    <2> QED BY <1>0, <2>3, <2>4, <2>5, <2>6, <2>8, <2>9, MethodsQuiet DEF MethodsInv
  <1>3. CASE addsPasskey(o)
    <2>1. signOps[o].a \in Members
      BY <1>0, <1>3, SignOpsAre DEF addsPasskey, SAt, Verifying
    <2>2. keyOf' \in [Passkeys -> Members \cup {Nobody}]
      BY <1>0, <1>3, <2>1 DEF addsPasskey
    <2> QED BY <1>0, <1>3, <2>2, AccountsStay DEF addsPasskey, SEnd, MethodsInv
  <1>4. CASE grantsSudo(o)
    <2>1. ~signOps[o].late
      BY <1>4 DEF grantsSudo, SAt, MethodsInv, SignsRight
    <2>2. signedIn' = signedIn \/ signedIn'.to \in signedIn'.held
      BY <1>4, <2>1 DEF grantsSudo
    <2> QED BY <1>0, <1>4, <2>2, AccountsStay DEF grantsSudo, SEnd, MethodsInv
  <1>5. ASSUME NEW a \in Members, NEW k \in Passkeys, verifyPasskeyLogin(o, a, k) PROVE MethodsInv'
    <2> DEFINE op == [kind |-> "grants", a |-> a, k |-> k, late |-> FALSE]
    <2>1. op \in SignOp /\ op.kind = "grants" /\ ~op.late
      BY DEF SignOp, Entering
    <2>2. SGoto(o, op) /\ UNCHANGED <<members, keyOf, asked, signedIn, consumed>>
      BY <1>5 DEF verifyPasskeyLogin
    <2> HIDE DEF op
    <2>3. SignsRight(o)'
      BY <1>0, <2>1, <2>2 DEF SGoto, MethodTypes, SignsRight
    <2> QED BY <1>0, <2>1, <2>2, <2>3, AccountsStay DEF MethodsInv
  <1> QED BY <1>1, <1>2, <1>3, <1>4, <1>5 DEF PasskeySteps, verifyPasskeyRegistration, verifySudoPasskey

LEMMA MethodsStep == MethodsInv /\ [MethodsNext]_methodVars => MethodsInv'
  <1> SUFFICES ASSUME MethodsInv, [MethodsNext]_methodVars PROVE MethodsInv'
    OBVIOUS
  <1>1. CASE AccountSteps
    BY <1>1, RegisterKeeps, SettingKeeps DEF AccountSteps
  <1>2. CASE KeySteps
    <2>1. ASSUME NEW k \in Passkeys, deletePasskeyForUser(k) PROVE MethodsInv'
      <3>1. keyOf' \in [Passkeys -> Members \cup {Nobody}]
        BY <2>1 DEF deletePasskeyForUser, MethodsInv, MethodTypes
      <3> QED BY <2>1, <3>1, MethodsQuiet DEF deletePasskeyForUser, MethodsInv, MethodTypes, There
    <2> QED BY <1>2, <2>1, SettingKeeps DEF KeySteps, getPasskeyRegistrationOptions, getSudoPasskeyOptions
  <1>3. ASSUME NEW o \in SignOps, GoogleSteps(o) PROVE MethodsInv'
    BY <1>3, ConnectionsKeep, CallbackKeeps DEF GoogleSteps
  <1>4. ASSUME NEW o \in SignOps, PasskeySteps(o) PROVE MethodsInv'
    BY <1>4, PasskeysKeep
  <1>5. CASE UNCHANGED methodVars
    BY <1>5, MethodsQuiet DEF methodVars, MethodsInv, MethodTypes, There
  <1> QED BY <1>1, <1>2, <1>3, <1>4, <1>5 DEF MethodsNext

(* For any members, identities, addresses and passkeys, and any handlers
   that overlap: an account keeps a way in, and whoever is let in was let
   into an account whose method it used (google.service.ts, the passkeys
   of auth.service.ts). *)
THEOREM MethodsHoldAlways == MethodsSpec => []MethodsHold
  <1> QED BY MethodsBegin, MethodsStep, MethodsHoldThen, PTL DEF MethodsSpec

-----------------------------------------------------------------------------
(* Whatever of the two a behaviour is of: no link outlives its password,
   and each is let in by a method of the account it enters
   (password-reset.service.ts, google.service.ts, auth.service.ts). *)
THEOREM WaysAreOwn == FocusSpec => []WaysIn
  <1>1. FocusInit => IInv /\ MethodsInv
    BY InitInv, MethodsBegin DEF FocusInit
  <1>2. IInv /\ MethodsInv /\ [FocusNext]_<<focus, vars, methodVars>> => IInv' /\ MethodsInv'
    <2>1. [FocusNext]_<<focus, vars, methodVars>> => [Next]_vars /\ [MethodsNext]_methodVars
      BY DEF FocusNext, MethodsNext
    <2> QED BY <2>1, NextInv, MethodsStep
  <1>3. IInv /\ MethodsInv => WaysIn
    BY MethodsHoldThen DEF IInv, LinksOK, WaysIn
  <1> QED BY <1>1, <1>2, <1>3, PTL DEF FocusSpec

-----------------------------------------------------------------------------
(* The streak of an account. *)
Actives == [at : {"active"}, current : Nat \ {0}, began : Int, zoneAfter : BOOLEAN]
Moves == [at : {"zone"}, zone : Zones]
Warnings == [at : {"warn", "tell"}, day : Int]
Edits == [at : {"edit", "heat", "newDay"}, project : Works, kind : {"created", "edited"}, day : Int]
Turns == {NoTurn} \cup Actives \cup Moves \cup Warnings \cup Edits
StreakRow == [current : Nat, lastActive : Int, zone : Zones, zoneAt : Int, zoneAfter : BOOLEAN, warnedFor : Int]
StreakTypes ==
    /\ clock \in Nat /\ streak \in StreakRow /\ warned \in SUBSET (Int \X BOOLEAN)
    /\ began \in Int /\ hops \in Nat /\ tops \in [StreakOps -> Turns]
    /\ dayEdits \in SUBSET (Works \X Int) /\ DOMAIN heat \subseteq Int
    /\ \A day \in DOMAIN heat : heat[day] \in [created : Nat, edited : Nat]

LEMMA Division ==
    ASSUME NEW t \in Int
    PROVE  t \div DAY \in Int /\ DAY * (t \div DAY) <= t /\ t < DAY * (t \div DAY) + DAY
  <1>1. DAY \in Int /\ DAY > 0
    BY StreakAssumption
  <1>2. t \div DAY \in Int
    BY <1>1
  <1>3. DAY * (t \div DAY) <= t
    BY <1>1
  <1>4. t < DAY * (t \div DAY) + DAY
    BY <1>1
  <1> QED BY <1>2, <1>3, <1>4

LEMMA DayBelow ==
    ASSUME NEW t \in Int, NEW n \in Int, t < DAY * n
    PROVE  t \div DAY < n
  BY StreakAssumption, Division

LEMMA DayFrom ==
    ASSUME NEW t \in Int, NEW n \in Int, t >= DAY * n
    PROVE  t \div DAY >= n
  BY StreakAssumption, Division

LEMMA TurnKinds ==
    ASSUME NEW turn \in Turns
    PROVE  /\ turn.at = "idle" => turn = NoTurn
           /\ turn.at = "active" => turn \in Actives
           /\ turn.at = "zone" => turn \in Moves
           /\ turn.at \in {"warn", "tell"} => turn \in Warnings
           /\ turn.at \in {"edit", "heat", "newDay"} => turn \in Edits
  BY DEF Turns, NoTurn, Actives, Moves, Warnings, Edits

LEMMA KeysAreInt == ASSUME NEW t \in Int, NEW z \in Zones PROVE dayKey(t, z) \in Int
  BY StreakAssumption, Division DEF dayKey

LEMMA StreakTypesBegin == StreakInit => StreakTypes
  <1> SUFFICES ASSUME StreakInit
               PROVE  StreakTypes
    OBVIOUS
  <1>1. streak \in StreakRow
    BY StreakAssumption DEF StreakInit, StreakRow, Never
  <1>2. tops \in [StreakOps -> Turns]
    BY DEF StreakInit, Turns
  <1>3. DOMAIN heat = {}
    BY DEF StreakInit
  <1> QED BY <1>1, <1>2, <1>3, StreakAssumption DEF StreakInit, StreakTypes

LEMMA StreakTypesKept == StreakTypes /\ StreakNext => StreakTypes'
  <1> SUFFICES ASSUME StreakTypes, StreakNext
               PROVE  StreakTypes'
    OBVIOUS
  <1> USE DEF StreakTypes, heatVars
  <1>1. CASE tick
    BY <1>1 DEF tick
  <1>2. CASE resetLapsedStreaks
    <2>1. streak' \in StreakRow
      BY <1>2 DEF resetLapsedStreaks, StreakRow
    <2> QED BY <1>2, <2>1 DEF resetLapsedStreaks
  <1>0. NoTurn \in Turns
    BY DEF Turns
  <1>3. ASSUME NEW o \in StreakOps, updateStreak(o)
        PROVE  StreakTypes'
    <2>1. \A n \in Nat \ {0}, b \in Int : [at |-> "active", current |-> n, began |-> b, zoneAfter |-> FALSE] \in Turns
      BY DEF Turns, Actives
    <2>2. streak.current + 1 \in Nat \ {0} /\ clock \in Int
      BY DEF StreakRow
    <2>3. tops' \in [StreakOps -> Turns]
      BY <1>3, <2>1, <2>2 DEF updateStreak, Turn
    <2> QED BY <1>3, <2>3 DEF updateStreak
  <1>4. ASSUME NEW o \in StreakOps, writeStreak(o)
        PROVE  StreakTypes'
    <2>1. tops[o] \in Actives
      BY <1>4, TurnKinds DEF writeStreak
    <2>2. streak' \in StreakRow
      <3>1. PICK n \in Nat, t \in Int, b \in BOOLEAN : n = tops[o].current /\ t = clock /\ b = tops[o].zoneAfter
        BY <2>1 DEF Actives
      <3>2. streak' = [streak EXCEPT !.current = n, !.lastActive = t, !.zoneAfter = b]
        BY <1>4, <3>1 DEF writeStreak
      <3>3. streak \in StreakRow
        OBVIOUS
      <3> QED BY ONLY <3>1, <3>2, <3>3 DEF StreakRow
    <2> QED BY <1>0, <1>4, <2>1, <2>2 DEF writeStreak, Actives, Over
  <1>5. ASSUME NEW o \in StreakOps, NEW z \in Zones, setTimezone(o, z)
        PROVE  StreakTypes'
    <2>1. [at |-> "zone", zone |-> z] \in Turns
      BY DEF Turns, Moves
    <2> QED BY <1>5, <2>1 DEF setTimezone, Turn
  <1>6. ASSUME NEW o \in StreakOps, writeZone(o)
        PROVE  StreakTypes'
    <2>1. tops[o] \in Moves
      BY <1>6, TurnKinds DEF writeZone
    <2>2. streak' \in StreakRow
      <3>1. PICK z \in Zones, t \in Int : z = tops[o].zone /\ t = clock
        BY <2>1 DEF Moves
      <3>2. streak' = [streak EXCEPT !.zone = z, !.zoneAt = t, !.zoneAfter = TRUE]
        BY <1>6, <3>1 DEF writeZone
      <3>3. streak \in StreakRow
        OBVIOUS
      <3> QED BY ONLY <3>1, <3>2, <3>3 DEF StreakRow
    <2>3. \A turn \in Turns : turn.at = "active" => [turn EXCEPT !.zoneAfter = TRUE] \in Turns
      <3> SUFFICES ASSUME NEW turn \in Turns, turn.at = "active"
                   PROVE  [turn EXCEPT !.zoneAfter = TRUE] \in Turns
        OBVIOUS
      <3>1. turn \in Actives
        BY TurnKinds
      <3>2. [turn EXCEPT !.zoneAfter = TRUE] \in Actives
        BY <3>1 DEF Actives
      <3> QED BY <3>2 DEF Turns
    <2>4. tops' \in [StreakOps -> Turns]
      BY <1>0, <1>6, <2>3 DEF writeZone
    <2> QED BY <1>6, <2>2, <2>4 DEF writeZone
  <1>7. ASSUME NEW o \in StreakOps, sendStreakWarnings(o)
        PROVE  StreakTypes'
    <2>1. dayKey(clock, streak.zone) \in Int
      BY KeysAreInt DEF StreakRow
    <2>2. [at |-> "warn", day |-> dayKey(clock, streak.zone)] \in Turns
      BY <2>1 DEF Turns, Warnings
    <2> QED BY <1>7, <2>2 DEF sendStreakWarnings, Turn
  <1>8. ASSUME NEW o \in StreakOps, claimWarning(o)
        PROVE  StreakTypes'
    <2>1. tops[o] \in Warnings
      BY <1>8, TurnKinds DEF claimWarning
    <2>2. [tops[o] EXCEPT !.at = "tell"] \in Turns
      <3>1. [tops[o] EXCEPT !.at = "tell"] \in Warnings
        BY <2>1 DEF Warnings
      <3> QED BY <3>1 DEF Turns
    <2>3. tops' \in [StreakOps -> Turns]
      BY <1>0, <1>8, <2>2 DEF claimWarning, Over
    <2>4. streak' \in StreakRow
      BY <1>8, <2>1 DEF claimWarning, StreakRow, Warnings
    <2> QED BY <1>8, <2>3, <2>4 DEF claimWarning
  <1>9. ASSUME NEW o \in StreakOps, notifyStreakWarning(o)
        PROVE  StreakTypes'
    <2>1. tops[o].day \in Int
      BY <1>9, TurnKinds DEF notifyStreakWarning, Warnings
    <2>2. PICK first \in BOOLEAN : first = (\A w \in warned : w[1] # tops[o].day)
      OBVIOUS
    <2>3. warned' \in SUBSET (Int \X BOOLEAN)
      <3>1. warned' = warned \/ warned' = warned \cup {<<tops[o].day, first>>}
        BY <1>9, <2>2 DEF notifyStreakWarning
      <3> QED BY <2>1, <3>1
    <2> QED BY <1>0, <1>9, <2>3 DEF notifyStreakWarning, Over
  <1>10. ASSUME NEW o \in StreakOps, NEW project \in Works, NEW kind \in {"created", "edited"},
                recordHeatmapEvent(o, project, kind)
         PROVE  StreakTypes'
    <2>1. dayKey(clock, streak.zone) \in Int
      BY KeysAreInt DEF StreakRow
    <2>2. [at |-> "edit", project |-> project, kind |-> kind, day |-> dayKey(clock, streak.zone)] \in Turns
      BY <2>1 DEF Turns, Edits
    <2> QED BY <1>10, <2>2 DEF recordHeatmapEvent, Turn
  <1>11. ASSUME NEW turn \in Edits, NEW at \in {"heat", "newDay"}
         PROVE  [turn EXCEPT !.at = at] \in Turns
    <2>1. [turn EXCEPT !.at = at] \in Edits
      BY DEF Edits
    <2> QED BY <2>1 DEF Turns
  <1>12. ASSUME NEW o \in StreakOps, createEdit(o)
         PROVE  StreakTypes'
    <2>1. tops[o] \in Edits
      BY <1>12, TurnKinds DEF createEdit
    <2>2. dayEdits' \in SUBSET (Works \X Int)
      BY <1>12, <2>1 DEF createEdit, Edits
    <2>3. tops' \in [StreakOps -> Turns]
      BY <1>0, <1>11, <1>12, <2>1 DEF createEdit, Over
    <2> QED BY <1>12, <2>2, <2>3 DEF createEdit
  <1>13. ASSUME NEW o \in StreakOps, incrementHeatmapDay(o)
         PROVE  StreakTypes'
    <2> DEFINE turn == tops[o]
               start == IF turn.day \in DOMAIN heat THEN heat[turn.day] ELSE [created |-> 0, edited |-> 0]
    <2>1. turn \in Edits /\ turn.day \in Int /\ turn.kind \in {"created", "edited"}
      BY <1>13, TurnKinds DEF incrementHeatmapDay, Edits
    <2>2. tops' \in [StreakOps -> Turns]
      BY <1>0, <1>11, <1>13, <2>1 DEF incrementHeatmapDay, Over
    <2>3. start \in [created : Nat, edited : Nat]
      OBVIOUS
    <2>4. [start EXCEPT ![turn.kind] = @ + 1] \in [created : Nat, edited : Nat]
      <3> HIDE DEF start
      <3>1. CASE turn.kind = "created"
        BY <2>3, <3>1
      <3>2. CASE turn.kind = "edited"
        BY <2>3, <3>2
      <3> QED BY <2>1, <3>1, <3>2
    <2>5. DOMAIN heat' \subseteq Int /\ \A day \in DOMAIN heat' : heat'[day] \in [created : Nat, edited : Nat]
      <3>1. CASE heat' = heat
        BY <3>1
      <3>2. CASE heat' = [day \in DOMAIN heat \cup {turn.day} |->
                            IF day = turn.day THEN [start EXCEPT ![turn.kind] = @ + 1] ELSE heat[day]]
        <4> HIDE DEF start
        <4> QED BY <2>1, <2>4, <3>2
      <3> QED BY <1>13, <3>1, <3>2 DEF incrementHeatmapDay
    <2> QED BY <1>13, <2>2, <2>5 DEF incrementHeatmapDay
  <1> QED BY <1>1, <1>2, <1>3, <1>4, <1>5, <1>6, <1>7, <1>8, <1>9, <1>10, <1>12, <1>13 DEF StreakNext, Living, Warning, Authoring

(* The days a streak may have by the time it was kept up: those between,
   in units, with what is left of a day at each change of zone. *)
Past(t) == t + streak.zone - DAY * dayKey(t, streak.zone)
Allowed(days, t, from) == DAY * (days - 1) + Past(t) <= t - from + (DAY - 1) * (hops + 1)
DaysInv ==
    /\ began <= clock
    /\ streak.lastActive # Never => Allowed(streak.current, streak.lastActive, began)
    /\ \A o \in StreakOps : tops[o].at = "active" =>
           tops[o].began <= clock /\ Allowed(tops[o].current, clock, tops[o].began)
    /\ streak.lastActive # Never /\ streak.current = 0 => streak.lastActive < Cutoff

LEMMA PartOfDay ==
    ASSUME NEW t \in Int, NEW z \in Zones
    PROVE  t + z - DAY * dayKey(t, z) \in 0 .. DAY - 1
  <1>1. z \in Int /\ DAY \in Int
    <2>1. DAY \in Int /\ Zones \subseteq Int
      BY StreakAssumption
    <2> QED BY <2>1
  <1>2. PICK key : key = dayKey(t, z)
    OBVIOUS
  <1>3. key \in Int /\ DAY * key <= t + z /\ t + z < DAY * key + DAY
    BY <1>1, <1>2, Division DEF dayKey
  <1> QED BY <1>1, <1>2, <1>3

LEMMA PastBounds ==
    ASSUME NEW t \in Int, streak.zone \in Zones
    PROVE  Past(t) \in Int /\ 0 <= Past(t) /\ Past(t) <= DAY - 1
  BY PartOfDay DEF Past

LEMMA DaysFits ==
    ASSUME StreakTypes, DaysInv
    PROVE  ZeroedAreDead /\ DaysAllowed
  <1>0. /\ clock \in Nat /\ streak.zone \in Zones /\ streak.lastActive \in Int /\ streak.current \in Nat
        /\ began \in Int /\ hops \in Nat /\ DAY \in Nat \ {0} /\ AHEAD \in Nat
    BY StreakAssumption DEF StreakTypes, StreakRow
  <1>1. ZeroedAreDead
    <2> SUFFICES ASSUME streak.lastActive # Never, streak.current = 0, NEW z \in Zones \ BitWest, Alive(z)
                 PROVE  FALSE
      BY DEF ZeroedAreDead
    <2>1. z \in Int /\ z <= AHEAD /\ z >= -DAY /\ ~(1 <= -z /\ -z <= DAY - AHEAD - 1)
      BY <1>0, StreakAssumption DEF BitWest
    <2>2. PICK k \in Int : k = clock \div DAY
      BY <1>0, Division
    <2>3. DAY * k <= clock
      BY <1>0, <2>2, Division
    <2>4. streak.lastActive < (k - 1) * DAY - AHEAD
      BY <2>2 DEF DaysInv, Cutoff
    <2>5. PICK t \in Int : t = streak.lastActive
      BY <1>0
    <2>6. CASE z >= 0
      <3>1. t + z < DAY * (k - 1) /\ clock + z >= DAY * k
        BY <1>0, <2>1, <2>3, <2>4, <2>5, <2>6
      <3>2. dayKey(t, z) < k - 1
        BY <1>0, <2>1, <3>1, DayBelow DEF dayKey
      <3>3. dayKey(clock, z) >= k
        BY <1>0, <2>1, <3>1, DayFrom DEF dayKey
      <3>4. dayKey(t, z) \in Int /\ dayKey(clock, z) \in Int
        BY <1>0, KeysAreInt
      <3> QED BY <2>5, <3>2, <3>3, <3>4 DEF Alive
    <2>7. CASE -z >= DAY - AHEAD
      <3>1. t + z < DAY * (k - 2) /\ clock + z >= DAY * (k - 1)
        BY <1>0, <2>1, <2>3, <2>4, <2>5, <2>7
      <3>2. dayKey(t, z) < k - 2
        BY <1>0, <2>1, <3>1, DayBelow DEF dayKey
      <3>3. dayKey(clock, z) >= k - 1
        BY <1>0, <2>1, <3>1, DayFrom DEF dayKey
      <3>4. dayKey(t, z) \in Int /\ dayKey(clock, z) \in Int
        BY <1>0, KeysAreInt
      <3> QED BY <2>5, <3>2, <3>3, <3>4 DEF Alive
    <2> QED BY <1>0, <2>1, <2>6, <2>7
  <1>2. DaysAllowed
    <2> SUFFICES ASSUME streak.lastActive # Never
                 PROVE  streak.current <= (streak.lastActive - began) \div DAY + 2 + hops
      BY DEF DaysAllowed
    <2>1. PICK gone \in Int : gone = streak.lastActive - began
      BY <1>0
    <2>2. PICK q \in Int : q = gone \div DAY
      BY <2>1, Division
    <2>3. gone < DAY * q + DAY
      BY <2>2, Division
    <2>4. PICK n \in Int : n = streak.current - 1
      BY <1>0
    <2>5. DAY * n <= gone + (DAY - 1) * (hops + 1)
      BY <1>0, <2>1, <2>4, PastBounds DEF DaysInv, Allowed
    <2>6. (DAY - 1) * (hops + 1) <= DAY * (hops + 1)
      BY <1>0
    <2>7. DAY * n < DAY * (q + hops + 2)
      BY <1>0, <2>3, <2>5, <2>6
    <2>8. n < q + hops + 2
      BY <1>0, <2>7
    <2> QED BY <1>0, <2>1, <2>2, <2>4, <2>8
  <1> QED BY <1>1, <1>2

LEMMA DaysBegin == StreakInit => DaysInv
  BY StreakAssumption DEF StreakInit, DaysInv, NoTurn, Never

(* A day counted for the first time, or after the last. *)
LEMMA FirstDay ==
    ASSUME StreakTypes
    PROVE  Allowed(1, clock, clock)
  <1>1. Past(clock) \in Int /\ Past(clock) <= DAY - 1 /\ hops \in Nat /\ DAY \in Nat \ {0} /\ clock \in Nat
    BY PastBounds, StreakAssumption DEF StreakTypes, StreakRow
  <1>2. (DAY - 1) * (hops + 1) >= DAY - 1
    BY <1>1
  <1> QED BY <1>1, <1>2 DEF Allowed

LEMMA NextDay ==
    ASSUME StreakTypes, NEW days \in Int, NEW t \in Int, NEW from \in Int, Allowed(days, t, from),
           dayKey(t, streak.zone) = dayKey(clock, streak.zone) - 1
    PROVE  Allowed(days + 1, clock, from)
  <1>1. PICK key \in Int : key = dayKey(t, streak.zone)
    BY KeysAreInt DEF StreakTypes, StreakRow
  <1>2. dayKey(clock, streak.zone) = key + 1
    BY <1>1, KeysAreInt DEF StreakTypes, StreakRow
  <1>3. PICK z \in Int : z = streak.zone
    <2>1. Zones \subseteq Int
      BY StreakAssumption
    <2> QED BY <2>1 DEF StreakTypes, StreakRow
  <1>4. PICK room \in Int : room = (DAY - 1) * (hops + 1)
    BY StreakAssumption DEF StreakTypes
  <1>5. DAY * (days - 1) + (t + z - DAY * key) <= t - from + room
    BY <1>1, <1>3, <1>4 DEF Allowed, Past
  <1>6. DAY * ((days + 1) - 1) + (clock + z - DAY * (key + 1)) <= clock - from + room
    BY <1>5, StreakAssumption DEF StreakTypes
  <1> QED BY <1>2, <1>3, <1>4, <1>6 DEF Allowed, Past

LEMMA AuthorsOnly ==
    ASSUME StreakTypes, NEW o \in StreakOps, Authoring(o)
    PROVE  /\ \A p \in StreakOps \ {o} : tops'[p] = tops[p]
           /\ tops'[o].at \in {"idle", "edit", "heat", "newDay"}
  <1>0. tops \in [StreakOps -> Turns]
    BY DEF StreakTypes
  <1>1. ASSUME NEW at \in {"heat", "newDay"}, tops[o].at \in {"edit", "heat", "newDay"}, tops' = [tops EXCEPT ![o].at = at]
        PROVE  (\A p \in StreakOps \ {o} : tops'[p] = tops[p]) /\ tops'[o].at = at
    <2>1. tops[o] \in Edits
      BY <1>0, <1>1, TurnKinds
    <2> QED BY <1>0, <1>1, <2>1 DEF Edits
  <1>2. ASSUME tops' = [tops EXCEPT ![o] = NoTurn]
        PROVE  (\A p \in StreakOps \ {o} : tops'[p] = tops[p]) /\ tops'[o].at = "idle"
    BY <1>0, <1>2 DEF NoTurn
  <1>3. CASE createEdit(o)
    BY <1>1, <1>2, <1>3 DEF createEdit, Over
  <1>4. CASE incrementHeatmapDay(o)
    BY <1>1, <1>2, <1>4 DEF incrementHeatmapDay, Over
  <1>5. ASSUME NEW project \in Works, NEW kind \in {"created", "edited"}, recordHeatmapEvent(o, project, kind)
        PROVE  (\A p \in StreakOps \ {o} : tops'[p] = tops[p]) /\ tops'[o].at = "edit"
    <2>1. \E day : tops' = [tops EXCEPT ![o] = [at |-> "edit", project |-> project, kind |-> kind, day |-> day]]
      BY <1>5 DEF recordHeatmapEvent, Turn
    <2> QED BY <1>0, <2>1
  <1> QED BY <1>3, <1>4, <1>5 DEF Authoring

LEMMA DaysKept == StreakTypes /\ StreakTypes' /\ DaysInv /\ StreakNext => DaysInv'
  <1> SUFFICES ASSUME StreakTypes, StreakTypes', DaysInv, StreakNext
               PROVE  DaysInv'
    OBVIOUS
  <1>0. /\ clock \in Nat /\ clock' \in Nat /\ began \in Int /\ hops \in Nat /\ hops' \in Nat
        /\ streak \in StreakRow /\ streak' \in StreakRow /\ tops \in [StreakOps -> Turns]
        /\ DAY \in Nat \ {0} /\ AHEAD \in Nat
    BY StreakAssumption DEF StreakTypes
  <1>same. ASSUME UNCHANGED <<clock, began, hops>>, streak'.zone = streak.zone, streak'.lastActive = streak.lastActive,
                  streak'.current = streak.current,
                  \A p \in StreakOps : tops'[p].at = "active" => tops'[p] = tops[p]
           PROVE  DaysInv'
    BY <1>same DEF DaysInv, Allowed, Past, Cutoff
  <1>1. CASE tick
    <2>1. clock' = clock + 1 /\ UNCHANGED <<streak, began, hops, tops>> /\ \A o \in StreakOps : tops[o].at # "active"
      BY <1>1 DEF tick
    <2>2. Cutoff <= Cutoff'
      <3>1. PICK k \in Int : k = clock \div DAY
        BY <1>0, Division
      <3>2. (clock + 1) \div DAY >= k /\ (clock + 1) \div DAY \in Int
        BY <1>0, <3>1, Division, DayFrom
      <3> QED BY <1>0, <2>1, <3>1, <3>2 DEF Cutoff
    <2>3. Cutoff \in Int /\ Cutoff' \in Int /\ streak.lastActive \in Int
      BY <1>0, <2>1, Division DEF Cutoff, StreakRow
    <2> QED BY <1>0, <2>1, <2>2, <2>3 DEF DaysInv, Allowed, Past
  <1>2. CASE resetLapsedStreaks
    <2>1. /\ streak.current > 0 /\ streak.lastActive < Cutoff
          /\ streak' = [streak EXCEPT !.current = 0] /\ UNCHANGED <<clock, warned, began, hops, tops, heatVars>>
      BY <1>2 DEF resetLapsedStreaks
    <2>2. streak'.current = 0 /\ streak'.lastActive = streak.lastActive /\ streak'.zone = streak.zone
      BY <1>0, <2>1 DEF StreakRow
    <2>3. streak.lastActive # Never => Allowed(0, streak.lastActive, began)
      <3>1. Past(streak.lastActive) \in Int /\ streak.current \in Nat
        BY <1>0, PastBounds DEF StreakRow
      <3>2. DAY * (0 - 1) <= DAY * (streak.current - 1)
        BY <1>0, <3>1
      <3>3. DAY * (0 - 1) \in Int /\ DAY * (streak.current - 1) \in Int /\ (DAY - 1) * (hops + 1) \in Int /\ streak.lastActive \in Int
        BY <1>0, <3>1 DEF StreakRow
      <3> QED BY <1>0, <3>1, <3>2, <3>3 DEF DaysInv, Allowed
    <2> QED BY <2>1, <2>2, <2>3 DEF DaysInv, Allowed, Past, Cutoff
  <1>3. ASSUME NEW o \in StreakOps, updateStreak(o)
        PROVE  DaysInv'
    <2>1. UNCHANGED <<clock, streak, began, hops>>
      BY <1>3 DEF updateStreak
    <2>2. \A p \in StreakOps \ {o} : tops'[p] = tops[p]
      BY <1>0, <1>3 DEF updateStreak, Turn
    <2>3. tops'[o].began <= clock /\ Allowed(tops'[o].current, clock, tops'[o].began)
      <3>1. CASE streak.lastActive # Never /\ dayKey(streak.lastActive, streak.zone) = dayKey(clock, streak.zone) - 1
        <4>1. tops'[o].current = streak.current + 1 /\ tops'[o].began = began
          BY <1>0, <1>3, <3>1 DEF updateStreak, Turn
        <4>2. Allowed(streak.current + 1, clock, began)
          BY <1>0, <3>1, NextDay DEF DaysInv, StreakRow
        <4> QED BY <4>1, <4>2 DEF DaysInv
      <3>2. CASE ~(streak.lastActive # Never /\ dayKey(streak.lastActive, streak.zone) = dayKey(clock, streak.zone) - 1)
        <4>1. tops'[o].current = 1 /\ tops'[o].began = clock
          BY <1>0, <1>3, <3>2 DEF updateStreak, Turn
        <4> QED BY <1>0, <4>1, FirstDay
      <3> QED BY <3>1, <3>2
    <2> QED BY <2>1, <2>2, <2>3 DEF DaysInv, Allowed, Past, Cutoff
  <1>4. ASSUME NEW o \in StreakOps, writeStreak(o)
        PROVE  DaysInv'
    <2>1. tops[o] \in Actives /\ tops[o].at = "active"
      BY <1>0, <1>4, TurnKinds DEF writeStreak
    <2>2. PICK n, b : n = tops[o].current /\ b = tops[o].began
      OBVIOUS
    <2>3. n \in Nat \ {0} /\ b \in Int /\ b <= clock /\ Allowed(n, clock, b)
      BY <2>1, <2>2 DEF Actives, DaysInv
    <2>4. /\ streak'.current = n /\ streak'.lastActive = clock /\ streak'.zone = streak.zone /\ began' = b /\ UNCHANGED clock
          /\ tops'[o] = NoTurn /\ \A p \in StreakOps \ {o} : tops'[p] = tops[p]
      BY <1>0, <1>4, <2>2 DEF writeStreak, Over, StreakRow
    <2>5. NoTurn.at # "active"
      BY DEF NoTurn
    <2>6. CASE hops' = hops
      BY <1>0, <2>3, <2>4, <2>5, <2>6 DEF DaysInv, Allowed, Past
    <2>7. CASE hops' = 0 /\ n = 1 /\ \A p \in StreakOps \ {o} : tops[p].at = "idle"
      <3>1. Past(clock) \in Int /\ Past(clock) <= DAY - 1 /\ Past(clock)' = Past(clock)
        BY <1>0, <2>4, PastBounds DEF StreakRow, Past
      <3>2. Allowed(streak.current, streak.lastActive, began)'
        BY <1>0, <2>3, <2>4, <2>7, <3>1 DEF Allowed, Past
      <3> QED BY <2>3, <2>4, <2>5, <2>7, <3>2 DEF DaysInv
    <2> QED BY <1>4, <2>2, <2>6, <2>7 DEF writeStreak
  <1>5. ASSUME NEW o \in StreakOps, NEW z \in Zones, setTimezone(o, z)
        PROVE  DaysInv'
    <2>1. tops' = [tops EXCEPT ![o] = [at |-> "zone", zone |-> z]] /\ UNCHANGED <<clock, streak, began, hops>>
      BY <1>5 DEF setTimezone, Turn
    <2> QED BY <1>0, <1>same, <2>1
  <1>6. ASSUME NEW o \in StreakOps, writeZone(o)
        PROVE  DaysInv'
    <2>1. /\ streak'.current = streak.current /\ streak'.lastActive = streak.lastActive
          /\ hops' = hops + 1 /\ UNCHANGED <<clock, began>>
      BY <1>0, <1>6 DEF writeZone, StreakRow
    <2>2. ASSUME NEW p \in StreakOps, tops'[p].at = "active"
          PROVE  /\ tops[p].at = "active" /\ tops[p] \in Actives
                 /\ tops'[p].current = tops[p].current /\ tops'[p].began = tops[p].began
      <3>1. p # o
        BY <1>0, <1>6, <2>2 DEF writeZone, NoTurn
      <3>2. tops'[p] = IF tops[p].at = "active" THEN [tops[p] EXCEPT !.zoneAfter = TRUE] ELSE tops[p]
        BY <1>6, <3>1 DEF writeZone
      <3>3. tops[p].at = "active"
        BY <2>2, <3>2
      <3>4. tops[p] \in Actives
        BY <1>0, <3>3, TurnKinds
      <3> QED BY <3>2, <3>3, <3>4 DEF Actives
    <2>3. ASSUME NEW days \in Int, NEW t \in Int, NEW from \in Int, Allowed(days, t, from)
          PROVE  Allowed(days, t, from)'
      <3>1. Past(t) \in Int /\ Past(t) >= 0
        BY <1>0, PastBounds DEF StreakRow
      <3>2. Past(t)' \in Int /\ Past(t)' <= DAY - 1
        <4>1. streak'.zone \in Zones
          BY <1>0 DEF StreakRow
        <4>2. t + streak'.zone - DAY * dayKey(t, streak'.zone) \in 0 .. DAY - 1
          BY <4>1, PartOfDay
        <4> QED BY <1>0, <4>2 DEF Past
      <3> QED BY <1>0, <2>1, <2>3, <3>1, <3>2 DEF Allowed
    <2> QED BY <1>0, <2>1, <2>2, <2>3 DEF DaysInv, StreakRow, Actives, Cutoff
  <1>7. ASSUME NEW o \in StreakOps, sendStreakWarnings(o)
        PROVE  DaysInv'
    <2>1. \E day : tops' = [tops EXCEPT ![o] = [at |-> "warn", day |-> day]]
      BY <1>7 DEF sendStreakWarnings, Turn
    <2>2. UNCHANGED <<clock, streak, began, hops>>
      BY <1>7 DEF sendStreakWarnings
    <2> QED BY <1>0, <1>same, <2>1, <2>2
  <1>8. ASSUME NEW o \in StreakOps, claimWarning(o)
        PROVE  DaysInv'
    <2>1. tops[o] \in Warnings
      BY <1>0, <1>8, TurnKinds DEF claimWarning
    <2>2. streak'.zone = streak.zone /\ streak'.lastActive = streak.lastActive /\ streak'.current = streak.current
      BY <1>0, <1>8 DEF claimWarning, StreakRow
    <2>3. \A p \in StreakOps : tops'[p].at = "active" => tops'[p] = tops[p]
      BY <1>0, <1>8, <2>1 DEF claimWarning, Over, NoTurn, Warnings
    <2> QED BY <1>8, <1>same, <2>2, <2>3 DEF claimWarning
  <1>9. ASSUME NEW o \in StreakOps, notifyStreakWarning(o)
        PROVE  DaysInv'
    <2>1. tops' = [tops EXCEPT ![o] = NoTurn] /\ UNCHANGED <<clock, streak, began, hops>>
      BY <1>9 DEF notifyStreakWarning, Over
    <2> QED BY <1>0, <1>same, <2>1 DEF NoTurn
  <1>10. ASSUME NEW o \in StreakOps, Authoring(o)
         PROVE  DaysInv'
    <2>1. UNCHANGED <<clock, streak, began, hops>>
      BY <1>10 DEF Authoring, recordHeatmapEvent, createEdit, incrementHeatmapDay
    <2>2. \A p \in StreakOps : tops'[p].at = "active" => tops'[p] = tops[p]
      BY <1>10, AuthorsOnly
    <2> QED BY <1>same, <2>1, <2>2
  <1> QED BY <1>1, <1>2, <1>3, <1>4, <1>5, <1>6, <1>7, <1>8, <1>9, <1>10 DEF StreakNext, Living, Warning

(* Until the zone changes, the day warned for is the day of every run
   under way, and it is told by the run that claimed it alone. *)
Today == dayKey(clock, streak.zone)
WarnInv ==
    /\ streak.zoneAt <= clock
    /\ streak.zoneAt = clock => warned = {}
    /\ streak.zoneAt # clock =>
        /\ \A o \in StreakOps : tops[o].at \in {"warn", "tell"} => tops[o].day = Today
        /\ \A w \in warned : w[2] /\ w[1] <= Today
        /\ (\E w \in warned : w[1] = Today) =>
              streak.warnedFor = Today /\ \A o \in StreakOps : tops[o].at # "tell"
        /\ \A o \in StreakOps : tops[o].at = "tell" => streak.warnedFor = Today
        /\ \A o, p \in StreakOps : tops[o].at = "tell" /\ tops[p].at = "tell" => o = p

LEMMA WarnFits == WarnInv => WarnedOnce
  BY DEF WarnInv, WarnedOnce

LEMMA WarnBegins == StreakInit => WarnInv
  BY StreakAssumption DEF StreakInit, WarnInv, Never, NoTurn

LEMMA WarnKept == StreakTypes /\ StreakTypes' /\ WarnInv /\ StreakNext => WarnInv'
  <1> SUFFICES ASSUME StreakTypes, StreakTypes', WarnInv, StreakNext
               PROVE  WarnInv'
    OBVIOUS
  <1>0. /\ clock \in Nat /\ clock' \in Nat /\ streak \in StreakRow /\ streak' \in StreakRow /\ tops \in [StreakOps -> Turns]
        /\ warned \in SUBSET (Int \X BOOLEAN) /\ Today \in Int /\ Today' \in Int /\ streak.zoneAt \in Int
    BY KeysAreInt DEF StreakTypes, StreakRow, Today
  <1>same. ASSUME UNCHANGED <<clock, warned>>, streak'.zone = streak.zone, streak'.zoneAt = streak.zoneAt,
                  streak'.warnedFor = streak.warnedFor,
                  \A p \in StreakOps : tops'[p].at \in {"warn", "tell"} => tops'[p] = tops[p]
           PROVE  WarnInv'
    <2>1. Today' = Today
      BY <1>same DEF Today
    <2> QED BY <1>same, <2>1 DEF WarnInv
  <1>1. CASE tick
    <2>1. clock' = clock + 1 /\ UNCHANGED <<streak, warned, tops>> /\ \A o \in StreakOps : tops[o].at = "idle"
      BY <1>1 DEF tick
    <2>2. Today <= Today'
      <3>0. PICK z \in Int : z = streak.zone
        <4>1. Zones \subseteq Int /\ streak.zone \in Zones
          BY <1>0, StreakAssumption DEF StreakRow
        <4> QED BY <4>1
      <3>1. PICK t \in Int : t = clock + z
        BY <1>0
      <3>2. Today = t \div DAY /\ Today' = (t + 1) \div DAY
        <4>1. clock' + z = t + 1
          BY <1>0, <2>1, <3>1
        <4> QED BY <2>1, <3>0, <3>1, <4>1 DEF Today, dayKey
      <3>3. DAY * (t \div DAY) <= t /\ t \div DAY \in Int
        BY <3>1, Division
      <3>4. t + 1 >= DAY * (t \div DAY)
        BY <3>1, <3>3, StreakAssumption
      <3> QED BY <3>1, <3>2, <3>3, <3>4, DayFrom
    <2>3. streak'.zoneAt <= clock' /\ streak'.zoneAt # clock'
      BY <1>0, <2>1 DEF WarnInv
    <2>4. \A w \in warned : w[2] /\ w[1] \in Int /\ w[1] <= Today
      BY <1>0 DEF WarnInv
    <2>5. ASSUME NEW w \in warned, w[1] = Today'
          PROVE  streak.warnedFor = Today'
      <3>1. w[1] = Today /\ Today' = Today
        BY <1>0, <2>2, <2>4, <2>5
      <3>2. streak.zoneAt # clock
        BY <2>5 DEF WarnInv
      <3> QED BY <3>1, <3>2 DEF WarnInv
    <2>6. \A w \in warned : w[1] <= Today'
      BY <1>0, <2>2, <2>4
    <2> QED BY <2>1, <2>3, <2>4, <2>5, <2>6 DEF WarnInv
  <1>2. CASE resetLapsedStreaks
    BY <1>0, <1>2, <1>same DEF resetLapsedStreaks, StreakRow
  <1>3. ASSUME NEW o \in StreakOps, updateStreak(o)
        PROVE  WarnInv'
    <2>1. UNCHANGED <<clock, streak, warned>>
      BY <1>3 DEF updateStreak
    <2>2. \A p \in StreakOps \ {o} : tops'[p] = tops[p]
      BY <1>0, <1>3 DEF updateStreak, Turn
    <2>3. tops'[o].at = "active"
      BY <1>0, <1>3 DEF updateStreak, Turn
    <2> QED BY <1>same, <2>1, <2>2, <2>3
  <1>4. ASSUME NEW o \in StreakOps, writeStreak(o)
        PROVE  WarnInv'
    <2>1. UNCHANGED <<clock, warned>> /\ tops' = [tops EXCEPT ![o] = NoTurn]
      BY <1>4 DEF writeStreak, Over
    <2>2. streak'.zone = streak.zone /\ streak'.zoneAt = streak.zoneAt /\ streak'.warnedFor = streak.warnedFor
      BY <1>0, <1>4 DEF writeStreak, StreakRow
    <2> QED BY <1>0, <1>same, <2>1, <2>2 DEF NoTurn
  <1>5. ASSUME NEW o \in StreakOps, NEW z \in Zones, setTimezone(o, z)
        PROVE  WarnInv'
    <2>1. tops' = [tops EXCEPT ![o] = [at |-> "zone", zone |-> z]] /\ UNCHANGED <<clock, streak, warned>>
      BY <1>5 DEF setTimezone, Turn
    <2> QED BY <1>0, <1>same, <2>1
  <1>6. ASSUME NEW o \in StreakOps, writeZone(o)
        PROVE  WarnInv'
    <2>1. streak'.zoneAt = clock /\ clock' = clock /\ warned' = {}
      BY <1>0, <1>6 DEF writeZone, StreakRow
    <2> QED BY <1>0, <2>1 DEF WarnInv
  <1>7. ASSUME NEW o \in StreakOps, sendStreakWarnings(o)
        PROVE  WarnInv'
    <2>1. tops' = [tops EXCEPT ![o] = [at |-> "warn", day |-> Today]] /\ UNCHANGED <<clock, streak, warned>>
      BY <1>7 DEF sendStreakWarnings, Turn, Today
    <2>2. Today' = Today
      BY <2>1 DEF Today
    <2>3. \A p \in StreakOps : tops'[p].at = "tell" => tops[p].at = "tell"
      BY <1>0, <2>1
    <2>4. \A p \in StreakOps : tops'[p].at \in {"warn", "tell"} => tops'[p] = tops[p] \/ tops'[p].day = Today
      BY <1>0, <2>1
    <2> QED BY <2>1, <2>2, <2>3, <2>4 DEF WarnInv
  <1>8. ASSUME NEW o \in StreakOps, claimWarning(o)
        PROVE  WarnInv'
    <2>1. tops[o] \in Warnings /\ tops[o].at = "warn" /\ UNCHANGED <<clock, warned>>
      BY <1>0, <1>8, TurnKinds DEF claimWarning
    <2>2. CASE streak.warnedFor = tops[o].day
      <3>1. tops' = [tops EXCEPT ![o] = NoTurn] /\ streak' = streak
        BY <1>8, <2>2 DEF claimWarning, Over
      <3> QED BY <1>0, <1>same, <2>1, <3>1 DEF NoTurn
    <2>3. CASE streak.warnedFor # tops[o].day
      <3>1. tops' = [tops EXCEPT ![o].at = "tell"] /\ streak' = [streak EXCEPT !.warnedFor = tops[o].day]
        BY <1>8, <2>3 DEF claimWarning
      <3>2. streak'.zone = streak.zone /\ streak'.zoneAt = streak.zoneAt /\ streak'.warnedFor = tops[o].day
        BY <1>0, <3>1 DEF StreakRow
      <3>3. tops'[o].at = "tell" /\ tops'[o].day = tops[o].day /\ \A p \in StreakOps \ {o} : tops'[p] = tops[p]
        BY <1>0, <2>1, <3>1 DEF Warnings
      <3>4. Today' = Today
        BY <2>1, <3>2 DEF Today
      <3>5. CASE streak.zoneAt = clock
        BY <2>1, <3>2, <3>5 DEF WarnInv
      <3>6. CASE streak.zoneAt # clock
        <4>1. tops[o].day = Today
          BY <2>1, <3>6 DEF WarnInv
        <4>2. ~\E w \in warned : w[1] = Today
          BY <2>3, <3>6, <4>1 DEF WarnInv
        <4>3. \A p \in StreakOps : tops[p].at # "tell"
          BY <2>3, <3>6, <4>1 DEF WarnInv
        <4>4. \A p \in StreakOps : tops'[p].at = "tell" => p = o
          BY <3>3, <4>3
        <4>5. \A p \in StreakOps : tops'[p].at \in {"warn", "tell"} => tops'[p].day = Today
          BY <3>3, <3>6, <4>1 DEF WarnInv
        <4>6. \A w \in warned : w[2] /\ w[1] <= Today
          BY <3>6 DEF WarnInv
        <4>7. streak'.zoneAt <= clock' /\ streak'.zoneAt # clock'
          BY <2>1, <3>2, <3>6 DEF WarnInv
        <4> QED BY <2>1, <3>2, <3>4, <4>1, <4>2, <4>4, <4>5, <4>6, <4>7 DEF WarnInv
      <3> QED BY <3>5, <3>6
    <2> QED BY <2>2, <2>3
  <1>9. ASSUME NEW o \in StreakOps, notifyStreakWarning(o)
        PROVE  WarnInv'
    <2>1. tops' = [tops EXCEPT ![o] = NoTurn] /\ UNCHANGED <<clock, streak>> /\ tops[o].at = "tell"
      BY <1>9 DEF notifyStreakWarning, Over
    <2>2. Today' = Today
      BY <2>1 DEF Today
    <2>3. tops'[o].at = "idle" /\ \A p \in StreakOps \ {o} : tops'[p] = tops[p]
      BY <1>0, <2>1 DEF NoTurn
    <2>4. CASE streak.zoneAt = clock
      <3>1. warned' = warned
        BY <1>9, <2>4 DEF notifyStreakWarning
      <3> QED BY <2>1, <2>4, <3>1 DEF WarnInv
    <2>5. CASE streak.zoneAt # clock
      <3>1. tops[o].day = Today /\ streak.warnedFor = Today
        BY <2>1, <2>5 DEF WarnInv
      <3>2. \A w \in warned : w[1] # Today
        BY <2>1, <2>5 DEF WarnInv
      <3>3. PICK first \in BOOLEAN : first = (\A w \in warned : w[1] # tops[o].day)
        OBVIOUS
      <3>4. first
        BY <3>1, <3>2, <3>3
      <3>5. warned' = warned \cup {<<tops[o].day, first>>}
        BY <1>9, <2>5, <3>3 DEF notifyStreakWarning
      <3>6. \A w \in warned' : w[2] /\ w[1] <= Today
        <4>1. \A w \in warned : w[2] /\ w[1] <= Today
          BY <2>5 DEF WarnInv
        <4>2. PICK told : told = <<tops[o].day, first>>
          OBVIOUS
        <4>3. told[1] = Today
          BY <3>1, <4>2
        <4>4. told[2] = first
          BY <4>2, Zenon
        <4>5. told[2]
          BY <3>4, <4>4, Zenon
        <4>6. Today <= Today
          BY <1>0
        <4>7. \A w \in warned' : w \in warned \/ w = told
          BY <3>5, <4>2
        <4>8. ASSUME NEW w \in warned'
              PROVE  w[2] /\ w[1] <= Today
          <5>1. CASE w \in warned
            BY <4>1, <5>1, Zenon
          <5>2. CASE w = told
            BY <4>3, <4>5, <4>6, <5>2, Zenon
          <5> QED BY <4>7, <5>1, <5>2
        <4> QED BY <4>8, Zenon
      <3>7. \A p \in StreakOps : tops'[p].at # "tell"
        BY <2>1, <2>3, <2>5 DEF WarnInv
      <3>8. \A p \in StreakOps : tops'[p].at \in {"warn", "tell"} => tops'[p].day = Today
        BY <2>3, <2>5 DEF WarnInv
      <3>9. streak'.zoneAt <= clock' /\ streak'.zoneAt # clock'
        BY <2>1, <2>5 DEF WarnInv
      <3> QED BY <2>1, <2>2, <3>1, <3>6, <3>7, <3>8, <3>9 DEF WarnInv
    <2> QED BY <2>4, <2>5
  <1>10. ASSUME NEW o \in StreakOps, Authoring(o)
         PROVE  WarnInv'
    <2>1. UNCHANGED <<clock, streak, warned>>
      BY <1>10 DEF Authoring, recordHeatmapEvent, createEdit, incrementHeatmapDay
    <2>2. /\ \A p \in StreakOps \ {o} : tops'[p] = tops[p]
          /\ tops'[o].at \in {"idle", "edit", "heat", "newDay"}
      BY <1>0, <1>10, AuthorsOnly
    <2> QED BY <1>same, <2>1, <2>2
  <1> QED BY <1>1, <1>2, <1>3, <1>4, <1>5, <1>6, <1>7, <1>8, <1>9, <1>10 DEF StreakNext, Living, Warning

(* What a day of the heatmap shows, and the calls that have its row and
   not yet its count, are the rows of the day, or fewer if one was lost. *)
DayShown(day) == IF day \in DOMAIN heat THEN heat[day].created + heat[day].edited ELSE 0
DayCounting(day) == {o \in StreakOps : tops[o].at \in {"heat", "newDay"} /\ tops[o].day = day}
DayRows(day) == {e \in dayEdits : e[2] = day}
DayAgrees(day) ==
    /\ DayShown(day) + Cardinality(DayCounting(day)) <= Cardinality(DayRows(day))
    /\ day \notin lost => DayShown(day) + Cardinality(DayCounting(day)) = Cardinality(DayRows(day))
HeatInv == IsFiniteSet(dayEdits) /\ \A day \in Int : DayAgrees(day)

LEMMA DayNumbers ==
    ASSUME StreakTypes, IsFiniteSet(dayEdits), NEW day \in Int
    PROVE  /\ DayShown(day) \in Nat /\ IsFiniteSet(DayCounting(day)) /\ IsFiniteSet(DayRows(day))
           /\ Cardinality(DayCounting(day)) \in Nat /\ Cardinality(DayRows(day)) \in Nat
  <1>1. DayShown(day) \in Nat
    BY DEF StreakTypes, DayShown
  <1>2. DayCounting(day) \in SUBSET StreakOps /\ DayRows(day) \in SUBSET dayEdits
    BY DEF DayCounting, DayRows
  <1>3. IsFiniteSet(DayCounting(day)) /\ IsFiniteSet(DayRows(day))
    BY <1>2, FS_Subset, StreakAssumption
  <1> QED BY <1>1, <1>3, FS_CardinalityType

LEMMA HeatFits ==
    ASSUME StreakTypes, HeatInv
    PROVE  HeatmapAgrees
  <1> SUFFICES ASSUME NEW day \in {e[2] : e \in dayEdits}
               PROVE  /\ DayShown(day) <= Cardinality(DayRows(day)) - Cardinality(DayCounting(day))
                      /\ day \notin lost => DayShown(day) = Cardinality(DayRows(day)) - Cardinality(DayCounting(day))
    BY DEF HeatmapAgrees, getUserActivityHeatmap, DayShown, DayRows, DayCounting
  <1>1. day \in Int
    BY DEF StreakTypes
  <1>2. DayAgrees(day)
    BY <1>1 DEF HeatInv
  <1>3. DayShown(day) \in Nat /\ Cardinality(DayCounting(day)) \in Nat /\ Cardinality(DayRows(day)) \in Nat
    BY <1>1, DayNumbers DEF HeatInv
  <1> QED BY <1>2, <1>3 DEF DayAgrees

LEMMA HeatBegins == StreakInit => HeatInv
  <1> SUFFICES ASSUME StreakInit, NEW day \in Int
               PROVE  IsFiniteSet(dayEdits) /\ DayAgrees(day)
    BY DEF HeatInv
  <1>1. DayShown(day) = 0
    BY DEF StreakInit, DayShown
  <1>2. DayCounting(day) = {} /\ DayRows(day) = {}
    BY DEF StreakInit, NoTurn, DayCounting, DayRows
  <1>3. dayEdits = {}
    BY DEF StreakInit
  <1> QED BY <1>1, <1>2, <1>3, FS_EmptySet DEF DayAgrees

LEMMA HeatKept == StreakTypes /\ HeatInv /\ StreakNext => HeatInv'
  <1> SUFFICES ASSUME StreakTypes, HeatInv, StreakNext
               PROVE  HeatInv'
    OBVIOUS
  <1>0. tops \in [StreakOps -> Turns] /\ IsFiniteSet(dayEdits) /\ dayEdits \in SUBSET (Works \X Int)
    BY DEF StreakTypes, HeatInv
  <1>1. ASSUME UNCHANGED heatVars, \A day \in Int : DayCounting(day)' = DayCounting(day)
        PROVE  HeatInv'
    <2>1. ASSUME NEW day \in Int
          PROVE  DayAgrees(day)'
      <3>1. DayShown(day)' = DayShown(day) /\ DayCounting(day)' = DayCounting(day) /\ DayRows(day)' = DayRows(day) /\ lost' = lost
        BY <1>1 DEF heatVars, DayShown, DayRows
      <3>2. DayAgrees(day)
        BY DEF HeatInv
      <3> QED BY <3>1, <3>2 DEF DayAgrees
    <2> QED BY <1>1, <2>1 DEF HeatInv, heatVars
  (* Nobody but an author waits to count.                                  *)
  <1>2. ASSUME UNCHANGED heatVars,
               \A p \in StreakOps : \/ tops'[p] = tops[p]
                                    \/ tops[p].at \notin {"heat", "newDay"} /\ tops'[p].at \notin {"heat", "newDay"}
        PROVE  HeatInv'
    <2>1. \A day \in Int : DayCounting(day)' = DayCounting(day)
      BY <1>2 DEF DayCounting
    <2> QED BY <1>1, <1>2, <2>1
  <1>3. CASE tick \/ resetLapsedStreaks
    BY <1>2, <1>3 DEF tick, resetLapsedStreaks
  <1>4. ASSUME NEW o \in StreakOps, Living(o) \/ Warning(o)
        PROVE  HeatInv'
    <2>1. UNCHANGED heatVars
      BY <1>4 DEF Living, Warning, updateStreak, writeStreak, writeZone, setTimezone,
                  sendStreakWarnings, claimWarning, notifyStreakWarning, heatVars
    <2>2. ASSUME NEW turn, tops' = [tops EXCEPT ![o] = turn], turn.at \notin {"heat", "newDay"},
                 tops[o].at \notin {"heat", "newDay"}
          PROVE  HeatInv'
      BY <1>0, <1>2, <2>1, <2>2
    <2>3. NoTurn.at = "idle"
      BY DEF NoTurn
    <2>4. CASE updateStreak(o)
      <3>1. \E n, b : tops' = [tops EXCEPT ![o] = [at |-> "active", current |-> n, began |-> b, zoneAfter |-> FALSE]]
        BY <2>4 DEF updateStreak, Turn
      <3>2. PICK n, b : tops' = [tops EXCEPT ![o] = [at |-> "active", current |-> n, began |-> b, zoneAfter |-> FALSE]]
        BY <3>1
      <3>3. tops[o].at = "idle"
        BY <2>4 DEF updateStreak, Turn
      <3> QED BY <2>2, <3>2, <3>3
    <2>5. CASE writeStreak(o)
      BY <2>2, <2>3, <2>5 DEF writeStreak, Over
    <2>6. CASE \E z \in Zones : setTimezone(o, z)
      <3>1. PICK z \in Zones : setTimezone(o, z)
        BY <2>6
      <3> QED BY <2>2, <3>1 DEF setTimezone, Turn
    <2>7. CASE writeZone(o)
      <3>1. \A p \in StreakOps : tops'[p] = IF p = o THEN NoTurn
                ELSE IF tops[p].at = "active" THEN [tops[p] EXCEPT !.zoneAfter = TRUE] ELSE tops[p]
        BY <2>7 DEF writeZone
      <3>2. ASSUME NEW p \in StreakOps, tops[p].at = "active"
            PROVE  [tops[p] EXCEPT !.zoneAfter = TRUE].at = "active"
        <4>1. tops[p] \in Actives
          BY <1>0, <3>2, TurnKinds
        <4> QED BY <4>1, <3>2 DEF Actives
      <3>3. tops[o].at = "zone"
        BY <2>7 DEF writeZone
      <3> QED BY <1>2, <2>1, <2>3, <3>1, <3>2, <3>3
    <2>8. CASE sendStreakWarnings(o)
      BY <2>2, <2>8 DEF sendStreakWarnings, Turn
    <2>9. CASE claimWarning(o)
      <3>1. tops[o] \in Warnings /\ tops[o].at = "warn"
        BY <1>0, <2>9, TurnKinds DEF claimWarning
      <3>2. [tops[o] EXCEPT !.at = "tell"].at = "tell"
        BY <3>1 DEF Warnings
      <3>3. CASE tops' = [tops EXCEPT ![o] = [tops[o] EXCEPT !.at = "tell"]]
        BY <2>2, <3>1, <3>2, <3>3
      <3>4. CASE tops' = [tops EXCEPT ![o] = NoTurn]
        BY <2>2, <2>3, <3>1, <3>4
      <3> QED BY <2>9, <3>3, <3>4 DEF claimWarning, Over
    <2>10. CASE notifyStreakWarning(o)
      BY <2>2, <2>3, <2>10 DEF notifyStreakWarning, Over
    <2> QED BY <1>4, <2>4, <2>5, <2>6, <2>7, <2>8, <2>9, <2>10 DEF Living, Warning
  <1>5. ASSUME NEW o \in StreakOps, NEW project \in Works, NEW kind \in {"created", "edited"},
               recordHeatmapEvent(o, project, kind)
        PROVE  HeatInv'
    <2>1. PICK day : tops' = [tops EXCEPT ![o] = [at |-> "edit", project |-> project, kind |-> kind, day |-> day]]
      BY <1>5 DEF recordHeatmapEvent, Turn
    <2>2. UNCHANGED heatVars /\ tops[o].at = "idle"
      BY <1>5 DEF recordHeatmapEvent, Turn
    <2> QED BY <1>0, <1>2, <2>1, <2>2
  <1>6. ASSUME NEW o \in StreakOps, createEdit(o)
        PROVE  HeatInv'
    <2>1. PICK day, edit : day = tops[o].day /\ edit = <<tops[o].project, tops[o].day>>
      OBVIOUS
    <2>2. tops[o] \in Edits /\ tops[o].at = "edit" /\ day \in Int /\ edit[2] = day
      BY <1>0, <1>6, <2>1, TurnKinds DEF createEdit, Edits
    <2>3. dayEdits' = dayEdits \cup {edit} /\ UNCHANGED <<heat, lost>>
      BY <1>6, <2>1 DEF createEdit
    <2>4. CASE edit \in dayEdits
      <3>1. tops' = [tops EXCEPT ![o] = NoTurn] /\ dayEdits' = dayEdits
        BY <1>6, <2>1, <2>3, <2>4 DEF createEdit, Over
      <3> QED BY <1>0, <1>2, <2>2, <2>3, <3>1 DEF heatVars, NoTurn
    <2>5. CASE edit \notin dayEdits
      <3>1. PICK at \in {"heat", "newDay"} : tops' = [tops EXCEPT ![o].at = at]
        BY <1>6, <2>1, <2>5 DEF createEdit
      <3>2. tops'[o].at = at /\ tops'[o].day = day /\ \A p \in StreakOps \ {o} : tops'[p] = tops[p]
        BY <1>0, <2>1, <2>2, <3>1 DEF Edits
      <3>3. IsFiniteSet(dayEdits)'
        BY <1>0, <2>3, FS_AddElement
      <3>4. ASSUME NEW d \in Int, d # day
            PROVE  DayAgrees(d)'
        <4>1. DayCounting(d)' = DayCounting(d)
          BY <2>1, <2>2, <3>2, <3>4 DEF DayCounting
        <4>2. DayRows(d)' = DayRows(d)
          BY <2>2, <2>3, <3>4 DEF DayRows
        <4>3. DayShown(d)' = DayShown(d) /\ lost' = lost
          BY <2>3 DEF DayShown
        <4>4. DayAgrees(d)
          BY DEF HeatInv
        <4> QED BY <4>1, <4>2, <4>3, <4>4 DEF DayAgrees
      <3>5. DayAgrees(day)'
        <4>1. DayCounting(day)' = DayCounting(day) \cup {o} /\ o \notin DayCounting(day)
          BY <2>2, <3>2 DEF DayCounting
        <4>2. DayRows(day)' = DayRows(day) \cup {edit} /\ edit \notin DayRows(day)
          BY <2>2, <2>3, <2>5 DEF DayRows
        <4>3. DayShown(day)' = DayShown(day) /\ lost' = lost
          BY <2>3 DEF DayShown
        <4>4. /\ DayShown(day) \in Nat /\ IsFiniteSet(DayCounting(day)) /\ IsFiniteSet(DayRows(day))
              /\ Cardinality(DayCounting(day)) \in Nat /\ Cardinality(DayRows(day)) \in Nat
          BY <1>0, <2>2, DayNumbers
        <4>5. Cardinality(DayCounting(day) \cup {o}) = Cardinality(DayCounting(day)) + 1
          BY <4>1, <4>4, FS_AddElement
        <4>6. Cardinality(DayRows(day) \cup {edit}) = Cardinality(DayRows(day)) + 1
          BY <4>2, <4>4, FS_AddElement
        <4>7. DayAgrees(day)
          BY <2>2 DEF HeatInv
        <4> QED BY <4>1, <4>2, <4>3, <4>4, <4>5, <4>6, <4>7 DEF DayAgrees
      <3>6. ASSUME NEW d \in Int
            PROVE  DayAgrees(d)'
        BY <3>4, <3>5
      <3> QED BY <3>3, <3>6 DEF HeatInv
    <2> QED BY <2>4, <2>5
  <1>7. ASSUME NEW o \in StreakOps, incrementHeatmapDay(o)
        PROVE  HeatInv'
    <2>1. PICK day, kind : day = tops[o].day /\ kind = tops[o].kind
      OBVIOUS
    <2>2. tops[o] \in Edits /\ tops[o].at \in {"heat", "newDay"} /\ day \in Int /\ kind \in {"created", "edited"}
      BY <1>0, <1>7, <2>1, TurnKinds DEF incrementHeatmapDay, Edits
    <2>3. dayEdits' = dayEdits
      BY <1>7 DEF incrementHeatmapDay
    <2>4. CASE tops' = [tops EXCEPT ![o].at = "heat"] /\ UNCHANGED <<heat, lost>>
      <3>1. tops'[o].at = "heat" /\ tops'[o].day = day /\ \A p \in StreakOps \ {o} : tops'[p] = tops[p]
        BY <1>0, <2>1, <2>2, <2>4 DEF Edits
      <3>2. \A d \in Int : DayCounting(d)' = DayCounting(d)
        BY <2>1, <2>2, <3>1 DEF DayCounting
      <3> QED BY <1>1, <2>3, <2>4, <3>2 DEF heatVars
    <2>5. CASE /\ tops' = [tops EXCEPT ![o] = NoTurn]
               /\ \/ /\ lost' = lost /\ DayShown(day)' = DayShown(day) + 1
                     /\ \A d \in Int \ {day} : DayShown(d)' = DayShown(d)
                  \/ heat' = heat /\ lost' = lost \cup {day}
      <3>1. tops'[o].at = "idle" /\ \A p \in StreakOps \ {o} : tops'[p] = tops[p]
        BY <1>0, <2>5 DEF NoTurn
      <3>2. \A d \in Int : DayRows(d)' = DayRows(d)
        BY <2>3 DEF DayRows
      <3>3. ASSUME NEW d \in Int, d # day
            PROVE  DayAgrees(d)'
        <4>1. DayCounting(d)' = DayCounting(d)
          BY <2>1, <2>2, <3>1, <3>3 DEF DayCounting
        <4>2. DayShown(d)' = DayShown(d) /\ (d \in lost' <=> d \in lost)
          BY <2>5, <3>3 DEF DayShown
        <4>3. DayAgrees(d)
          BY DEF HeatInv
        <4> QED BY <3>2, <4>1, <4>2, <4>3 DEF DayAgrees
      <3>4. DayAgrees(day)'
        <4>1. DayCounting(day)' = DayCounting(day) \ {o} /\ o \in DayCounting(day)
          BY <2>1, <2>2, <3>1 DEF DayCounting
        <4>2. /\ DayShown(day) \in Nat /\ IsFiniteSet(DayCounting(day))
              /\ Cardinality(DayCounting(day)) \in Nat /\ Cardinality(DayRows(day)) \in Nat
          BY <1>0, <2>2, DayNumbers
        <4>3. Cardinality(DayCounting(day) \ {o}) = Cardinality(DayCounting(day)) - 1
          BY <4>1, <4>2, FS_RemoveElement
        <4>4. DayAgrees(day) /\ DayRows(day)' = DayRows(day)
          BY <2>2, <3>2 DEF HeatInv
        <4>5. CASE lost' = lost /\ DayShown(day)' = DayShown(day) + 1
          BY <4>1, <4>2, <4>3, <4>4, <4>5 DEF DayAgrees
        <4>6. CASE heat' = heat /\ lost' = lost \cup {day}
          <5>1. DayShown(day)' = DayShown(day) /\ day \in lost'
            BY <4>6 DEF DayShown
          <5> QED BY <4>1, <4>2, <4>3, <4>4, <5>1 DEF DayAgrees
        <4> QED BY <2>5, <4>5, <4>6
      <3>5. ASSUME NEW d \in Int
            PROVE  DayAgrees(d)'
        BY <3>3, <3>4
      <3> QED BY <1>0, <2>3, <3>5 DEF HeatInv
    <2>6. PICK start : start = IF day \in DOMAIN heat THEN heat[day] ELSE [created |-> 0, edited |-> 0]
      OBVIOUS
    <2>7. ASSUME heat' = [d \in DOMAIN heat \cup {day} |->
                            IF d = day THEN [start EXCEPT ![kind] = @ + 1] ELSE heat[d]]
          PROVE  DayShown(day)' = DayShown(day) + 1 /\ \A d \in Int \ {day} : DayShown(d)' = DayShown(d)
      <3>1. start \in [created : Nat, edited : Nat] /\ DayShown(day) = start.created + start.edited
        BY <2>6 DEF StreakTypes, DayShown
      <3>2. PICK row : row = [start EXCEPT ![kind] = @ + 1]
        OBVIOUS
      <3>3. row.created + row.edited = start.created + start.edited + 1
        <4>1. CASE kind = "created"
          BY <3>1, <3>2, <4>1
        <4>2. CASE kind = "edited"
          BY <3>1, <3>2, <4>2
        <4> QED BY <2>2, <4>1, <4>2
      <3>4. DOMAIN heat' = DOMAIN heat \cup {day} /\ heat'[day] = row
        BY <2>7, <3>2
      <3>5. \A d \in DOMAIN heat : d # day => heat'[d] = heat[d]
        BY <2>7
      <3>6. DayShown(day)' = row.created + row.edited
        BY <3>4 DEF DayShown
      <3>7. \A d \in Int \ {day} : DayShown(d)' = DayShown(d)
        BY <3>4, <3>5 DEF DayShown
      <3> QED BY <3>1, <3>3, <3>6, <3>7
    <2>8. \/ tops' = [tops EXCEPT ![o].at = "heat"] /\ UNCHANGED <<heat, lost>>
          \/ /\ tops' = [tops EXCEPT ![o] = NoTurn]
             /\ \/ heat' = [d \in DOMAIN heat \cup {day} |->
                              IF d = day THEN [start EXCEPT ![kind] = @ + 1] ELSE heat[d]] /\ lost' = lost
                \/ heat' = heat /\ lost' = lost \cup {day}
      BY <1>7, <2>1, <2>6 DEF incrementHeatmapDay, Over
    <2> QED BY <2>4, <2>5, <2>7, <2>8
  <1> QED BY <1>3, <1>4, <1>5, <1>6, <1>7 DEF StreakNext, Authoring

(* The streak, its warnings and the heatmap of an account stay honest
   whatever its zones and however the handlers and the jobs interleave. *)
THEOREM StreaksAreHonest == StreakSpec => []StreakHonest
  <1> DEFINE StreakInv == StreakTypes /\ DaysInv /\ WarnInv /\ HeatInv
  <1>1. StreakInit => StreakInv
    BY StreakTypesBegin, DaysBegin, WarnBegins, HeatBegins
  <1>2. StreakInv /\ [StreakNext]_streakVars => StreakInv'
    <2> SUFFICES ASSUME StreakInv, [StreakNext]_streakVars
                 PROVE  StreakInv'
      OBVIOUS
    <2>1. CASE StreakNext
      BY <2>1, StreakTypesKept, DaysKept, WarnKept, HeatKept
    <2>2. CASE UNCHANGED streakVars
      <3>1. UNCHANGED <<clock, streak, warned, began, hops, dayEdits, heat, lost, tops>>
        BY <2>2 DEF streakVars, heatVars
      <3>2. StreakTypes'
        BY <3>1 DEF StreakTypes
      <3>3. DaysInv'
        BY <3>1 DEF DaysInv, Allowed, Past, Cutoff
      <3>4. WarnInv'
        BY <3>1 DEF WarnInv, Today
      <3>5. HeatInv'
        BY <3>1 DEF HeatInv, DayAgrees, DayShown, DayCounting, DayRows
      <3> QED BY <3>2, <3>3, <3>4, <3>5
    <2> QED BY <2>1, <2>2
  <1>3. StreakInv => StreakHonest
    BY DaysFits, WarnFits, HeatFits DEF StreakHonest
  <1> QED BY <1>1, <1>2, <1>3, PTL DEF StreakSpec

-----------------------------------------------------------------------------
(* Reports. *)
Filing == [at : {"file", "news"}, met : BOOLEAN, reporter : Reporters, previous : {"none", "open", "dismissed", "actioned"}]
Deciding == [at : {"act", "settle", "tell"}, met : BOOLEAN, outcome : {"dismissed", "actioned"}, open : SUBSET Reporters, tell : BOOLEAN]
Report == [status : {"none", "open", "dismissed", "actioned"}, told : {"none", "dismissed", "actioned"},
           news : BOOLEAN, mixed : BOOLEAN]
ReportTypes ==
    /\ target \in BOOLEAN
    /\ reports \in [Reporters -> Report]
    /\ rops \in [ReportOps -> {NoOp} \cup Filing \cup Deciding]

ReportsMeet == \A o, p \in ReportOps : o # p /\ Busy(o) /\ Busy(p) => rops[o].met
(* The target goes first. *)
ActsFirst ==
    /\ \A o \in ReportOps : rops[o].at \in {"settle", "tell"} /\ rops[o].outcome = "actioned" => ~target
    /\ \A o \in ReportOps : rops[o].at = "act" => rops[o].outcome = "actioned"
(* What a handler that met no other read still holds. *)
StillOpen ==
    \A o \in ReportOps : ~rops[o].met =>
        /\ rops[o].at = "file" => rops[o].previous = reports[rops[o].reporter].status
        /\ rops[o].at \in {"act", "settle"} /\ rops[o].tell => rops[o].open = OpenReports
        /\ rops[o].at = "tell" => \A r \in rops[o].open : reports[r].status = rops[o].outcome
(* Who settles for the owner tells nobody, and never dismisses. *)
OwnerActions == \A o \in ReportOps : rops[o].at = "settle" /\ ~rops[o].tell => rops[o].outcome = "actioned"
(* What a report that no two handlers wrote still owes is under way. *)
Owed ==
    \A r \in Reporters : ~reports[r].mixed =>
        /\ reports[r].status = "dismissed" /\ reports[r].told # "dismissed" =>
              \E o \in ReportOps : rops[o].at = "tell" /\ r \in rops[o].open /\ rops[o].outcome = "dismissed"
        /\ reports[r].status = "open" /\ ~reports[r].news =>
              \E o \in ReportOps : rops[o].at = "news" /\ rops[o].reporter = r
ReportInv == ReportTypes /\ ReportsMeet /\ ActsFirst /\ ActionedIsGone /\ StillOpen /\ OwnerActions /\ Owed

LEMMA ReportsBegin == ReportsInit => ReportInv
  BY DEF ReportsInit, ReportInv, ReportTypes, ReportsMeet, ActsFirst, ActionedIsGone, StillOpen, OwnerActions, Owed,
     NoReport, NoOp, Report, Busy

(* A handler that begins finds the others as they are, and meets them. *)
LEMMA BeginMeets ==
    ASSUME ReportTypes, ReportsMeet, NEW o \in ReportOps, NEW op \in Filing \cup Deciding, Begin(o, op), op.met = AnyBusy
    PROVE  /\ rops' \in [ReportOps -> {NoOp} \cup Filing \cup Deciding]
           /\ ~Busy(o) /\ rops'[o] = op
           /\ \A p \in ReportOps \ {o} :
                 /\ Busy(p) => /\ rops'[p].met /\ rops'[p].at = rops[p].at
                               /\ rops[p] \in Filing => rops'[p] \in Filing /\ rops'[p].reporter = rops[p].reporter
                               /\ rops[p] \in Deciding => /\ rops'[p] \in Deciding /\ rops'[p].outcome = rops[p].outcome
                                                          /\ rops'[p].open = rops[p].open /\ rops'[p].tell = rops[p].tell
                 /\ ~Busy(p) => rops'[p] = rops[p]
           /\ ReportsMeet'
  <1>1. ~Busy(o) /\ rops'[o] = op
    BY DEF Begin
  <1>2. ASSUME NEW p \in ReportOps \ {o}
        PROVE  /\ Busy(p) => /\ rops'[p].met /\ rops'[p].at = rops[p].at
                             /\ rops[p] \in Filing => rops'[p] \in Filing /\ rops'[p].reporter = rops[p].reporter
                             /\ rops[p] \in Deciding => /\ rops'[p] \in Deciding /\ rops'[p].outcome = rops[p].outcome
                                                        /\ rops'[p].open = rops[p].open /\ rops'[p].tell = rops[p].tell
               /\ ~Busy(p) => rops'[p] = rops[p]
    <2>1. rops[p] \in {NoOp} \cup Filing \cup Deciding
      BY DEF ReportTypes
    <2>2. CASE Busy(p)
      <3>1. rops'[p] = [rops[p] EXCEPT !.met = TRUE]
        BY <2>2 DEF Begin
      <3>2. rops[p] \in Filing \cup Deciding
        BY <2>1, <2>2 DEF Busy, NoOp
      <3> QED BY <2>2, <3>1, <3>2 DEF Filing, Deciding
    <2>3. CASE ~Busy(p)
      BY <2>3 DEF Begin
    <2> QED BY <2>2, <2>3
  <1>3. rops' \in [ReportOps -> {NoOp} \cup Filing \cup Deciding]
    <2> SUFFICES ASSUME NEW p \in ReportOps
                 PROVE  rops'[p] \in {NoOp} \cup Filing \cup Deciding
      BY DEF Begin
    <2>1. rops[p] \in {NoOp} \cup Filing \cup Deciding
      BY DEF ReportTypes
    <2> QED BY <1>1, <1>2, <2>1 DEF Busy, NoOp
  <1>4. ReportsMeet'
    <2> SUFFICES ASSUME NEW p \in ReportOps, NEW x \in ReportOps, p # x, Busy(p)', Busy(x)'
                 PROVE  rops'[p].met
      BY DEF ReportsMeet
    <2>1. CASE p = o
      <3>1. Busy(x)
        BY <1>1, <1>2, <2>1 DEF Busy
      <3> QED BY <1>1, <2>1, <3>1 DEF AnyBusy
    <2>2. CASE p # o
      BY <1>2, <2>2 DEF Busy
    <2> QED BY <2>1, <2>2
  <1> QED BY <1>1, <1>2, <1>3, <1>4

(* What holds when a handler has begun: nothing else changed, and who met
   nobody is alone. *)
LEMMA BeginKeeps ==
    ASSUME ReportInv, NEW o \in ReportOps, NEW op \in Filing \cup Deciding, Begin(o, op), op.met = AnyBusy,
           reports' = reports, target' = target \/ target' = FALSE, target' \in BOOLEAN,
           op.at = "file" \/ op.at = "act" \/ op.at = "settle",
           op.at = "file" => op \in Filing /\ op.previous = reports[op.reporter].status,
           op.at # "file" => /\ op \in Deciding /\ (op.tell => op.open = OpenReports)
                             /\ op.at = "act" => op.outcome = "actioned"
                             /\ op.at = "settle" /\ op.outcome = "actioned" => ~target'
                             /\ ~op.tell => op.outcome = "actioned"
    PROVE  ReportInv'
  <1> USE DEF ReportInv
  <1>1. /\ rops' \in [ReportOps -> {NoOp} \cup Filing \cup Deciding]
        /\ ~Busy(o) /\ rops'[o] = op
        /\ \A p \in ReportOps \ {o} :
              /\ Busy(p) => /\ rops'[p].met /\ rops'[p].at = rops[p].at
                            /\ rops[p] \in Filing => rops'[p] \in Filing /\ rops'[p].reporter = rops[p].reporter
                            /\ rops[p] \in Deciding => /\ rops'[p] \in Deciding /\ rops'[p].outcome = rops[p].outcome
                                                       /\ rops'[p].open = rops[p].open /\ rops'[p].tell = rops[p].tell
              /\ ~Busy(p) => rops'[p] = rops[p]
        /\ ReportsMeet'
    BY BeginMeets, Zenon
  <1>2. ReportTypes'
    BY <1>1 DEF ReportTypes
  <1>3. OpenReports' = OpenReports
    BY DEF OpenReports
  <1>4. \A p \in ReportOps : rops[p].at \in {"act", "settle", "tell"} => rops[p] \in Deciding
    BY DEF ReportTypes, NoOp, Filing
  <1>5. \A p \in ReportOps : rops[p].at \in {"file", "news"} => rops[p] \in Filing
    BY DEF ReportTypes, NoOp, Deciding
  <1>6. ActsFirst'
    <2> SUFFICES ASSUME NEW p \in ReportOps
                 PROVE  /\ rops'[p].at \in {"settle", "tell"} /\ rops'[p].outcome = "actioned" => ~target'
                        /\ rops'[p].at = "act" => rops'[p].outcome = "actioned"
      BY DEF ActsFirst
    <2>1. CASE p = o
      BY <1>1, <2>1
    <2>2. CASE p # o /\ Busy(p)
      BY <1>1, <1>4, <2>2 DEF ActsFirst
    <2>3. CASE p # o /\ ~Busy(p)
      BY <1>1, <2>3 DEF Busy
    <2> QED BY <2>1, <2>2, <2>3
  <1>7. ActionedIsGone'
    BY DEF ActionedIsGone
  <1>8. StillOpen'
    <2> SUFFICES ASSUME NEW p \in ReportOps, ~rops'[p].met
                 PROVE  /\ rops'[p].at = "file" => rops'[p].previous = reports[rops'[p].reporter].status
                        /\ rops'[p].at \in {"act", "settle"} /\ rops'[p].tell => rops'[p].open = OpenReports
                        /\ rops'[p].at = "tell" => \A r \in rops'[p].open : reports[r].status = rops'[p].outcome
      BY <1>3 DEF StillOpen
    <2>1. CASE p = o
      BY <1>1, <2>1
    <2>2. CASE p # o
      BY <1>1, <2>2 DEF Busy
    <2> QED BY <2>1, <2>2
  <1>9. OwnerActions'
    <2> SUFFICES ASSUME NEW p \in ReportOps, rops'[p].at = "settle", ~rops'[p].tell
                 PROVE  rops'[p].outcome = "actioned"
      BY DEF OwnerActions
    <2>1. CASE p = o
      BY <1>1, <2>1
    <2>2. CASE p # o
      BY <1>1, <1>4, <2>2 DEF Busy, OwnerActions
    <2> QED BY <2>1, <2>2
  <1>10. Owed'
    <2> SUFFICES ASSUME NEW r \in Reporters, ~reports[r].mixed
                 PROVE  /\ reports[r].status = "dismissed" /\ reports[r].told # "dismissed" =>
                              \E p \in ReportOps : rops'[p].at = "tell" /\ r \in rops'[p].open /\ rops'[p].outcome = "dismissed"
                        /\ reports[r].status = "open" /\ ~reports[r].news =>
                              \E p \in ReportOps : rops'[p].at = "news" /\ rops'[p].reporter = r
      BY DEF Owed
    <2>1. ASSUME NEW p \in ReportOps, rops[p].at = "tell", r \in rops[p].open, rops[p].outcome = "dismissed"
          PROVE  rops'[p].at = "tell" /\ r \in rops'[p].open /\ rops'[p].outcome = "dismissed"
      BY <1>1, <1>4, <2>1 DEF Busy
    <2>2. ASSUME NEW p \in ReportOps, rops[p].at = "news", rops[p].reporter = r
          PROVE  rops'[p].at = "news" /\ rops'[p].reporter = r
      BY <1>1, <1>5, <2>2 DEF Busy
    <2> QED BY <2>1, <2>2 DEF Owed
  <1> QED BY <1>1, <1>2, <1>6, <1>7, <1>8, <1>9, <1>10

(* A step of a handler that is under way: the others stay as they are. *)
OthersGoOn(o) == \A p \in ReportOps \ {o} : rops'[p] = rops[p]
LEMMA AloneUnlessMet ==
    ASSUME ReportInv, NEW o \in ReportOps, Busy(o)
    PROVE  \A p \in ReportOps \ {o} : Busy(p) => rops[p].met /\ rops[o].met
  BY DEF ReportInv, ReportsMeet

(* What a handler writes into a report. *)
LEMMA FiledIs ==
    ASSUME NEW report \in Report, NEW op \in Filing
    PROVE  /\ Filed(report, op) \in Report
           /\ Filed(report, op).status = "open" /\ Filed(report, op).told = report.told
           /\ op.previous = "open" /\ report.news => Filed(report, op).news
           /\ ~Filed(report, op).mixed => ~op.met /\ (op.previous = "open" => ~report.mixed)
  <1>1. Filed(report, op) \in Report
    BY DEF Filed, Report, Filing
  <1>2. Filed(report, op).status = "open" /\ Filed(report, op).told = report.told
    BY DEF Filed, Report
  <1>3. op.previous = "open" /\ report.news => Filed(report, op).news
    BY DEF Filed, Report
  <1>4. ~Filed(report, op).mixed => ~op.met /\ (op.previous = "open" => ~report.mixed)
    BY DEF Filed, Report, Filing
  <1> QED BY <1>1, <1>2, <1>3, <1>4

LEMMA SettledByIs ==
    ASSUME NEW report \in Report, NEW op \in Deciding
    PROVE  /\ SettledBy(report, op) \in Report
           /\ SettledBy(report, op).status = op.outcome /\ SettledBy(report, op).told = report.told
           /\ ~SettledBy(report, op).mixed => ~op.met /\ ~report.mixed
  <1>1. SettledBy(report, op) \in Report
    BY DEF SettledBy, Report, Deciding
  <1>2. SettledBy(report, op).status = op.outcome /\ SettledBy(report, op).told = report.told
    BY DEF SettledBy, Report
  <1>3. ~SettledBy(report, op).mixed => ~op.met /\ ~report.mixed
    BY DEF SettledBy, Report, Deciding
  <1> QED BY <1>1, <1>2, <1>3

LEMMA ToldByIs ==
    ASSUME NEW report \in Report, NEW op \in Deciding
    PROVE  /\ ToldBy(report, op) \in Report
           /\ ToldBy(report, op).status = report.status /\ ToldBy(report, op).told = op.outcome
           /\ ToldBy(report, op).news = report.news
           /\ ~ToldBy(report, op).mixed => ~op.met /\ ~report.mixed
  <1>1. ToldBy(report, op) \in Report
    BY DEF ToldBy, Report, Deciding
  <1>2. ToldBy(report, op).status = report.status /\ ToldBy(report, op).told = op.outcome
    BY DEF ToldBy, Report
  <1>3. ToldBy(report, op).news = report.news
    BY DEF ToldBy, Report
  <1>4. ~ToldBy(report, op).mixed => ~op.met /\ ~report.mixed
    BY DEF ToldBy, Report, Deciding
  <1> QED BY <1>1, <1>2, <1>3, <1>4

LEMMA UpsertKeeps ==
    ASSUME ReportInv, NEW o \in ReportOps, upsertReport(o)
    PROVE  ReportInv'
  <1> USE DEF ReportInv
  <1>1. rops[o] \in Filing /\ rops[o].at = "file" /\ Busy(o)
    BY DEF upsertReport, ReportTypes, NoOp, Deciding, Busy
  <1> DEFINE r == rops[o].reporter
  <1>2. r \in Reporters
    BY <1>1 DEF Filing
  <1>3. PICK again \in BOOLEAN : again = (rops[o].previous = "open")
    OBVIOUS
  <1>4. reports[r] \in Report
    BY <1>2 DEF ReportTypes
  <1>5. PICK row : row = Filed(reports[r], rops[o])
    OBVIOUS
  <1>6. /\ row \in Report /\ row.status = "open" /\ row.told = reports[r].told
        /\ again /\ reports[r].news => row.news
        /\ ~row.mixed => ~rops[o].met /\ (again => ~reports[r].mixed)
    BY <1>1, <1>3, <1>4, <1>5, FiledIs
  <1>7. reports' = [reports EXCEPT ![r] = row]
    BY <1>5 DEF upsertReport
  <1>8. reports'[r] = row
        /\ \A x \in Reporters \ {r} : reports'[x] = reports[x]
    BY <1>2, <1>7 DEF ReportTypes
  <1>9. target' = target /\ OthersGoOn(o)
    BY DEF upsertReport, End, Next_, OthersGoOn, ReportTypes
  <1>10. rops'[o] = IF again THEN NoOp ELSE [rops[o] EXCEPT !.at = "news"]
    BY <1>3 DEF upsertReport, End, Next_, ReportTypes
  <1>101. again => rops'[o].at = "idle" /\ ~rops'[o].met
    BY <1>10 DEF NoOp
  <1>11. ~again => rops'[o] \in Filing /\ rops'[o].at = "news" /\ rops'[o].reporter = r /\ rops'[o].met = rops[o].met
    BY <1>1, <1>2, <1>10 DEF Filing
  <1>12. ReportTypes'
    <2>1. reports' \in [Reporters -> Report]
      BY <1>6, <1>7 DEF ReportTypes
    <2>2. rops' \in [ReportOps -> {NoOp} \cup Filing \cup Deciding]
      BY <1>10, <1>11 DEF upsertReport, End, Next_, ReportTypes
    <2> QED BY <1>9, <2>1, <2>2 DEF ReportTypes
  <1>13. ReportsMeet'
    BY <1>1, <1>9, <1>101, <1>11 DEF ReportsMeet, OthersGoOn, Busy
  <1>14. ActsFirst' /\ OwnerActions'
    BY <1>9, <1>101, <1>11 DEF ActsFirst, OwnerActions, OthersGoOn
  <1>15. ActionedIsGone'
    BY <1>2, <1>6, <1>8, <1>9 DEF ActionedIsGone
  <1>16. \A p \in ReportOps \ {o} : Busy(p) => rops[p].met /\ rops[o].met
    BY <1>1, AloneUnlessMet
  <1>17. StillOpen'
    <2> SUFFICES ASSUME NEW p \in ReportOps, ~rops'[p].met
                 PROVE  /\ rops'[p].at = "file" => rops'[p].previous = reports'[rops'[p].reporter].status
                        /\ rops'[p].at \in {"act", "settle"} /\ rops'[p].tell => rops'[p].open = OpenReports'
                        /\ rops'[p].at = "tell" => \A x \in rops'[p].open : reports'[x].status = rops'[p].outcome
      BY DEF StillOpen
    <2>1. CASE p = o
      BY <1>101, <1>11, <2>1
    <2>2. CASE p # o
      BY <1>9, <1>16, <2>2 DEF OthersGoOn, Busy
    <2> QED BY <2>1, <2>2
  <1>18. ASSUME NEW x \in Reporters, ~reports'[x].mixed
         PROVE  /\ reports'[x].status = "dismissed" /\ reports'[x].told # "dismissed" =>
                      \E p \in ReportOps : rops'[p].at = "tell" /\ x \in rops'[p].open /\ rops'[p].outcome = "dismissed"
                /\ reports'[x].status = "open" /\ ~reports'[x].news =>
                      \E p \in ReportOps : rops'[p].at = "news" /\ rops'[p].reporter = x
    <2>1. CASE x # r
      BY <1>1, <1>2, <1>8, <1>9, <1>18, <2>1 DEF Owed, OthersGoOn
    <2>2. CASE x = r
      <3>1. ~row.mixed /\ ~rops[o].met
        BY <1>6, <1>8, <1>18, <2>2
      <3>2. CASE ~again
        BY <1>6, <1>8, <1>11, <2>2, <3>2
      <3>3. CASE again
        <4>1. reports[r].status = "open" /\ ~reports[r].mixed
          BY <1>1, <1>2, <1>3, <1>6, <3>1, <3>3 DEF StillOpen
        <4>2. \A p \in ReportOps : rops[p].at # "news"
          BY <1>1, <1>16, <3>1 DEF Busy
        <4>3. reports[r].news
          BY <1>2, <4>1, <4>2 DEF Owed
        <4> QED BY <1>6, <1>8, <2>2, <3>3, <4>3
      <3> QED BY <3>2, <3>3
    <2> QED BY <2>1, <2>2
  <1>19. Owed'
    BY <1>18 DEF Owed
  <1> QED BY <1>12, <1>13, <1>14, <1>15, <1>17, <1>19

LEMMA MeetKept ==
    ASSUME ReportInv, NEW o \in ReportOps, Busy(o), OthersGoOn(o),
           rops'[o].at = "idle" \/ rops'[o].met = rops[o].met
    PROVE  ReportsMeet'
  BY DEF ReportInv, ReportsMeet, OthersGoOn, Busy

(* Who goes on beside a handler has met it: what it read is not asked for. *)
LEMMA OthersStillOpen ==
    ASSUME ReportInv, NEW o \in ReportOps, Busy(o), OthersGoOn(o), rops'[o].at \in {"idle", "news"}
    PROVE  StillOpen'
  <1> SUFFICES ASSUME NEW p \in ReportOps, ~rops'[p].met
               PROVE  rops'[p].at \notin {"file", "act", "settle", "tell"}
    BY DEF StillOpen
  <1>1. \A x \in ReportOps \ {o} : Busy(x) => rops[x].met /\ rops[o].met
    BY AloneUnlessMet
  <1> QED BY <1>1 DEF OthersGoOn, Busy

LEMMA TellModeratorsKeeps ==
    ASSUME ReportInv, NEW o \in ReportOps, tellModerators(o)
    PROVE  ReportInv'
  <1> USE DEF ReportInv
  <1>1. rops[o] \in Filing /\ rops[o].at = "news" /\ Busy(o)
    BY DEF tellModerators, ReportTypes, NoOp, Deciding, Busy
  <1> DEFINE r == rops[o].reporter
  <1>2. r \in Reporters
    BY <1>1 DEF Filing
  <1>3. reports[r] \in Report
    BY <1>2 DEF ReportTypes
  <1>4. target' = target /\ rops' = [rops EXCEPT ![o] = NoOp] /\ reports' = [reports EXCEPT ![r].news = TRUE]
    BY DEF tellModerators, End
  <1>5. OthersGoOn(o) /\ rops'[o].at = "idle"
    BY <1>4 DEF OthersGoOn, ReportTypes, NoOp
  <1>6. /\ reports'[r] \in Report /\ reports'[r].news /\ reports'[r].status = reports[r].status
        /\ reports'[r].told = reports[r].told /\ reports'[r].mixed = reports[r].mixed
        /\ \A x \in Reporters \ {r} : reports'[x] = reports[x]
    BY <1>2, <1>3, <1>4 DEF ReportTypes, Report
  <1>7. ReportTypes'
    BY <1>2, <1>4, <1>6 DEF ReportTypes
  <1>8. ReportsMeet' /\ StillOpen'
    BY <1>1, <1>5, MeetKept, OthersStillOpen
  <1>9. ActsFirst' /\ OwnerActions'
    BY <1>4, <1>5 DEF ActsFirst, OwnerActions, OthersGoOn
  <1>10. ActionedIsGone'
    BY <1>4, <1>6 DEF ActionedIsGone
  <1>11. Owed'
    BY <1>1, <1>5, <1>6 DEF Owed, OthersGoOn
  <1> QED BY <1>7, <1>8, <1>9, <1>10, <1>11

LEMMA ActKeeps ==
    ASSUME ReportInv, NEW o \in ReportOps, actOnTarget(o)
    PROVE  ReportInv'
  <1> USE DEF ReportInv
  <1>1. rops[o] \in Deciding /\ rops[o].at = "act" /\ Busy(o)
    BY DEF actOnTarget, ReportTypes, NoOp, Filing, Busy
  <1>2. target' = FALSE /\ reports' = reports /\ rops' = [rops EXCEPT ![o].at = "settle"]
    BY DEF actOnTarget, Next_
  <1>3. /\ rops'[o] \in Deciding /\ rops'[o].at = "settle" /\ rops'[o].met = rops[o].met
        /\ rops'[o].outcome = rops[o].outcome /\ rops'[o].open = rops[o].open /\ rops'[o].tell = rops[o].tell
    BY <1>1, <1>2 DEF ReportTypes, Deciding
  <1>4. OthersGoOn(o)
    BY <1>2 DEF OthersGoOn, ReportTypes
  <1>5. ReportTypes'
    BY <1>2, <1>3 DEF ReportTypes
  <1>6. ReportsMeet'
    BY <1>1, <1>3, <1>4, MeetKept
  <1>7. ActsFirst' /\ OwnerActions' /\ ActionedIsGone'
    BY <1>1, <1>2, <1>3, <1>4 DEF ActsFirst, OwnerActions, OthersGoOn, ActionedIsGone
  <1>8. StillOpen'
    BY <1>1, <1>2, <1>3, <1>4 DEF StillOpen, OthersGoOn, OpenReports
  <1>9. Owed'
    BY <1>1, <1>2, <1>3, <1>4 DEF Owed, OthersGoOn
  <1> QED BY <1>5, <1>6, <1>7, <1>8, <1>9

LEMMA SettleKeeps ==
    ASSUME ReportInv, NEW o \in ReportOps, settle(o)
    PROVE  ReportInv'
  <1> USE DEF ReportInv
  <1>1. rops[o] \in Deciding /\ rops[o].at = "settle" /\ Busy(o)
    BY DEF settle, ReportTypes, NoOp, Filing, Busy
  <1>2. target' = target /\ rops' = [rops EXCEPT ![o] = IF rops[o].tell THEN [rops[o] EXCEPT !.at = "tell"] ELSE NoOp]
    BY <1>1 DEF settle, Next_, End, ReportTypes
  <1>3. rops[o].tell => /\ rops'[o] \in Deciding /\ rops'[o].at = "tell" /\ rops'[o].met = rops[o].met
                        /\ rops'[o].outcome = rops[o].outcome /\ rops'[o].open = rops[o].open
    BY <1>1, <1>2 DEF ReportTypes, Deciding
  <1>4. ~rops[o].tell => rops'[o] = NoOp
    BY <1>2 DEF ReportTypes
  <1>5. OthersGoOn(o)
    BY <1>2 DEF OthersGoOn, ReportTypes
  <1>6. ASSUME NEW r \in Reporters
        PROVE  /\ reports'[r] \in Report /\ reports'[r].told = reports[r].told
               /\ reports[r].status = "open" => /\ reports'[r].status = rops[o].outcome
                                                /\ ~reports'[r].mixed => ~rops[o].met
               /\ reports[r].status # "open" => reports'[r] = reports[r]
    <2>1. reports[r] \in Report
      BY DEF ReportTypes
    <2>2. CASE reports[r].status = "open"
      <3>1. reports'[r] = SettledBy(reports[r], rops[o])
        BY <2>2 DEF settle, Settleable
      <3> QED BY <1>1, <2>1, <2>2, <3>1, SettledByIs
    <2>3. CASE reports[r].status # "open"
      BY <2>1, <2>3 DEF settle, Settleable
    <2> QED BY <2>2, <2>3
  <1>7. ReportTypes'
    <2>1. reports' \in [Reporters -> Report]
      BY <1>6 DEF settle
    <2>2. rops' \in [ReportOps -> {NoOp} \cup Filing \cup Deciding]
      BY <1>2, <1>3, <1>4 DEF ReportTypes
    <2> QED BY <1>2, <2>1, <2>2 DEF ReportTypes
  <1>8. ReportsMeet'
    BY <1>1, <1>3, <1>4, <1>5, MeetKept DEF NoOp
  <1>9. ActsFirst' /\ OwnerActions'
    BY <1>1, <1>2, <1>3, <1>4, <1>5 DEF ActsFirst, OwnerActions, OthersGoOn, NoOp
  <1>10. ActionedIsGone'
    BY <1>1, <1>2, <1>6 DEF ActionedIsGone, ActsFirst
  <1>11. \A x \in ReportOps \ {o} : Busy(x) => rops[x].met /\ rops[o].met
    BY <1>1, AloneUnlessMet
  <1>12. rops[o].tell /\ ~rops[o].met => rops[o].open = OpenReports
    BY <1>1 DEF StillOpen
  <1>13. StillOpen'
    <2> SUFFICES ASSUME NEW p \in ReportOps, ~rops'[p].met
                 PROVE  /\ rops'[p].at \notin {"file", "act", "settle"}
                        /\ rops'[p].at = "tell" => \A x \in rops'[p].open : reports'[x].status = rops'[p].outcome
      BY DEF StillOpen
    <2>1. CASE p = o
      BY <1>3, <1>4, <1>6, <1>12, <2>1 DEF NoOp, OpenReports
    <2>2. CASE p # o
      BY <1>5, <1>11, <2>2 DEF OthersGoOn, Busy
    <2> QED BY <2>1, <2>2
  <1>14. Owed'
    <2> SUFFICES ASSUME NEW x \in Reporters, ~reports'[x].mixed
                 PROVE  /\ reports'[x].status = "dismissed" /\ reports'[x].told # "dismissed" =>
                              \E p \in ReportOps : rops'[p].at = "tell" /\ x \in rops'[p].open /\ rops'[p].outcome = "dismissed"
                        /\ reports'[x].status = "open" /\ ~reports'[x].news =>
                              \E p \in ReportOps : rops'[p].at = "news" /\ rops'[p].reporter = x
      BY DEF Owed
    <2>1. CASE reports[x].status # "open"
      BY <1>1, <1>5, <1>6, <2>1 DEF Owed, OthersGoOn
    <2>2. CASE reports[x].status = "open"
      <3>1. reports'[x].status = rops[o].outcome /\ ~rops[o].met
        BY <1>6, <2>2
      <3>2. rops[o].outcome \in {"dismissed", "actioned"}
        BY <1>1 DEF Deciding
      <3>3. rops[o].outcome = "dismissed" => rops[o].tell
        BY <1>1 DEF OwnerActions
      <3>4. x \in OpenReports
        BY <2>2 DEF OpenReports
      <3> QED BY <1>3, <1>12, <3>1, <3>2, <3>3, <3>4
    <2> QED BY <2>1, <2>2
  <1> QED BY <1>7, <1>8, <1>9, <1>10, <1>13, <1>14

LEMMA TellReportersKeeps ==
    ASSUME ReportInv, NEW o \in ReportOps, tellReporters(o)
    PROVE  ReportInv'
  <1> USE DEF ReportInv
  <1>1. rops[o] \in Deciding /\ rops[o].at = "tell" /\ Busy(o)
    BY DEF tellReporters, ReportTypes, NoOp, Filing, Busy
  <1>2. target' = target /\ rops' = [rops EXCEPT ![o] = NoOp]
    BY DEF tellReporters, End
  <1>3. OthersGoOn(o) /\ rops'[o].at = "idle"
    BY <1>2 DEF OthersGoOn, ReportTypes, NoOp
  <1>4. ASSUME NEW r \in Reporters
        PROVE  /\ reports'[r] \in Report /\ reports'[r].status = reports[r].status
               /\ r \in rops[o].open => /\ reports'[r].told = rops[o].outcome
                                        /\ ~reports'[r].mixed => ~rops[o].met
               /\ r \notin rops[o].open => reports'[r] = reports[r]
    <2>1. reports[r] \in Report
      BY DEF ReportTypes
    <2>2. CASE r \in rops[o].open
      <3>1. reports'[r] = ToldBy(reports[r], rops[o])
        BY <2>2 DEF tellReporters
      <3> QED BY <1>1, <2>1, <2>2, <3>1, ToldByIs
    <2>3. CASE r \notin rops[o].open
      BY <2>1, <2>3 DEF tellReporters
    <2> QED BY <2>2, <2>3
  <1>5. ReportTypes'
    <2>1. reports' \in [Reporters -> Report]
      BY <1>4 DEF tellReporters
    <2> QED BY <1>2, <2>1 DEF ReportTypes
  <1>6. ReportsMeet' /\ StillOpen'
    BY <1>1, <1>3, MeetKept, OthersStillOpen
  <1>7. ActsFirst' /\ OwnerActions'
    BY <1>2, <1>3 DEF ActsFirst, OwnerActions, OthersGoOn
  <1>8. ActionedIsGone'
    BY <1>1, <1>2, <1>4 DEF ActionedIsGone, ActsFirst
  <1>9. Owed'
    <2> SUFFICES ASSUME NEW x \in Reporters, ~reports'[x].mixed
                 PROVE  /\ reports'[x].status = "dismissed" /\ reports'[x].told # "dismissed" =>
                              \E p \in ReportOps : rops'[p].at = "tell" /\ x \in rops'[p].open /\ rops'[p].outcome = "dismissed"
                        /\ reports'[x].status = "open" /\ ~reports'[x].news =>
                              \E p \in ReportOps : rops'[p].at = "news" /\ rops'[p].reporter = x
      BY DEF Owed
    <2>1. CASE x \notin rops[o].open
      BY <1>1, <1>3, <1>4, <2>1 DEF Owed, OthersGoOn
    <2>2. CASE x \in rops[o].open
      <3>1. reports'[x].status = rops[o].outcome /\ reports'[x].told = rops[o].outcome
        BY <1>1, <1>4, <2>2 DEF StillOpen
      <3>2. rops[o].outcome \in {"dismissed", "actioned"}
        BY <1>1 DEF Deciding
      <3> QED BY <3>1, <3>2
    <2> QED BY <2>1, <2>2
  <1> QED BY <1>5, <1>6, <1>7, <1>8, <1>9

LEMMA FailKeeps ==
    ASSUME ReportInv, NEW o \in ReportOps, fail(o)
    PROVE  ReportInv'
  <1> USE DEF ReportInv
  <1>1. Busy(o) /\ target' = target /\ rops' = [rops EXCEPT ![o] = NoOp]
    BY DEF fail, End
  <1>2. OthersGoOn(o) /\ rops'[o].at = "idle"
    BY <1>1 DEF OthersGoOn, ReportTypes, NoOp
  <1>3. ASSUME NEW r \in Reporters
        PROVE  /\ reports'[r] \in Report /\ reports'[r].status = reports[r].status
               /\ reports'[r].told = reports[r].told /\ reports'[r].mixed
    <2>1. reports[r] \in Report
      BY DEF ReportTypes
    <2>2. reports'[r] = [reports[r] EXCEPT !.mixed = TRUE]
      BY DEF fail
    <2> QED BY <2>1, <2>2 DEF Report
  <1>4. ReportTypes'
    <2>1. reports' \in [Reporters -> Report]
      BY <1>3 DEF fail
    <2> QED BY <1>1, <2>1 DEF ReportTypes
  <1>5. ReportsMeet' /\ StillOpen'
    BY <1>1, <1>2, MeetKept, OthersStillOpen
  <1>6. ActsFirst' /\ OwnerActions'
    BY <1>1, <1>2 DEF ActsFirst, OwnerActions, OthersGoOn
  <1>7. ActionedIsGone'
    BY <1>1, <1>3 DEF ActionedIsGone
  <1>8. Owed'
    BY <1>3 DEF Owed
  <1> QED BY <1>4, <1>5, <1>6, <1>7, <1>8

LEMMA ReportStepKeeps == ReportInv /\ [ReportsNext]_reportVars => ReportInv'
  <1> SUFFICES ASSUME ReportInv, [ReportsNext]_reportVars
               PROVE  ReportInv'
    OBVIOUS
  <1> USE DEF ReportInv
  <1>1. ASSUME NEW o \in ReportOps, NEW r \in Reporters, fileReport(o, r)
        PROVE  ReportInv'
    <2> DEFINE op == [at |-> "file", met |-> AnyBusy, reporter |-> r, previous |-> reports[r].status]
    <2>1. op \in Filing
      <3>1. AnyBusy \in BOOLEAN
        BY DEF AnyBusy
      <3>2. reports[r].status \in {"none", "open", "dismissed", "actioned"}
        BY DEF ReportTypes, Report
      <3> QED BY <3>1, <3>2 DEF Filing
    <2>2. Begin(o, op) /\ reports' = reports /\ target' = target /\ target' \in BOOLEAN
      BY <1>1 DEF fileReport, ReportTypes
    <2>3. op.met = AnyBusy /\ op.at = "file" /\ op.reporter = r /\ op.previous = reports[r].status
      OBVIOUS
    <2> HIDE DEF op
    <2> QED BY <2>1, <2>2, <2>3, BeginKeeps
  <1>2. ASSUME NEW o \in ReportOps, NEW outcome \in {"dismissed", "actioned"}, resolveReportGroup(o, outcome)
        PROVE  ReportInv'
    <2>0. PICK at \in {"act", "settle"} : /\ at = IF outcome = "actioned" THEN "act" ELSE "settle"
      OBVIOUS
    <2> DEFINE op == [at |-> at, met |-> AnyBusy, outcome |-> outcome, open |-> OpenReports, tell |-> TRUE]
    <2>1. op \in Deciding
      BY DEF Deciding, AnyBusy, OpenReports
    <2>2. Begin(o, op) /\ reports' = reports /\ target' = target /\ target' \in BOOLEAN
      BY <1>2, <2>0 DEF resolveReportGroup, ReportTypes
    <2>3. op.met = AnyBusy /\ op.at = at /\ op.outcome = outcome /\ op.open = OpenReports /\ op.tell
      OBVIOUS
    <2> HIDE DEF op
    <2> QED BY <2>0, <2>1, <2>2, <2>3, BeginKeeps
  <1>3. ASSUME NEW o \in ReportOps, NEW settles \in BOOLEAN, ownerDeletes(o, settles)
        PROVE  ReportInv'
    <2>1. CASE settles
      <3> DEFINE op == [at |-> "settle", met |-> AnyBusy, outcome |-> "actioned", open |-> {}, tell |-> FALSE]
      <3>1. op \in Deciding
        BY DEF Deciding, AnyBusy
      <3>2. Begin(o, op) /\ reports' = reports /\ target' = FALSE
        BY <1>3, <2>1 DEF ownerDeletes
      <3>3. op.met = AnyBusy /\ op.at = "settle" /\ op.outcome = "actioned" /\ ~op.tell
        OBVIOUS
      <3> HIDE DEF op
      <3> QED BY <3>1, <3>2, <3>3, BeginKeeps
    <2>2. CASE ~settles
      <3>1. rops' = rops /\ reports' = reports /\ target' = FALSE
        BY <1>3, <2>2 DEF ownerDeletes
      <3>2. OpenReports' = OpenReports
        BY <3>1 DEF OpenReports
      <3>3. ReportTypes' /\ ReportsMeet'
        BY <3>1 DEF ReportTypes, ReportsMeet, Busy
      <3>4. ActsFirst' /\ ActionedIsGone' /\ OwnerActions'
        BY <3>1 DEF ActsFirst, ActionedIsGone, OwnerActions
      <3>5. StillOpen' /\ Owed'
        BY <3>1, <3>2 DEF StillOpen, Owed
      <3> QED BY <3>3, <3>4, <3>5
    <2> QED BY <2>1, <2>2
  <1>4. CASE UNCHANGED reportVars
    BY <1>4 DEF reportVars, ReportTypes, ReportsMeet, Busy, ActsFirst, ActionedIsGone, StillOpen, OpenReports, OwnerActions, Owed
  <1> QED BY <1>1, <1>2, <1>3, <1>4, UpsertKeeps, TellModeratorsKeeps, ActKeeps, SettleKeeps, TellReportersKeeps,
             FailKeeps DEF ReportsNext

(* A reporter who reads that something was done about the target reads the
   truth, and with no handler under way everybody was told what happened,
   but for reports two handlers met over (resolveReportGroup, fileReport). *)
THEOREM ReportsSettleRight == ReportsSpec => []ReportsSettle
  <1>1. ReportInv => ReportsSettle
    <2> SUFFICES ASSUME ReportInv, NEW r \in Reporters, ~AnyBusy, ~reports[r].mixed
                 PROVE  /\ reports[r].status = "dismissed" => reports[r].told = "dismissed"
                        /\ reports[r].status = "actioned" => reports[r].told = "actioned" \/ ~target
                        /\ reports[r].status = "open" => reports[r].news
      BY DEF ReportInv, ReportsSettle, ToldWhatHappened
    <2> QED BY DEF ReportInv, Owed, ActionedIsGone, AnyBusy, Busy
  <1> QED BY <1>1, ReportsBegin, ReportStepKeeps, PTL DEF ReportsSpec

-----------------------------------------------------------------------------
(* Follows and blocks. *)
TaskSet == ({"delete"} \cup Fields) \X Edges
Creating == [kind : {"follow"}, at : {"create"}, edge : Edges]
Writing == [kind : {"follow", "unfollow", "block"}, at : {"counting"}, edges : SUBSET Edges, todo : SUBSET TaskSet]
Blocking == [kind : {"block"}, at : {"block", "invalidate"}, edge : Edges]
Unblocking == [kind : {"unblock"}, at : {"invalidate"}, edge : Edges]
Reading == [kind : {"read"}, at : {"put"}, viewer : Accounts, set : SUBSET Accounts]
Handlers == {NoHandler} \cup Creating \cup Writing \cup Blocking \cup Unblocking \cup Reading
CachedSet == [cached : {TRUE}, set : SUBSET Accounts]
FollowTypes ==
    /\ follows \subseteq Edges /\ graph \subseteq Edges /\ blocks \subseteq Edges
    /\ counts \in [Fields -> [Accounts -> Nat]]
    /\ cache \in [Accounts -> {Uncached} \cup CachedSet]
    /\ fops \in [FollowOps -> Handlers]

(* A handler that follows deletes nothing, and what is still to be deleted
   is not yet to be counted down. *)
Writes(o) == fops[o].at = "counting"
TasksInOrder ==
    \A o \in FollowOps : Writes(o) =>
        \A e \in Edges : <<"delete", e>> \in fops[o].todo =>
            /\ fops[o].kind # "follow"
            /\ \A field \in Fields : <<field, e>> \notin fops[o].todo
(* Whoever overlaps has met. *)
OverlapsSeen ==
    \A o, p \in FollowOps : o # p /\ Running(o) /\ Running(p) /\ {fops[o].kind, fops[p].kind} \in Telling
        => {fops[o].kind, fops[p].kind} \in met

(* A follow across a block is still to be severed. *)
SeversEdge(o, e) ==
    /\ fops[o].kind = "block"
    /\ \/ fops[o].at = "invalidate" /\ e \in Both(fops[o].edge)
       \/ Writes(o) /\ <<"delete", e>> \in fops[o].todo
BlocksSever ==
    {"stopped"} \notin met /\ ~Met("follow", {"block"}) =>
        /\ \A e \in follows : Apart(e) => \E o \in FollowOps : SeversEdge(o, e)
        /\ \A o \in FollowOps : fops[o].at = "create" => ~Apart(fops[o].edge)

(* Each row made or deleted is counted at both ends, now or later. *)
Ups(field, u) ==
    {x \in FollowOps \X Edges : /\ Writes(x[1]) /\ fops[x[1]].kind = "follow"
                                /\ <<field, x[2]>> \in fops[x[1]].todo /\ EndOf(x[2], field) = u}
Downs(field, u) ==
    {x \in FollowOps \X Edges : /\ Writes(x[1]) /\ fops[x[1]].kind # "follow"
                                /\ <<field, x[2]>> \in fops[x[1]].todo /\ EndOf(x[2], field) = u}
CountsOwed ==
    {"stopped"} \notin met => \A u \in Accounts, field \in Fields :
        /\ counts[field][u] + Cardinality(Ups(field, u)) >= Following(u, field) + Cardinality(Downs(field, u))
        /\ ~Met("follow", {"unfollow", "block"}) =>
              counts[field][u] + Cardinality(Ups(field, u)) = Following(u, field) + Cardinality(Downs(field, u))

(* Where the graph and the rows differ a handler has still to draw. *)
GraphOwed ==
    ~Met("follow", {"unfollow", "block"}) =>
        /\ \A e \in follows \ graph : \E o \in FollowOps : Writes(o) /\ fops[o].kind = "follow" /\ e \in fops[o].edges
        /\ \A e \in graph \ follows : \E o \in FollowOps : Writes(o) /\ fops[o].kind # "follow" /\ e \in fops[o].edges
        /\ \A o \in FollowOps : Writes(o) =>
              /\ fops[o].kind = "follow" => fops[o].edges \subseteq follows
              /\ fops[o].kind # "follow" => \A e \in fops[o].edges \cap follows : <<"delete", e>> \in fops[o].todo

(* A cached set that is out of date is about to be forgotten. *)
CacheOwed ==
    ~Met("read", {"block", "unblock"}) =>
        /\ \A u \in Accounts : cache[u] # Uncached =>
              cache[u].set = With(u) \/ \E o \in FollowOps : fops[o].at = "invalidate" /\ u \in {fops[o].edge[1], fops[o].edge[2]}
        /\ \A o \in FollowOps : fops[o].at = "put" => fops[o].set = With(fops[o].viewer)
FollowInv ==
    FollowTypes /\ TasksInOrder /\ OverlapsSeen /\ BlocksSever /\ CountsOwed /\ GraphOwed /\ CacheOwed

LEMMA FollowBegins == FollowsInit => FollowInv
  <1> SUFFICES ASSUME FollowsInit
               PROVE  FollowInv
    OBVIOUS
  <1> USE DEF FollowsInit
  <1>1. FollowTypes
    BY DEF FollowTypes, Fields, Handlers
  <1>2. \A o \in FollowOps : ~Writes(o) /\ ~Running(o) /\ fops[o].at = "idle"
    BY DEF Writes, Running, NoHandler
  <1>3. TasksInOrder /\ OverlapsSeen
    BY <1>2 DEF TasksInOrder, OverlapsSeen
  <1>4. BlocksSever
    BY <1>2 DEF BlocksSever, Apart
  <1>5. GraphOwed
    BY <1>2 DEF GraphOwed
  <1>6. CacheOwed
    BY <1>2 DEF CacheOwed
  <1>7. CountsOwed
    <2> SUFFICES ASSUME NEW u \in Accounts, NEW field \in Fields
                 PROVE  counts[field][u] + Cardinality(Ups(field, u)) = Following(u, field) + Cardinality(Downs(field, u))
                        /\ counts[field][u] + Cardinality(Ups(field, u)) \in Nat
      BY DEF CountsOwed
    <2>1. Ups(field, u) = {} /\ Downs(field, u) = {}
      BY <1>2 DEF Ups, Downs
    <2>2. {e \in follows : EndOf(e, field) = u} = {}
      OBVIOUS
    <2>3. counts[field][u] = 0
      BY DEF Fields
    <2> QED BY <2>1, <2>2, <2>3, FS_EmptySet DEF Following
  <1> QED BY <1>1, <1>3, <1>4, <1>5, <1>6, <1>7 DEF FollowInv

-----------------------------------------------------------------------------
(* What a step of one handler leaves as it is. *)
OthersHeld(o) == \A p \in FollowOps \ {o} : fops'[p] = fops[p]
LEMMA Replaced ==
    ASSUME FollowTypes, NEW o \in FollowOps, NEW op, fops' = [fops EXCEPT ![o] = op]
    PROVE  /\ OthersHeld(o) /\ fops'[o] = op
           /\ op \in Handlers => fops' \in [FollowOps -> Handlers]
  BY DEF FollowTypes, OthersHeld

LEMMA KindsOf ==
    ASSUME FollowTypes, NEW o \in FollowOps
    PROVE  /\ fops[o] \in Handlers
           /\ Writes(o) => fops[o] \in Writing
           /\ fops[o].at = "create" => fops[o] \in Creating
           /\ fops[o].at = "block" => fops[o] \in Blocking
           /\ fops[o].at = "invalidate" => fops[o] \in Blocking \cup Unblocking
           /\ fops[o].at = "put" => fops[o] \in Reading
           /\ fops[o].at = "idle" <=> fops[o] = NoHandler
  BY DEF FollowTypes, Handlers, Writes, Writing, Creating, Blocking, Unblocking, Reading, NoHandler

(* A handler that starts meets those it overlaps. *)
LEMMA Started ==
    ASSUME FollowInv, NEW o \in FollowOps, NEW op, StartOp(o, op)
    PROVE  /\ fops' = [fops EXCEPT ![o] = op] /\ fops'[o] = op /\ OthersHeld(o)
           /\ fops[o].at = "idle" /\ met \subseteq met' /\ ~Writes(o)
           /\ OverlapsSeen'
  <1>1. fops' = [fops EXCEPT ![o] = op] /\ fops'[o] = op /\ OthersHeld(o)
    BY DEF StartOp, FollowInv, FollowTypes, OthersHeld
  <1>2. fops[o].at = "idle" /\ ~Writes(o) /\ met \subseteq met'
    BY DEF StartOp, Running, Writes
  <1>3. OverlapsSeen'
    <2> SUFFICES ASSUME NEW p \in FollowOps, NEW q \in FollowOps, p # q, Running(p)', Running(q)',
                        {fops'[p].kind, fops'[q].kind} \in Telling
                 PROVE  {fops'[p].kind, fops'[q].kind} \in met'
      BY DEF OverlapsSeen, Telling
    <2>1. CASE p # o /\ q # o
      BY <1>1, <1>2, <2>1 DEF OthersHeld, FollowInv, OverlapsSeen, Running
    <2>2. ASSUME NEW x \in FollowOps, x # o, Running(x), {op.kind, fops[x].kind} \in Telling
          PROVE  {op.kind, fops[x].kind} \in met'
      BY <2>2 DEF StartOp
    <2>3. CASE p = o
      BY <1>1, <2>2, <2>3 DEF OthersHeld, Running
    <2>4. CASE q = o
      <3>1. {fops'[p].kind, fops'[q].kind} = {op.kind, fops[p].kind}
        BY <1>1, <2>4 DEF OthersHeld
      <3> QED BY <1>1, <2>2, <2>4, <3>1 DEF OthersHeld, Running
    <2> QED BY <2>1, <2>3, <2>4
  <1> QED BY <1>1, <1>2, <1>3

LEMMA OverlapsGoOn ==
    ASSUME FollowInv, NEW o \in FollowOps, OthersHeld(o), met' = met, Running(o),
           fops'[o].at = "idle" \/ fops'[o].kind = fops[o].kind
    PROVE  OverlapsSeen'
  <1> SUFFICES ASSUME NEW p \in FollowOps, NEW q \in FollowOps, p # q, Running(p)', Running(q)',
                      {fops'[p].kind, fops'[q].kind} \in Telling
               PROVE  {fops'[p].kind, fops'[q].kind} \in met
    BY DEF OverlapsSeen, Telling
  <1>1. /\ fops'[p].kind = fops[p].kind /\ Running(p)
        /\ fops'[q].kind = fops[q].kind /\ Running(q)
    BY DEF OthersHeld, Running
  <1> QED BY <1>1 DEF FollowInv, OverlapsSeen

(* A follow that has met nobody who deletes is not beside one. *)
LEMMA NoDeletionBeside ==
    ASSUME FollowInv, NEW o \in FollowOps, fops[o].kind = "follow", Running(o),
           NEW p \in FollowOps, Running(p)
    PROVE  /\ fops[p].kind = "block" => {"follow", "block"} \in met
           /\ fops[p].kind = "unfollow" => {"follow", "unfollow"} \in met
  <1>1. CASE fops[p].kind = "block"
    <2>1. {fops[o].kind, fops[p].kind} = {"follow", "block"} /\ o # p
      BY <1>1
    <2>2. {"follow", "block"} \in Telling
      BY DEF Telling
    <2> QED BY <1>1, <2>1, <2>2 DEF FollowInv, OverlapsSeen
  <1>2. CASE fops[p].kind = "unfollow"
    <2>1. {fops[o].kind, fops[p].kind} = {"follow", "unfollow"} /\ o # p
      BY <1>2
    <2>2. {"follow", "unfollow"} \in Telling
      BY DEF Telling
    <2> QED BY <1>2, <2>1, <2>2 DEF FollowInv, OverlapsSeen
  <1> QED BY <1>1, <1>2

LEMMA NoBlockBesideRead ==
    ASSUME FollowInv, NEW o \in FollowOps, fops[o].kind = "read", Running(o),
           NEW p \in FollowOps, Running(p)
    PROVE  /\ fops[p].kind = "block" => {"read", "block"} \in met
           /\ fops[p].kind = "unblock" => {"read", "unblock"} \in met
  <1>1. CASE fops[p].kind = "block"
    <2>1. {fops[o].kind, fops[p].kind} = {"read", "block"} /\ o # p
      BY <1>1
    <2>2. {"read", "block"} \in Telling
      BY DEF Telling
    <2> QED BY <1>1, <2>1, <2>2 DEF FollowInv, OverlapsSeen
  <1>2. CASE fops[p].kind = "unblock"
    <2>1. {fops[o].kind, fops[p].kind} = {"read", "unblock"} /\ o # p
      BY <1>2
    <2>2. {"read", "unblock"} \in Telling
      BY DEF Telling
    <2> QED BY <1>2, <2>1, <2>2 DEF FollowInv, OverlapsSeen
  <1> QED BY <1>1, <1>2

-----------------------------------------------------------------------------
(* What is untouched stays owed. *)
OwesNoCount(o) == Writes(o) => \A field \in Fields, e \in Edges : <<field, e>> \notin fops[o].todo
LEMMA CountsStay ==
    ASSUME FollowInv, NEW o \in FollowOps, OthersHeld(o), follows' = follows, counts' = counts, met \subseteq met',
           OwesNoCount(o), OwesNoCount(o)'
    PROVE  CountsOwed'
  <1>1. ASSUME NEW field \in Fields, NEW u \in Accounts
        PROVE  Ups(field, u)' = Ups(field, u) /\ Downs(field, u)' = Downs(field, u)
    <2>1. \A x \in FollowOps \X Edges : x \in Ups(field, u)' <=> x \in Ups(field, u)
      BY <1>1 DEF Ups, Writes, OthersHeld, OwesNoCount
    <2>2. \A x \in FollowOps \X Edges : x \in Downs(field, u)' <=> x \in Downs(field, u)
      BY <1>1 DEF Downs, Writes, OthersHeld, OwesNoCount
    <2>3. Ups(field, u)' \subseteq FollowOps \X Edges /\ Ups(field, u) \subseteq FollowOps \X Edges
      BY DEF Ups
    <2>4. Downs(field, u)' \subseteq FollowOps \X Edges /\ Downs(field, u) \subseteq FollowOps \X Edges
      BY DEF Downs
    <2> QED BY <2>1, <2>2, <2>3, <2>4
  <1>2. \A field \in Fields, u \in Accounts : Following(u, field)' = Following(u, field)
    BY DEF Following
  <1>3. \A others : Met("follow", others) => Met("follow", others)'
    BY DEF Met
  <1> QED BY <1>1, <1>2, <1>3 DEF FollowInv, CountsOwed

LEMMA GraphStays ==
    ASSUME FollowInv, NEW o \in FollowOps, OthersHeld(o), follows' = follows, graph' = graph, met \subseteq met',
           ~Writes(o),
           Writes(o)' => /\ fops'[o].kind # "follow"
                         /\ \A e \in fops'[o].edges \cap follows : <<"delete", e>> \in fops'[o].todo
    PROVE  GraphOwed'
  <1>1. \A others : Met("follow", others) => Met("follow", others)'
    BY DEF Met
  <1>2. \A p \in FollowOps : Writes(p) => p # o /\ Writes(p)' /\ fops'[p] = fops[p]
    BY DEF OthersHeld, Writes
  <1>3. \A p \in FollowOps \ {o} : Writes(p)' => Writes(p) /\ fops'[p] = fops[p]
    BY DEF OthersHeld, Writes
  <1> QED BY <1>1, <1>2, <1>3 DEF FollowInv, GraphOwed

LEMMA BlocksStay ==
    ASSUME FollowInv, NEW o \in FollowOps, OthersHeld(o), follows' = follows, blocks' \subseteq blocks, met \subseteq met',
           \A e \in follows : SeversEdge(o, e) => SeversEdge(o, e)',
           fops'[o].at = "create" => ~Apart(fops'[o].edge)
    PROVE  BlocksSever'
  <1>1. \A others : Met("follow", others) => Met("follow", others)'
    BY DEF Met
  <1>2. \A p \in FollowOps, e \in follows : SeversEdge(p, e) => SeversEdge(p, e)'
    BY DEF OthersHeld, SeversEdge, Writes
  <1>3. \A e : Apart(e)' => Apart(e)
    BY DEF Apart
  <1> QED BY <1>1, <1>2, <1>3 DEF FollowInv, BlocksSever, OthersHeld

LEMMA CacheStays ==
    ASSUME FollowInv, NEW o \in FollowOps, OthersHeld(o), cache' = cache, blocks' = blocks, met \subseteq met',
           fops[o].at # "invalidate",
           fops'[o].at = "put" => fops'[o].set = With(fops'[o].viewer)
    PROVE  CacheOwed'
  <1>1. \A others : Met("read", others) => Met("read", others)'
    BY DEF Met
  <1>2. \A u : With(u)' = With(u)
    BY DEF With, Apart
  <1>3. \A p \in FollowOps : fops[p].at = "invalidate" => fops'[p] = fops[p]
    BY DEF OthersHeld
  <1> QED BY <1>1, <1>2, <1>3 DEF FollowInv, CacheOwed, OthersHeld

LEMMA TasksStay ==
    ASSUME FollowInv, NEW o \in FollowOps, OthersHeld(o),
           Writes(o)' => \A e \in Edges : <<"delete", e>> \in fops'[o].todo =>
                            /\ fops'[o].kind # "follow"
                            /\ \A field \in Fields : <<field, e>> \notin fops'[o].todo
    PROVE  TasksInOrder'
  BY DEF FollowInv, TasksInOrder, OthersHeld, Writes

-----------------------------------------------------------------------------
(* The handlers that start. *)
LEMMA FollowKeeps == ASSUME FollowInv, NEW o \in FollowOps, NEW e \in Edges, follow(o, e) PROVE FollowInv'
  <1> DEFINE op == [kind |-> "follow", at |-> "create", edge |-> e]
  <1>1. op \in Handlers /\ op.at = "create" /\ op.kind = "follow" /\ op.edge = e
    BY DEF Handlers, Creating
  <1>2. StartOp(o, op) /\ ~Apart(e)
    BY DEF follow
  <1> HIDE DEF op
  <1>3. fops'[o] = op /\ OthersHeld(o) /\ fops' = [fops EXCEPT ![o] = op] /\ fops[o].at = "idle"
        /\ met \subseteq met' /\ ~Writes(o) /\ OverlapsSeen'
    BY <1>2, Started
  <1> USE DEF follow
  <1>4. FollowTypes'
    BY <1>1, <1>3, Replaced DEF FollowInv, FollowTypes
  <1>5. ~Writes(o)'
    BY <1>1, <1>3 DEF Writes
  <1>6. TasksInOrder' /\ GraphOwed'
    BY <1>3, <1>5, TasksStay, GraphStays
  <1>7. CountsOwed'
    BY <1>3, <1>5, CountsStay DEF OwesNoCount
  <1>8. CacheOwed'
    BY <1>1, <1>3, CacheStays
  <1>9. BlocksSever'
    BY <1>1, <1>2, <1>3, BlocksStay DEF SeversEdge
  <1> QED BY <1>3, <1>4, <1>6, <1>7, <1>8, <1>9 DEF FollowInv

LEMMA UnfollowKeeps == ASSUME FollowInv, NEW o \in FollowOps, NEW e \in Edges, unfollow(o, e) PROVE FollowInv'
  <1> DEFINE op == [kind |-> "unfollow", at |-> "counting", edges |-> {}, todo |-> {<<"delete", e>>}]
  <1>1. op \in Handlers /\ op.at = "counting" /\ op.kind = "unfollow" /\ op.edges = {} /\ op.todo = {<<"delete", e>>}
    BY DEF Handlers, Writing, TaskSet
  <1>2. StartOp(o, op)
    BY DEF unfollow
  <1> HIDE DEF op
  <1>3. fops'[o] = op /\ OthersHeld(o) /\ fops' = [fops EXCEPT ![o] = op] /\ fops[o].at = "idle"
        /\ met \subseteq met' /\ ~Writes(o) /\ OverlapsSeen'
    BY <1>2, Started
  <1> USE DEF unfollow
  <1>4. FollowTypes'
    BY <1>1, <1>3, Replaced DEF FollowInv, FollowTypes
  <1>5. \A x : \A field \in Fields : <<field, x>> \notin op.todo
    BY <1>1 DEF Fields
  <1>6. TasksInOrder'
    BY <1>1, <1>3, <1>5, TasksStay
  <1>7. CountsOwed'
    BY <1>3, <1>5, CountsStay DEF OwesNoCount
  <1>8. CacheOwed'
    BY <1>1, <1>3, CacheStays
  <1>9. BlocksSever'
    BY <1>1, <1>3, BlocksStay DEF SeversEdge
  <1>10. GraphOwed'
    BY <1>1, <1>3, GraphStays
  <1> QED BY <1>3, <1>4, <1>6, <1>7, <1>8, <1>9, <1>10 DEF FollowInv

LEMMA BlockKeeps == ASSUME FollowInv, NEW o \in FollowOps, NEW e \in Edges, blockUser(o, e) PROVE FollowInv'
  <1> DEFINE op == [kind |-> "block", at |-> "block", edge |-> e]
  <1>1. op \in Handlers /\ op.at = "block"
    BY DEF Handlers, Blocking
  <1>2. StartOp(o, op)
    BY DEF blockUser
  <1> HIDE DEF op
  <1>3. fops'[o] = op /\ OthersHeld(o) /\ fops' = [fops EXCEPT ![o] = op] /\ fops[o].at = "idle"
        /\ met \subseteq met' /\ ~Writes(o) /\ OverlapsSeen'
    BY <1>2, Started
  <1> USE DEF blockUser
  <1>4. FollowTypes'
    BY <1>1, <1>3, Replaced DEF FollowInv, FollowTypes
  <1>5. ~Writes(o)'
    BY <1>1, <1>3 DEF Writes
  <1>6. TasksInOrder' /\ GraphOwed'
    BY <1>3, <1>5, TasksStay, GraphStays
  <1>7. CountsOwed'
    BY <1>3, <1>5, CountsStay DEF OwesNoCount
  <1>8. CacheOwed'
    BY <1>1, <1>3, CacheStays
  <1>9. BlocksSever'
    BY <1>1, <1>3, BlocksStay DEF SeversEdge, Writes
  <1> QED BY <1>3, <1>4, <1>6, <1>7, <1>8, <1>9 DEF FollowInv

LEMMA FetchKeeps == ASSUME FollowInv, NEW o \in FollowOps, NEW u \in Accounts, fetchFromDb(o, u) PROVE FollowInv'
  <1> DEFINE op == [kind |-> "read", at |-> "put", viewer |-> u, set |-> With(u)]
  <1>1. op \in Handlers /\ op.at = "put" /\ op.viewer = u /\ op.set = With(u)
    BY DEF Handlers, Reading, With
  <1>2. StartOp(o, op)
    BY DEF fetchFromDb
  <1> HIDE DEF op
  <1>3. fops'[o] = op /\ OthersHeld(o) /\ fops' = [fops EXCEPT ![o] = op] /\ fops[o].at = "idle"
        /\ met \subseteq met' /\ ~Writes(o) /\ OverlapsSeen'
    BY <1>2, Started
  <1> USE DEF fetchFromDb
  <1>4. FollowTypes'
    BY <1>1, <1>3, Replaced DEF FollowInv, FollowTypes
  <1>5. ~Writes(o)'
    BY <1>1, <1>3 DEF Writes
  <1>6. TasksInOrder' /\ GraphOwed'
    BY <1>3, <1>5, TasksStay, GraphStays
  <1>7. CountsOwed'
    BY <1>3, <1>5, CountsStay DEF OwesNoCount
  <1>8. CacheOwed'
    BY <1>1, <1>3, CacheStays
  <1>9. BlocksSever'
    BY <1>1, <1>3, BlocksStay DEF SeversEdge, Writes
  <1> QED BY <1>3, <1>4, <1>6, <1>7, <1>8, <1>9 DEF FollowInv

(* Who is in a block with an account a block does not name. *)
LEMMA WithOthers ==
    ASSUME NEW e \in Edges, NEW u \in Accounts, u \notin {e[1], e[2]},
           blocks' = blocks \cup {e} \/ blocks' = blocks \ {e}
    PROVE  With(u)' = With(u)
  <1>1. \A v : <<u, v>> # e /\ <<v, u>> # e
    BY DEF Edges
  <1>2. \A v : Apart(<<u, v>>)' <=> Apart(<<u, v>>)
    BY <1>1 DEF Apart
  <1> QED BY <1>2 DEF With

LEMMA UnblockKeeps == ASSUME FollowInv, NEW o \in FollowOps, NEW e \in Edges, unblockUser(o, e) PROVE FollowInv'
  <1> DEFINE op == [kind |-> "unblock", at |-> "invalidate", edge |-> e]
  <1>1. op \in Handlers /\ op.at = "invalidate" /\ op.edge = e /\ op.kind = "unblock"
    BY DEF Handlers, Unblocking
  <1>2. StartOp(o, op)
    BY DEF unblockUser
  <1> HIDE DEF op
  <1>3. fops'[o] = op /\ OthersHeld(o) /\ fops' = [fops EXCEPT ![o] = op] /\ fops[o].at = "idle"
        /\ met \subseteq met' /\ ~Writes(o) /\ OverlapsSeen'
    BY <1>2, Started
  <1> USE DEF unblockUser
  <1>4. FollowTypes'
    BY <1>1, <1>3, Replaced DEF FollowInv, FollowTypes
  <1>5. ~Writes(o)'
    BY <1>1, <1>3 DEF Writes
  <1>6. TasksInOrder' /\ GraphOwed'
    BY <1>3, <1>5, TasksStay, GraphStays
  <1>7. CountsOwed'
    BY <1>3, <1>5, CountsStay DEF OwesNoCount
  <1>9. BlocksSever'
    BY <1>1, <1>3, BlocksStay DEF SeversEdge, Writes
  <1>8. CacheOwed'
    <2> SUFFICES ASSUME ~Met("read", {"block", "unblock"})'
                 PROVE  /\ \A u \in Accounts : cache[u] # Uncached =>
                             cache[u].set = With(u)'
                             \/ \E p \in FollowOps : fops'[p].at = "invalidate" /\ u \in {fops'[p].edge[1], fops'[p].edge[2]}
                        /\ \A p \in FollowOps : fops'[p].at # "put"
      BY DEF CacheOwed
    <2>1. ~Met("read", {"block", "unblock"})
      BY <1>3 DEF Met
    <2>2. \A p \in FollowOps : fops'[p].at # "put"
      <3> SUFFICES ASSUME NEW p \in FollowOps, fops'[p].at = "put"
                   PROVE  FALSE
        OBVIOUS
      <3>1. p # o /\ fops[p].at = "put"
        BY <1>1, <1>3 DEF OthersHeld
      <3>2. fops[p].kind = "read" /\ Running(p)
        BY <3>1, KindsOf DEF FollowInv, Reading, Running
      <3>3. {op.kind, fops[p].kind} = {"read", "unblock"} /\ {"read", "unblock"} \in Telling
        BY <1>1, <3>2 DEF Telling
      <3>4. {"read", "unblock"} \in met'
        BY <1>2, <3>2, <3>3 DEF StartOp
      <3> QED BY <3>4 DEF Met
    <2>3. ASSUME NEW u \in Accounts, cache[u] # Uncached
          PROVE  cache[u].set = With(u)'
                 \/ \E p \in FollowOps : fops'[p].at = "invalidate" /\ u \in {fops'[p].edge[1], fops'[p].edge[2]}
      <3>1. CASE u \in {e[1], e[2]}
        BY <1>1, <1>3, <3>1
      <3>2. CASE u \notin {e[1], e[2]}
        <4>1. With(u)' = With(u)
          BY <3>2, WithOthers
        <4>2. \A p \in FollowOps : fops[p].at = "invalidate" => fops'[p] = fops[p]
          BY <1>3 DEF OthersHeld
        <4> QED BY <2>1, <2>3, <4>1, <4>2 DEF FollowInv, CacheOwed
      <3> QED BY <3>1, <3>2
    <2> QED BY <2>2, <2>3
  <1> QED BY <1>3, <1>4, <1>6, <1>7, <1>8, <1>9 DEF FollowInv

-----------------------------------------------------------------------------
(* The handlers that write counts. *)
LEMMA TaskDone ==
    ASSUME FollowInv, NEW o \in FollowOps, fops[o].at = "counting", NEW task, Settle(o, task, {}), met' = met
    PROVE  /\ OthersHeld(o) /\ Writes(o) /\ Writes(o)' /\ fops' \in [FollowOps -> Handlers] /\ OverlapsSeen'
           /\ fops'[o].kind = fops[o].kind /\ fops'[o].edges = fops[o].edges
           /\ fops'[o].todo = fops[o].todo \ {task}
  <1>1. fops[o] \in Writing
    BY KindsOf DEF Writes, FollowInv
  <1>2. PICK op : op = [fops[o] EXCEPT !.todo = (@ \ {task}) \cup {}]
    OBVIOUS
  <1>3. /\ op \in Writing /\ op.kind = fops[o].kind /\ op.edges = fops[o].edges
        /\ op.todo = fops[o].todo \ {task} /\ op.at = "counting"
    BY <1>1, <1>2 DEF Writing
  <1>4. fops' = [fops EXCEPT ![o] = op]
    BY <1>2 DEF Settle, Step
  <1>5. OthersHeld(o) /\ fops'[o] = op /\ fops' \in [FollowOps -> Handlers]
    BY <1>3, <1>4, Replaced DEF FollowInv, Handlers
  <1>6. OverlapsSeen'
    BY <1>3, <1>5, OverlapsGoOn DEF Running
  <1> QED BY <1>3, <1>5, <1>6 DEF Writes

LEMMA GraphWritten ==
    ASSUME FollowInv, NEW o \in FollowOps, OthersHeld(o), follows' = follows, graph' = graph, met' = met,
           Writes(o), Writes(o)', fops'[o].kind = fops[o].kind, fops'[o].edges = fops[o].edges,
           \A e : <<"delete", e>> \in fops[o].todo => <<"delete", e>> \in fops'[o].todo
    PROVE  GraphOwed'
  <1>1. \A others : Met("follow", others)' <=> Met("follow", others)
    BY DEF Met
  <1>2. \A p \in FollowOps : /\ Writes(p)' <=> Writes(p)
                             /\ Writes(p) => /\ fops'[p].kind = fops[p].kind /\ fops'[p].edges = fops[p].edges
                                             /\ \A e : <<"delete", e>> \in fops[p].todo => <<"delete", e>> \in fops'[p].todo
    BY DEF OthersHeld, Writes
  <1> QED BY <1>1, <1>2 DEF FollowInv, GraphOwed

LEMMA OwedFinite ==
    ASSUME FollowInv, NEW field \in Fields, NEW u \in Accounts
    PROVE  /\ IsFiniteSet(Ups(field, u)) /\ IsFiniteSet(Downs(field, u))
           /\ IsFiniteSet({e \in follows : EndOf(e, field) = u})
           /\ Cardinality(Ups(field, u)) \in Nat /\ Cardinality(Downs(field, u)) \in Nat
           /\ Following(u, field) \in Nat /\ counts[field][u] \in Nat
  <1>1. IsFiniteSet(Accounts \X Accounts)
    BY FollowsAssumption, FS_Product
  <1>2. IsFiniteSet(Edges)
    BY <1>1, FS_Subset DEF Edges
  <1>3. IsFiniteSet(FollowOps \X Edges)
    BY <1>2, FollowsAssumption, FS_Product
  <1>4. Ups(field, u) \subseteq FollowOps \X Edges /\ Downs(field, u) \subseteq FollowOps \X Edges
    BY DEF Ups, Downs
  <1>5. {e \in follows : EndOf(e, field) = u} \subseteq Edges
    BY DEF FollowInv, FollowTypes
  <1>6. IsFiniteSet(Ups(field, u)) /\ IsFiniteSet(Downs(field, u)) /\ IsFiniteSet({e \in follows : EndOf(e, field) = u})
    BY <1>2, <1>3, <1>4, <1>5, FS_Subset
  <1>7. counts[field][u] \in Nat
    BY DEF FollowInv, FollowTypes
  <1> QED BY <1>6, <1>7, FS_CardinalityType DEF Following

(* Doing the count of an edge takes it off what is owed. *)
LEMMA CountDone ==
    ASSUME FollowInv, NEW o \in FollowOps, NEW f \in Fields, NEW e \in Edges, <<f, e>> \in fops[o].todo,
           OthersHeld(o), Writes(o), Writes(o)', fops'[o].kind = fops[o].kind,
           fops'[o].todo = fops[o].todo \ {<<f, e>>},
           NEW field \in Fields, NEW u \in Accounts
    PROVE  /\ fops[o].kind = "follow" =>
                /\ Downs(field, u)' = Downs(field, u)
                /\ IF field = f /\ EndOf(e, f) = u
                   THEN Ups(field, u)' = Ups(field, u) \ {<<o, e>>} /\ <<o, e>> \in Ups(field, u)
                   ELSE Ups(field, u)' = Ups(field, u)
           /\ fops[o].kind # "follow" =>
                /\ Ups(field, u)' = Ups(field, u)
                /\ IF field = f /\ EndOf(e, f) = u
                   THEN Downs(field, u)' = Downs(field, u) \ {<<o, e>>} /\ <<o, e>> \in Downs(field, u)
                   ELSE Downs(field, u)' = Downs(field, u)
  <1>1. \A p \in FollowOps : p # o => fops'[p] = fops[p] /\ (Writes(p)' <=> Writes(p))
    BY DEF OthersHeld, Writes
  <1>2. ASSUME NEW x \in Edges
        PROVE  <<field, x>> \in fops'[o].todo <=> <<field, x>> \in fops[o].todo /\ ~(field = f /\ x = e)
    OBVIOUS
  <1>3. ASSUME NEW p \in FollowOps, NEW x \in Edges
        PROVE  /\ fops[o].kind = "follow" =>
                    /\ <<p, x>> \in Downs(field, u)' <=> <<p, x>> \in Downs(field, u)
                    /\ <<p, x>> \in Ups(field, u)' <=> <<p, x>> \in Ups(field, u) /\ ~(p = o /\ x = e /\ field = f)
               /\ fops[o].kind # "follow" =>
                    /\ <<p, x>> \in Ups(field, u)' <=> <<p, x>> \in Ups(field, u)
                    /\ <<p, x>> \in Downs(field, u)' <=> <<p, x>> \in Downs(field, u) /\ ~(p = o /\ x = e /\ field = f)
    BY <1>1, <1>2 DEF Ups, Downs
  <1>4. Ups(field, u) \subseteq FollowOps \X Edges /\ Downs(field, u) \subseteq FollowOps \X Edges
        /\ Ups(field, u)' \subseteq FollowOps \X Edges /\ Downs(field, u)' \subseteq FollowOps \X Edges
    BY DEF Ups, Downs
  <1>5. field = f /\ EndOf(e, f) = u =>
           /\ fops[o].kind = "follow" => <<o, e>> \in Ups(field, u)
           /\ fops[o].kind # "follow" => <<o, e>> \in Downs(field, u)
    BY DEF Ups, Downs
  <1>6. ~(field = f /\ EndOf(e, f) = u) => (field # f \/ (<<o, e>> \notin Ups(field, u) /\ <<o, e>> \notin Downs(field, u)))
    BY DEF Ups, Downs
  <1>7. ASSUME NEW A, NEW B, A \subseteq FollowOps \X Edges, B \subseteq FollowOps \X Edges,
               \A p \in FollowOps, x \in Edges : <<p, x>> \in A <=> <<p, x>> \in B
        PROVE  A = B
    <2>1. \A z \in FollowOps \X Edges : z \in A <=> z \in B
      BY <1>7
    <2> QED BY <1>7, <2>1
  <1>8. ASSUME NEW A, NEW B, A \subseteq FollowOps \X Edges, B \subseteq FollowOps \X Edges,
               \A p \in FollowOps, x \in Edges : <<p, x>> \in A <=> <<p, x>> \in B /\ ~(p = o /\ x = e)
        PROVE  A = B \ {<<o, e>>}
    BY <1>8
  <1>9. CASE fops[o].kind = "follow"
    <2>1. Downs(field, u)' = Downs(field, u)
      BY <1>3, <1>4, <1>7, <1>9
    <2>2. CASE field = f /\ EndOf(e, f) = u
      BY <1>3, <1>4, <1>5, <1>8, <1>9, <2>1, <2>2
    <2>3. CASE ~(field = f /\ EndOf(e, f) = u)
      BY <1>3, <1>4, <1>6, <1>7, <1>9, <2>1, <2>3
    <2> QED BY <1>9, <2>2, <2>3, <2>1
  <1>10. CASE fops[o].kind # "follow"
    <2>1. Ups(field, u)' = Ups(field, u)
      BY <1>3, <1>4, <1>7, <1>10
    <2>2. CASE field = f /\ EndOf(e, f) = u
      BY <1>3, <1>4, <1>5, <1>8, <1>10, <2>1, <2>2
    <2>3. CASE ~(field = f /\ EndOf(e, f) = u)
      BY <1>3, <1>4, <1>6, <1>7, <1>10, <2>1, <2>3
    <2> QED BY <1>10, <2>2, <2>3, <2>1
  <1> QED BY <1>9, <1>10

LEMMA CountUpKeeps ==
    ASSUME FollowInv, NEW o \in FollowOps, NEW f \in Fields, NEW e \in Edges, countUp(o, f, e)
    PROVE  FollowInv'
  <1> USE DEF countUp, Tasks
  <1>1. /\ OthersHeld(o) /\ Writes(o) /\ Writes(o)' /\ fops' \in [FollowOps -> Handlers] /\ OverlapsSeen'
        /\ fops'[o].kind = "follow" /\ fops'[o].edges = fops[o].edges
        /\ fops'[o].todo = fops[o].todo \ {<<f, e>>}
    BY TaskDone
  <1>2. fops[o].at = "counting" /\ fops'[o].at = "counting" /\ \A x : <<f, e>> # <<"delete", x>>
    BY <1>1 DEF Writes, Fields
  <1>3. EndOf(e, f) \in Accounts
    BY DEF EndOf, Edges
  <1>4. counts' \in [Fields -> [Accounts -> Nat]] /\ FollowTypes'
    BY <1>1, <1>3 DEF FollowInv, FollowTypes
  <1>5. TasksInOrder'
    BY <1>1, <1>2, TasksStay DEF FollowInv, TasksInOrder
  <1>6. GraphOwed'
    BY <1>1, <1>2, GraphWritten
  <1>7. CacheOwed'
    BY <1>1, <1>2, CacheStays
  <1>8. BlocksSever'
    BY <1>1, <1>2, BlocksStay DEF SeversEdge
  <1>9. CountsOwed'
    <2> SUFFICES ASSUME {"stopped"} \notin met, NEW u \in Accounts, NEW field \in Fields
                 PROVE  /\ counts'[field][u] + Cardinality(Ups(field, u)') >= Following(u, field) + Cardinality(Downs(field, u)')
                        /\ ~Met("follow", {"unfollow", "block"}) =>
                             counts'[field][u] + Cardinality(Ups(field, u)') = Following(u, field) + Cardinality(Downs(field, u)')
      BY DEF CountsOwed, Following, Met
    <2>1. /\ counts[field][u] + Cardinality(Ups(field, u)) >= Following(u, field) + Cardinality(Downs(field, u))
          /\ ~Met("follow", {"unfollow", "block"}) =>
               counts[field][u] + Cardinality(Ups(field, u)) = Following(u, field) + Cardinality(Downs(field, u))
      BY DEF FollowInv, CountsOwed
    <2>0. /\ Cardinality(Ups(field, u)) \in Nat /\ Cardinality(Downs(field, u)) \in Nat
          /\ Following(u, field) \in Nat /\ counts[field][u] \in Nat
      BY OwedFinite
    <2>2. /\ Downs(field, u)' = Downs(field, u)
          /\ IF field = f /\ EndOf(e, f) = u
             THEN Ups(field, u)' = Ups(field, u) \ {<<o, e>>} /\ <<o, e>> \in Ups(field, u)
             ELSE Ups(field, u)' = Ups(field, u)
      BY <1>1, CountDone
    <2>3. CASE field = f /\ EndOf(e, f) = u
      <3>1. Ups(field, u)' = Ups(field, u) \ {<<o, e>>} /\ <<o, e>> \in Ups(field, u)
        BY <2>2, <2>3
      <3>2. Cardinality(Ups(field, u)') = Cardinality(Ups(field, u)) - 1
        BY <3>1, OwedFinite, FS_RemoveElement
      <3>3. counts'[field][u] = counts[field][u] + 1
        BY <2>3, <1>3 DEF FollowInv, FollowTypes
      <3> QED BY <2>1, <2>2, <3>2, <3>3, <2>0
    <2>4. CASE ~(field = f /\ EndOf(e, f) = u)
      <3>1. Ups(field, u)' = Ups(field, u)
        BY <2>2, <2>4
      <3>2. counts'[field][u] = counts[field][u]
        BY <2>4, <1>3 DEF FollowInv, FollowTypes
      <3> QED BY <2>1, <2>2, <3>1, <3>2
    <2> QED BY <2>3, <2>4
  <1> QED BY <1>1, <1>4, <1>5, <1>6, <1>7, <1>8, <1>9 DEF FollowInv

LEMMA CountDownKeeps ==
    ASSUME FollowInv, NEW o \in FollowOps, NEW f \in Fields, NEW e \in Edges, countDown(o, f, e)
    PROVE  FollowInv'
  <1> USE DEF countDown, Tasks
  <1>1. /\ OthersHeld(o) /\ Writes(o) /\ Writes(o)' /\ fops' \in [FollowOps -> Handlers] /\ OverlapsSeen'
        /\ fops'[o].kind = fops[o].kind /\ fops'[o].edges = fops[o].edges
        /\ fops'[o].todo = fops[o].todo \ {<<f, e>>} /\ fops[o].kind # "follow"
    BY TaskDone
  <1>2. fops[o].at = "counting" /\ fops'[o].at = "counting" /\ \A x : <<f, e>> # <<"delete", x>>
    BY <1>1 DEF Writes, Fields
  <1>3. EndOf(e, f) \in Accounts
    BY DEF EndOf, Edges
  <1>4. counts' \in [Fields -> [Accounts -> Nat]] /\ FollowTypes'
    BY <1>1, <1>3 DEF FollowInv, FollowTypes
  <1>5. TasksInOrder'
    BY <1>1, <1>2, TasksStay DEF FollowInv, TasksInOrder
  <1>6. GraphOwed'
    BY <1>1, <1>2, GraphWritten
  <1>7. CacheOwed'
    BY <1>1, <1>2, CacheStays
  <1>8. BlocksSever'
    BY <1>1, <1>2, BlocksStay DEF SeversEdge
  <1>9. CountsOwed'
    <2> SUFFICES ASSUME {"stopped"} \notin met, NEW u \in Accounts, NEW field \in Fields
                 PROVE  /\ counts'[field][u] + Cardinality(Ups(field, u)') >= Following(u, field) + Cardinality(Downs(field, u)')
                        /\ ~Met("follow", {"unfollow", "block"}) =>
                             counts'[field][u] + Cardinality(Ups(field, u)') = Following(u, field) + Cardinality(Downs(field, u)')
      BY DEF CountsOwed, Following, Met
    <2>1. /\ counts[field][u] + Cardinality(Ups(field, u)) >= Following(u, field) + Cardinality(Downs(field, u))
          /\ ~Met("follow", {"unfollow", "block"}) =>
               counts[field][u] + Cardinality(Ups(field, u)) = Following(u, field) + Cardinality(Downs(field, u))
      BY DEF FollowInv, CountsOwed
    <2>0. /\ Cardinality(Ups(field, u)) \in Nat /\ Cardinality(Downs(field, u)) \in Nat
          /\ Following(u, field) \in Nat /\ counts[field][u] \in Nat
      BY OwedFinite
    <2>2. /\ Ups(field, u)' = Ups(field, u)
          /\ IF field = f /\ EndOf(e, f) = u
             THEN Downs(field, u)' = Downs(field, u) \ {<<o, e>>} /\ <<o, e>> \in Downs(field, u)
             ELSE Downs(field, u)' = Downs(field, u)
      BY <1>1, CountDone
    <2>3. CASE field = f /\ EndOf(e, f) = u
      <3>1. Downs(field, u)' = Downs(field, u) \ {<<o, e>>} /\ <<o, e>> \in Downs(field, u)
        BY <2>2, <2>3
      <3>2. Cardinality(Downs(field, u)') = Cardinality(Downs(field, u)) - 1
        BY <3>1, OwedFinite, FS_RemoveElement
      <3>3. counts'[field][u] = IF counts[field][u] > 0 THEN counts[field][u] - 1 ELSE counts[field][u]
        BY <2>3, <1>3 DEF FollowInv, FollowTypes
      (* A count of 0 with a row to be counted down: a follow is under way. *)
      <3>4. ~Met("follow", {"unfollow", "block"}) => Ups(field, u) = {}
        <4> SUFFICES ASSUME NEW x \in Ups(field, u)
                     PROVE  Met("follow", {"unfollow", "block"})
          OBVIOUS
        <4>1. x[1] \in FollowOps /\ Running(x[1]) /\ fops[x[1]].kind = "follow"
          BY DEF Ups, Writes, Running
        <4>2. Running(o) /\ fops[o].kind \in {"unfollow", "block"}
          BY <1>1, KindsOf DEF Running, Writes, Writing, FollowInv
        <4> QED BY <4>1, <4>2, NoDeletionBeside DEF Met
      <3>5. ~Met("follow", {"unfollow", "block"}) => Cardinality(Ups(field, u)) = 0
        BY <3>4, FS_EmptySet
      <3>6. Cardinality(Downs(field, u)) # 0
        BY <3>1, OwedFinite, FS_EmptySet
      <3> QED BY <2>1, <2>2, <3>2, <3>3, <3>5, <3>6, <2>0
    <2>4. CASE ~(field = f /\ EndOf(e, f) = u)
      <3>1. Downs(field, u)' = Downs(field, u)
        BY <2>2, <2>4
      <3>2. counts'[field][u] = counts[field][u]
        BY <2>4, <1>3 DEF FollowInv, FollowTypes
      <3> QED BY <2>1, <2>2, <3>1, <3>2
    <2> QED BY <2>3, <2>4
  <1> QED BY <1>1, <1>4, <1>5, <1>6, <1>7, <1>8, <1>9 DEF FollowInv

-----------------------------------------------------------------------------
(* The handlers that end, and the rows of the blocks. *)
LEMMA DrawKeeps == ASSUME FollowInv, NEW o \in FollowOps, drawGraph(o) PROVE FollowInv'
  <1> USE DEF drawGraph, Tasks
  <1>0. /\ Writes(o) /\ fops[o].todo = {} /\ fops[o].edges \subseteq Edges /\ Running(o)
        /\ fops[o].at = "counting"
    BY KindsOf DEF Writes, Writing, FollowInv, Running
  <1>1. fops' = [fops EXCEPT ![o] = NoHandler] /\ NoHandler \in Handlers
    BY DEF Step, Handlers
  <1>2. OthersHeld(o) /\ fops'[o] = NoHandler /\ fops' \in [FollowOps -> Handlers]
    BY <1>1, Replaced DEF FollowInv
  <1>3. fops'[o].at = "idle" /\ ~Writes(o)'
    BY <1>2 DEF NoHandler, Writes
  <1>4. FollowTypes'
    BY <1>0, <1>2 DEF FollowInv, FollowTypes
  <1>5. OverlapsSeen'
    BY <1>0, <1>2, <1>3, OverlapsGoOn
  <1>6. TasksInOrder'
    BY <1>2, <1>3, TasksStay
  <1>7. CountsOwed'
    BY <1>0, <1>2, <1>3, CountsStay DEF OwesNoCount
  <1>8. BlocksSever'
    BY <1>0, <1>2, <1>3, BlocksStay DEF SeversEdge
  <1>9. CacheOwed'
    BY <1>0, <1>2, <1>3, CacheStays
  <1>10. GraphOwed'
    <2> SUFFICES ASSUME ~Met("follow", {"unfollow", "block"})
                 PROVE  GraphOwed'
      BY DEF GraphOwed, Met
    <2>1. \A p \in FollowOps \ {o} : fops'[p] = fops[p] /\ (Writes(p)' <=> Writes(p))
      BY <1>2 DEF OthersHeld, Writes
    <2>2. \A p \in FollowOps : Writes(p)' =>
              /\ fops'[p].kind = "follow" => fops'[p].edges \subseteq follows
              /\ fops'[p].kind # "follow" => \A e \in fops'[p].edges \cap follows : <<"delete", e>> \in fops'[p].todo
      BY <1>3, <2>1 DEF FollowInv, GraphOwed
    <2>3. CASE fops[o].kind = "follow"
      <3>1. fops[o].edges \subseteq follows /\ graph' = graph \cup fops[o].edges
        BY <1>0, <2>3 DEF FollowInv, GraphOwed
      <3>2. \A e \in follows \ graph' : \E p \in FollowOps \ {o} : Writes(p) /\ fops[p].kind = "follow" /\ e \in fops[p].edges
        BY <3>1 DEF FollowInv, GraphOwed
      <3>3. \A e \in graph' \ follows : \E p \in FollowOps \ {o} : Writes(p) /\ fops[p].kind # "follow" /\ e \in fops[p].edges
        BY <3>1, <2>3 DEF FollowInv, GraphOwed
      <3> QED BY <2>1, <2>2, <3>2, <3>3 DEF GraphOwed
    <2>4. CASE fops[o].kind # "follow"
      <3>1. fops[o].edges \cap follows = {} /\ graph' = graph \ fops[o].edges
        BY <1>0, <2>4 DEF FollowInv, GraphOwed
      <3>2. \A e \in follows \ graph' : \E p \in FollowOps \ {o} : Writes(p) /\ fops[p].kind = "follow" /\ e \in fops[p].edges
        BY <3>1, <2>4 DEF FollowInv, GraphOwed
      <3>3. \A e \in graph' \ follows : \E p \in FollowOps \ {o} : Writes(p) /\ fops[p].kind # "follow" /\ e \in fops[p].edges
        BY <3>1 DEF FollowInv, GraphOwed
      <3> QED BY <2>1, <2>2, <3>2, <3>3 DEF GraphOwed
    <2> QED BY <2>3, <2>4
  <1> QED BY <1>4, <1>5, <1>6, <1>7, <1>8, <1>9, <1>10 DEF FollowInv

LEMMA InsertKeeps == ASSUME FollowInv, NEW o \in FollowOps, insertBlock(o) PROVE FollowInv'
  <1> USE DEF insertBlock
  <1>0. PICK op : op = [fops[o] EXCEPT !.at = "invalidate"]
    OBVIOUS
  <1>1. fops[o] \in Blocking /\ Running(o) /\ fops[o].at = "block"
    BY KindsOf DEF FollowInv, Running
  <1>2. op \in Blocking /\ op.at = "invalidate" /\ op.edge = fops[o].edge /\ op.kind = "block"
    BY <1>0, <1>1 DEF Blocking
  <1>3. OthersHeld(o) /\ fops'[o] = op /\ fops' \in [FollowOps -> Handlers]
    BY <1>0, <1>2, Replaced DEF FollowInv, Handlers, Step
  <1>4. fops[o].kind = "block" /\ ~Writes(o) /\ ~Writes(o)' /\ fops[o].edge \in Edges
    BY <1>1, <1>2, <1>3 DEF Writes, Blocking
  <1>5. FollowTypes'
    BY <1>3, <1>4 DEF FollowInv, FollowTypes
  <1>6. OverlapsSeen'
    BY <1>1, <1>2, <1>3, <1>4, OverlapsGoOn
  <1>7. TasksInOrder' /\ GraphOwed'
    BY <1>3, <1>4, TasksStay, GraphStays
  <1>8. CountsOwed'
    BY <1>3, <1>4, CountsStay DEF OwesNoCount
  <1>9. BlocksSever'
    <2> SUFFICES ASSUME {"stopped"} \notin met, ~Met("follow", {"block"})
                 PROVE  /\ \A e \in follows : Apart(e)' => \E p \in FollowOps : SeversEdge(p, e)'
                        /\ \A p \in FollowOps : fops'[p].at # "create"
      BY DEF BlocksSever, Met
    <2>1. ASSUME NEW p \in FollowOps, fops'[p].at = "create"
          PROVE  FALSE
      <3>1. p # o /\ fops[p].at = "create"
        BY <1>2, <1>3, <2>1 DEF OthersHeld
      <3>2. fops[p].kind = "follow" /\ Running(p)
        BY <3>1, KindsOf DEF FollowInv, Creating, Running
      <3> QED BY <1>1, <1>4, <3>2, NoDeletionBeside DEF Met
    <2>2. ASSUME NEW e \in follows, Apart(e)'
          PROVE  \E p \in FollowOps : SeversEdge(p, e)'
      <3>1. CASE Apart(e)
        <4>1. PICK p \in FollowOps : SeversEdge(p, e)
          BY <3>1 DEF FollowInv, BlocksSever
        <4>2. p # o
          BY <4>1, <1>1, <1>4 DEF SeversEdge
        <4> QED BY <4>1, <4>2, <1>3 DEF SeversEdge, OthersHeld, Writes
      <3>2. CASE ~Apart(e)
        <4>1. e \in Edges /\ e = <<e[1], e[2]>>
          BY DEF FollowInv, FollowTypes, Edges
        <4>2. fops[o].edge = <<fops[o].edge[1], fops[o].edge[2]>>
          BY <1>4 DEF Edges
        <4>3. e \in Both(fops[o].edge)
          BY <2>2, <3>2, <4>1, <4>2 DEF Apart, Both
        <4> QED BY <1>2, <1>3, <4>3 DEF SeversEdge
      <3> QED BY <3>1, <3>2
    <2> QED BY <2>1, <2>2
  <1>10. CacheOwed'
    <2> SUFFICES ASSUME ~Met("read", {"block", "unblock"})
                 PROVE  /\ \A u \in Accounts : cache[u] # Uncached =>
                             cache[u].set = With(u)'
                             \/ \E p \in FollowOps : fops'[p].at = "invalidate" /\ u \in {fops'[p].edge[1], fops'[p].edge[2]}
                        /\ \A p \in FollowOps : fops'[p].at # "put"
      BY DEF CacheOwed, Met
    <2>1. ASSUME NEW p \in FollowOps, fops'[p].at = "put"
          PROVE  FALSE
      <3>1. p # o /\ fops[p].at = "put"
        BY <1>2, <1>3, <2>1 DEF OthersHeld
      <3>2. fops[p].kind = "read" /\ Running(p)
        BY <3>1, KindsOf DEF FollowInv, Reading, Running
      <3> QED BY <1>1, <1>4, <3>2, NoBlockBesideRead DEF Met
    <2>2. ASSUME NEW u \in Accounts, cache[u] # Uncached
          PROVE  cache[u].set = With(u)'
                 \/ \E p \in FollowOps : fops'[p].at = "invalidate" /\ u \in {fops'[p].edge[1], fops'[p].edge[2]}
      <3>1. CASE u \in {fops[o].edge[1], fops[o].edge[2]}
        BY <1>2, <1>3, <3>1
      <3>2. CASE u \notin {fops[o].edge[1], fops[o].edge[2]}
        <4>1. With(u)' = With(u)
          BY <1>4, <3>2, WithOthers
        <4>2. \A p \in FollowOps : fops[p].at = "invalidate" => fops'[p] = fops[p]
          BY <1>1, <1>3 DEF OthersHeld
        <4> QED BY <2>2, <4>1, <4>2 DEF FollowInv, CacheOwed
      <3> QED BY <3>1, <3>2
    <2> QED BY <2>1, <2>2
  <1> QED BY <1>5, <1>6, <1>7, <1>8, <1>9, <1>10 DEF FollowInv

LEMMA InvalidateKeeps == ASSUME FollowInv, NEW o \in FollowOps, invalidateBlockCache(o) PROVE FollowInv'
  <1> USE DEF invalidateBlockCache
  <1>1. PICK e : e = fops[o].edge
    OBVIOUS
  <1>2. fops[o] \in Blocking \cup Unblocking /\ Running(o) /\ fops[o].at = "invalidate" /\ e \in Edges
    BY <1>1, KindsOf DEF FollowInv, Running, Blocking, Unblocking
  <1>3. Both(e) \subseteq Edges
    BY <1>2 DEF Both, Edges
  <1>4. PICK op : op = IF fops[o].kind = "unblock" THEN NoHandler
                       ELSE [kind |-> "block", at |-> "counting", edges |-> Both(e), todo |-> {"delete"} \X Both(e)]
    OBVIOUS
  <1>5. fops' = [fops EXCEPT ![o] = op]
    BY <1>1, <1>4 DEF Step
  <1>6. /\ fops[o].kind = "unblock" => op = NoHandler
        /\ fops[o].kind # "unblock" =>
             /\ op \in Writing /\ op.kind = "block" /\ op.at = "counting" /\ op.edges = Both(e)
             /\ op.todo = {"delete"} \X Both(e) /\ fops[o].kind = "block"
    BY <1>2, <1>3, <1>4 DEF Writing, TaskSet, Blocking, Unblocking
  <1>7. op \in Handlers /\ (op.at = "idle" \/ op.at = "counting") /\ (op.at = "counting" => fops[o].kind = "block")
    BY <1>6 DEF Handlers, NoHandler
  <1>8. OthersHeld(o) /\ fops'[o] = op /\ fops' \in [FollowOps -> Handlers]
    BY <1>5, <1>7, Replaced DEF FollowInv
  <1>9. ~Writes(o) /\ (Writes(o)' => op.kind = "block" /\ op.edges = Both(e) /\ op.todo = {"delete"} \X Both(e))
    BY <1>2, <1>6, <1>8 DEF Writes, NoHandler
  <1>10. FollowTypes'
    <2>1. cache' \in [Accounts -> {Uncached} \cup CachedSet]
      BY DEF FollowInv, FollowTypes
    <2> QED BY <1>8, <2>1 DEF FollowInv, FollowTypes
  <1>11. OverlapsSeen'
    BY <1>2, <1>6, <1>8, OverlapsGoOn DEF NoHandler
  <1>12. Writes(o)' => \A x : /\ <<"delete", x>> \in op.todo <=> x \in Both(e)
                              /\ \A field \in Fields : <<field, x>> \notin op.todo
    BY <1>9 DEF Fields
  <1>13. TasksInOrder'
    BY <1>8, <1>9, <1>12, TasksStay
  <1>14. GraphOwed'
    BY <1>8, <1>9, <1>12, GraphStays
  <1>15. CountsOwed'
    BY <1>8, <1>9, <1>12, CountsStay DEF OwesNoCount
  <1>16. BlocksSever'
    <2>1. ASSUME NEW x \in follows, SeversEdge(o, x)
          PROVE  SeversEdge(o, x)'
      <3>1. fops[o].kind = "block" /\ x \in Both(e)
        BY <1>1, <1>9, <2>1 DEF SeversEdge
      <3>2. Writes(o)'
        BY <1>6, <1>8, <3>1 DEF Writes
      <3> QED BY <1>8, <1>9, <1>12, <3>1, <3>2 DEF SeversEdge
    <2> QED BY <1>7, <1>8, <2>1, BlocksStay
  <1>17. CacheOwed'
    <2> SUFFICES ASSUME ~Met("read", {"block", "unblock"})
                 PROVE  /\ \A u \in Accounts : cache'[u] # Uncached =>
                             cache'[u].set = With(u)
                             \/ \E p \in FollowOps : fops'[p].at = "invalidate" /\ u \in {fops'[p].edge[1], fops'[p].edge[2]}
                        /\ \A p \in FollowOps : fops'[p].at = "put" => fops[p].at = "put" /\ fops'[p] = fops[p]
      BY DEF CacheOwed, Met, With, Apart, FollowInv
    <2>1. \A p \in FollowOps : fops'[p].at = "put" => fops[p].at = "put" /\ fops'[p] = fops[p]
      BY <1>7, <1>8 DEF OthersHeld
    <2>2. ASSUME NEW u \in Accounts, cache'[u] # Uncached
          PROVE  cache'[u].set = With(u)
                 \/ \E p \in FollowOps : fops'[p].at = "invalidate" /\ u \in {fops'[p].edge[1], fops'[p].edge[2]}
      <3>1. u \notin {e[1], e[2]} /\ cache'[u] = cache[u]
        BY <1>1, <2>2
      <3>2. \A p \in FollowOps : fops[p].at = "invalidate" /\ u \in {fops[p].edge[1], fops[p].edge[2]} => p # o
        BY <1>1, <3>1
      <3> QED BY <1>8, <2>2, <3>1, <3>2 DEF FollowInv, CacheOwed, OthersHeld
    <2> QED BY <2>1, <2>2
  <1> QED BY <1>10, <1>11, <1>13, <1>14, <1>15, <1>16, <1>17 DEF FollowInv

LEMMA PutKeeps == ASSUME FollowInv, NEW o \in FollowOps, put(o) PROVE FollowInv'
  <1> USE DEF put
  <1>1. fops[o] \in Reading /\ Running(o) /\ fops[o].at = "put" /\ ~Writes(o)
    BY KindsOf DEF FollowInv, Running, Writes
  <1>2. fops' = [fops EXCEPT ![o] = NoHandler] /\ NoHandler \in Handlers
    BY DEF Step, Handlers
  <1>3. OthersHeld(o) /\ fops'[o] = NoHandler /\ fops' \in [FollowOps -> Handlers]
    BY <1>2, Replaced DEF FollowInv
  <1>4. fops'[o].at = "idle" /\ ~Writes(o)'
    BY <1>3 DEF NoHandler, Writes
  <1>5. FollowTypes'
    <2>1. [cached |-> TRUE, set |-> fops[o].set] \in CachedSet
      BY <1>1 DEF Reading, CachedSet
    <2> QED BY <1>3, <2>1 DEF FollowInv, FollowTypes
  <1>6. OverlapsSeen'
    BY <1>1, <1>3, <1>4, OverlapsGoOn
  <1>7. TasksInOrder' /\ GraphOwed'
    BY <1>1, <1>3, <1>4, TasksStay, GraphStays
  <1>8. CountsOwed'
    BY <1>1, <1>3, <1>4, CountsStay DEF OwesNoCount
  <1>9. BlocksSever'
    BY <1>1, <1>3, <1>4, BlocksStay DEF SeversEdge
  <1>10. CacheOwed'
    <2> SUFFICES ASSUME ~Met("read", {"block", "unblock"})
                 PROVE  /\ \A u \in Accounts : cache'[u] # Uncached =>
                             cache'[u].set = With(u)
                             \/ \E p \in FollowOps : fops'[p].at = "invalidate" /\ u \in {fops'[p].edge[1], fops'[p].edge[2]}
                        /\ \A p \in FollowOps : fops'[p].at = "put" => fops[p].at = "put" /\ fops'[p] = fops[p]
      BY DEF CacheOwed, Met, With, Apart, FollowInv
    <2>1. \A p \in FollowOps : fops'[p].at = "put" => fops[p].at = "put" /\ fops'[p] = fops[p]
      BY <1>3, <1>4 DEF OthersHeld
    <2>2. ASSUME NEW u \in Accounts, cache'[u] # Uncached
          PROVE  cache'[u].set = With(u)
                 \/ \E p \in FollowOps : fops'[p].at = "invalidate" /\ u \in {fops'[p].edge[1], fops'[p].edge[2]}
      <3>1. CASE u = fops[o].viewer
        <4>1. cache'[u].set = fops[o].set
          BY <3>1 DEF FollowInv, FollowTypes
        <4> QED BY <1>1, <3>1, <4>1 DEF FollowInv, CacheOwed
      <3>2. CASE u # fops[o].viewer
        <4>1. cache'[u] = cache[u]
          BY <3>2 DEF FollowInv, FollowTypes
        <4> QED BY <1>1, <1>3, <2>2, <4>1 DEF FollowInv, CacheOwed, OthersHeld
      <3> QED BY <3>1, <3>2
    <2> QED BY <2>1, <2>2
  <1> QED BY <1>5, <1>6, <1>7, <1>8, <1>9, <1>10 DEF FollowInv

-----------------------------------------------------------------------------
(* The rows of the follows. *)

(* Whoever takes on the count of an edge owes it. *)
LEMMA CountOwed ==
    ASSUME FollowInv, NEW o \in FollowOps, NEW e \in Edges, OthersHeld(o), Writes(o)',
           Writes(o) => fops'[o].kind = fops[o].kind,
           \A field \in Fields : <<field, e>> \in fops'[o].todo /\ (Writes(o) => <<field, e>> \notin fops[o].todo),
           \A field \in Fields, x \in Edges \ {e} : <<field, x>> \in fops'[o].todo <=> Writes(o) /\ <<field, x>> \in fops[o].todo,
           NEW field \in Fields, NEW u \in Accounts
    PROVE  /\ fops'[o].kind = "follow" =>
                /\ Downs(field, u)' = Downs(field, u)
                /\ IF EndOf(e, field) = u
                   THEN Ups(field, u)' = Ups(field, u) \cup {<<o, e>>} /\ <<o, e>> \notin Ups(field, u)
                   ELSE Ups(field, u)' = Ups(field, u)
           /\ fops'[o].kind # "follow" =>
                /\ Ups(field, u)' = Ups(field, u)
                /\ IF EndOf(e, field) = u
                   THEN Downs(field, u)' = Downs(field, u) \cup {<<o, e>>} /\ <<o, e>> \notin Downs(field, u)
                   ELSE Downs(field, u)' = Downs(field, u)
  <1>1. \A p \in FollowOps : p # o => fops'[p] = fops[p] /\ (Writes(p)' <=> Writes(p))
    BY DEF OthersHeld, Writes
  <1>3. ASSUME NEW p \in FollowOps, NEW x \in Edges
        PROVE  /\ fops'[o].kind = "follow" =>
                    /\ <<p, x>> \in Downs(field, u)' <=> <<p, x>> \in Downs(field, u)
                    /\ <<p, x>> \in Ups(field, u)' <=> <<p, x>> \in Ups(field, u) \/ (p = o /\ x = e /\ EndOf(e, field) = u)
               /\ fops'[o].kind # "follow" =>
                    /\ <<p, x>> \in Ups(field, u)' <=> <<p, x>> \in Ups(field, u)
                    /\ <<p, x>> \in Downs(field, u)' <=> <<p, x>> \in Downs(field, u) \/ (p = o /\ x = e /\ EndOf(e, field) = u)
    <2>1. CASE p = o
      BY <2>1, <1>3 DEF Ups, Downs
    <2>2. CASE p # o
      BY <1>1, <1>3, <2>2 DEF Ups, Downs
    <2> QED BY <2>1, <2>2
  <1>4. Ups(field, u) \subseteq FollowOps \X Edges /\ Downs(field, u) \subseteq FollowOps \X Edges
        /\ Ups(field, u)' \subseteq FollowOps \X Edges /\ Downs(field, u)' \subseteq FollowOps \X Edges
    BY DEF Ups, Downs
  <1>5. <<o, e>> \notin Ups(field, u) /\ <<o, e>> \notin Downs(field, u)
    BY DEF Ups, Downs
  <1>7. ASSUME NEW A, NEW B, A \subseteq FollowOps \X Edges, B \subseteq FollowOps \X Edges,
               \A p \in FollowOps, x \in Edges : <<p, x>> \in A <=> <<p, x>> \in B
        PROVE  A = B
    <2>1. \A z \in FollowOps \X Edges : z \in A <=> z \in B
      BY <1>7
    <2> QED BY <1>7, <2>1
  <1>8. ASSUME NEW A, NEW B, A \subseteq FollowOps \X Edges, B \subseteq FollowOps \X Edges,
               \A p \in FollowOps, x \in Edges : <<p, x>> \in A <=> <<p, x>> \in B \/ (p = o /\ x = e)
        PROVE  A = B \cup {<<o, e>>}
    <2>1. \A z \in FollowOps \X Edges : z \in A <=> z \in B \cup {<<o, e>>}
      BY <1>8
    <2>2. B \cup {<<o, e>>} \subseteq FollowOps \X Edges
      BY <1>8
    <2> QED BY <1>8, <2>1, <2>2
  <1>9. CASE fops'[o].kind = "follow"
    <2>1. Downs(field, u)' = Downs(field, u)
      BY <1>3, <1>4, <1>7, <1>9
    <2>2. CASE EndOf(e, field) = u
      BY <1>3, <1>4, <1>5, <1>8, <1>9, <2>1, <2>2
    <2>3. CASE EndOf(e, field) # u
      BY <1>3, <1>4, <1>7, <1>9, <2>1, <2>3
    <2> QED BY <1>9, <2>2, <2>3, <2>1
  <1>10. CASE fops'[o].kind # "follow"
    <2>1. Ups(field, u)' = Ups(field, u)
      BY <1>3, <1>4, <1>7, <1>10
    <2>2. CASE EndOf(e, field) = u
      BY <1>3, <1>4, <1>5, <1>8, <1>10, <2>1, <2>2
    <2>3. CASE EndOf(e, field) # u
      BY <1>3, <1>4, <1>7, <1>10, <2>1, <2>3
    <2> QED BY <1>10, <2>2, <2>3, <2>1
  <1> QED BY <1>9, <1>10

LEMMA CreateKeeps == ASSUME FollowInv, NEW o \in FollowOps, createFollow(o) PROVE FollowInv'
  <1> USE DEF createFollow
  <1>1. PICK e : e = fops[o].edge
    OBVIOUS
  <1>2. /\ fops[o] \in Creating /\ Running(o) /\ fops[o].at = "create" /\ e \in Edges /\ fops[o].kind = "follow"
        /\ ~Writes(o)
    BY <1>1, KindsOf DEF FollowInv, Running, Creating, Writes
  <1>3. PICK op : op = IF e \in follows THEN NoHandler
                       ELSE [kind |-> "follow", at |-> "counting", edges |-> {e}, todo |-> Counting(e)]
    OBVIOUS
  <1>4. fops' = [fops EXCEPT ![o] = op] /\ follows' = follows \cup {e}
    BY <1>1, <1>3 DEF Step
  <1>5. /\ Counting(e) \subseteq TaskSet
        /\ \A x : <<"delete", x>> \notin Counting(e)
        /\ \A field \in Fields : \A x : <<field, x>> \in Counting(e) <=> x = e
    BY <1>2 DEF Counting, TaskSet, Fields
  <1>6. CASE e \in follows
    <2>1. op = NoHandler /\ NoHandler \in Handlers /\ follows' = follows
      BY <1>3, <1>4, <1>6 DEF Handlers
    <2>2. OthersHeld(o) /\ fops'[o] = NoHandler /\ fops' \in [FollowOps -> Handlers]
      BY <1>4, <2>1, Replaced DEF FollowInv
    <2>3. fops'[o].at = "idle" /\ ~Writes(o)'
      BY <2>2 DEF NoHandler, Writes
    <2>4. FollowTypes'
      BY <2>1, <2>2 DEF FollowInv, FollowTypes
    <2>5. OverlapsSeen'
      BY <1>2, <2>2, <2>3, OverlapsGoOn
    <2>6. TasksInOrder' /\ GraphOwed'
      BY <1>2, <2>1, <2>2, <2>3, TasksStay, GraphStays
    <2>7. CountsOwed'
      BY <1>2, <2>1, <2>2, <2>3, CountsStay DEF OwesNoCount
    <2>8. BlocksSever'
      BY <1>2, <2>1, <2>2, <2>3, BlocksStay DEF SeversEdge
    <2>9. CacheOwed'
      BY <1>2, <2>1, <2>2, <2>3, CacheStays
    <2> QED BY <2>4, <2>5, <2>6, <2>7, <2>8, <2>9 DEF FollowInv
  <1>7. CASE e \notin follows
    <2>1. op \in Handlers /\ op.kind = "follow" /\ op.at = "counting" /\ op.edges = {e} /\ op.todo = Counting(e)
      BY <1>2, <1>3, <1>5, <1>7 DEF Handlers, Writing
    <2>2. OthersHeld(o) /\ fops'[o] = op /\ fops' \in [FollowOps -> Handlers]
      BY <1>4, <2>1, Replaced DEF FollowInv
    <2>3. Writes(o)' /\ fops'[o].at = "counting"
      BY <2>1, <2>2 DEF Writes
    <2>4. FollowTypes'
      BY <1>2, <1>4, <2>2 DEF FollowInv, FollowTypes
    <2>5. OverlapsSeen'
      BY <1>2, <2>1, <2>2, OverlapsGoOn
    <2>6. TasksInOrder'
      BY <1>5, <2>1, <2>2, TasksStay
    <2>7. CacheOwed'
      BY <1>2, <2>2, <2>3, CacheStays
    <2>8. BlocksSever'
      <3> SUFFICES ASSUME {"stopped"} \notin met, ~Met("follow", {"block"})
                   PROVE  /\ \A x \in follows' : Apart(x) => \E p \in FollowOps : SeversEdge(p, x)'
                          /\ \A p \in FollowOps : fops'[p].at = "create" => ~Apart(fops'[p].edge)
        BY DEF BlocksSever, Met, Apart
      <3>1. ~Apart(e)
        BY <1>1, <1>2 DEF FollowInv, BlocksSever
      <3>2. \A p \in FollowOps, x \in follows : SeversEdge(p, x) => SeversEdge(p, x)'
        BY <1>2, <2>2 DEF OthersHeld, SeversEdge, Writes
      <3>3. \A p \in FollowOps : fops'[p].at = "create" => ~Apart(fops'[p].edge)
        BY <2>2, <2>3 DEF FollowInv, BlocksSever, OthersHeld
      <3> QED BY <1>4, <3>1, <3>2, <3>3 DEF FollowInv, BlocksSever
    <2>9. GraphOwed'
      <3> SUFFICES ASSUME ~Met("follow", {"unfollow", "block"})
                   PROVE  GraphOwed'
        BY DEF GraphOwed, Met
      <3>1. \A p \in FollowOps \ {o} : fops'[p] = fops[p] /\ (Writes(p)' <=> Writes(p))
        BY <2>2 DEF OthersHeld, Writes
      <3>2. \A x \in follows' \ graph : \E p \in FollowOps : Writes(p)' /\ fops'[p].kind = "follow" /\ x \in fops'[p].edges
        BY <1>2, <1>4, <2>1, <2>2, <2>3, <3>1 DEF FollowInv, GraphOwed
      <3>3. \A x \in graph \ follows' : \E p \in FollowOps : Writes(p)' /\ fops'[p].kind # "follow" /\ x \in fops'[p].edges
        BY <1>2, <1>4, <3>1 DEF FollowInv, GraphOwed
      (* Nobody deletes beside this follow.                                 *)
      <3>4. \A p \in FollowOps : Writes(p) => fops[p].kind = "follow"
        <4> SUFFICES ASSUME NEW p \in FollowOps, Writes(p), fops[p].kind # "follow"
                     PROVE  FALSE
          OBVIOUS
        <4>1. fops[p].kind \in {"unfollow", "block"} /\ Running(p)
          BY KindsOf DEF FollowInv, Writing, Writes, Running
        <4> QED BY <1>2, <4>1, NoDeletionBeside DEF Met
      <3>5. \A p \in FollowOps : Writes(p)' => fops'[p].kind = "follow" /\ fops'[p].edges \subseteq follows'
        BY <1>2, <1>4, <2>1, <2>2, <3>1, <3>4 DEF FollowInv, GraphOwed
      <3> QED BY <3>2, <3>3, <3>5 DEF GraphOwed
    <2>10. CountsOwed'
      <3> SUFFICES ASSUME {"stopped"} \notin met, NEW u \in Accounts, NEW field \in Fields
                   PROVE  /\ counts[field][u] + Cardinality(Ups(field, u)') >= Following(u, field)' + Cardinality(Downs(field, u)')
                          /\ ~Met("follow", {"unfollow", "block"}) =>
                               counts[field][u] + Cardinality(Ups(field, u)') = Following(u, field)' + Cardinality(Downs(field, u)')
        BY DEF CountsOwed, Met
      <3>0. /\ Cardinality(Ups(field, u)) \in Nat /\ Cardinality(Downs(field, u)) \in Nat
            /\ Following(u, field) \in Nat /\ counts[field][u] \in Nat
        BY OwedFinite
      <3>1. /\ counts[field][u] + Cardinality(Ups(field, u)) >= Following(u, field) + Cardinality(Downs(field, u))
            /\ ~Met("follow", {"unfollow", "block"}) =>
                 counts[field][u] + Cardinality(Ups(field, u)) = Following(u, field) + Cardinality(Downs(field, u))
        BY DEF FollowInv, CountsOwed
      <3>2. /\ Downs(field, u)' = Downs(field, u)
            /\ IF EndOf(e, field) = u
               THEN Ups(field, u)' = Ups(field, u) \cup {<<o, e>>} /\ <<o, e>> \notin Ups(field, u)
               ELSE Ups(field, u)' = Ups(field, u)
        <4>1. \A f \in Fields : <<f, e>> \in fops'[o].todo /\ (Writes(o) => <<f, e>> \notin fops[o].todo)
          BY <1>2, <1>5, <2>1, <2>2
        <4>2. \A f \in Fields, x \in Edges \ {e} : <<f, x>> \in fops'[o].todo <=> Writes(o) /\ <<f, x>> \in fops[o].todo
          BY <1>2, <1>5, <2>1, <2>2
        <4> QED BY <1>2, <2>1, <2>2, <2>3, <4>1, <4>2, CountOwed
      <3>3. CASE EndOf(e, field) = u
        <4>1. Cardinality(Ups(field, u)') = Cardinality(Ups(field, u)) + 1
          <5>1. IsFiniteSet(Ups(field, u))
            BY OwedFinite
          <5> QED BY <3>2, <3>3, <5>1, FS_AddElement
        <4>2. {x \in follows' : EndOf(x, field) = u} = {x \in follows : EndOf(x, field) = u} \cup {e}
              /\ e \notin {x \in follows : EndOf(x, field) = u}
          BY <1>4, <1>7, <3>3
        <4>3. Following(u, field)' = Following(u, field) + 1
          <5>1. IsFiniteSet({x \in follows : EndOf(x, field) = u})
            BY OwedFinite
          <5>2. Cardinality({x \in follows' : EndOf(x, field) = u}) = Cardinality({x \in follows : EndOf(x, field) = u}) + 1
            BY <4>2, <5>1, FS_AddElement
          <5> QED BY <5>2 DEF Following
        <4> QED BY <3>0, <3>1, <3>2, <4>1, <4>3
      <3>4. CASE EndOf(e, field) # u
        <4>1. {x \in follows' : EndOf(x, field) = u} = {x \in follows : EndOf(x, field) = u}
          BY <1>4, <3>4
        <4> QED BY <3>1, <3>2, <3>4, <4>1 DEF Following
      <3> QED BY <3>3, <3>4
    <2> QED BY <2>4, <2>5, <2>6, <2>7, <2>8, <2>9, <2>10 DEF FollowInv
  <1> QED BY <1>6, <1>7

LEMMA DeleteKeeps == ASSUME FollowInv, NEW o \in FollowOps, NEW e \in Edges, deleteFollow(o, e) PROVE FollowInv'
  <1> USE DEF deleteFollow, Tasks, WasThere
  <1>1. /\ fops[o] \in Writing /\ Running(o) /\ Writes(o) /\ fops[o].at = "counting" /\ <<"delete", e>> \in fops[o].todo
        /\ fops[o].kind \in {"unfollow", "block"} /\ \A field \in Fields : <<field, e>> \notin fops[o].todo
    <2>1. fops[o] \in Writing /\ Running(o) /\ Writes(o)
      BY KindsOf DEF FollowInv, Running, Writes
    <2> QED BY <2>1 DEF FollowInv, TasksInOrder, Writing
  <1>2. PICK op : op = [fops[o] EXCEPT
         !.todo = (@ \ {<<"delete", e>>}) \cup (IF e \in follows THEN Counting(e) ELSE {}),
         !.edges = IF e \in follows THEN @ \cup {e} ELSE @]
    OBVIOUS
  <1>3. fops' = [fops EXCEPT ![o] = op] /\ follows' = follows \ {e}
    BY <1>2 DEF Step
  <1>4. /\ Counting(e) \subseteq TaskSet
        /\ \A x : <<"delete", x>> \notin Counting(e)
        /\ \A field \in Fields : \A x : <<field, x>> \in Counting(e) <=> x = e
    BY DEF Counting, TaskSet, Fields
  <1>5. /\ op \in Writing /\ op.kind = fops[o].kind /\ op.at = "counting"
        /\ op.todo = (fops[o].todo \ {<<"delete", e>>}) \cup (IF e \in follows THEN Counting(e) ELSE {})
        /\ op.edges = IF e \in follows THEN fops[o].edges \cup {e} ELSE fops[o].edges
    BY <1>1, <1>2, <1>4 DEF Writing
  <1>6. OthersHeld(o) /\ fops'[o] = op /\ fops' \in [FollowOps -> Handlers]
    BY <1>3, <1>5, Replaced DEF FollowInv, Handlers
  <1>7. Writes(o)' /\ fops'[o].at = "counting" /\ fops'[o].kind = fops[o].kind
    BY <1>5, <1>6 DEF Writes
  <1>8. \A x : <<"delete", x>> \in op.todo <=> <<"delete", x>> \in fops[o].todo /\ x # e
    BY <1>4, <1>5
  <1>9. \A field \in Fields : \A x : <<field, x>> \in op.todo <=> <<field, x>> \in fops[o].todo \/ (e \in follows /\ x = e)
    BY <1>4, <1>5 DEF Fields
  <1>10. FollowTypes'
    BY <1>3, <1>6 DEF FollowInv, FollowTypes
  <1>11. OverlapsSeen'
    BY <1>1, <1>6, <1>7, OverlapsGoOn
  <1>12. TasksInOrder'
    <2>1. \A x \in Edges : <<"delete", x>> \in fops'[o].todo =>
             fops'[o].kind # "follow" /\ \A field \in Fields : <<field, x>> \notin fops'[o].todo
      BY <1>1, <1>6, <1>7, <1>8, <1>9 DEF FollowInv, TasksInOrder
    <2> QED BY <1>6, <2>1, TasksStay
  <1>13. CacheOwed'
    BY <1>1, <1>6, <1>7, CacheStays
  <1>14. BlocksSever'
    <2> SUFFICES ASSUME {"stopped"} \notin met, ~Met("follow", {"block"})
                 PROVE  /\ \A x \in follows' : Apart(x) => \E p \in FollowOps : SeversEdge(p, x)'
                        /\ \A p \in FollowOps : fops'[p].at = "create" => ~Apart(fops'[p].edge)
      BY DEF BlocksSever, Met, Apart
    <2>1. \A p \in FollowOps, x \in follows' : SeversEdge(p, x) => SeversEdge(p, x)'
      BY <1>1, <1>3, <1>6, <1>7, <1>8 DEF OthersHeld, SeversEdge, Writes
    <2>2. \A p \in FollowOps : fops'[p].at = "create" => ~Apart(fops'[p].edge)
      BY <1>6, <1>7 DEF FollowInv, BlocksSever, OthersHeld
    <2> QED BY <1>3, <2>1, <2>2 DEF FollowInv, BlocksSever
  <1>15. GraphOwed'
    <2> SUFFICES ASSUME ~Met("follow", {"unfollow", "block"})
                 PROVE  GraphOwed'
      BY DEF GraphOwed, Met
    <2>1. \A p \in FollowOps \ {o} : fops'[p] = fops[p] /\ (Writes(p)' <=> Writes(p))
      BY <1>6 DEF OthersHeld, Writes
    (* No follow is being made beside this deletion.                        *)
    <2>2. \A p \in FollowOps : Writes(p) => fops[p].kind # "follow"
      BY <1>1, NoDeletionBeside DEF Met, Writes, Running
    <2>3. fops[o].edges \subseteq fops'[o].edges /\ (e \in follows => e \in fops'[o].edges)
          /\ fops'[o].edges \subseteq fops[o].edges \cup {e}
      BY <1>5, <1>6
    <2>4. follows' \subseteq graph
      BY <1>3, <2>2 DEF FollowInv, GraphOwed
    <2>5. \A x \in graph \ follows' : \E p \in FollowOps : Writes(p)' /\ fops'[p].kind # "follow" /\ x \in fops'[p].edges
      <3> SUFFICES ASSUME NEW x \in graph, x \notin follows'
                   PROVE  \E p \in FollowOps : Writes(p)' /\ fops'[p].kind # "follow" /\ x \in fops'[p].edges
        OBVIOUS
      <3>1. CASE x \in follows
        BY <1>1, <1>3, <1>7, <2>3, <3>1
      <3>2. CASE x \notin follows
        <4>1. PICK p \in FollowOps : Writes(p) /\ fops[p].kind # "follow" /\ x \in fops[p].edges
          BY <3>2 DEF FollowInv, GraphOwed
        <4> QED BY <1>1, <1>7, <2>1, <2>3, <4>1
      <3> QED BY <3>1, <3>2
    <2>6. \A p \in FollowOps : Writes(p)' =>
             /\ fops'[p].kind # "follow"
             /\ \A x \in fops'[p].edges \cap follows' : <<"delete", x>> \in fops'[p].todo
      BY <1>1, <1>3, <1>6, <1>7, <1>8, <2>1, <2>2, <2>3 DEF FollowInv, GraphOwed
    <2> QED BY <2>4, <2>5, <2>6 DEF GraphOwed
  <1>16. CountsOwed'
    <2> SUFFICES ASSUME {"stopped"} \notin met, NEW u \in Accounts, NEW field \in Fields
                 PROVE  /\ counts[field][u] + Cardinality(Ups(field, u)') >= Following(u, field)' + Cardinality(Downs(field, u)')
                        /\ ~Met("follow", {"unfollow", "block"}) =>
                             counts[field][u] + Cardinality(Ups(field, u)') = Following(u, field)' + Cardinality(Downs(field, u)')
      BY DEF CountsOwed, Met
    <2>0. /\ Cardinality(Ups(field, u)) \in Nat /\ Cardinality(Downs(field, u)) \in Nat
          /\ Following(u, field) \in Nat /\ counts[field][u] \in Nat
      BY OwedFinite
    <2>1. /\ counts[field][u] + Cardinality(Ups(field, u)) >= Following(u, field) + Cardinality(Downs(field, u))
          /\ ~Met("follow", {"unfollow", "block"}) =>
               counts[field][u] + Cardinality(Ups(field, u)) = Following(u, field) + Cardinality(Downs(field, u))
      BY DEF FollowInv, CountsOwed
    <2>2. CASE e \in follows
      <3>2. /\ Ups(field, u)' = Ups(field, u)
            /\ IF EndOf(e, field) = u
               THEN Downs(field, u)' = Downs(field, u) \cup {<<o, e>>} /\ <<o, e>> \notin Downs(field, u)
               ELSE Downs(field, u)' = Downs(field, u)
        <4>1. \A f \in Fields : <<f, e>> \in fops'[o].todo /\ (Writes(o) => <<f, e>> \notin fops[o].todo)
          BY <1>1, <1>6, <1>9, <2>2
        <4>2. \A f \in Fields, x \in Edges \ {e} : <<f, x>> \in fops'[o].todo <=> Writes(o) /\ <<f, x>> \in fops[o].todo
          BY <1>1, <1>6, <1>9
        <4> QED BY <1>1, <1>6, <1>7, <4>1, <4>2, CountOwed
      <3>3. CASE EndOf(e, field) = u
        <4>1. Cardinality(Downs(field, u)') = Cardinality(Downs(field, u)) + 1
          <5>1. IsFiniteSet(Downs(field, u))
            BY OwedFinite
          <5> QED BY <3>2, <3>3, <5>1, FS_AddElement
        <4>2. {x \in follows' : EndOf(x, field) = u} = {x \in follows : EndOf(x, field) = u} \ {e}
              /\ e \in {x \in follows : EndOf(x, field) = u}
          BY <1>3, <2>2, <3>3
        <4>3. Following(u, field)' = Following(u, field) - 1
          <5>1. IsFiniteSet({x \in follows : EndOf(x, field) = u})
            BY OwedFinite
          <5>2. Cardinality({x \in follows' : EndOf(x, field) = u}) = Cardinality({x \in follows : EndOf(x, field) = u}) - 1
            BY <4>2, <5>1, FS_RemoveElement
          <5> QED BY <5>2 DEF Following
        <4> QED BY <2>0, <2>1, <3>2, <4>1, <4>3
      <3>4. CASE EndOf(e, field) # u
        <4>1. {x \in follows' : EndOf(x, field) = u} = {x \in follows : EndOf(x, field) = u}
          BY <1>3, <3>4
        <4> QED BY <2>1, <3>2, <3>4, <4>1 DEF Following
      <3> QED BY <3>3, <3>4
    <2>3. CASE e \notin follows
      <3>1. \A p \in FollowOps : /\ Writes(p)' <=> Writes(p)
                                 /\ Writes(p) => fops'[p].kind = fops[p].kind
                                 /\ Writes(p) => \A x \in Edges : <<field, x>> \in fops'[p].todo <=> <<field, x>> \in fops[p].todo
        BY <1>1, <1>6, <1>7, <1>9, <2>3 DEF OthersHeld, Writes
      <3>2. \A x \in FollowOps \X Edges : /\ x \in Ups(field, u)' <=> x \in Ups(field, u)
                                          /\ x \in Downs(field, u)' <=> x \in Downs(field, u)
        BY <3>1 DEF Ups, Downs
      <3>3. Ups(field, u) \subseteq FollowOps \X Edges /\ Downs(field, u) \subseteq FollowOps \X Edges
            /\ Ups(field, u)' \subseteq FollowOps \X Edges /\ Downs(field, u)' \subseteq FollowOps \X Edges
        BY DEF Ups, Downs
      <3>4. Ups(field, u)' = Ups(field, u) /\ Downs(field, u)' = Downs(field, u)
        BY <3>2, <3>3
      <3>5. follows' = follows
        BY <1>3, <2>3
      <3> QED BY <2>1, <3>4, <3>5 DEF Following
    <2> QED BY <2>2, <2>3
  <1> QED BY <1>10, <1>11, <1>12, <1>13, <1>14, <1>15, <1>16 DEF FollowInv

-----------------------------------------------------------------------------
(* What no handler does: an entry's age, and the process's stop. *)
LEMMA ExpireKeeps == ASSUME FollowInv, NEW u \in Accounts, expire(u) PROVE FollowInv'
  <1> USE DEF expire
  <1>1. FollowTypes'
    BY DEF FollowInv, FollowTypes
  <1>2. TasksInOrder' /\ OverlapsSeen' /\ BlocksSever' /\ GraphOwed'
    BY DEF FollowInv, TasksInOrder, OverlapsSeen, BlocksSever, GraphOwed, Writes, Running, Met, Apart, SeversEdge
  <1>3. CountsOwed'
    <2>1. \A field \in Fields, w \in Accounts :
             Ups(field, w)' = Ups(field, w) /\ Downs(field, w)' = Downs(field, w) /\ Following(w, field)' = Following(w, field)
      BY DEF Ups, Downs, Following, Writes
    <2> QED BY <2>1 DEF FollowInv, CountsOwed, Met
  <1>4. CacheOwed'
    BY DEF FollowInv, FollowTypes, CacheOwed, With, Apart, Met
  <1> QED BY <1>1, <1>2, <1>3, <1>4 DEF FollowInv

LEMMA StopKeeps == FollowInv /\ restart => FollowInv'
  <1> SUFFICES ASSUME FollowInv, restart
               PROVE  FollowInv'
    OBVIOUS
  <1> USE DEF restart
  <1>1. FollowTypes'
    BY DEF FollowInv, FollowTypes, Handlers
  <1>2. \A o \in FollowOps : fops'[o] = NoHandler /\ fops'[o].at = "idle" /\ ~Writes(o)' /\ ~Running(o)'
    BY DEF NoHandler, Writes, Running
  <1>3. TasksInOrder' /\ OverlapsSeen' /\ GraphOwed' /\ CacheOwed'
    BY <1>2 DEF TasksInOrder, OverlapsSeen, GraphOwed, CacheOwed
  <1>4. {"stopped"} \notin met' => {"stopped"} \notin met /\ met' = met
                                   /\ \A o \in FollowOps : fops[o].at = "idle"
    BY DEF Settled, Running
  <1>5. BlocksSever'
    <2> SUFFICES ASSUME {"stopped"} \notin met', ~Met("follow", {"block"})'
                 PROVE  \A e \in follows : ~Apart(e)
      BY <1>2 DEF BlocksSever, Apart
    <2>1. \A o \in FollowOps, e \in follows : ~SeversEdge(o, e)
      BY <1>4 DEF SeversEdge, Writes
    <2> QED BY <1>4, <2>1 DEF FollowInv, BlocksSever, Met
  <1>6. CountsOwed'
    <2> SUFFICES ASSUME {"stopped"} \notin met'
                 PROVE  CountsOwed'
      BY DEF CountsOwed
    <2>1. \A field \in Fields, u \in Accounts :
             /\ Ups(field, u)' = {} /\ Downs(field, u)' = {} /\ Ups(field, u) = {} /\ Downs(field, u) = {}
             /\ Following(u, field)' = Following(u, field)
      BY <1>2, <1>4 DEF Ups, Downs, Writes, Following
    <2> QED BY <1>4, <2>1 DEF FollowInv, CountsOwed, Met
  <1> QED BY <1>1, <1>3, <1>5, <1>6 DEF FollowInv

LEMMA FollowStep == FollowInv /\ [FollowsNext]_followVars => FollowInv'
  <1> SUFFICES ASSUME FollowInv, [FollowsNext]_followVars
               PROVE  FollowInv'
    OBVIOUS
  <1>1. ASSUME NEW o \in FollowOps, NEW e \in Edges,
               \/ follow(o, e) \/ unfollow(o, e) \/ blockUser(o, e) \/ unblockUser(o, e) \/ deleteFollow(o, e)
               \/ \E field \in Fields : countUp(o, field, e) \/ countDown(o, field, e)
        PROVE  FollowInv'
    BY <1>1, FollowKeeps, UnfollowKeeps, BlockKeeps, UnblockKeeps, DeleteKeeps, CountUpKeeps, CountDownKeeps
  <1>2. ASSUME NEW o \in FollowOps,
               \/ insertBlock(o) \/ invalidateBlockCache(o) \/ drawGraph(o) \/ createFollow(o) \/ put(o)
               \/ \E u \in Accounts : fetchFromDb(o, u)
        PROVE  FollowInv'
    BY <1>2, InsertKeeps, InvalidateKeeps, DrawKeeps, CreateKeeps, PutKeeps, FetchKeeps
  <1>3. CASE restart
    BY <1>3, StopKeeps
  <1>5. ASSUME NEW u \in Accounts, expire(u)
        PROVE  FollowInv'
    BY <1>5, ExpireKeeps
  <1>4. CASE UNCHANGED followVars
    <2> USE <1>4 DEF followVars
    <2>1. FollowTypes' /\ TasksInOrder' /\ OverlapsSeen' /\ BlocksSever' /\ GraphOwed'
      BY DEF FollowInv, FollowTypes, TasksInOrder, OverlapsSeen, BlocksSever, GraphOwed, Writes, Running, Met, Apart, SeversEdge
    <2>2. CountsOwed'
      BY DEF FollowInv, CountsOwed, Ups, Downs, Following, Writes, Met
    <2>3. CacheOwed'
      BY DEF FollowInv, CacheOwed, With, Apart, Met
    <2> QED BY <2>1, <2>2, <2>3 DEF FollowInv
  <1> QED BY <1>1, <1>2, <1>3, <1>4, <1>5 DEF FollowsNext, Severing, FollowEdges, Caching

(* Once every handler has ended nothing is owed: the copies agree. *)
LEMMA FollowsSettled == FollowInv => FollowsAgree
  <1> SUFFICES ASSUME FollowInv, Settled
               PROVE  FollowsAgree
    BY DEF FollowsAgree, NoFollowAcrossABlock, CountsCoverFollows, GraphFollows, CacheFollows
  <1>1. \A o \in FollowOps : fops[o].at = "idle" /\ ~Writes(o)
    BY DEF Settled, Running, Writes
  <1>2. NoFollowAcrossABlock
    BY <1>1 DEF NoFollowAcrossABlock, FollowInv, BlocksSever, SeversEdge
  <1>3. GraphFollows
    BY <1>1 DEF GraphFollows, FollowInv, GraphOwed
  <1>4. CacheFollows
    BY <1>1 DEF CacheFollows, FollowInv, CacheOwed
  <1>5. CountsCoverFollows
    <2> SUFFICES ASSUME {"stopped"} \notin met, NEW u \in Accounts, NEW field \in Fields
                 PROVE  /\ counts[field][u] >= Following(u, field)
                        /\ ~Met("follow", {"unfollow", "block"}) => counts[field][u] = Following(u, field)
      BY DEF CountsCoverFollows
    <2>1. Ups(field, u) = {} /\ Downs(field, u) = {}
      BY <1>1 DEF Ups, Downs
    <2>2. Cardinality(Ups(field, u)) = 0 /\ Cardinality(Downs(field, u)) = 0
      BY <2>1, FS_EmptySet
    <2>3. Following(u, field) \in Nat /\ counts[field][u] \in Nat
      BY OwedFinite
    <2> QED BY <2>2, <2>3 DEF FollowInv, CountsOwed
  <1> QED BY <1>2, <1>3, <1>4, <1>5 DEF FollowsAgree

(* The counts of followers, the graph in memory and the cached block sets
   agree with the follow and block rows whenever no handler is under way,
   but for the overlaps the property names: for any accounts and any
   handlers at once. *)
THEOREM FollowsAgreeRight == FollowsSpec => []FollowsAgree
  <1>1. FollowsInit => FollowInv
    BY FollowBegins
  <1>2. FollowInv /\ [FollowsNext]_followVars => FollowInv'
    BY FollowStep
  <1>3. FollowInv => FollowsAgree
    BY FollowsSettled
  <1> QED BY <1>1, <1>2, <1>3, PTL DEF FollowsSpec
=============================================================================
