----------------------- MODULE CollabAdmission_proofs -----------------------
(***************************************************************************)
(* Proofs about the revocation log and the admission of connections, for   *)
(* every set of connections, keys and revokers, every identity of a        *)
(* connection, and every TTL and entry bound.                              *)
(***************************************************************************)
EXTENDS CollabAdmission, FiniteSetTheorems, WellFoundedInduction, TLAPS

-----------------------------------------------------------------------------
(* Smallest and largest elements of sets of naturals. *)
Less == {p \in Nat \X Nat : p[1] < p[2]}

(* Every non-empty set of naturals has a smallest element. *)
LEMMA SmallestExists ==
  ASSUME NEW S \in SUBSET Nat, S # {}
  PROVE  \E m \in S : \A x \in S : m <= x
<1>1. IsWellFoundedOn(Less, Nat)
  BY NatLessThanWellFounded DEF OpToRel, Less
<1>2. IsWellFoundedOn(Less, S)
  BY <1>1, IsWellFoundedOnSubset
<1>3. PICK m \in S : \A x \in S : <<x, m>> \notin Less
  BY <1>2, WFMin
<1>4. \A x \in S : ~(x < m)
  BY <1>3 DEF Less
<1> QED  BY <1>4

(* So has every non-empty set of naturals with a bound a largest one. *)
LEMMA LargestExists ==
  ASSUME NEW S \in SUBSET Nat, S # {}, NEW b \in Nat, \A x \in S : x <= b
  PROVE  \E m \in S : \A x \in S : x <= m
<1> DEFINE Below == {b - x : x \in S}
<1>1. Below \in SUBSET Nat /\ Below # {}
  <2>1. \A x \in S : b - x \in Nat
    OBVIOUS
  <2>2. PICK x \in S : TRUE
    OBVIOUS
  <2>3. b - x \in Below
    OBVIOUS
  <2> QED  BY <2>1, <2>3
<1>2. PICK d \in Below : \A e \in Below : d <= e
  BY <1>1, SmallestExists
<1>3. PICK m \in S : d = b - m
  BY <1>2
<1>4. \A x \in S : m >= x
  <2> TAKE x \in S
  <2>1. b - m <= b - x
    BY <1>2, <1>3
  <2> QED  BY <2>1
<1> QED  BY <1>4

-----------------------------------------------------------------------------
(* Max is the largest element of a non-empty set of naturals with a bound. *)
LEMMA MaxIsLargest ==
  ASSUME NEW S \in SUBSET Nat, S # {}, NEW b \in Nat, \A x \in S : x <= b
  PROVE  Max(S) \in S /\ \A x \in S : x <= Max(S)
<1>1. PICK m \in S : \A x \in S : m >= x
  BY LargestExists
<1>2. Max(S) \in S /\ \A x \in S : Max(S) >= x
  BY <1>1 DEF Max
<1> QED  BY <1>2

-----------------------------------------------------------------------------
(* The log. *)

(* The positions handed out so far bound every entry and every eviction. *)
LogOK(lg) ==
    /\ \A k \in Key : lg.entries[k].seq <= lg.seq
    /\ lg.evictedSeq <= lg.seq

(* A capture is in the past of the log: later entries are not older than it. *)
CaptureOK(lg, cap, t) ==
    /\ cap.seq <= lg.seq
    /\ cap.at <= t
    /\ \A k \in Key : lg.entries[k].seq > cap.seq => lg.entries[k].at >= cap.at

(* Pruning forgets nothing silently: what a dropped entry would have
   answered for is covered by evictedSeq or by the TTL. *)
LEMMA PruneProps ==
  ASSUME NEW lg \in Log, LogOK(lg), NEW t \in Nat
  PROVE  /\ Prune(lg, t) \in Log
         /\ LogOK(Prune(lg, t))
         /\ Prune(lg, t).seq = lg.seq
         /\ lg.evictedSeq <= Prune(lg, t).evictedSeq
         /\ \A k \in Key : Prune(lg, t).entries[k] \in {lg.entries[k], Absent}
         /\ \A k \in Key : lg.entries[k].seq > 0 =>
               \/ Prune(lg, t).entries[k] = lg.entries[k]
               \/ Expired(lg.entries[k], t)
               \/ lg.entries[k].seq <= Prune(lg, t).evictedSeq
<1> DEFINE S == EvictedSeqs(lg, t) \cup {lg.evictedSeq}
<1>1. /\ lg.entries \in [Key -> RevocationCapture]
      /\ lg.seq \in Nat /\ lg.evictedSeq \in Nat
  BY DEF Log
<1>2. Pruned(lg, t) \subseteq Key
  BY DEF Pruned, Held
<1>3. S \in SUBSET Nat /\ S # {} /\ \A x \in S : x <= lg.seq
  BY <1>1, <1>2 DEF EvictedSeqs, LogOK, RevocationCapture
<1>4. Max(S) \in S /\ \A x \in S : x <= Max(S)
  <2> HIDE DEF S
  <2> QED  BY <1>1, <1>3, MaxIsLargest
<1>5. Max(S) \in Nat /\ lg.evictedSeq <= Max(S) /\ Max(S) <= lg.seq
  BY <1>3, <1>4
<1> DEFINE pe == [k \in Key |-> IF k \in Pruned(lg, t) THEN Absent ELSE lg.entries[k]]
<1>6. Prune(lg, t) = [entries |-> pe, seq |-> lg.seq, evictedSeq |-> Max(S)]
  BY DEF Prune, WithoutPruned
<1>7. pe \in [Key -> RevocationCapture]
  BY <1>1 DEF Absent, RevocationCapture
<1>8. \A k \in Key : pe[k] \in {lg.entries[k], Absent}
  OBVIOUS
<1>9. \A k \in Key : pe[k].seq <= lg.seq
  BY <1>1, <1>8 DEF LogOK, Absent, RevocationCapture
<1>10. ASSUME NEW k \in Key, lg.entries[k].seq > 0,
              pe[k] # lg.entries[k], ~Expired(lg.entries[k], t)
       PROVE  lg.entries[k].seq <= Max(S)
  <2>1. k \in Pruned(lg, t)
    BY <1>10
  <2>2. lg.entries[k].seq \in EvictedSeqs(lg, t)
    BY <2>1, <1>10 DEF EvictedSeqs
  <2> QED  BY <2>2, <1>4
<1> HIDE DEF pe, S
<1>11. Prune(lg, t) \in Log
  BY <1>1, <1>5, <1>6, <1>7 DEF Log
<1>12. LogOK(Prune(lg, t))
  BY <1>5, <1>6, <1>9 DEF LogOK
<1> QED
  BY <1>5, <1>6, <1>8, <1>10, <1>11, <1>12

(* revoke keeps the log well formed and only ever moves its position on. *)
LEMMA RevokeLogOK ==
  ASSUME NEW lg \in Log, LogOK(lg), NEW key \in Key, NEW t \in Nat
  PROVE  /\ revoke(lg, key, t) \in Log
         /\ LogOK(revoke(lg, key, t))
         /\ revoke(lg, key, t).seq = lg.seq + 1
         /\ lg.evictedSeq <= revoke(lg, key, t).evictedSeq
         /\ \A k \in Key : revoke(lg, key, t).entries[k] \in
               {lg.entries[k], Absent, [seq |-> lg.seq + 1, at |-> t]}
         /\ \A k \in Key \ {key} : lg.entries[k].seq > 0 =>
               \/ revoke(lg, key, t).entries[k] = lg.entries[k]
               \/ Expired(lg.entries[k], t)
               \/ lg.entries[k].seq <= revoke(lg, key, t).evictedSeq
         /\ \/ revoke(lg, key, t).entries[key] = [seq |-> lg.seq + 1, at |-> t]
            \/ Expired([seq |-> lg.seq + 1, at |-> t], t)
            \/ lg.seq + 1 <= revoke(lg, key, t).evictedSeq
<1> DEFINE new == [seq |-> lg.seq + 1, at |-> t]
           l1 == [entries |-> [lg.entries EXCEPT ![key] = new],
                  seq |-> lg.seq + 1, evictedSeq |-> lg.evictedSeq]
<1>1. revoke(lg, key, t) = Prune(l1, t)
  BY DEF revoke
<1>2. l1 \in Log /\ LogOK(l1)
  BY DEF Log, LogOK, RevocationCapture
<1>3. /\ l1.seq = lg.seq + 1
      /\ l1.evictedSeq = lg.evictedSeq
      /\ l1.entries[key] = new
      /\ \A k \in Key \ {key} : l1.entries[k] = lg.entries[k]
      /\ new.seq > 0
  BY DEF Log
<1> HIDE DEF l1
<1>4. /\ Prune(l1, t) \in Log
      /\ LogOK(Prune(l1, t))
      /\ Prune(l1, t).seq = l1.seq
      /\ l1.evictedSeq <= Prune(l1, t).evictedSeq
      /\ \A k \in Key : Prune(l1, t).entries[k] \in {l1.entries[k], Absent}
      /\ \A k \in Key : l1.entries[k].seq > 0 =>
            \/ Prune(l1, t).entries[k] = l1.entries[k]
            \/ Expired(l1.entries[k], t)
            \/ l1.entries[k].seq <= Prune(l1, t).evictedSeq
  BY <1>2, PruneProps
<1> QED  BY <1>1, <1>3, <1>4

(* A revocation keeps every capture in the past of the log. *)
LEMMA RevokeKeepsCaptures ==
  ASSUME NEW lg \in Log, LogOK(lg), NEW key \in Key, NEW t \in Nat,
         NEW cap \in RevocationCapture, CaptureOK(lg, cap, t)
  PROVE  CaptureOK(revoke(lg, key, t), cap, t)
<1>1. \A k \in Key : revoke(lg, key, t).entries[k] \in
               {lg.entries[k], Absent, [seq |-> lg.seq + 1, at |-> t]}
  BY RevokeLogOK
<1>2. revoke(lg, key, t).seq = lg.seq + 1
  BY RevokeLogOK
<1> QED  BY <1>1, <1>2 DEF CaptureOK, Absent, RevocationCapture, Log

(* What was revoked since a capture stays so, whatever else is revoked. *)
LEMMA RevokeKeepsRevoked ==
  ASSUME NEW lg \in Log, LogOK(lg), NEW key \in Key, NEW t \in Nat,
         NEW cap \in RevocationCapture, CaptureOK(lg, cap, t),
         NEW keys \in SUBSET Key, revokedSince(lg, cap, keys, t)
  PROVE  revokedSince(revoke(lg, key, t), cap, keys, t)
<1> DEFINE lr == revoke(lg, key, t)
<1>1. CASE TooOld(lg, cap, t)
  <2>1. lr \in Log /\ lg.evictedSeq <= lr.evictedSeq
    BY RevokeLogOK
  <2> QED  BY <1>1, <2>1 DEF TooOld, revokedSince, Log, RevocationCapture
<1>2. CASE \E k \in keys : lg.entries[k].seq > cap.seq
  <2>1. PICK k \in keys : lg.entries[k].seq > cap.seq
    BY <1>2
  <2>2. lr \in Log /\ lg.entries[k] \in RevocationCapture
    BY RevokeLogOK DEF Log
  <2>3. CASE k = key
    <3>1. \/ lr.entries[key] = [seq |-> lg.seq + 1, at |-> t]
          \/ Expired([seq |-> lg.seq + 1, at |-> t], t)
          \/ lg.seq + 1 <= lr.evictedSeq
      BY RevokeLogOK
    <3> QED  BY <3>1, <2>2, <2>3, LogAssumption
             DEF CaptureOK, Expired, TooOld, revokedSince, Log, RevocationCapture
  <2>4. CASE k # key
    <3>a. lg.entries[k].seq > 0
      BY <2>1, <2>2 DEF RevocationCapture
    <3>b. k \in Key \ {key}
      BY <2>4
    <3>1. \/ lr.entries[k] = lg.entries[k]
          \/ Expired(lg.entries[k], t)
          \/ lg.entries[k].seq <= lr.evictedSeq
      BY <3>a, <3>b, RevokeLogOK
    <3>2. lg.entries[k].at >= cap.at
      BY <2>1 DEF CaptureOK
    <3> QED  BY <3>1, <3>2, <2>1, <2>2, LogAssumption
             DEF Expired, TooOld, revokedSince, Log, RevocationCapture
  <2> QED  BY <2>3, <2>4
<1> QED  BY <1>1, <1>2 DEF revokedSince

(* Revoking a key catches every capture already taken for it. *)
LEMMA RevokeCatches ==
  ASSUME NEW lg \in Log, LogOK(lg), NEW key \in Key, NEW t \in Nat,
         NEW cap \in RevocationCapture, CaptureOK(lg, cap, t),
         NEW keys \in SUBSET Key, key \in keys
  PROVE  revokedSince(revoke(lg, key, t), cap, keys, t)
<1> DEFINE lr == revoke(lg, key, t)
<1>1. lr \in Log
  BY RevokeLogOK
<1>2. \/ lr.entries[key] = [seq |-> lg.seq + 1, at |-> t]
      \/ Expired([seq |-> lg.seq + 1, at |-> t], t)
      \/ lg.seq + 1 <= lr.evictedSeq
  BY RevokeLogOK
<1> QED  BY <1>1, <1>2, LogAssumption
         DEF CaptureOK, Expired, TooOld, revokedSince, Log, RevocationCapture

(* Nothing revoked since a capture that is the log's newest position. *)
LEMMA FreshNotRevoked ==
  ASSUME NEW lg \in Log, LogOK(lg), NEW t \in Nat, NEW keys \in SUBSET Key,
         NEW cap \in RevocationCapture, cap.seq = lg.seq, t < cap.at + TtlMs
  PROVE  ~revokedSince(lg, cap, keys, t)
BY LogAssumption DEF LogOK, revokedSince, TooOld, Log, RevocationCapture

-----------------------------------------------------------------------------
(* The admission of connections. *)

(* A connection that has been authenticated but not `connected` yet. *)
InFlight == {"authenticating", "authed", "attached"}

(* The sequence of hooks: a connection in flight has its capture, one that
   was answered is attached, one past authentication has read every key. *)
PhaseOK ==
    \A c \in Conn :
        /\ phase[c] \in InFlight <=> authCapture[c] # NoCapture
        /\ synced[c] => phase[c] \in {"attached", "connected"}
        /\ phase[c] # "authenticating" => unread[c] = {}

CapturesOK ==
    \A c \in Conn : authCapture[c] # NoCapture => CaptureOK(log, authCapture[c], now)

(* The strengthening: while in flight, a write the authentication missed
   is either still to be announced or already caught by the log. *)
MissedIsCaught ==
    \A c \in Conn : phase[c] \in InFlight =>
        \A k \in KeysOf[c] \ unread[c] : \A v \in seen[c][k] + 1 .. access[k] :
            Unannounced(k, v) \/ revokedSinceAuth(c)

IInv ==
    /\ TypeOK
    /\ LogOK(log)
    /\ PhaseOK
    /\ CapturesOK
    /\ MissedIsCaught
    /\ NoStaleService

(* Initially nobody is connected. *)
LEMMA InitInv == Init => IInv
<1> SUFFICES ASSUME Init PROVE IInv
  OBVIOUS
<1> USE DEF Init
<1>1. EmptyLog \in Log
  BY DEF EmptyLog, Log, Absent, RevocationCapture
<1>2. TypeOK
  BY <1>1, AdmissionAssumption DEF TypeOK, Phases
<1>3. LogOK(log)
  BY DEF LogOK, EmptyLog, Absent
<1>4. PhaseOK /\ CapturesOK /\ MissedIsCaught /\ NoStaleService
  BY DEF PhaseOK, CapturesOK, MissedIsCaught, NoStaleService, InFlight, Served
<1> QED  BY <1>2, <1>3, <1>4 DEF IInv

(* Closing a set of connections leaves the others as they were. *)
LEMMA DroppedProps ==
  ASSUME NEW C \in SUBSET Conn, TypeOK, PhaseOK, Dropped(C)
  PROVE  /\ phase' \in [Conn -> Phases]
         /\ unread' \in [Conn -> SUBSET Key]
         /\ seen' \in [Conn -> [Key -> Nat]]
         /\ authCapture' \in [Conn -> RevocationCapture \cup {NoCapture}]
         /\ replacedSubject' \in [Conn -> Key \cup {NoKey}]
         /\ synced' \in [Conn -> BOOLEAN]
         /\ PhaseOK'
         /\ \A c \in C : phase'[c] = "closed" /\ ~synced'[c] /\ authCapture'[c] = NoCapture
         /\ \A c \in Conn \ C : /\ phase'[c] = phase[c]
                                /\ synced'[c] = synced[c]
                                /\ authCapture'[c] = authCapture[c]
                                /\ unread'[c] = unread[c]
                                /\ seen'[c] = seen[c]
<1>1. /\ \A c \in C : phase'[c] = "closed" /\ ~synced'[c] /\ authCapture'[c] = NoCapture /\ unread'[c] = {}
      /\ \A c \in Conn \ C : /\ phase'[c] = phase[c]
                             /\ synced'[c] = synced[c]
                             /\ authCapture'[c] = authCapture[c]
                             /\ unread'[c] = unread[c]
                             /\ seen'[c] = seen[c]
  BY DEF Dropped, TypeOK
<1>2. /\ phase' \in [Conn -> Phases]
      /\ unread' \in [Conn -> SUBSET Key]
      /\ seen' \in [Conn -> [Key -> Nat]]
      /\ authCapture' \in [Conn -> RevocationCapture \cup {NoCapture}]
      /\ replacedSubject' \in [Conn -> Key \cup {NoKey}]
      /\ synced' \in [Conn -> BOOLEAN]
  BY DEF Dropped, TypeOK, Phases
<1>3. PhaseOK'
  BY <1>1 DEF PhaseOK, InFlight
<1> QED  BY <1>1, <1>2, <1>3

(* Dropping connections preserves the invariant. *)
LEMMA DropKeepsInv ==
  ASSUME NEW C \in SUBSET Conn, IInv, Dropped(C),
         UNCHANGED <<now, log, access, guests, pending>>
  PROVE  IInv'
<1>1. TypeOK /\ PhaseOK
  BY DEF IInv
<1>2. TypeOK' /\ PhaseOK'
  BY <1>1, DroppedProps DEF TypeOK
<1>3. \A c \in C : phase'[c] = "closed" /\ ~synced'[c] /\ authCapture'[c] = NoCapture
  BY <1>1, DroppedProps
<1>4. \A c \in Conn \ C : /\ phase'[c] = phase[c]
                         /\ synced'[c] = synced[c]
                         /\ authCapture'[c] = authCapture[c]
                         /\ unread'[c] = unread[c]
                         /\ seen'[c] = seen[c]
  BY <1>1, DroppedProps
<1>5. LogOK(log)'
  BY DEF IInv
<1>6. CapturesOK'
  BY <1>3, <1>4 DEF IInv, CapturesOK
<1>7. MissedIsCaught'
  BY <1>3, <1>4 DEF IInv, MissedIsCaught, InFlight, Unannounced, revokedSinceAuth
<1>8. NoStaleService'
  BY <1>3, <1>4 DEF IInv, NoStaleService, Served, Unannounced
<1> QED  BY <1>2, <1>5, <1>6, <1>7, <1>8 DEF IInv

(* A revocation leaves the log well formed, and catches again whatever it
   caught before. *)
LEMMA RevokeStep ==
  ASSUME IInv, NEW key \in Key, log' = revoke(log, key, now), now' = now
  PROVE  /\ log' \in Log
         /\ LogOK(log)'
         /\ \A c \in Conn : (authCapture[c] # NoCapture /\ authCapture'[c] = authCapture[c]) =>
               /\ CaptureOK(log, authCapture[c], now)'
               /\ revokedSinceAuth(c) => revokedSinceAuth(c)'
               /\ key \in KeysOf[c] => revokedSinceAuth(c)'
<1>1. log \in Log /\ now \in Nat /\ LogOK(log)
  BY DEF IInv, TypeOK
<1>2. log' \in Log /\ LogOK(log)'
  BY <1>1, RevokeLogOK
<1>3. ASSUME NEW c \in Conn, authCapture[c] # NoCapture, authCapture'[c] = authCapture[c]
      PROVE  /\ CaptureOK(log, authCapture[c], now)'
             /\ revokedSinceAuth(c) => revokedSinceAuth(c)'
             /\ key \in KeysOf[c] => revokedSinceAuth(c)'
  <2>1. authCapture[c] \in RevocationCapture /\ CaptureOK(log, authCapture[c], now)
    BY <1>3 DEF IInv, TypeOK, CapturesOK
  <2>2. KeysOf[c] \in SUBSET Key
    BY AdmissionAssumption
  <2>3. CaptureOK(log', authCapture[c], now)
    BY <1>1, <2>1, RevokeKeepsCaptures
  <2>4. revokedSinceAuth(c) => revokedSince(log', authCapture[c], KeysOf[c], now)
    BY <1>1, <2>1, <2>2, RevokeKeepsRevoked DEF revokedSinceAuth
  <2>5. key \in KeysOf[c] => revokedSince(log', authCapture[c], KeysOf[c], now)
    BY <1>1, <2>1, <2>2, RevokeCatches
  <2> QED  BY <1>3, <2>3, <2>4, <2>5 DEF revokedSinceAuth
<1> QED  BY <1>2, <1>3

(* Time passing catches at least as much, and ages no entry past a capture. *)
LEMMA TickInv ==
  ASSUME IInv, Tick
  PROVE  IInv'
<1> USE DEF Tick
<1>1. TypeOK'
  BY DEF IInv, TypeOK
<1>2. LogOK(log)' /\ PhaseOK'
  BY DEF IInv, LogOK, PhaseOK
<1>3. CapturesOK'
  BY DEF IInv, TypeOK, CapturesOK, CaptureOK, RevocationCapture
<1>4. ASSUME NEW c \in Conn, revokedSinceAuth(c)
      PROVE  revokedSinceAuth(c)'
  <2>1. authCapture[c] \in RevocationCapture /\ now \in Nat
    BY <1>4 DEF IInv, TypeOK, revokedSinceAuth
  <2> QED  BY <1>4, <2>1, LogAssumption
           DEF revokedSinceAuth, revokedSince, TooOld, RevocationCapture
<1>5. MissedIsCaught'
  BY <1>4 DEF IInv, MissedIsCaught, Unannounced
<1>6. NoStaleService'
  BY DEF IInv, NoStaleService, Served, Unannounced
<1> QED  BY <1>1, <1>2, <1>3, <1>5, <1>6 DEF IInv

(* A write that an authentication missed is one its writer still holds. *)
LEMMA RevokingWriteInv ==
  ASSUME IInv, NEW r \in Revoker, NEW key \in Key, RevokingWrite(r, key)
  PROVE  IInv'
<1> USE DEF RevokingWrite, serverVars
<1>1. TypeOK'
  BY DEF IInv, TypeOK, Task
<1>2. LogOK(log)' /\ PhaseOK' /\ CapturesOK'
  BY DEF IInv, PhaseOK, CapturesOK
<1>3. \A k \in Key, v \in Nat : Unannounced(k, v) => Unannounced(k, v)'
  <2> SUFFICES ASSUME NEW k \in Key, NEW v \in Nat, Unannounced(k, v)
               PROVE  Unannounced(k, v)'
    OBVIOUS
  <2>1. PICK q \in Revoker : pending[q] = [key |-> k, version |-> v]
    BY DEF Unannounced
  <2>2. q # r
    BY <2>1, AdmissionAssumption
  <2>3. pending'[q] = pending[q]
    BY <2>2 DEF IInv, TypeOK
  <2> QED  BY <2>1, <2>3 DEF Unannounced
<1>4. \A w \in Nat : w = access[key] + 1 => Unannounced(key, w)'
  <2>1. pending'[r] = [key |-> key, version |-> access[key] + 1]
    BY DEF IInv, TypeOK
  <2> QED  BY <2>1 DEF Unannounced
<1>5. ASSUME NEW c \in Conn, NEW k \in Key, NEW v \in seen[c][k] + 1 .. access'[k]
      PROVE  v \in Nat /\ (v \in seen[c][k] + 1 .. access[k] \/ Unannounced(k, v)')
  <2>1. access[k] \in Nat /\ seen[c][k] \in Nat
    BY DEF IInv, TypeOK
  <2>2. CASE k = key
    <3>1. access'[k] = access[k] + 1
      BY <2>2 DEF IInv, TypeOK
    <3>2. v \in Nat /\ (v \in seen[c][k] + 1 .. access[k] \/ v = access[key] + 1)
      BY <2>1, <2>2, <3>1
    <3> QED  BY <2>2, <3>2, <1>4
  <2>3. CASE k # key
    <3>1. access'[k] = access[k]
      BY <2>3 DEF IInv, TypeOK
    <3> QED  BY <2>1, <3>1
  <2> QED  BY <2>2, <2>3
<1>6. \A c \in Conn : KeysOf[c] \subseteq Key
  BY AdmissionAssumption
<1>7. MissedIsCaught'
  <2> SUFFICES ASSUME NEW c \in Conn, phase[c] \in InFlight,
                      NEW k \in KeysOf[c] \ unread[c], NEW v \in seen[c][k] + 1 .. access'[k]
               PROVE  Unannounced(k, v)' \/ revokedSinceAuth(c)
    BY DEF MissedIsCaught, revokedSinceAuth
  <2>1. k \in Key
    BY <1>6
  <2>2. v \in Nat /\ (v \in seen[c][k] + 1 .. access[k] \/ Unannounced(k, v)')
    BY <2>1, <1>5
  <2> QED  BY <2>1, <2>2, <1>3 DEF IInv, MissedIsCaught
<1>8. NoStaleService'
  <2> SUFFICES ASSUME NEW c \in Conn, Served(c),
                      NEW k \in KeysOf[c], NEW v \in seen[c][k] + 1 .. access'[k]
               PROVE  Unannounced(k, v)'
    BY DEF NoStaleService, Served
  <2>1. k \in Key
    BY <1>6
  <2>2. v \in Nat /\ (v \in seen[c][k] + 1 .. access[k] \/ Unannounced(k, v)')
    BY <2>1, <1>5
  <2> QED  BY <2>1, <2>2, <1>3 DEF IInv, NoStaleService
<1> QED  BY <1>1, <1>2, <1>7, <1>8 DEF IInv

(* The server call: the connections it can see are closed, and those still
   in flight are caught by the log. *)
LEMMA SweepInv ==
  ASSUME IInv, NEW r \in Revoker, Sweep(r)
  PROVE  IInv'
<1> DEFINE key == pending[r].key
           C == {c \in Attached : key \in KeysOf[c]}
<1>1. /\ pending[r] \in Task /\ key \in Key
      /\ log' = revoke(log, key, now) /\ now' = now
      /\ Dropped(C) /\ C \in SUBSET Conn
      /\ pending' = [pending EXCEPT ![r] = NoTask]
      /\ access' = access /\ guests' = guests
  BY DEF Sweep, IInv, TypeOK, Task, Attached
<1>2. TypeOK /\ PhaseOK
  BY DEF IInv
<1>3. /\ log' \in Log /\ LogOK(log)'
      /\ \A c \in Conn : (authCapture[c] # NoCapture /\ authCapture'[c] = authCapture[c]) =>
            /\ CaptureOK(log, authCapture[c], now)'
            /\ revokedSinceAuth(c) => revokedSinceAuth(c)'
            /\ key \in KeysOf[c] => revokedSinceAuth(c)'
  <2> HIDE DEF key
  <2> QED  BY <1>1, RevokeStep
<1> HIDE DEF C
<1>4. PhaseOK' /\ \A c \in C : phase'[c] = "closed" /\ ~synced'[c] /\ authCapture'[c] = NoCapture
  BY <1>1, <1>2, DroppedProps
<1>5. \A c \in Conn \ C : /\ phase'[c] = phase[c]
                         /\ synced'[c] = synced[c]
                         /\ authCapture'[c] = authCapture[c]
                         /\ unread'[c] = unread[c]
                         /\ seen'[c] = seen[c]
  BY <1>1, <1>2, DroppedProps
<1>6. TypeOK'
  <2>1. /\ phase' \in [Conn -> Phases]
        /\ unread' \in [Conn -> SUBSET Key]
        /\ seen' \in [Conn -> [Key -> Nat]]
        /\ authCapture' \in [Conn -> RevocationCapture \cup {NoCapture}]
        /\ replacedSubject' \in [Conn -> Key \cup {NoKey}]
        /\ synced' \in [Conn -> BOOLEAN]
    BY <1>1, <1>2, DroppedProps
  <2> QED  BY <1>1, <1>2, <1>3, <2>1 DEF TypeOK
<1>7. ASSUME NEW k \in Key, NEW v \in Nat, Unannounced(k, v), k # key
      PROVE  Unannounced(k, v)'
  <2>1. PICK q \in Revoker : pending[q] = [key |-> k, version |-> v]
    BY <1>7 DEF Unannounced
  <2>2. q # r /\ pending'[q] = pending[q]
    BY <1>1, <1>2, <1>7, <2>1 DEF TypeOK
  <2> QED  BY <2>1, <2>2 DEF Unannounced
<1>8. \A c \in Conn : KeysOf[c] \subseteq Key
  BY AdmissionAssumption
<1>9. CapturesOK'
  BY <1>3, <1>4, <1>5 DEF CapturesOK
<1>10. MissedIsCaught'
  <2> SUFFICES ASSUME NEW c \in Conn, phase'[c] \in InFlight,
                      NEW k \in KeysOf[c] \ unread'[c], NEW v \in seen'[c][k] + 1 .. access'[k]
               PROVE  Unannounced(k, v)' \/ revokedSinceAuth(c)'
    BY DEF MissedIsCaught
  <2>1. c \notin C
    BY <1>4 DEF InFlight
  <2>2. authCapture[c] # NoCapture /\ phase[c] \in InFlight
    BY <2>1, <1>2, <1>5 DEF PhaseOK
  <2>3. k \in KeysOf[c] \ unread[c] /\ v \in seen[c][k] + 1 .. access[k]
    BY <2>1, <1>1, <1>5
  <2>4. Unannounced(k, v) \/ revokedSinceAuth(c)
    BY <2>2, <2>3 DEF IInv, MissedIsCaught
  <2>5. k \in Key /\ v \in Nat
    BY <2>3, <1>2, <1>8 DEF TypeOK
  <2> QED  BY <2>1, <2>2, <2>4, <2>5, <1>3, <1>5, <1>7
<1>11. NoStaleService'
  <2> SUFFICES ASSUME NEW c \in Conn, Served(c)',
                      NEW k \in KeysOf[c], NEW v \in seen'[c][k] + 1 .. access'[k]
               PROVE  Unannounced(k, v)'
    BY DEF NoStaleService
  <2>1. c \notin C
    BY <1>4 DEF Served
  <2>2. Served(c) /\ v \in seen[c][k] + 1 .. access[k]
    BY <2>1, <1>1, <1>5 DEF Served
  <2>3. k \in Key /\ v \in Nat
    BY <2>2, <1>2, <1>8 DEF TypeOK
  <2>4. c \in Attached
    BY <2>2, <1>2 DEF Served, PhaseOK, Attached
  <2>5. k # key
    BY <2>1, <2>4 DEF C
  <2> QED  BY <2>2, <2>3, <2>5, <1>7 DEF IInv, NoStaleService
<1> QED  BY <1>3, <1>4, <1>6, <1>9, <1>10, <1>11 DEF IInv

(* A new authentication has read nothing yet. *)
LEMMA AuthenticateInv ==
  ASSUME IInv, NEW c \in Conn, Authenticate(c)
  PROVE  IInv'
<1> USE DEF Authenticate
<1>1. capture(log, now) \in RevocationCapture
  BY DEF IInv, TypeOK, Log, capture, RevocationCapture
<1>2. TypeOK'
  BY <1>1, AdmissionAssumption DEF IInv, TypeOK, Phases
<1>3. CaptureOK(log, capture(log, now), now)
  BY DEF IInv, TypeOK, LogOK, CaptureOK, capture, Log, RevocationCapture
<1>4. capture(log, now) # NoCapture
  BY <1>1, AdmissionAssumption
<1>5. PhaseOK'
  BY <1>4 DEF IInv, TypeOK, PhaseOK, InFlight
<1>6. CapturesOK'
  BY <1>3 DEF IInv, TypeOK, CapturesOK
<1>7. MissedIsCaught'
  BY DEF IInv, TypeOK, MissedIsCaught, InFlight, Unannounced, revokedSinceAuth
<1>8. NoStaleService' /\ LogOK(log)'
  BY DEF IInv, TypeOK, NoStaleService, Served, Unannounced
<1> QED  BY <1>2, <1>5, <1>6, <1>7, <1>8 DEF IInv

(* A read sees every write so far about its key. *)
LEMMA ReadAccessInv ==
  ASSUME IInv, NEW c \in Conn, NEW key \in Key, ReadAccess(c, key)
  PROVE  IInv'
<1> USE DEF ReadAccess
<1>1. TypeOK'
  BY DEF IInv, TypeOK
<1>2. PhaseOK' /\ CapturesOK' /\ LogOK(log)'
  BY DEF IInv, TypeOK, PhaseOK, InFlight, CapturesOK
<1>3. /\ \A d \in Conn : \A k \in Key : (d # c \/ k # key) => seen'[d][k] = seen[d][k]
      /\ seen'[c][key] = access[key]
      /\ \A d \in Conn : d # c => unread'[d] = unread[d]
      /\ unread'[c] = unread[c] \ {key}
  BY DEF IInv, TypeOK
<1>4. MissedIsCaught'
  <2> SUFFICES ASSUME NEW d \in Conn, phase[d] \in InFlight,
                      NEW k \in KeysOf[d] \ unread'[d], NEW v \in seen'[d][k] + 1 .. access[k]
               PROVE  Unannounced(k, v) \/ revokedSinceAuth(d)
    BY DEF MissedIsCaught, Unannounced, revokedSinceAuth
  <2>1. k \in Key
    BY AdmissionAssumption
  <2>2. ~(d = c /\ k = key)
    BY <1>3, <2>1 DEF IInv, TypeOK
  <2>3. seen'[d][k] = seen[d][k] /\ k \notin unread[d]
    BY <1>3, <2>1, <2>2
  <2> QED  BY <2>3 DEF IInv, MissedIsCaught
<1>5. NoStaleService'
  <2> SUFFICES ASSUME NEW d \in Conn, Served(d),
                      NEW k \in KeysOf[d], NEW v \in seen'[d][k] + 1 .. access[k]
               PROVE  Unannounced(k, v)
    BY DEF NoStaleService, Served, Unannounced
  <2>1. k \in Key
    BY AdmissionAssumption
  <2>2. d # c
    BY DEF IInv, PhaseOK, Served
  <2>3. seen'[d][k] = seen[d][k]
    BY <1>3, <2>1, <2>2
  <2> QED  BY <2>3 DEF IInv, NoStaleService
<1> QED  BY <1>1, <1>2, <1>4, <1>5 DEF IInv

(* The phases between the end of the authentication and the first check. *)
LEMMA ResolveAttachInv ==
  ASSUME IInv, NEW c \in Conn, Resolve(c) \/ Attach(c)
  PROVE  IInv'
<1> USE DEF Resolve, Attach
<1>1. TypeOK'
  BY AdmissionAssumption DEF IInv, TypeOK, Phases
<1>2. PhaseOK' /\ CapturesOK' /\ LogOK(log)'
  BY DEF IInv, TypeOK, PhaseOK, InFlight, CapturesOK
<1>3. \A d \in Conn : phase'[d] \in InFlight <=> phase[d] \in InFlight
  BY DEF IInv, TypeOK, InFlight
<1>4. MissedIsCaught'
  BY <1>3 DEF IInv, MissedIsCaught, Unannounced, revokedSinceAuth
<1>5. \A d \in Conn : Served(d)' => Served(d)
  BY DEF IInv, TypeOK, Served
<1>6. NoStaleService'
  BY <1>5 DEF IInv, NoStaleService, Unannounced
<1> QED  BY <1>1, <1>2, <1>4, <1>6 DEF IInv

(* A connection that passes the check has missed nothing announced. *)
LEMMA CheckedIsCurrent ==
  ASSUME IInv, NEW c \in Attached, ~revokedSinceAuth(c)
  PROVE  \A k \in KeysOf[c] : \A v \in seen[c][k] + 1 .. access[k] : Unannounced(k, v)
<1>1. CASE phase[c] = "attached"
  <2>1. unread[c] = {} /\ c \in Conn
    BY <1>1 DEF IInv, PhaseOK, Attached
  <2> QED  BY <1>1, <2>1 DEF IInv, MissedIsCaught, InFlight
<1>2. CASE phase[c] = "connected"
  BY <1>2 DEF IInv, NoStaleService, Served, Attached
<1> QED  BY <1>1, <1>2 DEF Attached

(* Sync messages are answered only past the check. *)
LEMMA BeforeSyncInv ==
  ASSUME IInv, NEW c \in Conn, beforeSync(c)
  PROVE  IInv'
<1>1. CASE revokedSinceAuth(c)
  BY <1>1, DropKeepsInv DEF beforeSync
<1>2. CASE ~revokedSinceAuth(c)
  <2>1. /\ c \in Attached
        /\ synced' = [synced EXCEPT ![c] = TRUE]
        /\ UNCHANGED <<phase, unread, seen, authCapture, replacedSubject>>
        /\ UNCHANGED <<now, log, access, guests, pending>>
    BY <1>2 DEF beforeSync
  <2>2. TypeOK' /\ LogOK(log)' /\ CapturesOK'
    BY <2>1 DEF IInv, TypeOK, CapturesOK
  <2>3. PhaseOK'
    BY <2>1 DEF IInv, TypeOK, PhaseOK, Attached
  <2>4. MissedIsCaught'
    BY <2>1 DEF IInv, MissedIsCaught, Unannounced, revokedSinceAuth
  <2>5. \A d \in Conn : Served(d)' => d = c \/ Served(d)
    BY <2>1 DEF IInv, TypeOK, Served
  <2>6. NoStaleService'
    BY <1>2, <2>1, <2>5, CheckedIsCurrent DEF IInv, NoStaleService, Unannounced
  <2> QED  BY <2>2, <2>3, <2>4, <2>6 DEF IInv
<1> QED  BY <1>1, <1>2

(* The connected hook, with the absorbed guest's sweep. *)
LEMMA ConnectedInv ==
  ASSUME IInv, NEW c \in Conn, connected(c)
  PROVE  IInv'
<1>1. CASE revokedSinceAuth(c)
  BY <1>1, DropKeepsInv DEF connected
<1>2. CASE ~revokedSinceAuth(c)
  <2> DEFINE guest == replacedSubject[c]
             swept == {d \in Attached : guest \in KeysOf[d]}
  <2>1. /\ phase[c] = "attached" /\ c \in Attached
        /\ log' = IF guest = NoKey THEN log ELSE revoke(log, guest, now)
        /\ phase' = [d \in Conn |-> IF d \in swept THEN "closed"
                                    ELSE IF d = c THEN "connected" ELSE phase[d]]
        /\ authCapture' = [d \in Conn |-> IF d \in swept \cup {c} THEN NoCapture
                                          ELSE authCapture[d]]
        /\ synced' = [d \in Conn |-> synced[d] /\ d \notin swept]
        /\ UNCHANGED <<unread, seen, replacedSubject>>
        /\ UNCHANGED <<now, access, guests, pending>>
    BY <1>2 DEF connected, Attached
  <2>a. \A d \in swept : phase[d] # "authenticating"
    BY DEF Attached
  <2>2. guest \in Key \cup {NoKey}
    BY DEF IInv, TypeOK
  <2>3. /\ log' \in Log /\ LogOK(log)'
        /\ \A d \in Conn : (authCapture[d] # NoCapture /\ authCapture'[d] = authCapture[d]) =>
              /\ CaptureOK(log, authCapture[d], now)'
              /\ revokedSinceAuth(d) => revokedSinceAuth(d)'
    <3>1. CASE guest = NoKey
      BY <2>1, <3>1 DEF IInv, TypeOK, CapturesOK, revokedSinceAuth
    <3>2. CASE guest # NoKey
      <4>1. guest \in Key /\ log' = revoke(log, guest, now) /\ now' = now
        BY <2>1, <2>2, <3>2
      <4> HIDE DEF guest
      <4> QED  BY <4>1, RevokeStep
    <3> QED  BY <3>1, <3>2
  <2> HIDE DEF guest, swept
  <2>4. TypeOK'
    BY <2>1, <2>3 DEF IInv, TypeOK, Phases
  <2>5. PhaseOK'
    BY <2>1, <2>a, AdmissionAssumption DEF IInv, TypeOK, PhaseOK, InFlight
  <2>6. CapturesOK'
    BY <2>1, <2>3 DEF IInv, TypeOK, CapturesOK
  <2>7. \A d \in Conn : phase'[d] \in InFlight =>
            /\ phase[d] \in InFlight /\ authCapture'[d] = authCapture[d]
            /\ authCapture[d] # NoCapture
    BY <2>1 DEF IInv, TypeOK, PhaseOK, InFlight
  <2>8. MissedIsCaught'
    BY <2>1, <2>3, <2>7 DEF IInv, MissedIsCaught, Unannounced
  <2>9. \A d \in Conn : Served(d)' => d = c \/ Served(d)
    BY <2>1 DEF IInv, TypeOK, Served
  <2>10. NoStaleService'
    BY <1>2, <2>1, <2>9, CheckedIsCurrent DEF IInv, NoStaleService, Unannounced
  <2> QED  BY <2>3, <2>4, <2>5, <2>6, <2>8, <2>10 DEF IInv
<1> QED  BY <1>1, <1>2

(* After a restart there is no connection that could have missed anything. *)
LEMMA RestartInv ==
  ASSUME IInv, Restart
  PROVE  IInv'
<1>1. TypeOK /\ PhaseOK /\ Dropped(Conn) /\ Conn \in SUBSET Conn
  BY DEF IInv, Restart
<1>2. \A c \in Conn : phase'[c] = "closed" /\ ~synced'[c] /\ authCapture'[c] = NoCapture
  BY <1>1, DroppedProps
<1>3. EmptyLog \in Log /\ LogOK(EmptyLog)
  BY DEF EmptyLog, Log, LogOK, Absent, RevocationCapture
<1>4. TypeOK'
  <2>1. /\ phase' \in [Conn -> Phases]
        /\ unread' \in [Conn -> SUBSET Key]
        /\ seen' \in [Conn -> [Key -> Nat]]
        /\ authCapture' \in [Conn -> RevocationCapture \cup {NoCapture}]
        /\ replacedSubject' \in [Conn -> Key \cup {NoKey}]
        /\ synced' \in [Conn -> BOOLEAN]
    BY <1>1, DroppedProps
  <2> QED  BY <1>1, <1>3, <2>1 DEF TypeOK, Restart
<1>5. PhaseOK' /\ LogOK(log)'
  BY <1>1, <1>3, DroppedProps DEF Restart
<1>6. CapturesOK' /\ MissedIsCaught' /\ NoStaleService'
  BY <1>2 DEF CapturesOK, MissedIsCaught, InFlight, NoStaleService, Served
<1> QED  BY <1>4, <1>5, <1>6 DEF IInv

(* Every step preserves the invariant. *)
LEMMA NextInv == IInv /\ [Next]_vars => IInv'
<1> SUFFICES ASSUME IInv, [Next]_vars PROVE IInv'
  OBVIOUS
<1>1. CASE Tick
  BY <1>1, TickInv
<1>2. CASE Restart
  BY <1>2, RestartInv
<1>3. ASSUME NEW r \in Revoker, Sweep(r) PROVE IInv'
  BY <1>3, SweepInv
<1>4. ASSUME NEW r \in Revoker, NEW k \in Key, RevokingWrite(r, k) PROVE IInv'
  BY <1>4, RevokingWriteInv
<1>5. ASSUME NEW c \in Conn, Authenticate(c) PROVE IInv'
  BY <1>5, AuthenticateInv
<1>6. ASSUME NEW c \in Conn, NEW k \in Key, ReadAccess(c, k) PROVE IInv'
  BY <1>6, ReadAccessInv
<1>7. ASSUME NEW c \in Conn, Resolve(c) \/ Attach(c) PROVE IInv'
  BY <1>7, ResolveAttachInv
<1>8. ASSUME NEW c \in Conn, Refuse(c) \/ Close(c) PROVE IInv'
  BY <1>8, DropKeepsInv DEF Refuse, Close
<1>9. ASSUME NEW c \in Conn, beforeSync(c) PROVE IInv'
  BY <1>9, BeforeSyncInv
<1>10. ASSUME NEW c \in Conn, connected(c) PROVE IInv'
  BY <1>10, ConnectedInv
<1>11. CASE UNCHANGED vars
  BY <1>11 DEF vars, IInv, TypeOK, LogOK, PhaseOK, CapturesOK, MissedIsCaught,
               NoStaleService, Served, Unannounced, revokedSinceAuth
<1> QED
  BY <1>1, <1>2, <1>3, <1>4, <1>5, <1>6, <1>7, <1>8, <1>9, <1>10, <1>11 DEF Next

(* The inductive invariant holds of every behaviour. *)
LEMMA Inductive == Spec => []IInv
  BY InitInv, NextInv, PTL DEF Spec

(* Every handler leaves the server's in-memory state and the database's in
   the shape the others read it in. *)
THEOREM TypeCorrect == Spec => []TypeOK
  BY Inductive, PTL DEF IInv

(* Once a revocation has reached the server, nobody whose authentication
   missed it is served: for any number of connections, identities and
   concurrent revocations, and whatever the TTL and the entry bound. *)
THEOREM StaleServiceExcluded == Spec => []NoStaleService
  BY Inductive, PTL DEF IInv

(* A connection whose authentication began after the last revocation, and
   less than the TTL ago, passes the checks of beforeSync and connected. *)
THEOREM FreshAuthenticationPasses == Spec => []FreshAuthPasses
<1>1. IInv => FreshAuthPasses
  BY FreshNotRevoked, AdmissionAssumption
     DEF IInv, TypeOK, FreshAuthPasses, revokedSinceAuth
<1> QED  BY <1>1, Inductive, PTL

-----------------------------------------------------------------------------
(* How much the log holds. *)

(* No two keys were logged at one position, and none ahead of the log's. *)
SeqsDistinct(lg) ==
    /\ \A k \in Key : lg.entries[k].seq <= lg.seq
    /\ \A j, k \in Held(lg) : lg.entries[j].seq = lg.entries[k].seq => j = k

BoundInv == log \in Log /\ SeqsDistinct(log) /\ LogBounded

(* Of the entries pruning leaves, the oldest has all the others after it,
   and fewer than maxEntries of those. *)
LEMMA PruneBounds ==
  ASSUME NEW lg \in Log, SeqsDistinct(lg), NEW t \in Nat
  PROVE  /\ SeqsDistinct(Prune(lg, t))
         /\ Cardinality(Held(Prune(lg, t))) <= MaxEntries
<1> DEFINE K == Held(Prune(lg, t))
           Seqs == {lg.entries[k].seq : k \in K}
<1>1. lg.entries \in [Key -> RevocationCapture]
  BY DEF Log
<1>2. /\ \A k \in K : Prune(lg, t).entries[k] = lg.entries[k]
      /\ K \in SUBSET Held(lg) /\ K \in SUBSET Key
      /\ \A k \in K : k \notin Pruned(lg, t)
  BY <1>1 DEF Prune, WithoutPruned, Held, Absent
<1>3. SeqsDistinct(Prune(lg, t))
  <2>1. Prune(lg, t).seq = lg.seq /\ lg.seq \in Nat
    BY DEF Prune, Log
  <2>2. \A k \in Key : Prune(lg, t).entries[k] \in {lg.entries[k], Absent}
    BY <1>1 DEF Prune, WithoutPruned
  <2>3. \A k \in Key : Prune(lg, t).entries[k].seq <= Prune(lg, t).seq
    BY <1>1, <2>1, <2>2 DEF SeqsDistinct, Absent, RevocationCapture
  <2> QED  BY <1>2, <2>3 DEF SeqsDistinct
<1>4. Cardinality(K) <= MaxEntries
  <2>1. CASE K = {}
    <3>1. Cardinality(K) = 0
      BY <2>1, FS_EmptySet
    <3> QED  BY <3>1, LogAssumption
  <2>2. CASE K # {}
    <3>1. Seqs \in SUBSET Nat /\ Seqs # {}
      BY <1>1, <1>2, <2>2 DEF RevocationCapture
    <3>2. PICK s \in Seqs : \A x \in Seqs : s <= x
      BY <3>1, SmallestExists
    <3>3. PICK m \in K : lg.entries[m].seq = s
      BY <3>2
    <3>4. \A k \in K \ {m} : k \in Newer(lg, m)
      <4> TAKE k \in K \ {m}
      <4>1. lg.entries[m].seq <= lg.entries[k].seq
        BY <3>2, <3>3
      <4>2. lg.entries[m].seq # lg.entries[k].seq
        BY <1>2, <3>3 DEF SeqsDistinct
      <4> QED  BY <1>1, <1>2, <3>3, <4>1, <4>2 DEF Newer, RevocationCapture
    <3>5. IsFiniteSet(Newer(lg, m)) /\ IsFiniteSet(K)
      BY <1>2, FS_Subset, LogAssumption DEF Newer
    <3>6. /\ Cardinality(Newer(lg, m)) \in Nat
          /\ ~(Cardinality(Newer(lg, m)) >= MaxEntries)
      BY <1>2, <3>3, <3>5, FS_CardinalityType DEF Pruned
    <3>7. /\ IsFiniteSet(K \ {m}) /\ Cardinality(K \ {m}) = Cardinality(K) - 1
          /\ Cardinality(K) \in Nat
      BY <3>3, <3>5, FS_RemoveElement, FS_CardinalityType
    <3>8. Cardinality(K \ {m}) <= Cardinality(Newer(lg, m))
      BY <3>4, <3>5, FS_Subset
    <3> QED  BY <3>6, <3>7, <3>8, LogAssumption
  <2> QED  BY <2>1, <2>2
<1> QED  BY <1>3, <1>4

(* A revocation takes a position of its own before it prunes. *)
LEMMA RevokeBounds ==
  ASSUME NEW lg \in Log, SeqsDistinct(lg), LogOK(lg), NEW key \in Key, NEW t \in Nat
  PROVE  /\ revoke(lg, key, t) \in Log
         /\ SeqsDistinct(revoke(lg, key, t))
         /\ Cardinality(Held(revoke(lg, key, t))) <= MaxEntries
<1> DEFINE l1 == [entries |-> [lg.entries EXCEPT ![key] = [seq |-> lg.seq + 1, at |-> t]],
                  seq |-> lg.seq + 1, evictedSeq |-> lg.evictedSeq]
<1>1. l1 \in Log
  BY DEF Log, RevocationCapture
<1>2. SeqsDistinct(l1)
  <2>1. /\ lg.entries \in [Key -> RevocationCapture] /\ lg.seq \in Nat
        /\ l1.seq = lg.seq + 1
        /\ \A k \in Key : l1.entries[k].seq = IF k = key THEN lg.seq + 1 ELSE lg.entries[k].seq
    BY DEF Log
  <2>2. \A k \in Key : lg.entries[k].seq \in Nat /\ lg.entries[k].seq <= lg.seq
    BY <2>1 DEF SeqsDistinct, RevocationCapture
  <2> HIDE DEF l1
  <2>3. \A k \in Key : l1.entries[k].seq <= l1.seq
    BY <2>1, <2>2
  <2>4. ASSUME NEW j \in Held(l1), NEW k \in Held(l1), l1.entries[j].seq = l1.entries[k].seq
        PROVE  j = k
    <3>1. j \in Key /\ k \in Key
      BY DEF Held
    <3>2. CASE j = key \/ k = key
      BY <2>1, <2>2, <2>4, <3>1, <3>2
    <3>3. CASE j # key /\ k # key
      <4>1. j \in Held(lg) /\ k \in Held(lg)
        BY <2>1, <3>1, <3>3 DEF Held
      <4> QED  BY <2>1, <2>4, <3>1, <3>3, <4>1 DEF SeqsDistinct
    <3> QED  BY <3>2, <3>3
  <2> QED  BY <2>3, <2>4 DEF SeqsDistinct
<1>3. revoke(lg, key, t) = Prune(l1, t)
  BY DEF revoke
<1>4. revoke(lg, key, t) \in Log
  BY RevokeLogOK
<1> QED  BY <1>1, <1>2, <1>3, <1>4, PruneBounds

(* An empty log is within any bound. *)
LEMMA EmptyLogBounded ==
  EmptyLog \in Log /\ SeqsDistinct(EmptyLog) /\ Cardinality(Held(EmptyLog)) <= MaxEntries
<1>1. Held(EmptyLog) = {}
  BY DEF Held, EmptyLog, Absent
<1>2. Cardinality(Held(EmptyLog)) = 0
  BY <1>1, FS_EmptySet
<1> QED  BY <1>1, <1>2, LogAssumption DEF EmptyLog, Log, Absent, RevocationCapture, SeqsDistinct

(* The log changes by a revocation or by a restart, and in no other way. *)
LEMMA BoundInvStep ==
  ASSUME IInv, BoundInv, [Next]_vars
  PROVE  BoundInv'
<1> USE DEF BoundInv, LogBounded
<1>1. CASE UNCHANGED log
  BY <1>1 DEF SeqsDistinct, Held
<1>2. CASE Restart
  BY <1>2, EmptyLogBounded DEF Restart
<1>3. ASSUME NEW key \in Key, log' = revoke(log, key, now)
      PROVE  BoundInv'
  <2>1. now \in Nat /\ log \in Log /\ LogOK(log)
    BY DEF IInv, TypeOK
  <2> QED  BY <1>3, <2>1, RevokeBounds
<1>4. ASSUME NEW r \in Revoker, Sweep(r)
      PROVE  BoundInv'
  <2>1. pending[r].key \in Key
    BY <1>4 DEF IInv, TypeOK, Sweep, Task
  <2> QED  BY <1>3, <1>4, <2>1 DEF Sweep
<1>5. ASSUME NEW c \in Conn, connected(c)
      PROVE  BoundInv'
  <2>1. replacedSubject[c] \in Key \cup {NoKey}
    BY DEF IInv, TypeOK
  <2> QED  BY <1>1, <1>3, <1>5, <2>1 DEF connected
<1> QED
  BY <1>1, <1>2, <1>4, <1>5
  DEF Next, vars, Tick, RevokingWrite, serverVars, Authenticate, Resolve, Refuse, Attach,
      beforeSync, Close, ReadAccess

(* The log never holds more than maxEntries keys, for any number of keys,
   any bound and any TTL: a burst of revocations cannot grow it. *)
THEOREM LogStaysBounded == Spec => []LogBounded
<1>1. Init => BoundInv
  BY EmptyLogBounded DEF Init, BoundInv, LogBounded
<1>2. IInv /\ BoundInv /\ [Next]_vars => BoundInv'
  BY BoundInvStep
<1>3. BoundInv => LogBounded
  BY DEF BoundInv
<1> QED  BY <1>1, <1>2, <1>3, Inductive, PTL DEF Spec

=============================================================================
