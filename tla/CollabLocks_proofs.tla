-------------------------- MODULE CollabLocks_proofs --------------------------
(***************************************************************************)
(* Proofs about the line locks, for every set of lines and connections,    *)
(* every assignment of subjects and owners, every idle period, cap and     *)
(* heartbeat length.  The argument goes through the snapshot of the table: *)
(* what each operation of the table does to it (the lemmas of the first    *)
(* part) is all that the invariants and the refinement need.               *)
(***************************************************************************)
EXTENDS CollabLocks, FiniteSetTheorems, WellFoundedInduction, TLAPS

-----------------------------------------------------------------------------
(* Smallest and largest elements of sets of naturals. *)
Less == {p \in Nat \X Nat : p[1] < p[2]}

(* Every non-empty set of naturals has a smallest element. *)
LEMMA SmallestExists ==
  ASSUME NEW S \in SUBSET Nat, S # {}
  PROVE  \E m \in S : \A x \in S : m <= x
<1>1. IsWellFoundedOn(Less, Nat)
  BY NatLessThanWellFounded DEF OpToRel, Less
<1>2. IsWellFoundedOn(Less, S)
  BY <1>1, IsWellFoundedOnSubset
<1>3. PICK m \in S : \A x \in S : <<x, m>> \notin Less
  BY <1>2, WFMin
<1>4. \A x \in S : ~(x < m)
  BY <1>3 DEF Less
<1> QED  BY <1>4

(* So has every non-empty set of naturals with a bound a largest one. *)
LEMMA LargestExists ==
  ASSUME NEW S \in SUBSET Nat, S # {}, NEW b \in Nat, \A x \in S : x <= b
  PROVE  \E m \in S : \A x \in S : x <= m
<1> DEFINE Below == {b - x : x \in S}
<1>1. Below \in SUBSET Nat /\ Below # {}
  <2>1. \A x \in S : b - x \in Nat
    OBVIOUS
  <2>2. PICK x \in S : TRUE
    OBVIOUS
  <2>3. b - x \in Below
    OBVIOUS
  <2> QED  BY <2>1, <2>3
<1>2. PICK d \in Below : \A e \in Below : d <= e
  BY <1>1, SmallestExists
<1>3. PICK m \in S : d = b - m
  BY <1>2
<1>4. \A x \in S : m >= x
  <2> TAKE x \in S
  <2>1. b - m <= b - x
    BY <1>2, <1>3
  <2> QED  BY <2>1
<1> QED  BY <1>4

-----------------------------------------------------------------------------
(* The table. *)

(* Tables whose entries never promise more than one idle period. *)
TableOK(t) == t \in Table /\ \A l \in Line : t[l] # NoEntry => t[l].left <= IdleMs

(* The snapshot names a connection exactly where a live entry does. *)
LEMMA SnapshotProps ==
  ASSUME NEW t \in Table
  PROVE  /\ snapshot(t) \in [Line -> Conn \cup {NoConn}]
         /\ \A l \in Line : live(t, l) <=> snapshot(t)[l] # NoConn
         /\ \A l \in Line : live(t, l) => snapshot(t)[l] = t[l].conn
BY TableAssumption DEF Table, LockEntry, snapshot, live

(* acquire() puts the connection in place and touches no other line. *)
LEMMA AcquireProps ==
  ASSUME NEW t, TableOK(t), NEW c \in Conn, NEW S
  PROVE  /\ TableOK(acquire(t, S, c))
         /\ \A l \in Line : snapshot(acquire(t, S, c))[l] =
                               IF l \in S THEN c ELSE snapshot(t)[l]
<1>1. TableOK(acquire(t, S, c))
  BY TableAssumption DEF TableOK, Table, LockEntry, acquire
<1>2. ASSUME NEW l \in Line
      PROVE  snapshot(acquire(t, S, c))[l] = IF l \in S THEN c ELSE snapshot(t)[l]
  <2>1. CASE l \in S
    <3>1. acquire(t, S, c)[l] = [conn |-> c, left |-> IdleMs]
      BY <2>1 DEF acquire
    <3>2. acquire(t, S, c)[l] # NoEntry
      BY <3>1, TableAssumption
    <3> QED  BY <2>1, <3>1, <3>2, TableAssumption DEF snapshot, live
  <2>2. CASE l \notin S
    BY <2>2 DEF acquire, snapshot, live
  <2> QED  BY <2>1, <2>2
<1> QED  BY <1>1, <1>2

(* Deleting entries frees their lines and touches no other line. *)
LEMMA RemoveProps ==
  ASSUME NEW t, TableOK(t), NEW S
  PROVE  /\ TableOK(remove(t, S))
         /\ \A l \in Line : snapshot(remove(t, S))[l] =
                               IF l \in S THEN NoConn ELSE snapshot(t)[l]
BY DEF TableOK, Table, remove, snapshot, live

(* refresh() renews leases and moves no lock. *)
LEMMA RefreshProps ==
  ASSUME NEW t, TableOK(t), NEW c \in Conn, NEW S
  PROVE  /\ TableOK(refresh(t, S, c))
         /\ \A l \in Line : snapshot(refresh(t, S, c))[l] = snapshot(t)[l]
<1>1. \A l \in S \cap Holding(t, c) : l \in Line => snapshot(t)[l] = c
  BY DEF Holding
<1> QED  BY <1>1, AcquireProps DEF refresh

(* freeWhere() frees the live locks it reports and no other. *)
LEMMA FreeWhereProps ==
  ASSUME NEW t, TableOK(t), NEW C \in SUBSET Conn
  PROVE  /\ TableOK(freeWhere(t, C))
         /\ \A l \in Line : snapshot(freeWhere(t, C))[l] =
                               IF l \in freed(t, C) THEN NoConn ELSE snapshot(t)[l]
<1> DEFINE S == {l \in Line : t[l] # NoEntry /\ (t[l].left = 0 \/ t[l].conn \in C)}
<1>1. freeWhere(t, C) = remove(t, S)
  BY DEF freeWhere
<1>2. \A l \in Line : live(t, l) => (l \in S <=> snapshot(t)[l] \in C)
  BY DEF snapshot, live, TableOK, Table, LockEntry
<1>3. \A l \in Line : ~live(t, l) => snapshot(t)[l] = NoConn
  BY DEF snapshot
<1>4. \A l \in Line : l \in freed(t, C) <=> snapshot(t)[l] \in C
  BY DEF freed
<1> HIDE DEF S
<1> QED  BY <1>1, <1>2, <1>3, <1>4, RemoveProps, TableAssumption

(* sweep() only drops entries that already count for nothing. *)
LEMMA SweepProps ==
  ASSUME NEW t, TableOK(t)
  PROVE  /\ TableOK(sweep(t))
         /\ \A l \in Line : snapshot(sweep(t))[l] = snapshot(t)[l]
<1>1. \A l \in Line : expired(t, l) => snapshot(t)[l] = NoConn
  BY DEF expired, snapshot, live, TableOK, Table, LockEntry
<1> QED  BY <1>1, RemoveProps DEF sweep

(* As time passes a lock is kept or lost, and never changes hands. *)
LEMMA ElapseProps ==
  ASSUME NEW t, TableOK(t)
  PROVE  /\ TableOK(Elapse(t))
         /\ \A l \in Line : snapshot(Elapse(t))[l] \in {snapshot(t)[l], NoConn}
<1> USE TableAssumption DEF TableOK, Table, LockEntry
<1>1. ASSUME NEW l \in Line, live(t, l)
      PROVE  /\ [t[l] EXCEPT !.left = @ - 1] = [conn |-> t[l].conn, left |-> t[l].left - 1]
             /\ t[l].left - 1 \in 0..IdleMs
  BY <1>1 DEF live
<1>2. ASSUME NEW l \in Line
      PROVE  /\ Elapse(t)[l] \in LockEntry \cup {NoEntry}
             /\ Elapse(t)[l] # NoEntry => Elapse(t)[l].left <= IdleMs
             /\ snapshot(Elapse(t))[l] \in {snapshot(t)[l], NoConn}
  <2>1. CASE live(t, l)
    <3>1. Elapse(t)[l] = [conn |-> t[l].conn, left |-> t[l].left - 1]
      BY <1>1, <2>1 DEF Elapse
    <3>2. Elapse(t)[l] \in LockEntry /\ Elapse(t)[l].left <= IdleMs
      BY <1>1, <2>1, <3>1 DEF live
    <3>3. snapshot(t)[l] = t[l].conn /\ snapshot(Elapse(t))[l] \in {t[l].conn, NoConn}
      BY <2>1, <3>1 DEF snapshot
    <3> QED  BY <3>2, <3>3
  <2>2. CASE ~live(t, l)
    <3>1. Elapse(t)[l] = t[l]
      BY <2>2 DEF Elapse
    <3> QED  BY <3>1 DEF snapshot, live
  <2> QED  BY <2>1, <2>2
<1>3. Elapse(t) \in [Line -> LockEntry \cup {NoEntry}]
  BY <1>2 DEF Elapse
<1> QED  BY <1>2, <1>3

(* The empty table has no holder. *)
LEMMA EmptyProps ==
  /\ TableOK(EmptyTable)
  /\ \A l \in Line : snapshot(EmptyTable)[l] = NoConn
BY DEF TableOK, Table, EmptyTable, snapshot, live

-----------------------------------------------------------------------------
(* The invariant, through the snapshot. *)

Inv ==
    /\ TypeOK
    /\ LiveLocksShown
    /\ HolderPresent

HolderShown ==
    \A c \in Conn, l \in Line :
        (status[c] = "greeted" /\ snapshot(locks)[l] # NoConn)
            => shown[c][l] = snapshot(locks)[l]

HolderOpen ==
    \A l \in Line : snapshot(locks)[l] # NoConn => status[snapshot(locks)[l]] # "closed"

(* The type invariant and the two other conjuncts, in terms of snapshot(). *)
LEMMA InvBySnapshot ==
  Inv <=> TypeOK /\ HolderShown /\ HolderOpen
<1>1. TypeOK => locks \in Table
  BY DEF TypeOK, Table
<1>2. TypeOK => (LiveLocksShown <=> HolderShown)
  BY <1>1, SnapshotProps DEF LiveLocksShown, HolderShown
<1>3. TypeOK => (HolderPresent <=> HolderOpen)
  BY <1>1, SnapshotProps DEF HolderPresent, HolderOpen
<1> QED  BY <1>2, <1>3 DEF Inv

(* The same in the next state. *)
LEMMA InvBySnapshotNext ==
  ASSUME TypeOK', HolderShown', HolderOpen'
  PROVE  Inv'
<1>1. locks' \in Table
  BY DEF TypeOK, Table
<1>2. LiveLocksShown'
  BY <1>1, SnapshotProps DEF LiveLocksShown, HolderShown
<1>3. HolderPresent'
  BY <1>1, SnapshotProps DEF HolderPresent, HolderOpen
<1> QED  BY <1>2, <1>3 DEF Inv

-----------------------------------------------------------------------------
(* Steps. *)

(* What a snapshot sent to the clients holds. *)
LEMMA SnapshotType ==
  ASSUME TableOK(locks')
  PROVE  snapshot(locks') \in [Line -> Conn \cup {NoConn}]
BY SnapshotProps DEF TableOK

(* A step of the table that broadcasts to every connection that stays, and
   after which every holder still has a slot, keeps the invariant. *)
LEMMA BroadcastStep ==
  ASSUME Inv, TableOK(locks'), lines' \subseteq Line,
         status' \in [Conn -> Statuses], readOnly' \in [Conn -> BOOLEAN],
         NEW R \in SUBSET Conn, broadcastLocks(R),
         \A c \in Conn : status'[c] = "greeted" => c \in R,
         HolderOpen'
  PROVE  Inv'
<1>1. shown' \in [Conn -> [Line -> Conn \cup {NoConn}]]
  BY SnapshotType DEF Inv, TypeOK, broadcastLocks
<1>2. TypeOK'
  BY <1>1 DEF TypeOK, TableOK, Table
<1>3. \A c \in R : shown'[c] = snapshot(locks')
  BY DEF broadcastLocks
<1>4. HolderShown'
  BY <1>3 DEF HolderShown
<1> QED  BY <1>2, <1>4, InvBySnapshotNext

(* A step that takes no line, moves none and tells nobody keeps it too. *)
LEMMA QuietStep ==
  ASSUME Inv, TableOK(locks'), lines' \subseteq Line,
         status' \in [Conn -> Statuses], readOnly' \in [Conn -> BOOLEAN],
         \A l \in Line : snapshot(locks')[l] \in {snapshot(locks)[l], NoConn},
         shown' \in [Conn -> [Line -> Conn \cup {NoConn}]],
         \A c \in Conn : status'[c] = "greeted"
             => \/ shown'[c] = snapshot(locks')
                \/ status[c] = "greeted" /\ shown'[c] = shown[c],
         \A c \in Conn : (status'[c] = "closed" /\ status[c] # "closed")
             => \A l \in Line : snapshot(locks')[l] # c
  PROVE  Inv'
<1>1. TypeOK'
  BY DEF TypeOK, TableOK, Table
<1>2. HolderShown /\ HolderOpen /\ snapshot(locks) \in [Line -> Conn \cup {NoConn}]
  BY InvBySnapshot, SnapshotProps DEF Inv, TypeOK, Table
<1>3. HolderShown'
  BY <1>2 DEF HolderShown
<1>4. HolderOpen'
  BY <1>2 DEF HolderOpen
<1> QED  BY <1>1, <1>3, <1>4, InvBySnapshotNext

(* Taking lines that are free or one's own is a step of LineLocks. *)
LEMMA TakeRefines ==
  ASSUME NEW c \in Conn, NEW S \in SUBSET Line,
         \A l \in S : snapshot(locks)[l] \in {c, NoConn},
         \A l \in Line : snapshot(locks')[l] = IF l \in S THEN c ELSE snapshot(locks)[l]
  PROVE  Abstract!Next
<1>1. snapshot(locks') = [l \in Line |-> snapshot(locks')[l]]
  BY DEF snapshot
<1>2. Abstract!Take(c, S)
  BY <1>1 DEF Abstract!Take
<1> QED  BY <1>2 DEF Abstract!Next

(* So is any step after which a line is free or where it was. *)
LEMMA FreeRefines ==
  ASSUME \A l \in Line : snapshot(locks')[l] \in {snapshot(locks)[l], NoConn}
  PROVE  Abstract!Next
<1> DEFINE S == {l \in Line : snapshot(locks')[l] = NoConn}
<1>1. snapshot(locks') = [l \in Line |-> snapshot(locks')[l]]
  BY DEF snapshot
<1>2. Abstract!Free(S)
  BY <1>1 DEF Abstract!Free
<1> QED  BY <1>2 DEF Abstract!Next

(* What the invariant says of the current state. *)
LEMMA InvFacts ==
  ASSUME Inv
  PROVE  /\ TableOK(locks)
         /\ lines \subseteq Line
         /\ status \in [Conn -> Statuses]
         /\ readOnly \in [Conn -> BOOLEAN]
         /\ shown \in [Conn -> [Line -> Conn \cup {NoConn}]]
         /\ snapshot(locks) \in [Line -> Conn \cup {NoConn}]
         /\ HolderShown
         /\ HolderOpen
BY InvBySnapshot, SnapshotProps DEF Inv, TypeOK, TableOK, Table

(* The lines of a connection are a finite set. *)
LEMMA HoldingFinite ==
  ASSUME NEW t, NEW c
  PROVE  IsFiniteSet(Holding(t, c)) /\ Cardinality(Holding(t, c)) \in Nat
<1>1. Holding(t, c) \in SUBSET Line
  BY DEF Holding
<1> QED  BY <1>1, LocksAssumption, FS_Subset, FS_CardinalityType

(* Nobody exceeds the cap by losing lines. *)
LEMMA FreeKeepsCap ==
  ASSUME \A l \in Line : snapshot(locks')[l] \in {snapshot(locks)[l], NoConn}, LockCap
  PROVE  LockCap'
<1> SUFFICES ASSUME NEW c \in Conn
             PROVE  Cardinality(Holding(locks', c)) <= MaxLocksPerConn
  BY DEF LockCap
<1>1. Holding(locks', c) \in SUBSET Holding(locks, c)
  BY TableAssumption DEF Holding
<1>2. Cardinality(Holding(locks', c)) <= Cardinality(Holding(locks, c))
  BY <1>1, HoldingFinite, FS_Subset
<1>3. Cardinality(Holding(locks, c)) <= MaxLocksPerConn
  BY DEF LockCap
<1> QED  BY <1>2, <1>3, HoldingFinite, LocksAssumption

(* Nor by taking lines within it. *)
LEMMA TakeKeepsCap ==
  ASSUME NEW c \in Conn, NEW S \in SUBSET Line,
         \A l \in Line : snapshot(locks')[l] = IF l \in S THEN c ELSE snapshot(locks)[l],
         Cardinality(Holding(locks, c) \cup S) <= MaxLocksPerConn, LockCap
  PROVE  LockCap'
<1> SUFFICES ASSUME NEW d \in Conn
             PROVE  Cardinality(Holding(locks', d)) <= MaxLocksPerConn
  BY DEF LockCap
<1>1. CASE d = c
  <2>1. Holding(locks', d) = Holding(locks, c) \cup S
    BY <1>1 DEF Holding
  <2> QED  BY <2>1
<1>2. CASE d # c
  <2>1. Holding(locks', d) \in SUBSET Holding(locks, d)
    BY <1>2 DEF Holding
  <2>2. Cardinality(Holding(locks', d)) <= Cardinality(Holding(locks, d))
    BY <2>1, HoldingFinite, FS_Subset
  <2>3. Cardinality(Holding(locks, d)) <= MaxLocksPerConn
    BY DEF LockCap
  <2> QED  BY <2>2, <2>3, HoldingFinite, LocksAssumption
<1> QED  BY <1>1, <1>2

(* A heartbeat counts every line it grants: what it adds fits in the cap. *)
LEMMA GrantedFits ==
  ASSUME NEW c \in Conn, NEW ids \in Heartbeats, LockCap
  PROVE  Cardinality(Holding(locks, c) \cup Granted(c, ids)) <= MaxLocksPerConn
<1> DEFINE H == Holding(locks, c)
           R == Requested(c, ids)
           UpTo(j) == {k \in R : k <= j}
           J == {j \in R : Cardinality(H) + Cardinality(UpTo(j)) <= MaxLocksPerConn}
           G == Granted(c, ids)
<1>1. IsFiniteSet(H) /\ Cardinality(H) \in Nat /\ Cardinality(H) <= MaxLocksPerConn
  BY HoldingFinite DEF LockCap
<1>2. /\ IsFiniteSet(R) /\ R \in SUBSET Nat
      /\ \E n \in Nat : \A j \in R : j <= n
  <2>1. PICK n \in 1..MaxHeartbeatIds : ids \in [1..n -> Line]
    BY DEF Heartbeats
  <2>2. R \in SUBSET (1..n) /\ n \in Nat
    BY <2>1, LocksAssumption DEF Requested
  <2> QED  BY <2>2, FS_Interval, FS_Subset
<1>3. G = {ids[i] : i \in J}
  BY DEF Granted
<1> HIDE DEF H, R, G
<1>4. J \in SUBSET R /\ IsFiniteSet(J) /\ Cardinality(J) \in Nat
  BY <1>2, FS_Subset, FS_CardinalityType
<1>5. Cardinality(H) + Cardinality(J) <= MaxLocksPerConn
  <2>1. CASE J = {}
    <3>1. Cardinality(J) = 0
      BY <2>1, FS_EmptySet
    <3> HIDE DEF J
    <3> QED  BY <1>1, <3>1, LocksAssumption
  <2>2. CASE J # {}
    <3>1. PICK m \in J : \A j \in J : j <= m
      <4>1. PICK n \in Nat : \A j \in J : j <= n
        BY <1>2, <1>4
      <4> QED  BY <1>2, <1>4, <2>2, <4>1, LargestExists
    <3>2. J \in SUBSET UpTo(m) /\ UpTo(m) \in SUBSET R
      BY <1>4, <3>1
    <3>3. /\ Cardinality(J) <= Cardinality(UpTo(m))
          /\ Cardinality(UpTo(m)) \in Nat
      BY <1>2, <3>2, FS_Subset, FS_CardinalityType
    <3>4. Cardinality(H) + Cardinality(UpTo(m)) <= MaxLocksPerConn
      BY <3>1
    <3> QED  BY <1>1, <1>4, <3>3, <3>4, LocksAssumption
  <2> QED  BY <2>1, <2>2
<1>6. IsFiniteSet(G) /\ Cardinality(G) <= Cardinality(J) /\ Cardinality(G) \in Nat
  <2> DEFINE f == [i \in J |-> ids[i]]
  <2>1. f \in Surjection(J, G)
    BY <1>3 DEF Surjection
  <2> HIDE DEF f, J
  <2> QED  BY <1>4, <2>1, FS_Surjection, FS_CardinalityType
<1>7. Cardinality(H \cup G) <= Cardinality(H) + Cardinality(G)
  <2>1. Cardinality(H \cup G) = Cardinality(H) + Cardinality(G) - Cardinality(H \cap G)
    BY <1>1, <1>6, FS_Union
  <2>2. IsFiniteSet(H \cap G)
    BY <1>1, FS_Intersection
  <2>3. Cardinality(H \cap G) \in Nat
    BY <2>2, FS_CardinalityType
  <2> HIDE DEF J
  <2> QED  BY <1>1, <1>6, <2>1, <2>3
<1>8. Cardinality(H \cup G) \in Nat
  BY <1>1, <1>6, FS_Union, FS_CardinalityType
<1> HIDE DEF J
<1>9. Cardinality(H \cup G) <= MaxLocksPerConn
  BY <1>1, <1>4, <1>5, <1>6, <1>7, <1>8, LocksAssumption
<1> QED  BY <1>9 DEF H, G

(* What one step must establish. *)
Preserved ==
    /\ Inv'
    /\ Abstract!Next \/ UNCHANGED snapshot(locks)
    /\ LockCap => LockCap'

(* A connection that takes free lines and tells everybody. *)
LEMMA TakeStep ==
  ASSUME Inv, NEW c \in Connections, TableOK(locks'), NEW S \in SUBSET Line,
         \A l \in S : mayAcquire(locks, l, c),
         \A l \in Line : snapshot(locks')[l] = IF l \in S THEN c ELSE snapshot(locks)[l],
         LockCap => Cardinality(Holding(locks, c) \cup S) <= MaxLocksPerConn,
         broadcastLocks(Connections), UNCHANGED <<lines, status, readOnly>>
  PROVE  Preserved
<1>1. c \in Conn /\ status[c] # "closed"
  BY DEF Connections
<1>2. HolderOpen'
  BY <1>1, InvFacts DEF HolderOpen
<1>3. \A d \in Conn : status'[d] = "greeted" => d \in Connections
  BY DEF Connections
<1>4. Connections \in SUBSET Conn
  BY DEF Connections
<1>5. Inv'
  BY <1>2, <1>3, <1>4, InvFacts, BroadcastStep
<1>6. Abstract!Next
  BY <1>1, TakeRefines DEF mayAcquire
<1> QED  BY <1>1, <1>5, <1>6, TakeKeepsCap DEF Preserved

(* Locks that end with everybody told. *)
LEMMA FreeStep ==
  ASSUME Inv, TableOK(locks'),
         \A l \in Line : snapshot(locks')[l] \in {snapshot(locks)[l], NoConn},
         NEW R \in SUBSET Conn, broadcastLocks(R),
         \A c \in Conn : status'[c] = "greeted" => c \in R,
         status' \in [Conn -> Statuses],
         \A c \in Conn : status'[c] = "closed" => status[c] = "closed",
         UNCHANGED <<lines, readOnly>>
  PROVE  Preserved
<1>1. HolderOpen'
  BY InvFacts DEF HolderOpen
<1>2. Inv'
  BY <1>1, InvFacts, BroadcastStep
<1> QED  BY <1>2, FreeRefines, FreeKeepsCap DEF Preserved

(* Acquiring keeps the invariant. *)
LEMMA LockStep ==
  ASSUME Inv, NEW c \in Conn, NEW l \in Line, lock(c, l)
  PROVE  Preserved
<1>1. /\ c \in Connections /\ mayAcquire(locks, l, c)
      /\ locks' = acquire(locks, {l}, c)
      /\ broadcastLocks(Connections) /\ UNCHANGED <<lines, status, readOnly>>
  BY DEF lock
<1>2. /\ TableOK(locks')
      /\ \A k \in Line : snapshot(locks')[k] = IF k \in {l} THEN c ELSE snapshot(locks)[k]
  BY <1>1, InvFacts, AcquireProps
<1>3. LockCap => Cardinality(Holding(locks, c) \cup {l}) <= MaxLocksPerConn
  <2>1. l \in Holding(locks, c) \/ Cardinality(Holding(locks, c)) < MaxLocksPerConn
    BY DEF lock
  <2>2. Cardinality(Holding(locks, c) \cup {l}) =
          IF l \in Holding(locks, c) THEN Cardinality(Holding(locks, c))
                                     ELSE Cardinality(Holding(locks, c)) + 1
    BY HoldingFinite, FS_AddElement
  <2> QED  BY <2>1, <2>2, HoldingFinite, LocksAssumption DEF LockCap
<1> QED  BY <1>1, <1>2, <1>3, TakeStep

(* Releasing, by the holder or by force, keeps the invariant. *)
LEMMA UnlockStep ==
  ASSUME Inv, NEW c \in Conn, NEW l \in Line, unlock(c, l) \/ forceUnlock(c, l)
  PROVE  Preserved
<1>1. /\ locks' = remove(locks, {l})
      /\ broadcastLocks(Connections) /\ UNCHANGED <<lines, status, readOnly>>
  BY DEF unlock, forceUnlock
<1>2. /\ TableOK(locks')
      /\ \A k \in Line : snapshot(locks')[k] \in {snapshot(locks)[k], NoConn}
  BY <1>1, InvFacts, RemoveProps
<1>3. /\ Connections \in SUBSET Conn
      /\ \A d \in Conn : status'[d] = "greeted" => d \in Connections
  BY <1>1 DEF Connections
<1> QED  BY <1>1, <1>2, <1>3, InvFacts, FreeStep

(* A heartbeat moves no lock but those it is granted, and then all hear. *)
LEMMA HeartbeatStep ==
  ASSUME Inv, NEW c \in Conn, NEW ids \in Heartbeats, heartbeat(c, ids)
  PROVE  Preserved
<1> DEFINE mine == {ids[i] : i \in DOMAIN ids} \cap Holding(locks, c)
           after == refresh(locks, mine, c)
           G == Granted(c, ids)
<1>1. /\ c \in Connections
      /\ locks' = acquire(after, G, c)
      /\ IF G = {} THEN UNCHANGED shown ELSE broadcastLocks(Connections)
      /\ UNCHANGED <<lines, status, readOnly>>
  BY DEF heartbeat
<1>2. TableOK(after) /\ \A l \in Line : snapshot(after)[l] = snapshot(locks)[l]
  BY InvFacts, RefreshProps
<1>3. G \in SUBSET Line /\ \A l \in G : mayAcquire(locks, l, c)
  <2>1. \A i \in Requested(c, ids) : ids[i] \in Line /\ mayAcquire(locks, ids[i], c)
    BY InvFacts DEF Requested
  <2> QED  BY <2>1 DEF Granted
<1> HIDE DEF mine, after, G
<1>4. /\ TableOK(locks')
      /\ \A l \in Line : snapshot(locks')[l] = IF l \in G THEN c ELSE snapshot(locks)[l]
  BY <1>1, <1>2, AcquireProps
<1>5. CASE G # {}
  <2>1. LockCap => Cardinality(Holding(locks, c) \cup G) <= MaxLocksPerConn
    BY GrantedFits DEF G
  <2> QED  BY <1>1, <1>3, <1>4, <1>5, <2>1, TakeStep
<1>6. CASE G = {}
  <2>1. snapshot(locks') = snapshot(locks)
    BY <1>4, <1>6 DEF snapshot
  <2>2. Inv'
    BY <1>1, <1>4, <1>6, <2>1, InvFacts, QuietStep
  <2> QED  BY <2>1, <2>2, FreeKeepsCap DEF Preserved
<1> QED  BY <1>5, <1>6

(* A disconnect frees the locks of its connection and tells the others if
   that was a change: what it deletes silently had no holder any more. *)
LEMMA DisconnectStep ==
  ASSUME Inv, NEW c \in Conn, onDisconnect(c)
  PROVE  Preserved
<1>1. /\ locks' = freeWhere(locks, {c})
      /\ status' = [status EXCEPT ![c] = "closed"]
      /\ readOnly' = [readOnly EXCEPT ![c] = FALSE]
      /\ lines' = lines
      /\ shown' = [d \in Conn |->
             IF d = c THEN NothingShown
             ELSE IF freed(locks, {c}) # {} /\ d \in Connections
                  THEN snapshot(locks') ELSE shown[d]]
  BY DEF onDisconnect
<1>2. /\ TableOK(locks')
      /\ \A l \in Line : snapshot(locks')[l] =
            IF l \in freed(locks, {c}) THEN NoConn ELSE snapshot(locks)[l]
  BY <1>1, InvFacts, FreeWhereProps
<1>3. /\ \A l \in Line : snapshot(locks')[l] # c
      /\ \A l \in Line : snapshot(locks')[l] \in {snapshot(locks)[l], NoConn}
  BY <1>2, TableAssumption DEF freed
<1>4. freed(locks, {c}) = {} => snapshot(locks') = snapshot(locks)
  BY <1>2 DEF snapshot
<1>5. shown' \in [Conn -> [Line -> Conn \cup {NoConn}]]
  BY <1>1, <1>2, InvFacts, SnapshotType DEF NothingShown
<1>6. Inv'
  <2>1. status' \in [Conn -> Statuses] /\ readOnly' \in [Conn -> BOOLEAN]
    BY <1>1, InvFacts DEF Statuses
  <2>2. ASSUME NEW d \in Conn, status'[d] = "greeted"
        PROVE  \/ shown'[d] = snapshot(locks')
               \/ status[d] = "greeted" /\ shown'[d] = shown[d]
    <3>1. d # c /\ status[d] = "greeted" /\ d \in Connections
      BY <1>1, <2>2, InvFacts DEF Connections
    <3> QED  BY <1>1, <3>1
  <2>3. \A d \in Conn : (status'[d] = "closed" /\ status[d] # "closed")
          => \A l \in Line : snapshot(locks')[l] # d
    BY <1>1, <1>3, InvFacts
  <2> QED  BY <1>1, <1>2, <1>3, <1>5, <2>1, <2>2, <2>3, InvFacts, QuietStep
<1> QED  BY <1>3, <1>6, FreeRefines, FreeKeepsCap DEF Preserved

(* A kick frees the locks of a subject and tells those who stay. *)
LEMMA CloseSubjectStep ==
  ASSUME Inv, NEW s, closeSubject(s)
  PROVE  Preserved
<1> DEFINE kicked == {c \in Conn : SubjectOf[c] = s}
<1>1. /\ locks' = freeWhere(locks, kicked)
      /\ status' = [c \in Conn |-> IF c \in Connections \cap kicked
                                   THEN "closing" ELSE status[c]]
      /\ broadcastLocks(Connections \ kicked)
      /\ UNCHANGED <<lines, readOnly>>
  BY DEF closeSubject
<1>2. kicked \in SUBSET Conn
  OBVIOUS
<1> HIDE DEF kicked
<1>3. /\ TableOK(locks')
      /\ \A l \in Line : snapshot(locks')[l] \in {snapshot(locks)[l], NoConn}
  BY <1>1, <1>2, InvFacts, FreeWhereProps
<1>4. /\ Connections \ kicked \in SUBSET Conn
      /\ \A c \in Conn : status'[c] = "greeted" => c \in Connections \ kicked
      /\ status' \in [Conn -> Statuses]
      /\ \A c \in Conn : status'[c] = "closed" => status[c] = "closed"
  BY <1>1, InvFacts DEF Connections, Statuses
<1> QED  BY <1>1, <1>3, <1>4, FreeStep

(* Connections come, are greeted and go, the document changes: no lock
   moves, and a new client is told the locks as they are. *)
LEMMA ConnectionStep ==
  ASSUME Inv,
         \/ \E c \in Conn : Attach(c) \/ connected(c) \/ Close(c)
         \/ Freeze \/ EndSession \/ EditLines
  PROVE  Preserved
<1>1. locks' = locks /\ lines' \subseteq Line
  BY InvFacts DEF Attach, connected, Close, Freeze, EndSession, EditLines
<1>2. status' \in [Conn -> Statuses] /\ readOnly' \in [Conn -> BOOLEAN]
  BY InvFacts DEF Attach, connected, Close, Freeze, EndSession, EditLines, Statuses
<1>3. shown' \in [Conn -> [Line -> Conn \cup {NoConn}]]
  BY InvFacts DEF Attach, connected, Close, Freeze, EndSession, EditLines
<1>4. \A d \in Conn : status'[d] = "greeted"
        => \/ shown'[d] = snapshot(locks')
           \/ status[d] = "greeted" /\ shown'[d] = shown[d]
  <2>1. CASE \E c \in Conn : Attach(c) \/ connected(c) \/ Close(c)
    BY <1>1, <2>1, InvFacts DEF Attach, connected, Close
  <2>2. CASE Freeze \/ EndSession \/ EditLines
    BY <1>1, <2>2, InvFacts DEF Freeze, EndSession, EditLines
  <2> QED  BY <2>1, <2>2
<1>5. \A d \in Conn : status'[d] = "closed" => status[d] = "closed"
  BY InvFacts DEF Attach, connected, Close, Freeze, EndSession, EditLines
<1>6. Inv'
  BY <1>1, <1>2, <1>3, <1>4, <1>5, InvFacts, QuietStep
<1> QED  BY <1>1, <1>6, FreeKeepsCap DEF Preserved

(* The teardown of a document that nobody is connected to. *)
LEMMA ClearDocStep ==
  ASSUME Inv, clearDoc
  PROVE  Preserved
<1>1. /\ TableOK(locks')
      /\ \A l \in Line : snapshot(locks')[l] \in {snapshot(locks)[l], NoConn}
  BY EmptyProps DEF clearDoc
<1>2. \A d \in Conn : status[d] # "greeted"
  BY DEF clearDoc, Connections
<1>3. Inv'
  BY <1>1, <1>2, InvFacts, QuietStep DEF clearDoc
<1> QED  BY <1>1, <1>3, FreeRefines, FreeKeepsCap DEF Preserved

(* Time passes: locks expire without anybody hearing of it yet. *)
LEMMA TickStep ==
  ASSUME Inv, Tick
  PROVE  Preserved
<1>1. /\ TableOK(locks')
      /\ \A l \in Line : snapshot(locks')[l] \in {snapshot(locks)[l], NoConn}
  BY InvFacts, ElapseProps DEF Tick
<1>2. Inv'
  BY <1>1, InvFacts, QuietStep DEF Tick
<1> QED  BY <1>1, <1>2, FreeRefines, FreeKeepsCap DEF Preserved

(* The sweep deletes what no longer counts and tells everybody. *)
LEMMA SweepStep ==
  ASSUME Inv, Sweep
  PROVE  Preserved
<1>1. /\ TableOK(locks')
      /\ \A l \in Line : snapshot(locks')[l] \in {snapshot(locks)[l], NoConn}
  BY InvFacts, SweepProps DEF Sweep
<1>2. /\ Connections \in SUBSET Conn
      /\ \A c \in Conn : status'[c] = "greeted" => c \in Connections
  BY DEF Sweep, Connections
<1> QED  BY <1>1, <1>2, InvFacts, FreeStep DEF Sweep

-----------------------------------------------------------------------------
(* Theorems. *)

(* Nothing is held when the document is loaded. *)
LEMMA InitInv == Init => Inv /\ Abstract!Init /\ LockCap
<1> SUFFICES ASSUME Init PROVE Inv /\ Abstract!Init /\ LockCap
  OBVIOUS
<1>1. TypeOK
  BY EmptyProps DEF Init, TypeOK, TableOK, Table, Statuses, NothingShown
<1>2. \A l \in Line : snapshot(locks)[l] = NoConn
  BY EmptyProps DEF Init
<1>3. HolderShown /\ HolderOpen
  BY <1>2 DEF HolderShown, HolderOpen
<1>4. snapshot(locks) = [l \in Line |-> NoConn]
  BY <1>2 DEF snapshot
<1>5. ASSUME NEW c \in Conn PROVE Cardinality(Holding(locks, c)) <= MaxLocksPerConn
  <2>1. Holding(locks, c) = {}
    BY <1>2, TableAssumption DEF Holding
  <2> QED  BY <2>1, FS_EmptySet, LocksAssumption
<1> QED  BY <1>1, <1>3, <1>4, <1>5, InvBySnapshot DEF Abstract!Init, LockCap

(* Every step keeps the invariant and is a step or a stutter of LineLocks. *)
LEMMA NextPreserved == Inv /\ [Next]_vars => Preserved
<1> SUFFICES ASSUME Inv, [Next]_vars PROVE Preserved
  OBVIOUS
<1>1. ASSUME NEW c \in Conn, NEW l \in Line, lock(c, l) PROVE Preserved
  BY <1>1, LockStep
<1>2. ASSUME NEW c \in Conn, NEW l \in Line, unlock(c, l) \/ forceUnlock(c, l)
      PROVE  Preserved
  BY <1>2, UnlockStep
<1>3. ASSUME NEW c \in Conn, NEW ids \in Heartbeats, heartbeat(c, ids) PROVE Preserved
  BY <1>3, HeartbeatStep
<1>4. ASSUME NEW c \in Conn, onDisconnect(c) PROVE Preserved
  BY <1>4, DisconnectStep
<1>5. ASSUME NEW s \in Subjects, closeSubject(s) PROVE Preserved
  BY <1>5, CloseSubjectStep
<1>6. CASE \/ \E c \in Conn : Attach(c) \/ connected(c) \/ Close(c)
           \/ Freeze \/ EndSession \/ EditLines
  BY <1>6, ConnectionStep
<1>7. CASE clearDoc
  BY <1>7, ClearDocStep
<1>8. CASE Tick
  BY <1>8, TickStep
<1>9. CASE Sweep
  BY <1>9, SweepStep
<1>10. CASE UNCHANGED vars
  <2>1. UNCHANGED <<locks, lines, status, readOnly, shown>>
    BY <1>10 DEF vars
  <2>2. Inv'
    BY <2>1, InvFacts, QuietStep
  <2> QED  BY <2>1, <2>2, FreeKeepsCap DEF Preserved
<1> QED  BY <1>1, <1>2, <1>3, <1>4, <1>5, <1>6, <1>7, <1>8, <1>9, <1>10 DEF Next

(* Inv is inductive. *)
LEMMA Inductive == Spec => []Inv
<1>1. Init => Inv
  BY InitInv
<1>2. Inv /\ [Next]_vars => Inv'
  BY NextPreserved DEF Preserved
<1> QED  BY <1>1, <1>2, PTL DEF Spec

(* What each variable holds: in particular no lock ever has more than one
   idle period left (collab.locks.ts acquire, refresh). *)
THEOREM TypeCorrect == Spec => []TypeOK
<1>1. Inv => TypeOK
  BY DEF Inv
<1> QED  BY <1>1, Inductive, PTL

(* Every greeted client sees the holder of every live lock: every handler
   that grants, moves or keeps one broadcasts or greets. *)
THEOREM LocksAreShown == Spec => []LiveLocksShown
<1>1. Inv => LiveLocksShown
  BY DEF Inv
<1> QED  BY <1>1, Inductive, PTL

(* No live lock belongs to a connection that is gone (onDisconnect). *)
THEOREM HoldersArePresent == Spec => []HolderPresent
<1>1. Inv => HolderPresent
  BY DEF Inv
<1> QED  BY <1>1, Inductive, PTL

(* No connection gets past MAX_LOCKS_PER_CONN, neither by single requests
   nor by the re-acquiring heartbeats, with any number of repeated ids. *)
THEOREM CapHolds == Spec => []LockCap
<1>1. Init => LockCap
  BY InitInv
<1>2. Inv /\ LockCap /\ [Next]_vars => LockCap'
  BY NextPreserved DEF Preserved
<1> QED  BY <1>1, <1>2, Inductive, PTL DEF Spec

(* The locks of a document implement LineLocks: a held line never changes
   hands without having been free, whatever is sent and whenever a lock
   expires (acquire, and every use of it in onStateless). *)
THEOREM LocksImplementPromise == Spec => Promise
<1>1. Init => Abstract!Init
  BY InitInv
<1>2. Inv /\ [Next]_vars => [Abstract!Next]_(snapshot(locks))
  BY NextPreserved DEF Preserved
<1> QED  BY <1>1, <1>2, Inductive, PTL DEF Spec, Promise, Abstract!Spec

=============================================================================
