----------------------------- MODULE CollabLocks -----------------------------
(***************************************************************************)
(* The lock protocol of one loaded document (collab.server.ts): stateless  *)
(* messages of the clients, disconnects, the sweep timer, kicks and the    *)
(* teardown of the document, over the lock table of collab.locks.ts.       *)
(*                                                                         *)
(* shown[c] is the last lock snapshot sent to client c, by a broadcast or  *)
(* by the greeting of the connected hook.  What a client is denied, and    *)
(* messages dropped by the rate limit, change no state and are left out.   *)
(* A connection that closed has left the document's connection list at     *)
(* once ("closing"); its onDisconnect hook runs later.  The next           *)
(* connection has a fresh connId, so a slot is reused only after that.     *)
(***************************************************************************)
EXTENDS Naturals, FiniteSets, Sequences

(***************************************************************************)
(* The per-line edit locks of one document (collab.locks.ts).              *)
(*                                                                         *)
(* A table maps every line to its entry or to NoEntry.  The code stores    *)
(* the wall-clock time expiresAt; here an entry holds what is left of it,  *)
(* expiresAt - now, which Elapse counts down: `expiresAt > now()` is       *)
(* left > 0.  The name and colour of a holder are left out.                *)
(***************************************************************************)
CONSTANTS
    Line,      \* ids of lockable lines
    Conn,      \* connection ids
    NoConn,    \* nobody
    NoEntry,   \* absent from the Map
    IdleMs     \* LOCK_IDLE_MS, in ticks of the clock

ASSUME TableAssumption ==
    /\ NoConn \notin Conn
    /\ IdleMs \in Nat \ {0}
    /\ NoEntry \notin [conn : Conn, left : Nat]

LockEntry == [conn : Conn, left : Nat]

Table == [Line -> LockEntry \cup {NoEntry}]

EmptyTable == [l \in Line |-> NoEntry]

live(t, l) == t[l] # NoEntry /\ t[l].left > 0

expired(t, l) == t[l] # NoEntry /\ t[l].left = 0

(* Mutant: expired entries still have a holder. *)
snapshot_WithExpired(t) ==
    [l \in Line |-> IF t[l] # NoEntry THEN t[l].conn ELSE NoConn]

(* The live holder of a line: what snapshot() returns for it. *)
snapshot(t) == [l \in Line |-> IF live(t, l) THEN t[l].conn ELSE NoConn]

Holding(t, c) == {l \in Line : snapshot(t)[l] = c}

(* Mutant: a line somebody else holds is not refused. *)
mayAcquire_Always(t, l, c) == l \in Line

(* acquire(): refused while another connection's entry is live. *)
mayAcquire(t, l, c) == snapshot(t)[l] \in {c, NoConn}

(* acquire() with its test passed: a full idle period from now. *)
acquire(t, S, c) ==
    [l \in Line |-> IF l \in S THEN [conn |-> c, left |-> IdleMs] ELSE t[l]]

remove(t, S) == [l \in Line |-> IF l \in S THEN NoEntry ELSE t[l]]

(* refresh(): never revives an expired entry, nor touches another's. *)
refresh(t, S, c) == acquire(t, S \cap Holding(t, c), c)

(* freeWhere(): the entries of C go and so does every expired entry, but
   only the live ones of C are reported as freed. *)
freed(t, C) == {l \in Line : snapshot(t)[l] \in C}

freeWhere(t, C) ==
    remove(t, {l \in Line : t[l] # NoEntry /\ (t[l].left = 0 \/ t[l].conn \in C)})

sweep(t) == remove(t, {l \in Line : expired(t, l)})

Elapse(t) ==
    [l \in Line |-> IF live(t, l) THEN [t[l] EXCEPT !.left = @ - 1] ELSE t[l]]

-----------------------------------------------------------------------------
CONSTANTS
    SubjectOf,        \* the subject each connection authenticated as
    Owner,            \* connections whose principal has the owner's role
    MaxLocksPerConn,  \* MAX_LOCKS_PER_CONN
    MaxHeartbeatIds   \* MAX_HEARTBEAT_IDS

ASSUME LocksAssumption ==
    /\ IsFiniteSet(Line)
    /\ Owner \subseteq Conn
    /\ DOMAIN SubjectOf = Conn
    /\ MaxLocksPerConn \in Nat
    /\ MaxHeartbeatIds \in Nat

VARIABLES
    locks,     \* the lock table
    lines,     \* ids of the lines in the Y.Doc
    status,    \* per connection
    readOnly,  \* connection.readOnly
    shown      \* per connection: the last snapshot sent to the client

vars == <<locks, lines, status, readOnly, shown>>

Statuses == {"closed", "attached", "greeted", "closing"}

Subjects == {SubjectOf[c] : c \in Conn}

NothingShown == [l \in Line |-> NoConn]

Init ==
    /\ locks = EmptyTable
    /\ lines \in SUBSET Line
    /\ status = [c \in Conn |-> "closed"]
    /\ readOnly = [c \in Conn |-> FALSE]
    /\ shown = [c \in Conn |-> NothingShown]

(* document.getConnections() *)
Connections == {c \in Conn : status[c] \in {"attached", "greeted"}}

(* broadcastLocks(): the snapshot of the new table, to every connection. *)
broadcastLocks(recipients) ==
    shown' = [c \in Conn |-> IF c \in recipients THEN snapshot(locks') ELSE shown[c]]

-----------------------------------------------------------------------------
(* onStateless: one disjunct of the handler per message type. *)

(* Mutant: a granted lock is not broadcast. *)
lock_Silent(c, l) ==
    /\ c \in Connections
    /\ ~readOnly[c]
    /\ l \in lines
    /\ l \in Holding(locks, c) \/ Cardinality(Holding(locks, c)) < MaxLocksPerConn
    /\ mayAcquire(locks, l, c)
    /\ locks' = acquire(locks, {l}, c)
    /\ UNCHANGED <<lines, status, readOnly, shown>>

(* `lock`: denied to a read-only connection, for a line the document does
   not have, past the cap, or while someone else holds it. *)
lock(c, l) ==
    /\ c \in Connections
    /\ ~readOnly[c]
    /\ l \in lines
    /\ l \in Holding(locks, c) \/ Cardinality(Holding(locks, c)) < MaxLocksPerConn
    /\ mayAcquire(locks, l, c)
    /\ locks' = acquire(locks, {l}, c)
    /\ broadcastLocks(Connections)
    /\ UNCHANGED <<lines, status, readOnly>>

unlock(c, l) ==
    /\ c \in Connections
    /\ l \in Holding(locks, c)
    /\ locks' = remove(locks, {l})
    /\ broadcastLocks(Connections)
    /\ UNCHANGED <<lines, status, readOnly>>

forceUnlock(c, l) ==
    /\ c \in Connections \cap Owner
    /\ live(locks, l)
    /\ locks' = remove(locks, {l})
    /\ broadcastLocks(Connections)
    /\ UNCHANGED <<lines, status, readOnly>>

(* A heartbeat refreshes the lines the connection holds.  For the others
   it is a request: they are tried in the order given, and each one
   granted counts towards the cap, a repeated id again. *)
Requested(c, ids) ==
    {i \in DOMAIN ids : /\ ids[i] \notin Holding(locks, c)
                        /\ ~readOnly[c]
                        /\ ids[i] \in lines
                        /\ mayAcquire(locks, ids[i], c)}

(* Mutant: lines granted by one heartbeat do not count towards the cap. *)
Granted_Uncounted(c, ids) ==
    {ids[i] : i \in {j \in Requested(c, ids) :
        Cardinality(Holding(locks, c)) < MaxLocksPerConn}}

Granted(c, ids) ==
    {ids[i] : i \in {j \in Requested(c, ids) :
        Cardinality(Holding(locks, c)) + Cardinality({k \in Requested(c, ids) : k <= j})
            <= MaxLocksPerConn}}

heartbeat(c, ids) ==
    /\ c \in Connections
    /\ LET mine == {ids[i] : i \in DOMAIN ids} \cap Holding(locks, c)
       IN locks' = acquire(refresh(locks, mine, c), Granted(c, ids), c)
    /\ IF Granted(c, ids) = {} THEN UNCHANGED shown ELSE broadcastLocks(Connections)
    /\ UNCHANGED <<lines, status, readOnly>>

-----------------------------------------------------------------------------
(* Connections. *)

(* Authenticated as a viewer, or on a frozen document: read-only. *)
Attach(c) ==
    /\ status[c] = "closed"
    /\ status' = [status EXCEPT ![c] = "attached"]
    /\ \E ro \in BOOLEAN : readOnly' = [readOnly EXCEPT ![c] = ro]
    /\ UNCHANGED <<locks, lines, shown>>

(* The greeting: hello, then the lock snapshot. *)
connected(c) ==
    /\ status[c] = "attached"
    /\ status' = [status EXCEPT ![c] = "greeted"]
    /\ shown' = [shown EXCEPT ![c] = snapshot(locks)]
    /\ UNCHANGED <<locks, lines, readOnly>>

(* drop(), a closed tab, a lost network. *)
Close(c) ==
    /\ c \in Connections
    /\ status' = [status EXCEPT ![c] = "closing"]
    /\ UNCHANGED <<locks, lines, readOnly, shown>>

(* Mutant: a disconnect leaves the locks behind. *)
onDisconnect_KeepLocks(c) ==
    /\ status[c] = "closing"
    /\ status' = [status EXCEPT ![c] = "closed"]
    /\ readOnly' = [readOnly EXCEPT ![c] = FALSE]
    /\ shown' = [shown EXCEPT ![c] = NothingShown]
    /\ UNCHANGED <<locks, lines>>

(* Broadcasts only when a live lock of this connection was freed. *)
onDisconnect(c) ==
    /\ status[c] = "closing"
    /\ status' = [status EXCEPT ![c] = "closed"]
    /\ readOnly' = [readOnly EXCEPT ![c] = FALSE]
    /\ locks' = freeWhere(locks, {c})
    /\ shown' = [d \in Conn |->
                    IF d = c THEN NothingShown
                    ELSE IF freed(locks, {c}) # {} /\ d \in Connections
                         THEN snapshot(locks') ELSE shown[d]]
    /\ UNCHANGED lines

(* A kick: the subject's locks go, its connections are dropped, and those
   that stay are told. *)
closeSubject(s) ==
    LET kicked == {c \in Conn : SubjectOf[c] = s}
    IN /\ locks' = freeWhere(locks, kicked)
       /\ status' = [c \in Conn |-> IF c \in Connections \cap kicked
                                    THEN "closing" ELSE status[c]]
       /\ broadcastLocks(Connections \ kicked)
       /\ UNCHANGED <<lines, readOnly>>

(* onChange past the size cap: every connection turns read-only, and the
   writers are dropped so that they reconnect as readers. *)
Freeze ==
    /\ Connections # {}
    /\ readOnly' = [c \in Conn |-> readOnly[c] \/ c \in Connections]
    /\ status' = [c \in Conn |-> IF c \in Connections /\ ~readOnly[c]
                                 THEN "closing" ELSE status[c]]
    /\ UNCHANGED <<locks, lines, shown>>

(* endSession: read-only before the final store, closed after it. *)
EndSession ==
    /\ Connections # {}
    /\ readOnly' = [c \in Conn |-> readOnly[c] \/ c \in Connections]
    /\ UNCHANGED <<locks, lines, status, shown>>

(* The document has unloaded, or its session's teardown is over. *)
clearDoc ==
    /\ Connections = {}
    /\ locks' = EmptyTable
    /\ UNCHANGED <<lines, status, readOnly, shown>>

-----------------------------------------------------------------------------
(* The document, the clock and the sweep timer. *)

EditLines ==
    /\ \E c \in Connections : ~readOnly[c]
    /\ lines' \in SUBSET Line
    /\ UNCHANGED <<locks, status, readOnly, shown>>

Tick ==
    /\ locks' = Elapse(locks)
    /\ UNCHANGED <<lines, status, readOnly, shown>>

Sweep ==
    /\ \E l \in Line : expired(locks, l)
    /\ locks' = sweep(locks)
    /\ broadcastLocks(Connections)
    /\ UNCHANGED <<lines, status, readOnly>>

Heartbeats == UNION {[1..n -> Line] : n \in 1..MaxHeartbeatIds}

Next ==
    \/ \E c \in Conn :
        \/ \E l \in Line : lock(c, l) \/ unlock(c, l) \/ forceUnlock(c, l)
        \/ \E ids \in Heartbeats : heartbeat(c, ids)
        \/ Attach(c) \/ connected(c) \/ Close(c) \/ onDisconnect(c)
    \/ \E s \in Subjects : closeSubject(s)
    \/ Freeze \/ EndSession \/ clearDoc \/ EditLines
    \/ Tick \/ Sweep

Spec == Init /\ [][Next]_vars

(* Time passes, and the hook of a closed connection runs. *)
Fairness == WF_vars(Tick) /\ \A c \in Conn : WF_vars(onDisconnect(c))

FairSpec == Spec /\ Fairness

-----------------------------------------------------------------------------
(* What each variable holds. *)
TypeOK ==
    /\ locks \in [Line -> LockEntry \cup {NoEntry}]
    /\ \A l \in Line : locks[l] # NoEntry => locks[l].left <= IdleMs
    /\ lines \subseteq Line
    /\ status \in [Conn -> Statuses]
    /\ readOnly \in [Conn -> BOOLEAN]
    /\ shown \in [Conn -> [Line -> Conn \cup {NoConn}]]

(* Every client that has been greeted sees the holder of every live lock:
   no step grants, moves or keeps a lock that someone was not told of. *)
LiveLocksShown ==
    \A c \in Conn, l \in Line :
        (status[c] = "greeted" /\ live(locks, l)) => shown[c][l] = locks[l].conn

(* A live lock belongs to a connection whose disconnect has yet to be
   handled: none outlives the connection that alone could release it. *)
HolderPresent ==
    \A l \in Line : live(locks, l) => status[locks[l].conn] # "closed"

(* No connection holds more lines than the cap, whichever way it asked. *)
LockCap == \A c \in Conn : Cardinality(Holding(locks, c)) <= MaxLocksPerConn

(* Only a connection that keeps asking keeps a line: one that falls silent
   or closes loses it to the idle timeout or to its disconnect. *)
Vouches(c) ==
    \/ \E l \in Line : lock(c, l)
    \/ \E ids \in Heartbeats : heartbeat(c, ids)

SilentHolderLoses ==
    \A c \in Conn, l \in Line :
        <>[](snapshot(locks)[l] = c) => []<><<Vouches(c)>>_vars

(* What a document's locks promise its clients (LineLocks). *)
Abstract == INSTANCE LineLocks WITH holder <- snapshot(locks)

(* The refinement: a line that somebody holds changes hands only by first
   becoming free, whatever the clients send and whenever locks expire. *)
Promise == Abstract!Spec
=============================================================================
