--------------------------- MODULE CollabAdmission ---------------------------
(***************************************************************************)
(* Admission of WebSocket connections to a collaborative document, against *)
(* concurrent revocations (collab.server.ts, collab.revocations.ts).       *)
(*                                                                         *)
(* A connection authenticates by several database reads, attaches to the   *)
(* document later, is drained of its queued sync messages, and only then   *)
(* is `connected`.  A revocation (kick, role change, ban, logout, ...)     *)
(* writes the database first and afterwards calls the server, which logs   *)
(* the key and closes the connections attached at that moment.  Anything   *)
(* can happen between those steps.                                         *)
(*                                                                         *)
(* The database is reduced to a version per identity: access[k] counts the *)
(* revoking writes about k, and seen[c][k] is the version c's              *)
(* authentication read.  What a read decides (admit, refuse, which role)   *)
(* is not needed to tell a stale decision from a current one.              *)
(* Refusals for any other reason, and clients that leave, are Refuse and   *)
(* Close: they may happen in every state.                                  *)
(***************************************************************************)
EXTENDS Naturals, FiniteSets, FiniteSetsExt

(***************************************************************************)
(* The in-memory log of collab.revocations.ts: which identities had their  *)
(* access changed, and when, kept so that a connection whose              *)
(* authentication was already in flight can be caught when it attaches.   *)
(*                                                                         *)
(* The log is bounded twice, by age (ttlMs) and by count (maxEntries).     *)
(* The code keeps a Map in insertion order, which is the order of seq      *)
(* because a key revoked again is deleted and re-added; here an entry is   *)
(* a function of its key and the order is read off seq.  seq = 0 stands    *)
(* for "no entry", as in `entries.get(key)?.seq ?? 0`.                     *)
(***************************************************************************)
CONSTANTS
    Key,         \* the strings revoke() is called with: subject:, user:, ip:, device:
    TtlMs,       \* REVOCATION_TTL_MS
    MaxEntries   \* MAX_REVOCATIONS

ASSUME LogAssumption ==
    /\ IsFiniteSet(Key)
    /\ TtlMs \in Nat
    /\ MaxEntries \in Nat

RevocationCapture == [seq : Nat, at : Nat]

Absent == [seq |-> 0, at |-> 0]

Log == [entries : [Key -> RevocationCapture], seq : Nat, evictedSeq : Nat]

EmptyLog == [entries |-> [k \in Key |-> Absent], seq |-> 0, evictedSeq |-> 0]

Held(log) == {k \in Key : log.entries[k].seq # 0}

Expired(entry, t) == t >= entry.at + TtlMs

Newer(log, k) == {j \in Key : log.entries[j].seq > log.entries[k].seq}

(* prune() walks from the oldest entry and stops at the first one that is
   inside its TTL with no more than maxEntries left: an entry goes when it
   has expired, or when maxEntries newer ones remain after it. *)
Pruned(log, t) ==
    {k \in Held(log) : \/ Expired(log.entries[k], t)
                       \/ Cardinality(Newer(log, k)) >= MaxEntries}

EvictedSeqs(log, t) ==
    {log.entries[k].seq : k \in {j \in Pruned(log, t) : ~Expired(log.entries[j], t)}}

WithoutPruned(log, t) ==
    [k \in Key |-> IF k \in Pruned(log, t) THEN Absent ELSE log.entries[k]]

(* Mutant: evictions by count leave no trace in evictedSeq. *)
Prune_ForgetEvictions(log, t) ==
    [entries |-> WithoutPruned(log, t), seq |-> log.seq, evictedSeq |-> log.evictedSeq]

(* Mutant: only the age of an entry is looked at, not their number. *)
Prune_ExpiredOnly(log, t) ==
    [log EXCEPT !.entries = [k \in Key |-> IF Expired(@[k], t) THEN Absent ELSE @[k]]]

Prune(log, t) ==
    [entries    |-> WithoutPruned(log, t),
     seq        |-> log.seq,
     evictedSeq |-> Max(EvictedSeqs(log, t) \cup {log.evictedSeq})]

(* Mutant: the time of the capture is not kept. *)
capture_NoTime(log, t) == [seq |-> log.seq]

capture(log, t) == [seq |-> log.seq, at |-> t]

revoke(log, key, t) ==
    Prune([entries    |-> [log.entries EXCEPT ![key] = [seq |-> log.seq + 1, at |-> t]],
           seq        |-> log.seq + 1,
           evictedSeq |-> log.evictedSeq], t)

(* A capture too old for the log to answer for counts as revoked. *)
TooOld(log, cap, t) ==
    \/ t >= cap.at + TtlMs
    \/ cap.seq < log.evictedSeq

(* Mutant: an entry as old as the capture counts. *)
revokedSince_OffByOne(log, cap, keys, t) ==
    \/ TooOld(log, cap, t)
    \/ \E k \in keys : log.entries[k].seq >= cap.seq

revokedSince(log, cap, keys, t) ==
    \/ TooOld(log, cap, t)
    \/ \E k \in keys : log.entries[k].seq > cap.seq

-----------------------------------------------------------------------------
CONSTANTS
    Conn,        \* connection slots; a closed one may be used for a reconnect
    Revoker,     \* requests that revoke something
    KeysOf,      \* the keys of a connection's identity: revokedSinceAuth's `keys`
    ReplacedBy,  \* the guest key an account's connection absorbs, or NoKey
    NoKey,
    NoCapture,   \* authCapture = undefined
    NoTask,
    MaxTime,     \* bound on the clock
    MaxWrites    \* bound on the revoking writes about one key

ASSUME AdmissionAssumption ==
    /\ KeysOf \in [Conn -> SUBSET Key]
    /\ NoKey \notin Key
    /\ ReplacedBy \in [Conn -> Key \cup {NoKey}]
    /\ NoCapture \notin RevocationCapture
    /\ NoTask \notin [key : Key, version : Nat]
    /\ MaxTime \in Nat
    /\ MaxWrites \in Nat

VARIABLES
    now,              \* Date.now()
    log,              \* the revocation log
    access,           \* database: revoking writes so far, per key
    guests,           \* database: guest entries no account has absorbed yet
    pending,          \* per revoker: the write it made and has not yet told the server
    phase,            \* per connection
    unread,           \* per connection: keys its authentication has still to read
    seen,             \* per connection: the access version it read, per key
    authCapture,      \* context.authCapture
    replacedSubject,  \* principal.replacedSubject
    synced            \* the connection's sync messages were answered: content went out

serverVars == <<log, phase, unread, seen, authCapture, replacedSubject, synced>>
vars == <<now, log, access, guests, pending, phase, unread, seen, authCapture,
          replacedSubject, synced>>

Phases == {"closed", "authenticating", "authed", "attached", "connected"}

Task == [key : Key, version : Nat]

Init ==
    /\ now = 0
    /\ log = EmptyLog
    /\ access = [k \in Key |-> 0]
    /\ guests = {ReplacedBy[c] : c \in Conn} \ {NoKey}
    /\ pending = [r \in Revoker |-> NoTask]
    /\ phase = [c \in Conn |-> "closed"]
    /\ unread = [c \in Conn |-> {}]
    /\ seen = [c \in Conn |-> [k \in Key |-> 0]]
    /\ authCapture = [c \in Conn |-> NoCapture]
    /\ replacedSubject = [c \in Conn |-> NoKey]
    /\ synced = [c \in Conn |-> FALSE]

Tick ==
    /\ now < MaxTime
    /\ now' = now + 1
    /\ UNCHANGED <<log, access, guests, pending, phase, unread, seen,
                   authCapture, replacedSubject, synced>>

-----------------------------------------------------------------------------
(* Revoking: a database write, then the call into the server. *)

RevokingWrite(r, k) ==
    /\ pending[r] = NoTask
    /\ access[k] < MaxWrites
    /\ access' = [access EXCEPT ![k] = @ + 1]
    /\ pending' = [pending EXCEPT ![r] = [key |-> k, version |-> access[k] + 1]]
    /\ UNCHANGED <<now, guests>>
    /\ UNCHANGED serverVars

(* Connections the sweeps can see: those in the document's connection list. *)
Attached == {c \in Conn : phase[c] \in {"attached", "connected"}}

(* drop() and the close handlers: the slot is free for a reconnect. *)
Dropped(C) ==
    /\ phase' = [c \in Conn |-> IF c \in C THEN "closed" ELSE phase[c]]
    /\ synced' = [c \in Conn |-> synced[c] /\ c \notin C]
    /\ authCapture' = [c \in Conn |-> IF c \in C THEN NoCapture ELSE authCapture[c]]
    /\ replacedSubject' = [c \in Conn |-> IF c \in C THEN NoKey ELSE replacedSubject[c]]
    /\ unread' = [c \in Conn |-> IF c \in C THEN {} ELSE unread[c]]
    /\ seen' = [c \in Conn |-> IF c \in C THEN [k \in Key |-> 0] ELSE seen[c]]

(* closeSubject, reconnectSubject, closeUserEverywhere, reauth*Everywhere:
   the key is logged and the attached connections it names are dropped. *)
Sweep(r) ==
    /\ pending[r] # NoTask
    /\ log' = revoke(log, pending[r].key, now)
    /\ Dropped({c \in Attached : pending[r].key \in KeysOf[c]})
    /\ pending' = [pending EXCEPT ![r] = NoTask]
    /\ UNCHANGED <<now, access, guests>>

-----------------------------------------------------------------------------
(* One connection: onAuthenticate, attach, sync, connected. *)

Authenticate(c) ==
    /\ phase[c] = "closed"
    /\ phase' = [phase EXCEPT ![c] = "authenticating"]
    /\ authCapture' = [authCapture EXCEPT ![c] = capture(log, now)]
    /\ unread' = [unread EXCEPT ![c] = KeysOf[c]]
    /\ replacedSubject' = [replacedSubject EXCEPT ![c] = NoKey]
    /\ UNCHANGED <<now, log, access, guests, pending, seen, synced>>

(* resolvePrincipal reads the session, the account, the network bans and
   the member entry one await after another. *)
ReadAccess(c, k) ==
    /\ phase[c] = "authenticating"
    /\ k \in unread[c]
    /\ seen' = [seen EXCEPT ![c][k] = access[k]]
    /\ unread' = [unread EXCEPT ![c] = @ \ {k}]
    /\ UNCHANGED <<now, log, access, guests, pending, phase, authCapture,
                   replacedSubject, synced>>

(* The end of resolvePrincipal.  The first account connection to present a
   guest's token absorbs that guest, and remembers that it did. *)
Resolve(c) ==
    /\ phase[c] = "authenticating"
    /\ unread[c] = {}
    /\ phase' = [phase EXCEPT ![c] = "authed"]
    /\ guests' = guests \ {ReplacedBy[c]}
    /\ replacedSubject' = [replacedSubject EXCEPT
                             ![c] = IF ReplacedBy[c] \in guests THEN ReplacedBy[c] ELSE NoKey]
    /\ UNCHANGED <<now, log, access, pending, unread, seen, authCapture, synced>>

Refuse(c) ==
    /\ phase[c] = "authenticating"
    /\ Dropped({c})
    /\ UNCHANGED <<now, log, access, guests, pending>>

(* Hocuspocus has loaded the document and adds the connection to it. *)
Attach(c) ==
    /\ phase[c] = "authed"
    /\ phase' = [phase EXCEPT ![c] = "attached"]
    /\ UNCHANGED <<now, log, access, guests, pending, unread, seen, authCapture,
                   replacedSubject, synced>>

revokedSinceAuth(c) ==
    /\ authCapture[c] # NoCapture
    /\ revokedSince(log, authCapture[c], KeysOf[c], now)

(* A sync message, which Hocuspocus may drain before `connected` runs: the
   document's content is sent only past this check. *)
beforeSync(c) ==
    /\ c \in Attached
    /\ \/ /\ revokedSinceAuth(c)
          /\ Dropped({c})
       \/ /\ ~revokedSinceAuth(c)
          /\ synced' = [synced EXCEPT ![c] = TRUE]
          /\ UNCHANGED <<phase, unread, seen, authCapture, replacedSubject>>
    /\ UNCHANGED <<now, log, access, guests, pending>>

(* The `connected` hook.  From here only the sweeps watch the connection.
   An account that absorbed a guest has the guest's connections
   re-authenticate (reconnectSubject). *)
connected(c) ==
    /\ phase[c] = "attached"
    /\ \/ /\ revokedSinceAuth(c)
          /\ Dropped({c})
          /\ UNCHANGED log
       \/ /\ ~revokedSinceAuth(c)
          /\ LET guest == replacedSubject[c]
                 swept == {d \in Attached : guest \in KeysOf[d]}
             IN /\ log' = IF guest = NoKey THEN log ELSE revoke(log, guest, now)
                /\ phase' = [d \in Conn |-> IF d \in swept THEN "closed"
                                            ELSE IF d = c THEN "connected" ELSE phase[d]]
                /\ authCapture' = [d \in Conn |-> IF d \in swept \cup {c} THEN NoCapture
                                                  ELSE authCapture[d]]
                /\ synced' = [d \in Conn |-> synced[d] /\ d \notin swept]
          /\ UNCHANGED <<unread, seen, replacedSubject>>
    /\ UNCHANGED <<now, access, guests, pending>>

(* The socket closes, at any point of the above. *)
Close(c) ==
    /\ phase[c] \in {"authed", "attached", "connected"}
    /\ Dropped({c})
    /\ UNCHANGED <<now, log, access, guests, pending>>

(* The process dies and starts again: the log and every connection go, and
   a revoker that had only written the database never calls the server. *)
Restart ==
    /\ log' = EmptyLog
    /\ pending' = [r \in Revoker |-> NoTask]
    /\ Dropped(Conn)
    /\ UNCHANGED <<now, access, guests>>

-----------------------------------------------------------------------------
Next ==
    \/ Tick
    \/ Restart
    \/ \E r \in Revoker : Sweep(r) \/ \E k \in Key : RevokingWrite(r, k)
    \/ \E c \in Conn :
        \/ Authenticate(c) \/ Resolve(c) \/ Refuse(c) \/ Attach(c)
        \/ beforeSync(c) \/ connected(c) \/ Close(c)
        \/ \E k \in Key : ReadAccess(c, k)

Spec == Init /\ [][Next]_vars

-----------------------------------------------------------------------------
(* What each variable holds. *)
TypeOK ==
    /\ now \in Nat
    /\ log \in Log
    /\ access \in [Key -> Nat]
    /\ guests \subseteq Key
    /\ pending \in [Revoker -> Task \cup {NoTask}]
    /\ phase \in [Conn -> Phases]
    /\ unread \in [Conn -> SUBSET Key]
    /\ seen \in [Conn -> [Key -> Nat]]
    /\ authCapture \in [Conn -> RevocationCapture \cup {NoCapture}]
    /\ replacedSubject \in [Conn -> Key \cup {NoKey}]
    /\ synced \in [Conn -> BOOLEAN]

(* Content has gone out to the connection, or it is fully connected. *)
Served(c) == synced[c] \/ phase[c] = "connected"

(* The v-th write about k has not reached the server yet. *)
Unannounced(k, v) == \E r \in Revoker : pending[r] = [key |-> k, version |-> v]

(* A connection is served on an authentication that missed a revocation
   only while the request that made it has still to call the server: once
   closeSubject, closeUserEverywhere, ... has run, nobody it names is left
   in, however its authentication, attach and sync interleaved with it. *)
NoStaleService ==
    \A c \in Conn : Served(c) =>
        \A k \in KeysOf[c] : \A v \in seen[c][k] + 1 .. access[k] : Unannounced(k, v)

(* The bounded log does not turn away a client for nothing: with nothing
   revoked since its authentication began, and that younger than the TTL,
   a connection passes the checks.  Otherwise a revoked client told to
   reconnect would be refused for ever. *)
FreshAuthPasses ==
    \A c \in Conn :
        (/\ authCapture[c] # NoCapture
         /\ authCapture[c].seq = log.seq
         /\ now < authCapture[c].at + TtlMs) => ~revokedSinceAuth(c)

(* The log never holds more than maxEntries keys, however revocations and
   the clock interleave. *)
LogBounded == Cardinality(Held(log)) <= MaxEntries
=============================================================================
