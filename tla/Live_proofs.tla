----------------------------- MODULE Live_proofs -----------------------------
(***************************************************************************)
(* Proofs about what is shown live: presence, the rosters of viewers,      *)
(* transcription jobs, folded notifications and the audience of a comment, *)
(* for every set of sockets, tabs, pages, jobs, events and accounts.       *)
(***************************************************************************)
EXTENDS MCLive, FiniteSetTheorems, TLAPS

-----------------------------------------------------------------------------
(* The sockets of an account and its heap. *)
Notifications == [note : Notes, batch : BOOLEAN]
Heap == [on : BOOLEAN, ids : SUBSET Notes, loaded : BOOLEAN]
Load == [at : {"idle", "find", "fill"}, mine : BOOLEAN, found : SUBSET Notes]
HeapTypes ==
    /\ notes \in [Notes -> {"none", "unread", "read"}]
    /\ heap \in Heap /\ loads \in [Loaders -> Load]
    /\ deliveries \subseteq Notifications /\ marking \in BOOLEAN
SocketTypes ==
    /\ sockets \in [Sockets -> {"new", "up", "gone"}]
    /\ joins \in [Sockets -> {"none", "load", "announce", "joined"}]
    /\ leaving \subseteq Sockets /\ online \subseteq Sockets /\ early \subseteq Sockets
    /\ activity \in BOOLEAN /\ timer \in BOOLEAN /\ crossed \in BOOLEAN
    /\ shown \in [Told -> BOOLEAN]

(* While a load may still fill the heap, or has, every unread notification
   is on it, being put on it, or found by one that will; or another load
   has yet to look. *)
Loading(l) == loads[l].mine /\ loads[l].at # "idle"
Held == heap.ids \cup {d.note : d \in deliveries}
Found(n) == \E l \in Loaders : Loading(l) /\ loads[l].at = "fill" /\ n \in loads[l].found
HeapOwed ==
    /\ \A l \in Loaders : Loading(l) => heap.on
    /\ heap.loaded => heap.on
    /\ heap.loaded \/ (\E l \in Loaders : Loading(l)) =>
         \/ \E l \in Loaders : Loading(l) /\ loads[l].at = "find"
         \/ \A n \in Unread : n \in Held \/ Found(n)

(* As long as no last socket left beside a join, a leave under way is the
   only thing under way, and what was told last is so but for an
   announcement or a leave under way. *)
Midway == {"load", "announce"}
ShownOwed ==
    ~crossed =>
      /\ leaving # {} => online = {} /\ ~shown["admins"] /\ \A s \in Sockets : joins[s] \notin Midway
      /\ leaving = {} =>
           \/ \E s \in Sockets : joins[s] = "announce" /\ online # {}
           \/ (\A s \in Sockets : joins[s] # "announce") /\ \A t \in Told : shown[t] = (online # {})
      /\ timer => online = {}

JoinsAreUp == \A s \in Sockets : joins[s] # "none" => sockets[s] # "new"
PresenceInv == HeapTypes /\ SocketTypes /\ HeapOwed /\ ShownOwed /\ JoinsAreUp /\ OnlineIsUp /\ ActivityIsOnline

LEMMA PresenceAgreesThen == PresenceInv => PresenceAgrees
  <1> SUFFICES ASSUME PresenceInv PROVE PresenceAgrees
    OBVIOUS
  <1>1. HeapComplete
    <2> SUFFICES ASSUME heap.loaded, ~(\E l \in Loaders : Loading(l))
                 PROVE  Unread \subseteq Held
      BY DEF HeapComplete, Loading, Held
    <2> QED BY DEF PresenceInv, HeapOwed, Found
  <1>2. ShownIsTrue
    BY DEF PresenceInv, ShownOwed, ShownIsTrue, Midway, SocketTypes
  <1> QED BY <1>1, <1>2 DEF PresenceInv, PresenceAgrees

LEMMA PresenceBegins == PresenceInit => PresenceInv
  <1> SUFFICES ASSUME PresenceInit PROVE PresenceInv
    OBVIOUS
  <1>1. HeapTypes /\ SocketTypes
    BY DEF PresenceInit, HeapTypes, SocketTypes, NoHeap, NoLoad, Heap, Load
  <1>2. HeapOwed
    BY DEF PresenceInit, HeapOwed, NoHeap, NoLoad, Loading
  <1>3. ShownOwed /\ JoinsAreUp /\ OnlineIsUp /\ ActivityIsOnline
    BY DEF PresenceInit, ShownOwed, JoinsAreUp, OnlineIsUp, ActivityIsOnline
  <1> QED BY <1>1, <1>2, <1>3 DEF PresenceInv

(* The heap. *)
LEMMA LoadBeginsOwes ==
  ASSUME HeapTypes, NEW l \in Loaders, LoadBegins(l), UNCHANGED <<notes, deliveries, marking>>
  PROVE  HeapTypes' /\ HeapOwed'
  <1>1. HeapTypes'
    BY DEF HeapTypes, LoadBegins, Heap, Load
  <1>2. loads'[l].mine /\ loads'[l].at = "find" /\ heap'.on
    BY DEF HeapTypes, LoadBegins
  <1>3. HeapOwed'
    BY <1>2 DEF HeapOwed, Loading
  <1> QED BY <1>1, <1>3

LEMMA FindOwes ==
  ASSUME HeapTypes, HeapOwed, NEW l \in Loaders, find(l)
  PROVE  HeapTypes' /\ HeapOwed'
  <1>1. HeapTypes'
    BY DEF HeapTypes, find, Load, Unread
  <1>2. /\ loads'[l].at = "fill" /\ loads'[l].mine = loads[l].mine /\ loads'[l].found = Unread
        /\ \A k \in Loaders \ {l} : loads'[k] = loads[k]
        /\ loads[l].at = "find" /\ heap' = heap /\ deliveries' = deliveries /\ notes' = notes
    BY DEF find, HeapTypes, Load
  <1>3. \A k \in Loaders : Loading(k)' = Loading(k)
    BY <1>2 DEF Loading
  <1>4. Unread' = Unread /\ Held' = Held
    BY <1>2 DEF Unread, Held
  <1>5. CASE loads[l].mine
    <2>1. \A n \in Unread' : Found(n)'
      BY <1>2, <1>4, <1>5 DEF Found, Loading
    <2> QED BY <1>1, <1>2, <1>3, <2>1 DEF HeapOwed
  <1>6. CASE ~loads[l].mine
    <2>1. \A n \in Unread : Found(n) => Found(n)'
      BY <1>2, <1>6 DEF Found, Loading
    <2>2. (\E k \in Loaders : Loading(k) /\ loads[k].at = "find") => (\E k \in Loaders : Loading(k) /\ loads[k].at = "find")'
      BY <1>2, <1>6 DEF Loading
    <2> QED BY <1>1, <1>2, <1>3, <1>4, <2>1, <2>2 DEF HeapOwed
  <1> QED BY <1>5, <1>6

LEMMA LoadEndsOwes ==
  ASSUME HeapTypes, HeapOwed, NEW l \in Loaders, LoadEnds(l), UNCHANGED <<notes, deliveries, marking>>
  PROVE  HeapTypes' /\ HeapOwed'
  <1>1. HeapTypes'
    BY DEF HeapTypes, LoadEnds, Heap, Load, NoLoad
  <1>2. /\ loads'[l] = NoLoad /\ \A k \in Loaders \ {l} : loads'[k] = loads[k]
        /\ loads[l].at = "fill" /\ Unread' = Unread
    BY DEF LoadEnds, HeapTypes, Unread
  <1>3. ~Loading(l)' /\ \A k \in Loaders \ {l} : Loading(k)' = Loading(k)
    BY <1>2 DEF Loading, NoLoad
  <1>4. CASE loads[l].mine
    <2>1. Loading(l) /\ heap.on
      BY <1>2, <1>4 DEF Loading, HeapOwed
    <2>2. heap'.on /\ heap'.loaded /\ heap'.ids = heap.ids \cup loads[l].found
      BY <1>4, <2>1 DEF LoadEnds, HeapTypes, Heap
    <2>3. \A n \in Unread : n \in Held \/ Found(n) => n \in Held' \/ Found(n)'
      BY <1>2, <1>3, <2>2 DEF Held, Found
    <2>4. (\E k \in Loaders : Loading(k) /\ loads[k].at = "find") => (\E k \in Loaders : Loading(k) /\ loads[k].at = "find")'
      BY <1>2, <1>3
    <2> QED BY <1>1, <1>2, <1>3, <2>1, <2>2, <2>3, <2>4 DEF HeapOwed
  <1>5. CASE ~loads[l].mine
    <2>1. heap' = heap /\ ~Loading(l) /\ Held' = Held
      BY <1>5 DEF LoadEnds, Loading, Held
    <2>2. \A n \in Unread : Found(n) => Found(n)'
      BY <1>2, <1>3, <2>1 DEF Found
    <2>3. (\E k \in Loaders : Loading(k) /\ loads[k].at = "find") => (\E k \in Loaders : Loading(k) /\ loads[k].at = "find")'
      BY <1>2, <1>3, <2>1
    <2> QED BY <1>1, <1>2, <1>3, <2>1, <2>2, <2>3 DEF HeapOwed
  <1> QED BY <1>4, <1>5

LEMMA ClearHeapOwes ==
  ASSUME HeapTypes, ClearHeap, UNCHANGED <<notes, deliveries>>, marking' \in BOOLEAN
  PROVE  HeapTypes' /\ HeapOwed'
  <1>1. HeapTypes'
    BY DEF HeapTypes, ClearHeap, Heap, Load, NoHeap
  <1>2. ~heap'.on /\ ~heap'.loaded /\ \A l \in Loaders : ~loads'[l].mine
    BY DEF HeapTypes, ClearHeap, NoHeap, Load
  <1> QED BY <1>1, <1>2 DEF HeapOwed, Loading

(* What becomes unread is under way to the heap; the rest is read. *)
LEMMA NotesOwe ==
  ASSUME HeapTypes, HeapOwed, UNCHANGED loads,
         \/ \E n \in Notes, batch \in BOOLEAN : createNotification(n, batch)
         \/ \E d \in deliveries : enqueueNotif(d)
         \/ \E read \in SUBSET Notes : markRead(read)
         \/ \E n \in Notes : dismiss(n)
  PROVE  HeapTypes' /\ HeapOwed'
  <1>0. \A l \in Loaders : Loading(l)' = Loading(l)
    BY DEF Loading
  <1>1. ASSUME NEW n \in Notes, NEW batch \in BOOLEAN, createNotification(n, batch)
        PROVE  HeapTypes' /\ HeapOwed'
    <2>1. HeapTypes'
      BY <1>1 DEF HeapTypes, createNotification, Notifications
    <2>2. heap' = heap /\ Unread' \subseteq Unread \cup {n} /\ n \in Held' /\ Held \subseteq Held'
      <3>1. Unread' \subseteq Unread \cup {n} /\ heap' = heap
        BY <1>1 DEF createNotification, HeapTypes, Unread
      <3>2. deliveries' = deliveries \cup {[note |-> n, batch |-> batch]}
        BY <1>1 DEF createNotification
      <3>3. [note |-> n, batch |-> batch].note = n
        OBVIOUS
      <3> QED BY <3>1, <3>2, <3>3 DEF Held
    <2>3. \A m \in Notes : Found(m)' = Found(m)
      BY <1>0 DEF Found
    <2>4. Unread \subseteq Notes /\ Unread' \subseteq Notes
      BY DEF Unread
    <2> QED BY <1>0, <2>1, <2>2, <2>3, <2>4 DEF HeapOwed
  <1>2. ASSUME NEW d \in deliveries, enqueueNotif(d)
        PROVE  HeapTypes' /\ HeapOwed'
    <2>0. d \in Notifications
      BY DEF HeapTypes
    <2>1. HeapTypes'
      BY <1>2, <2>0 DEF HeapTypes, enqueueNotif, Notifications, Heap
    <2>2. Unread' = Unread /\ deliveries' = deliveries \ {d} /\ heap'.loaded = heap.loaded
      BY <1>2 DEF enqueueNotif, Unread, HeapTypes, Heap
    <2>3. heap.on => heap'.on /\ Held \subseteq Held'
      <3> SUFFICES ASSUME heap.on PROVE heap'.on /\ Held \subseteq Held'
        OBVIOUS
      <3>1. heap'.on /\ heap'.ids = heap.ids \cup {d.note}
        BY <1>2 DEF enqueueNotif, HeapTypes, Heap
      <3> QED BY <2>2, <3>1 DEF Held
    <2>4. \A m \in Notes : Found(m)' = Found(m)
      BY <1>0 DEF Found
    <2>5. Unread \subseteq Notes
      BY DEF Unread
    <2> QED BY <1>0, <2>1, <2>2, <2>3, <2>4, <2>5 DEF HeapOwed
  <1>3. ASSUME UNCHANGED <<heap, deliveries>>, HeapTypes', Unread' \subseteq Unread
        PROVE  HeapTypes' /\ HeapOwed'
    <2>1. Held' = Held
      BY <1>3 DEF Held
    <2>2. \A m \in Notes : Found(m)' = Found(m)
      BY <1>0 DEF Found
    <2>3. Unread' \subseteq Notes
      BY DEF Unread
    <2> QED BY <1>0, <1>3, <2>1, <2>2, <2>3 DEF HeapOwed
  <1>4. ASSUME NEW read \in SUBSET Notes, markRead(read)
        PROVE  HeapTypes' /\ HeapOwed'
    <2>1. UNCHANGED <<heap, deliveries>> /\ HeapTypes' /\ Unread' \subseteq Unread
      BY <1>4 DEF markRead, HeapTypes, Unread
    <2> QED BY <1>3, <2>1
  <1>5. ASSUME NEW n \in Notes, dismiss(n)
        PROVE  HeapTypes' /\ HeapOwed'
    <2>1. UNCHANGED <<heap, deliveries>> /\ HeapTypes' /\ Unread' \subseteq Unread
      BY <1>5 DEF dismiss, HeapTypes, Unread
    <2> QED BY <1>3, <2>1
  <1> QED BY <1>1, <1>2, <1>4, <1>5

(* The sockets. *)
SocketInv == SocketTypes /\ ShownOwed /\ JoinsAreUp /\ OnlineIsUp /\ ActivityIsOnline

LEMMA TimerMayStop ==
  ASSUME SocketInv, UNCHANGED socketVars, timer' = timer \/ timer' = FALSE
  PROVE  SocketInv'
  <1>1. SocketTypes' /\ JoinsAreUp' /\ OnlineIsUp' /\ ActivityIsOnline'
    BY DEF SocketInv, SocketTypes, JoinsAreUp, OnlineIsUp, ActivityIsOnline, socketVars
  <1>2. UNCHANGED <<crossed, leaving, online, shown, joins>> /\ (timer' => timer)
    BY DEF socketVars
  <1>3. ShownOwed'
    BY <1>2 DEF SocketInv, ShownOwed
  <1> QED BY <1>1, <1>3 DEF SocketInv

LEMMA ConnectKeeps ==
  ASSUME SocketInv, NEW s \in Sockets, connect(s)
  PROVE  SocketInv'
  <1>1. SocketTypes' /\ JoinsAreUp' /\ OnlineIsUp' /\ ActivityIsOnline'
    BY DEF SocketInv, SocketTypes, connect, JoinsAreUp, OnlineIsUp, ActivityIsOnline, heapVars
  <1>2. ShownOwed'
    BY DEF SocketInv, ShownOwed, connect, heapVars
  <1> QED BY <1>1, <1>2 DEF SocketInv

LEMMA JoinKeeps ==
  ASSUME SocketInv, NEW s \in Sockets, joinUser(s)
  PROVE  SocketInv'
  <1>1. SocketTypes' /\ JoinsAreUp' /\ OnlineIsUp' /\ ActivityIsOnline'
    BY DEF SocketInv, SocketTypes, joinUser, LoadBegins, JoinsAreUp, OnlineIsUp, ActivityIsOnline
  <1>2. ShownOwed'
    <2> SUFFICES ASSUME ~crossed' PROVE ShownOwed'
      BY DEF ShownOwed
    <2>1. ~crossed /\ leaving = {} /\ ~timer' /\ UNCHANGED <<leaving, online, shown>>
      BY DEF joinUser, LoadBegins, SocketInv, SocketTypes
    <2>2. \A t \in Sockets : joins'[t] = "announce" <=> joins[t] = "announce"
      BY DEF joinUser, SocketInv, SocketTypes
    <2> QED BY <2>1, <2>2 DEF ShownOwed, SocketInv
  <1> QED BY <1>1, <1>2 DEF SocketInv

LEMMA OnlineKeeps ==
  ASSUME SocketInv, NEW s \in Sockets, setOnline(s)
  PROVE  SocketInv'
  <1>1. SocketTypes' /\ JoinsAreUp' /\ ActivityIsOnline'
    BY DEF SocketInv, SocketTypes, setOnline, LoadEnds, JoinsAreUp, ActivityIsOnline
  <1>2. OnlineIsUp'
    <2>1. sockets[s] = "up" \/ sockets[s] = "gone"
      BY DEF setOnline, SocketInv, SocketTypes, JoinsAreUp
    <2> QED BY <2>1 DEF setOnline, SocketInv, OnlineIsUp
  <1>3. ShownOwed'
    <2> SUFFICES ASSUME ~crossed' PROVE ShownOwed'
      BY DEF ShownOwed
    <2>1. ~crossed /\ joins[s] = "load" /\ ~timer' /\ UNCHANGED <<leaving, shown>> /\ online' = online \cup {s}
      BY DEF setOnline
    <2>2. leaving = {}
      BY <2>1 DEF SocketInv, ShownOwed, Midway
    <2>3. CASE online = {}
      <3>1. joins'[s] = "announce"
        BY <2>3 DEF setOnline, SocketInv, SocketTypes
      <3> QED BY <2>1, <2>2, <3>1 DEF ShownOwed
    <2>4. CASE online # {}
      <3>1. \A t \in Sockets : joins'[t] = "announce" <=> joins[t] = "announce"
        BY <2>1, <2>4 DEF setOnline, SocketInv, SocketTypes
      <3> QED BY <2>1, <2>2, <2>4, <3>1 DEF ShownOwed, SocketInv
    <2> QED BY <2>3, <2>4
  <1> QED BY <1>1, <1>2, <1>3 DEF SocketInv

LEMMA AnnounceKeeps ==
  ASSUME SocketInv, NEW s \in Sockets, announce(s)
  PROVE  SocketInv'
  <1>1. SocketTypes' /\ JoinsAreUp' /\ OnlineIsUp' /\ ActivityIsOnline'
    BY DEF SocketInv, SocketTypes, announce, heapVars, JoinsAreUp, OnlineIsUp, ActivityIsOnline
  <1>2. ShownOwed'
    <2> SUFFICES ASSUME ~crossed' PROVE ShownOwed'
      BY DEF ShownOwed
    <2>1. ~crossed /\ joins[s] = "announce" /\ UNCHANGED <<leaving, timer, online>> /\ \A t \in Told : shown'[t] = TRUE
      BY DEF announce, heapVars
    <2>2. leaving = {} /\ online # {}
      BY <2>1 DEF SocketInv, ShownOwed, Midway
    <2> QED BY <2>1, <2>2 DEF ShownOwed, SocketInv
  <1> QED BY <1>1, <1>2 DEF SocketInv

LEMMA DisconnectKeeps ==
  ASSUME SocketInv, NEW s \in Sockets, disconnect(s)
  PROVE  SocketInv'
  <1>1. SocketTypes' /\ JoinsAreUp' /\ OnlineIsUp'
    BY DEF SocketInv, SocketTypes, disconnect, Left, IsLast, heapVars, JoinsAreUp, OnlineIsUp
  <1>2. CASE IsLast(s)
    <2>1. online' = {} /\ leaving' # {} /\ ~activity' /\ ~shown'["admins"] /\ joins' = joins
      BY <1>2 DEF disconnect, IsLast, SocketInv, SocketTypes, Told
    <2>2. ~crossed' => \A t \in Sockets : joins[t] \notin Midway
      BY <1>2 DEF disconnect, Midway
    <2> QED BY <1>1, <2>1, <2>2 DEF ShownOwed, ActivityIsOnline, SocketInv
  <1>3. CASE ~IsLast(s)
    <2>1. UNCHANGED <<leaving, activity, shown, crossed, joins, timer>> /\ (online' = {} <=> online = {})
      BY <1>3 DEF disconnect, IsLast, Left, heapVars
    <2>2. ActivityIsOnline' /\ ShownOwed'
      BY <2>1 DEF ShownOwed, ActivityIsOnline, SocketInv
    <2> QED BY <1>1, <2>2 DEF SocketInv
  <1> QED BY <1>2, <1>3

LEMMA EvictionKeeps ==
  ASSUME SocketInv, NEW s \in Sockets, scheduleEviction(s)
  PROVE  SocketInv'
  <1>1. SocketTypes' /\ JoinsAreUp' /\ OnlineIsUp' /\ ActivityIsOnline'
    BY DEF SocketInv, SocketTypes, scheduleEviction, JoinsAreUp, OnlineIsUp, ActivityIsOnline
  <1>2. ShownOwed'
    <2> SUFFICES ASSUME ~crossed' PROVE ShownOwed'
      BY DEF ShownOwed
    <2>1. ~crossed /\ leaving # {} /\ UNCHANGED <<online, joins>>
      BY DEF scheduleEviction
    <2>2. online = {} /\ ~shown["admins"] /\ \A t \in Sockets : joins[t] \notin Midway
      BY <2>1 DEF SocketInv, ShownOwed
    <2>3. ~shown'["admins"] /\ ~shown'["friends"]
      BY <2>2 DEF scheduleEviction, SocketInv, SocketTypes, Told
    <2>4. \A t \in Told : shown'[t] = FALSE
      BY <1>1, <2>3 DEF SocketTypes, Told
    <2> QED BY <2>1, <2>2, <2>3, <2>4 DEF ShownOwed, Midway
  <1> QED BY <1>1, <1>2 DEF SocketInv

LEMMA ActivityKeeps ==
  ASSUME SocketInv, NEW s \in Sockets, NEW what \in BOOLEAN, setActivity(s, what)
  PROVE  SocketInv'
  BY DEF SocketInv, SocketTypes, setActivity, ShownOwed, JoinsAreUp, OnlineIsUp, ActivityIsOnline, heapVars

(* For any number of sockets, notifications and requests: a heap that was
   loaded has every unread notification, who counts as online is up, and
   what admins and friends were told last is so (join:user, disconnect and
   loadHeap of plugins/socket.ts and lib/notification-heap.ts). *)
THEOREM PresenceIsTrue == PresenceSpec => []PresenceAgrees
  <1>1. PresenceInit => PresenceInv
    BY PresenceBegins
  <1>2. PresenceInv /\ [PresenceNext]_presenceVars => PresenceInv'
    <2> SUFFICES ASSUME PresenceInv, [PresenceNext]_presenceVars
                 PROVE  PresenceInv'
      OBVIOUS
    <2>0. HeapTypes /\ HeapOwed /\ SocketInv /\ (HeapTypes' /\ HeapOwed' /\ SocketInv' => PresenceInv')
      BY DEF PresenceInv, SocketInv
    <2>a. UNCHANGED heapVars => HeapTypes' /\ HeapOwed'
      BY <2>0 DEF heapVars, HeapTypes, HeapOwed, Loading, Found, Held, Unread
    <2>b. Sockets \subseteq Loaders /\ Readers \subseteq Loaders
      BY DEF Loaders
    <2>1. ASSUME NEW s \in Sockets, connect(s) \/ announce(s) \/ disconnect(s) \/ \E what \in BOOLEAN : setActivity(s, what)
          PROVE  PresenceInv'
      BY <2>0, <2>1, <2>a, ConnectKeeps, AnnounceKeeps, DisconnectKeeps, ActivityKeeps DEF connect, announce, disconnect, setActivity
    <2>2. ASSUME NEW s \in Sockets, joinUser(s)
          PROVE  PresenceInv'
      BY <2>0, <2>2, <2>b, JoinKeeps, LoadBeginsOwes DEF joinUser
    <2>3. ASSUME NEW s \in Sockets, setOnline(s)
          PROVE  PresenceInv'
      BY <2>0, <2>3, <2>b, OnlineKeeps, LoadEndsOwes DEF setOnline
    <2>4. ASSUME NEW s \in Sockets, scheduleEviction(s)
          PROVE  PresenceInv'
      <3>1. HeapTypes' /\ HeapOwed'
        BY <2>0, <2>4 DEF scheduleEviction, HeapTypes, HeapOwed, Loading, Found, Held, Unread
      <3> QED BY <2>0, <2>4, <3>1, EvictionKeeps
    <2>5. ASSUME NEW l \in Loaders, find(l)
          PROVE  PresenceInv'
      BY <2>0, <2>5, FindOwes, TimerMayStop DEF find
    <2>6. ASSUME NEW r \in Readers, listNotifications(r) \/ listed(r)
          PROVE  PresenceInv'
      <3>1. timer' = timer \/ timer' = FALSE
        BY <2>6 DEF listNotifications, listed, LoadBegins
      <3>2. SocketInv'
        BY <2>0, <2>6, <3>1, TimerMayStop DEF listNotifications, listed
      <3> QED BY <2>0, <2>6, <2>b, <3>2, LoadBeginsOwes, LoadEndsOwes DEF listNotifications, listed
    <2>7. CASE \/ \E n \in Notes, batch \in BOOLEAN : createNotification(n, batch)
               \/ \E d \in deliveries : enqueueNotif(d)
               \/ \E read \in SUBSET Notes : markRead(read)
               \/ \E n \in Notes : dismiss(n)
      <3>1. UNCHANGED <<socketVars, timer, loads>>
        BY <2>7 DEF createNotification, enqueueNotif, markRead, dismiss
      <3> QED BY <2>0, <2>7, <3>1, NotesOwe, TimerMayStop
    <2>8. CASE dropHeap \/ evict
      <3>1. ClearHeap /\ UNCHANGED <<socketVars, notes, deliveries>> /\ marking' \in BOOLEAN /\ (timer' = timer \/ timer' = FALSE)
        BY <2>0, <2>8 DEF dropHeap, evict, HeapTypes
      <3> QED BY <2>0, <3>1, ClearHeapOwes, TimerMayStop
    <2>9. CASE UNCHANGED presenceVars
      <3>1. UNCHANGED heapVars /\ UNCHANGED socketVars /\ timer' = timer
        BY <2>9 DEF presenceVars, heapVars, socketVars
      <3> QED BY <2>0, <2>a, <3>1, TimerMayStop
    <2> QED BY <2>1, <2>2, <2>3, <2>4, <2>5, <2>6, <2>7, <2>8, <2>9, <2>b DEF PresenceNext, Joining, Notifying
  <1> QED BY <1>1, <1>2, PresenceAgreesThen, PTL DEF PresenceSpec

-----------------------------------------------------------------------------
(* The viewers of a project. *)
ViewerTypes ==
    /\ viewersByProject \in [Pages -> SUBSET Tabs] /\ projectsBySocket \in [Tabs -> SUBSET Pages]
    /\ gone \subseteq Tabs /\ watching \subseteq Pages /\ timers \subseteq Pages /\ stale \subseteq Pages
    /\ DOMAIN emissions = Emissions /\ DOMAIN sent = Pages
    /\ \A e \in Emissions :
         \/ emissions[e] = NoEmission
         \/ emissions[e].at \in {"asked", "resolving"} /\ emissions[e].page \in Pages
FewPages == \A s \in Tabs : IsFiniteSet(projectsBySocket[s])

(* A page whose emissions did not meet has one at most, and that one has
   read what is there, or has yet to read. *)
EmissionsApart == \A p \in Pages \ stale : \A e, f \in Emitting(p) : e = f
RosterOwed ==
    \A p \in watching \ (timers \cup stale) :
        /\ Emitting(p) = {} => sent[p] = getViewerSummary(p)
        /\ \A e \in Emitting(p) : emissions[e].at = "resolving" => emissions[e].roster = getViewerSummary(p)
ViewersInv == ViewerTypes /\ FewPages /\ MapsMirror /\ EmissionsApart /\ RosterOwed

LEMMA ViewersBegin == ViewersInit => ViewersInv
  <1> SUFFICES ASSUME ViewersInit PROVE ViewersInv
    OBVIOUS
  <1>1. ViewerTypes
    BY DEF ViewersInit, ViewerTypes, NoEmission
  <1>2. FewPages /\ MapsMirror
    BY FS_EmptySet, ViewersAssumption DEF ViewersInit, FewPages, MapsMirror
  <1>3. EmissionsApart /\ RosterOwed
    BY DEF ViewersInit, EmissionsApart, RosterOwed, Emitting, NoEmission
  <1> QED BY <1>1, <1>2, <1>3 DEF ViewersInv

(* A change of who is there arms the timer of a page whose owner listens. *)
LEMMA ArmedOwes ==
  ASSUME ViewersInv, UNCHANGED <<watching, emissions, sent, stale>>, timers \subseteq timers',
         \A p \in watching : p \in timers' \/ viewersByProject'[p] = viewersByProject[p]
  PROVE  EmissionsApart' /\ RosterOwed'
  <1>1. \A p \in Pages : Emitting(p)' = Emitting(p)
    BY DEF Emitting
  <1>2. EmissionsApart'
    BY <1>1 DEF EmissionsApart, ViewersInv
  <1>3. ASSUME NEW p \in watching \ (timers' \cup stale)
        PROVE  p \in watching \ (timers \cup stale) /\ p \in Pages /\ getViewerSummary(p)' = getViewerSummary(p)
    BY <1>3 DEF getViewerSummary, ViewersInv, ViewerTypes
  <1>4. RosterOwed'
    BY <1>1, <1>3 DEF RosterOwed, ViewersInv
  <1> QED BY <1>2, <1>4

LEMMA JoiningKeepsRosters ==
  ASSUME ViewersInv, NEW s \in Tabs, NEW p \in Pages, viewersJoin(s, p)
  PROVE  ViewersInv'
  <1>0. s \notin gone /\ UNCHANGED <<gone, watching, emissions, sent, stale>> /\ timers' = timers \cup ({p} \cap watching)
    BY DEF viewersJoin, scheduleRoster, Armed
  <1>1. CASE UNCHANGED <<viewersByProject, projectsBySocket>>
    <2>1. EmissionsApart' /\ RosterOwed'
      BY <1>0, <1>1, ArmedOwes
    <2>2. ViewerTypes' /\ FewPages' /\ MapsMirror'
      BY <1>0, <1>1 DEF ViewersInv, ViewerTypes, FewPages, MapsMirror
    <2> QED BY <2>1, <2>2 DEF ViewersInv
  <1>2. CASE /\ viewersByProject' = [viewersByProject EXCEPT ![p] = @ \cup {s}]
             /\ projectsBySocket' = [projectsBySocket EXCEPT ![s] = @ \cup {p}]
             /\ ~(Cardinality(projectsBySocket[s]) >= MAX_PROJECTS_PER_SOCKET /\ p \notin projectsBySocket[s])
    <2>1. ViewerTypes'
      BY <1>0, <1>2 DEF ViewersInv, ViewerTypes
    <2>2. EmissionsApart' /\ RosterOwed'
      BY <1>0, <1>2, ArmedOwes DEF ViewersInv, ViewerTypes
    <2>3. projectsBySocket'[s] = projectsBySocket[s] \cup {p} /\ \A t \in Tabs \ {s} : projectsBySocket'[t] = projectsBySocket[t]
      BY <1>2 DEF ViewersInv, ViewerTypes
    <2>4. IsFiniteSet(projectsBySocket[s]) /\ Cardinality(projectsBySocket[s]) \in Nat /\ Cardinality(projectsBySocket[s]) <= MAX_PROJECTS_PER_SOCKET
      BY FS_CardinalityType DEF ViewersInv, FewPages, MapsMirror
    <2>5. IsFiniteSet(projectsBySocket'[s]) /\ Cardinality(projectsBySocket'[s]) <= MAX_PROJECTS_PER_SOCKET
      <3>1. CASE p \in projectsBySocket[s]
        <4>1. projectsBySocket'[s] = projectsBySocket[s]
          BY <2>3, <3>1
        <4> QED BY <2>4, <4>1
      <3>2. CASE p \notin projectsBySocket[s]
        <4>1. IsFiniteSet(projectsBySocket[s] \cup {p}) /\ Cardinality(projectsBySocket[s] \cup {p}) = Cardinality(projectsBySocket[s]) + 1
          BY <2>4, <3>2, FS_AddElement
        <4>2. Cardinality(projectsBySocket[s]) < MAX_PROJECTS_PER_SOCKET
          BY <1>2, <2>4, <3>2, ViewersAssumption
        <4> QED BY <2>3, <2>4, <4>1, <4>2, ViewersAssumption
      <3> QED BY <3>1, <3>2
    <2>6. FewPages'
      BY <2>3, <2>5 DEF ViewersInv, FewPages
    <2>7. \A t \in Tabs, q \in Pages : t \in viewersByProject'[q] <=> q \in projectsBySocket'[t]
      BY <1>2, <2>3 DEF ViewersInv, ViewerTypes, MapsMirror
    <2>8. MapsMirror'
      BY <1>0, <2>3, <2>5, <2>7 DEF ViewersInv, MapsMirror, ViewerTypes
    <2> QED BY <2>1, <2>2, <2>6, <2>8 DEF ViewersInv
  <1> QED BY <1>1, <1>2 DEF viewersJoin

LEMMA LeavingKeepsRosters ==
  ASSUME ViewersInv, NEW s \in Tabs, NEW p \in Pages, viewersLeave(s, p)
  PROVE  ViewersInv'
  <1>0. /\ UNCHANGED <<gone, watching, emissions, sent, stale>> /\ timers' = timers \cup ({p} \cap watching) /\ s \notin gone
        /\ viewersByProject' = [viewersByProject EXCEPT ![p] = @ \ {s}]
        /\ projectsBySocket' = [projectsBySocket EXCEPT ![s] = @ \ {p}]
    BY DEF viewersLeave, scheduleRoster, Armed
  <1>1. ViewerTypes'
    BY <1>0 DEF ViewersInv, ViewerTypes
  <1>2. EmissionsApart' /\ RosterOwed'
    BY <1>0, ArmedOwes DEF ViewersInv, ViewerTypes
  <1>3. projectsBySocket'[s] = projectsBySocket[s] \ {p} /\ \A t \in Tabs \ {s} : projectsBySocket'[t] = projectsBySocket[t]
    BY <1>0 DEF ViewersInv, ViewerTypes
  <1>4. IsFiniteSet(projectsBySocket[s]) /\ Cardinality(projectsBySocket[s]) <= MAX_PROJECTS_PER_SOCKET
    BY DEF ViewersInv, FewPages, MapsMirror
  <1>5. IsFiniteSet(projectsBySocket'[s]) /\ Cardinality(projectsBySocket'[s]) <= MAX_PROJECTS_PER_SOCKET
    <2>1. projectsBySocket'[s] \subseteq projectsBySocket[s]
      BY <1>3
    <2>2. /\ IsFiniteSet(projectsBySocket'[s]) /\ Cardinality(projectsBySocket'[s]) <= Cardinality(projectsBySocket[s])
          /\ Cardinality(projectsBySocket'[s]) \in Nat /\ Cardinality(projectsBySocket[s]) \in Nat
      BY <1>4, <2>1, FS_Subset, FS_CardinalityType
    <2> QED BY <1>4, <2>2, ViewersAssumption
  <1>6. FewPages'
    BY <1>3, <1>5 DEF ViewersInv, FewPages
  <1>7. \A t \in Tabs, q \in Pages : t \in viewersByProject'[q] <=> q \in projectsBySocket'[t]
    BY <1>0, <1>3 DEF ViewersInv, ViewerTypes, MapsMirror
  <1>8. MapsMirror'
    BY <1>0, <1>3, <1>5, <1>7 DEF ViewersInv, MapsMirror, ViewerTypes
  <1> QED BY <1>1, <1>2, <1>6, <1>8 DEF ViewersInv

LEMMA GoingKeepsRosters ==
  ASSUME ViewersInv, NEW s \in Tabs, removeSocket(s)
  PROVE  ViewersInv'
  <1>0. /\ UNCHANGED <<watching, emissions, sent, stale>> /\ timers' = timers \cup (projectsBySocket[s] \cap watching)
        /\ gone' = gone \cup {s}
        /\ viewersByProject' = [p \in Pages |->
             IF p \in projectsBySocket[s] THEN viewersByProject[p] \ {s} ELSE viewersByProject[p]]
        /\ projectsBySocket' = [projectsBySocket EXCEPT ![s] = {}]
    BY DEF removeSocket, scheduleRoster, Armed
  <1>1. ViewerTypes'
    BY <1>0 DEF ViewersInv, ViewerTypes
  <1>2. EmissionsApart' /\ RosterOwed'
    BY <1>0, ArmedOwes DEF ViewersInv, ViewerTypes
  <1>3. projectsBySocket'[s] = {} /\ \A t \in Tabs \ {s} : projectsBySocket'[t] = projectsBySocket[t]
    BY <1>0 DEF ViewersInv, ViewerTypes
  <1>4. IsFiniteSet(projectsBySocket'[s]) /\ Cardinality(projectsBySocket'[s]) <= MAX_PROJECTS_PER_SOCKET
    BY <1>3, FS_EmptySet, ViewersAssumption
  <1>5. FewPages'
    BY <1>3, <1>4 DEF ViewersInv, FewPages
  <1>6. \A t \in Tabs, q \in Pages : t \in viewersByProject'[q] <=> q \in projectsBySocket'[t]
    BY <1>0, <1>3 DEF ViewersInv, ViewerTypes, MapsMirror
  <1>7. MapsMirror'
    BY <1>0, <1>3, <1>4, <1>6 DEF ViewersInv, MapsMirror, ViewerTypes
  <1> QED BY <1>1, <1>2, <1>5, <1>7 DEF ViewersInv

(* Emissions: the maps stay as they are. *)
LEMMA MapsStay ==
  ASSUME ViewersInv, UNCHANGED <<viewersByProject, projectsBySocket, gone>>
  PROVE  FewPages' /\ MapsMirror' /\ \A p \in Pages : getViewerSummary(p)' = getViewerSummary(p)
  BY DEF ViewersInv, FewPages, MapsMirror, getViewerSummary

LEMMA EmitOwes ==
  ASSUME ViewersInv, NEW e \in Emissions, NEW p \in Pages, Emit(e, p),
         UNCHANGED <<viewersByProject, projectsBySocket, gone, sent>>,
         timers' \subseteq timers, timers \subseteq timers' \cup {p},
         watching' \subseteq watching \cup {p}, watching \subseteq watching'
  PROVE  ViewersInv'
  <1>1. emissions'[e].at = "asked" /\ emissions'[e].page = p /\ \A f \in Emissions \ {e} : emissions'[f] = emissions[f]
    BY DEF Emit, ViewersInv, ViewerTypes
  <1>2. ViewerTypes'
    BY <1>1 DEF ViewersInv, ViewerTypes, Emit
  <1>3. Emitting(p)' = Emitting(p) \cup {e} /\ \A q \in Pages \ {p} : Emitting(q)' = Emitting(q)
    BY <1>1 DEF Emit, Emitting, NoEmission
  <1>4. EmissionsApart'
    <2> SUFFICES ASSUME NEW q \in Pages \ stale', NEW f \in Emitting(q)', NEW g \in Emitting(q)'
                 PROVE  f = g
      BY DEF EmissionsApart
    <2>1. CASE q = p
      <3>1. Emitting(p) = {}
        BY <2>1 DEF Emit
      <3> QED BY <1>3, <2>1, <3>1
    <2>2. CASE q # p
      <3>1. q \notin stale /\ f \in Emitting(q) /\ g \in Emitting(q)
        BY <1>3, <2>2 DEF Emit
      <3> QED BY <3>1 DEF ViewersInv, EmissionsApart
    <2> QED BY <2>1, <2>2
  <1>5. RosterOwed'
    <2> SUFFICES ASSUME NEW q \in watching' \ (timers' \cup stale')
                 PROVE  /\ Emitting(q)' = {} => sent'[q] = getViewerSummary(q)'
                        /\ \A f \in Emitting(q)' : emissions'[f].at = "resolving" => emissions'[f].roster = getViewerSummary(q)'
      BY DEF RosterOwed
    <2>0. q \in Pages
      BY <1>2 DEF ViewerTypes
    <2>1. CASE q = p
      <3>1. Emitting(p) = {} /\ Emitting(p)' = {e}
        BY <1>3, <2>1 DEF Emit
      <3> QED BY <1>1, <2>1, <3>1
    <2>2. CASE q # p
      <3>1. q \in watching \ (timers \cup stale) /\ Emitting(q)' = Emitting(q) /\ e \notin Emitting(q)'
        BY <1>1, <1>3, <2>0, <2>2 DEF Emit, Emitting
      <3>2. \A f \in Emitting(q) : f \in Emissions \ {e}
        BY <3>1 DEF Emitting
      <3> QED BY <1>1, <2>0, <3>1, <3>2, MapsStay DEF ViewersInv, RosterOwed
    <2> QED BY <2>1, <2>2
  <1> QED BY <1>2, <1>4, <1>5, MapsStay DEF ViewersInv

LEMMA UnwatchKeepsRosters ==
  ASSUME ViewersInv, NEW p \in Pages, viewersUnwatch(p)
  PROVE  ViewersInv'
  <1>1. ViewerTypes'
    BY DEF ViewersInv, ViewerTypes, viewersUnwatch
  <1>2. \A q \in Pages : Emitting(q)' = Emitting(q)
    BY DEF viewersUnwatch, Emitting
  <1>3. EmissionsApart'
    BY <1>2 DEF ViewersInv, EmissionsApart, viewersUnwatch
  <1>4. ASSUME NEW q \in watching' \ (timers' \cup stale')
        PROVE  q \in watching \ (timers \cup stale) /\ q \in Pages /\ sent'[q] = sent[q] /\ emissions' = emissions
    BY <1>4 DEF viewersUnwatch, ViewersInv, ViewerTypes
  <1>5. RosterOwed'
    <2>1. \A q \in Pages : getViewerSummary(q)' = getViewerSummary(q)
      BY MapsStay DEF viewersUnwatch
    <2> QED BY <1>2, <1>4, <2>1 DEF ViewersInv, RosterOwed
  <1> QED BY <1>1, <1>3, <1>5, MapsStay DEF ViewersInv, viewersUnwatch

(* An emission that ends, sent or not. *)
LEMMA EndedEmission ==
  ASSUME ViewersInv, NEW e \in Emissions, emissions[e].at # "idle", emissions' = [emissions EXCEPT ![e] = NoEmission],
         NEW p, p = emissions[e].page
  PROVE  /\ \A q \in Pages : Emitting(q)' = Emitting(q) \ {e}
         /\ \A f \in Emissions \ {e} : emissions'[f] = emissions[f]
         /\ p \in Pages /\ e \in Emitting(p)
         /\ \A q \in Pages : e \in Emitting(q) => q = p
  BY DEF ViewersInv, ViewerTypes, Emitting, NoEmission

LEMMA ReadingKeepsRosters ==
  ASSUME ViewersInv, NEW e \in Emissions, readSummary(e)
  PROVE  ViewersInv'
  <1> PICK p : p = emissions[e].page
    OBVIOUS
  <1>0. /\ emissions[e].at = "asked" /\ UNCHANGED <<viewersByProject, projectsBySocket, gone, watching, timers, sent>>
        /\ stale' = IF p \in watching THEN stale ELSE stale \cup {p}
    BY DEF readSummary
  <1>1. p \in Pages
    BY <1>0 DEF ViewersInv, ViewerTypes, NoEmission
  <1>2. CASE p \notin watching
    <2>1. emissions' = [emissions EXCEPT ![e] = NoEmission] /\ stale' = stale \cup {p}
      BY <1>0, <1>2 DEF readSummary
    <2>a. /\ \A q \in Pages : Emitting(q)' = Emitting(q) \ {e}
          /\ \A f \in Emissions \ {e} : emissions'[f] = emissions[f]
          /\ \A q \in Pages : e \in Emitting(q) => q = p
      BY <1>0, <2>1, EndedEmission
    <2>2. ViewerTypes'
      BY <1>0, <1>1, <2>1 DEF ViewersInv, ViewerTypes
    <2>3. EmissionsApart'
      BY <1>0, <2>1, <2>a DEF ViewersInv, EmissionsApart
    <2>4. RosterOwed'
      <3>1. \A q \in watching' \ (timers' \cup stale') : q \in Pages \ {p} /\ q \in watching \ (timers \cup stale)
        BY <1>0, <2>1 DEF ViewersInv, ViewerTypes
      <3>2. \A q \in Pages \ {p} : Emitting(q)' = Emitting(q) /\ \A f \in Emitting(q) : emissions'[f] = emissions[f]
        BY <2>a DEF Emitting
      <3> QED BY <1>0, <3>1, <3>2, MapsStay DEF ViewersInv, RosterOwed
    <2> QED BY <1>0, <2>2, <2>3, <2>4, MapsStay DEF ViewersInv
  <1>3. CASE p \in watching
    <2>1. emissions' = [emissions EXCEPT ![e] = [at |-> "resolving", page |-> p, roster |-> getViewerSummary(p)]] /\ stale' = stale
      BY <1>0, <1>3 DEF readSummary
    <2>2. /\ emissions'[e].at = "resolving" /\ emissions'[e].page = p /\ emissions'[e].roster = getViewerSummary(p)
          /\ \A f \in Emissions \ {e} : emissions'[f] = emissions[f]
      BY <2>1 DEF ViewersInv, ViewerTypes
    <2>3. ViewerTypes'
      BY <1>0, <1>1, <2>1, <2>2 DEF ViewersInv, ViewerTypes
    <2>4. \A q \in Pages : Emitting(q)' = Emitting(q)
      BY <1>0, <2>2 DEF Emitting
    <2>5. EmissionsApart'
      BY <2>1, <2>4 DEF ViewersInv, EmissionsApart
    <2>6. RosterOwed'
      <3> SUFFICES ASSUME NEW q \in watching' \ (timers' \cup stale')
                   PROVE  /\ Emitting(q)' = {} => sent'[q] = getViewerSummary(q)'
                          /\ \A f \in Emitting(q)' : emissions'[f].at = "resolving" => emissions'[f].roster = getViewerSummary(q)'
        BY DEF RosterOwed
      <3>1. q \in watching \ (timers \cup stale) /\ q \in Pages /\ getViewerSummary(q)' = getViewerSummary(q)
        BY <1>0, <2>1, MapsStay DEF ViewersInv, ViewerTypes
      <3>2. Emitting(q)' = {} => sent'[q] = getViewerSummary(q)'
        BY <1>0, <2>4, <3>1 DEF ViewersInv, RosterOwed
      <3>3. ASSUME NEW f \in Emitting(q)', emissions'[f].at = "resolving"
            PROVE  emissions'[f].roster = getViewerSummary(q)'
        <4>1. CASE f = e
          BY <2>2, <3>1, <3>3, <4>1 DEF Emitting
        <4>2. CASE f # e
          BY <2>2, <2>4, <3>1, <3>3, <4>2 DEF ViewersInv, RosterOwed, Emitting
        <4> QED BY <4>1, <4>2
      <3> QED BY <3>2, <3>3
    <2> QED BY <1>0, <2>3, <2>5, <2>6, MapsStay DEF ViewersInv
  <1> QED BY <1>2, <1>3

LEMMA SendingKeepsRosters ==
  ASSUME ViewersInv, NEW e \in Emissions, send(e)
  PROVE  ViewersInv'
  <1> PICK p : p = emissions[e].page
    OBVIOUS
  <1>0. /\ emissions[e].at = "resolving" /\ UNCHANGED <<viewersByProject, projectsBySocket, gone, watching, timers, stale>>
        /\ emissions' = [emissions EXCEPT ![e] = NoEmission]
        /\ sent' = IF p \in watching THEN [sent EXCEPT ![p] = emissions[e].roster] ELSE sent
    BY DEF send
  <1>1. /\ \A q \in Pages : Emitting(q)' = Emitting(q) \ {e}
        /\ \A f \in Emissions \ {e} : emissions'[f] = emissions[f]
        /\ p \in Pages /\ e \in Emitting(p) /\ \A q \in Pages : e \in Emitting(q) => q = p
    BY <1>0, EndedEmission
  <1>2. ViewerTypes'
    BY <1>0, <1>1 DEF ViewersInv, ViewerTypes
  <1>3. EmissionsApart'
    BY <1>0, <1>1 DEF ViewersInv, EmissionsApart
  <1>4. RosterOwed'
    <2> SUFFICES ASSUME NEW q \in watching' \ (timers' \cup stale')
                 PROVE  /\ Emitting(q)' = {} => sent'[q] = getViewerSummary(q)'
                        /\ \A f \in Emitting(q)' : emissions'[f].at = "resolving" => emissions'[f].roster = getViewerSummary(q)'
      BY DEF RosterOwed
    <2>1. q \in watching \ (timers \cup stale) /\ q \in Pages /\ getViewerSummary(q)' = getViewerSummary(q)
      BY <1>0, MapsStay DEF ViewersInv, ViewerTypes
    <2>2. \A f \in Emitting(q)' : f \in Emitting(q) /\ emissions'[f] = emissions[f]
      BY <1>1, <2>1 DEF Emitting
    <2>3. CASE q = p
      <3>1. Emitting(p)' = {} /\ emissions[e].roster = getViewerSummary(p)
        BY <1>0, <1>1, <2>1, <2>3 DEF ViewersInv, EmissionsApart, RosterOwed
      <3>2. sent'[p] = emissions[e].roster
        BY <1>0, <1>1, <2>1, <2>3 DEF ViewersInv, ViewerTypes
      <3> QED BY <2>1, <2>3, <3>1, <3>2
    <2>4. CASE q # p
      <3>1. Emitting(q)' = Emitting(q)
        BY <1>1, <2>1, <2>4
      <3>2. sent'[q] = sent[q]
        <4>1. DOMAIN sent = Pages
          BY DEF ViewersInv, ViewerTypes
        <4> QED BY <1>0, <2>1, <2>4, <4>1
      <3> QED BY <2>1, <2>2, <3>1, <3>2 DEF ViewersInv, RosterOwed
    <2> QED BY <2>3, <2>4
  <1> QED BY <1>0, <1>2, <1>3, <1>4, MapsStay DEF ViewersInv

LEMMA FailingKeepsRosters ==
  ASSUME ViewersInv, NEW e \in Emissions, emissionFails(e)
  PROVE  ViewersInv'
  <1> PICK p : p = emissions[e].page
    OBVIOUS
  <1>0. /\ emissions[e].at # "idle" /\ UNCHANGED <<viewersByProject, projectsBySocket, gone, watching, timers, sent>>
        /\ emissions' = [emissions EXCEPT ![e] = NoEmission] /\ stale' = stale \cup {p}
    BY DEF emissionFails
  <1>a. /\ \A q \in Pages : Emitting(q)' = Emitting(q) \ {e}
        /\ \A f \in Emissions \ {e} : emissions'[f] = emissions[f]
        /\ p \in Pages /\ \A q \in Pages : e \in Emitting(q) => q = p
    BY <1>0, EndedEmission
  <1>1. ViewerTypes'
    BY <1>0, <1>a DEF ViewersInv, ViewerTypes
  <1>2. EmissionsApart'
    BY <1>0, <1>a DEF ViewersInv, EmissionsApart
  <1>3. RosterOwed'
    <2>1. \A q \in watching' \ (timers' \cup stale') : q \in Pages \ {p} /\ q \in watching \ (timers \cup stale)
      BY <1>0 DEF ViewersInv, ViewerTypes
    <2>2. \A q \in Pages \ {p} : Emitting(q)' = Emitting(q) /\ \A f \in Emitting(q) : emissions'[f] = emissions[f]
      BY <1>a DEF Emitting
    <2> QED BY <1>0, <2>1, <2>2, MapsStay DEF ViewersInv, RosterOwed
  <1> QED BY <1>0, <1>1, <1>2, <1>3, MapsStay DEF ViewersInv

LEMMA RosterStep == ViewersInv /\ [ViewersNext]_viewerVars => ViewersInv'
  <1> SUFFICES ASSUME ViewersInv, [ViewersNext]_viewerVars
               PROVE  ViewersInv'
    OBVIOUS
  <1>1. ASSUME NEW e \in Emissions, NEW p \in Pages, timerFires(e, p) \/ viewersWatch(e, p)
        PROVE  ViewersInv'
    BY <1>1, EmitOwes DEF timerFires, viewersWatch
  <1>2. CASE UNCHANGED viewerVars
    <2>1. EmissionsApart' /\ RosterOwed'
      BY <1>2, ArmedOwes DEF viewerVars
    <2> QED BY <1>2, <2>1 DEF viewerVars, ViewersInv, ViewerTypes, FewPages, MapsMirror
  <1> QED BY <1>1, <1>2, JoiningKeepsRosters, LeavingKeepsRosters, GoingKeepsRosters, UnwatchKeepsRosters,
             ReadingKeepsRosters, SendingKeepsRosters, FailingKeepsRosters DEF ViewersNext

(* For any number of tabs, pages and emissions: the two maps mirror each
   other within the cap, and an owner who listens knows who is there
   unless emissions met or failed (socket/project-viewers.ts). *)
THEOREM RostersAreTrue == ViewersSpec => []RostersAgree
  <1>1. ViewersInit => ViewersInv
    BY ViewersBegin
  <1>2. ViewersInv /\ [ViewersNext]_viewerVars => ViewersInv'
    BY RosterStep
  <1>3. ViewersInv => RostersAgree
    BY DEF ViewersInv, RostersAgree, RosterOwed, RosterSettles
  <1> QED BY <1>1, <1>2, <1>3, PTL DEF ViewersSpec

-----------------------------------------------------------------------------
(* Transcriptions. *)
Job == [user : AsrUser, phase : {"fetching_audio", "transcribing"} \cup Terminal,
        result : BOOLEAN, aborted : BOOLEAN, fresh : BOOLEAN]
JobTypes ==
    /\ jobs \in [AsrJob -> Job \cup {NoJob}]
    /\ runs \in [AsrJob -> {"new", "fetching_audio", "transcribing", "over"}]
    /\ DOMAIN progress = AsrJob
JobSettles(j) ==
    InStore(j) =>
      /\ jobs[j].result <=> jobs[j].phase = "completed"
      /\ progress[j] = jobs[j].phase
      /\ runs[j] = "over" => isTerminal(jobs[j].phase)
      /\ jobs[j].aborted => jobs[j].phase = "cancelled"
      /\ runs[j] # "new"
OneAtATime == \A u \in AsrUser : \A i, j \in Active(u) : i = j
JobsInv == JobTypes /\ OneAtATime /\ \A j \in AsrJob : JobSettles(j)

LEMMA JobsSettleThen == JobsInv => JobsSettle
  <1> SUFFICES ASSUME JobsInv PROVE JobsSettle
    OBVIOUS
  <1>1. ASSUME NEW u \in AsrUser
        PROVE  Cardinality(Active(u)) <= 1
    <2>1. CASE Active(u) = {}
      <3>1. Cardinality({}) = 0
        BY FS_EmptySet
      <3> QED BY <2>1, <3>1
    <2>2. CASE Active(u) # {}
      <3>1. PICK j : Active(u) = {j}
        BY <2>2 DEF JobsInv, OneAtATime
      <3>2. Cardinality({j}) = 1
        BY FS_Singleton
      <3> QED BY <3>1, <3>2
    <2> QED BY <2>1, <2>2
  <1> QED BY <1>1 DEF JobsInv, JobSettles, JobsSettle

LEMMA JobsBegin == AsrInit => JobsInv
  BY DEF AsrInit, JobsInv, JobTypes, OneAtATime, JobSettles, Active, InStore, NoJob

(* A step that touches one job and starts none. *)
LEMMA OneJobGoesOn ==
  ASSUME JobsInv, NEW j \in AsrJob, NEW job \in Job, InStore(j), jobs' = [jobs EXCEPT ![j] = job],
         job.user = jobs[j].user, ~isTerminal(job.phase) => ~isTerminal(jobs[j].phase),
         runs' \in [AsrJob -> {"new", "fetching_audio", "transcribing", "over"}], DOMAIN progress' = AsrJob,
         \A k \in AsrJob \ {j} : runs'[k] = runs[k] /\ progress'[k] = progress[k],
         JobSettles(j)'
  PROVE  JobsInv'
  <1>1. jobs'[j] = job /\ \A k \in AsrJob \ {j} : jobs'[k] = jobs[k]
    BY DEF JobsInv, JobTypes
  <1>2. JobTypes'
    BY DEF JobsInv, JobTypes
  <1>3. OneAtATime'
    <2>1. \A u \in AsrUser : Active(u)' \subseteq Active(u)
      BY <1>1 DEF Active, InStore
    <2> QED BY <2>1 DEF JobsInv, OneAtATime
  <1>4. \A k \in AsrJob \ {j} : JobSettles(k)'
    BY <1>1 DEF JobsInv, JobSettles, InStore
  <1> QED BY <1>2, <1>3, <1>4 DEF JobsInv

LEMMA StartKeepsJobs ==
  ASSUME JobsInv, NEW j \in AsrJob, NEW u \in AsrUser, NEW kind \in {"cloudinary", "buffer"}, startStampJob(j, u, kind)
  PROVE  JobsInv'
  <1>1. PICK phase \in {"fetching_audio", "transcribing"} :
          /\ jobs' = [jobs EXCEPT ![j] = [user |-> u, phase |-> phase, result |-> FALSE, aborted |-> FALSE, fresh |-> FALSE]]
          /\ progress' = [progress EXCEPT ![j] = phase] /\ runs' = [runs EXCEPT ![j] = phase]
    BY DEF startStampJob
  <1>2. JobTypes'
    BY <1>1 DEF JobsInv, JobTypes, Job
  <1>3. /\ jobs'[j].user = u /\ jobs'[j].phase = phase /\ ~jobs'[j].result /\ ~jobs'[j].aborted
        /\ progress'[j] = phase /\ runs'[j] = phase
        /\ \A k \in AsrJob \ {j} : jobs'[k] = jobs[k] /\ progress'[k] = progress[k] /\ runs'[k] = runs[k]
    BY <1>1 DEF JobsInv, JobTypes
  <1>4. Active(u)' \subseteq {j} /\ \A v \in AsrUser \ {u} : Active(v)' \subseteq Active(v)
    BY <1>3 DEF Active, InStore, startStampJob
  <1>5. OneAtATime'
    BY <1>4 DEF JobsInv, OneAtATime
  <1>6. \A k \in AsrJob : JobSettles(k)'
    BY <1>3 DEF JobsInv, JobSettles, InStore, isTerminal, Terminal
  <1> QED BY <1>2, <1>5, <1>6 DEF JobsInv

(* transition leaves a job that is over as it is. *)
LEMMA TransitionKeepsJobs ==
  ASSUME JobsInv, NEW j \in AsrJob, InStore(j), ~jobs[j].aborted,
         NEW phase \in {"transcribing", "completed", "failed"}, transition(j, phase),
         NEW next \in {"transcribing", "over"}, runs' = [runs EXCEPT ![j] = next], next = "over" => isTerminal(phase)
  PROVE  JobsInv'
  <1>0. jobs[j] \in Job
    BY DEF JobsInv, JobTypes, InStore, NoJob
  <1>1. CASE isTerminal(jobs[j].phase)
    <2>1. jobs' = jobs /\ progress' = [progress EXCEPT ![j] = jobs[j].phase]
      BY <1>1 DEF transition, PhaseSet
    <2>2. jobs' = [jobs EXCEPT ![j] = jobs[j]]
      BY <2>1 DEF JobsInv, JobTypes
    <2>3. JobSettles(j)'
      BY <1>1, <2>1 DEF JobsInv, JobTypes, JobSettles, InStore
    <2> QED BY <1>0, <2>1, <2>2, <2>3, OneJobGoesOn DEF JobsInv, JobTypes
  <1>2. CASE ~isTerminal(jobs[j].phase)
    <2>a. PICK done \in BOOLEAN : done = (phase = "completed")
      OBVIOUS
    <2>b. PICK over \in BOOLEAN : over = (phase # "transcribing")
      OBVIOUS
    <2>c. (phase \in Terminal) <=> over
      BY <2>b DEF Terminal
    <2>d. isTerminal(phase) = over
      <3> HIDE <2>b
      <3>1. (phase \in Terminal) = over
        BY <2>c, Zenon
      <3> QED BY <3>1 DEF isTerminal
    <2> DEFINE job == [jobs[j] EXCEPT !.phase = phase, !.result = done, !.fresh = over]
    <2>1. jobs' = [jobs EXCEPT ![j] = job]
      BY <1>2, <2>a, <2>d DEF transition, PhaseSet
    <2>2. job \in Job /\ job.user = jobs[j].user /\ job.phase = phase /\ job.result = done /\ job.aborted = jobs[j].aborted
      BY <1>0 DEF Job, Terminal
    <2>3. jobs'[j] = job /\ progress' = [progress EXCEPT ![j] = phase]
      BY <2>1, <2>2 DEF transition, JobsInv, JobTypes
    <2>4. JobSettles(j)'
      BY <2>a, <2>2, <2>3 DEF JobsInv, JobTypes, JobSettles, isTerminal, Terminal
    <2> HIDE DEF job
    <2> QED BY <1>2, <2>1, <2>2, <2>3, <2>4, OneJobGoesOn DEF JobsInv, JobTypes
  <1> QED BY <1>1, <1>2

LEMMA AbortedKeepsJobs ==
  ASSUME JobsInv, NEW j \in AsrJob, Aborted(j), runs[j] # "new", Ends(j), UNCHANGED <<jobs, progress>>
  PROVE  JobsInv'
  <1>1. JobTypes' /\ OneAtATime'
    BY DEF JobsInv, JobTypes, OneAtATime, Ends, Active, InStore
  <1>2. ASSUME NEW k \in AsrJob PROVE JobSettles(k)'
    BY DEF JobsInv, JobTypes, JobSettles, Ends, Aborted, InStore, isTerminal, Terminal
  <1> QED BY <1>1, <1>2 DEF JobsInv

LEMMA RunKeepsJobs ==
  ASSUME JobsInv, NEW j \in AsrJob, fetched(j) \/ transcribed(j) \/ threw(j)
  PROVE  JobsInv'
  <1>1. CASE Aborted(j)
    BY <1>1, AbortedKeepsJobs DEF fetched, transcribed, threw
  <1>2. CASE ~Aborted(j)
    BY <1>2, TransitionKeepsJobs DEF fetched, transcribed, threw, Aborted, Ends, isTerminal, Terminal
  <1> QED BY <1>1, <1>2

LEMMA CancelKeepsJobs ==
  ASSUME JobsInv, NEW j \in AsrJob, NEW u \in AsrUser, cancelJob(j, u)
  PROVE  JobsInv'
  <1>0. jobs[j] \in Job /\ InStore(j) /\ ~isTerminal(jobs[j].phase)
    BY DEF JobsInv, JobTypes, InStore, NoJob, cancelJob
  <1> DEFINE job == [jobs[j] EXCEPT !.phase = "cancelled", !.result = FALSE, !.fresh = TRUE, !.aborted = TRUE]
  <1>1. jobs' = [jobs EXCEPT ![j] = job]
    BY <1>0 DEF cancelJob, PhaseSet, JobsInv, JobTypes, Job, isTerminal, Terminal
  <1>2. job \in Job /\ job.user = jobs[j].user /\ job.phase = "cancelled" /\ ~job.result
    BY <1>0 DEF Job, Terminal
  <1>3. jobs'[j] = job /\ progress' = [progress EXCEPT ![j] = "cancelled"] /\ runs' = runs
    BY <1>1 DEF cancelJob, JobsInv, JobTypes
  <1>4. JobSettles(j)'
    BY <1>0, <1>2, <1>3 DEF JobsInv, JobTypes, JobSettles, isTerminal, Terminal
  <1> HIDE DEF job
  <1> QED BY <1>0, <1>1, <1>2, <1>3, <1>4, OneJobGoesOn DEF JobsInv, JobTypes

LEMMA SweepKeepsJobs ==
  ASSUME JobsInv,
         sweepJobs \/ restartAsr \/ \E j \in AsrJob : tenMinutes(j)
  PROVE  JobsInv'
  <1>1. ASSUME progress' = progress, runs' \in [AsrJob -> {"new", "fetching_audio", "transcribing", "over"}],
               jobs' \in [AsrJob -> Job \cup {NoJob}],
               \A j \in AsrJob :
                 \/ jobs'[j] = NoJob
                 \/ /\ runs'[j] = runs[j] /\ jobs[j] # NoJob /\ jobs'[j].user = jobs[j].user /\ jobs'[j].phase = jobs[j].phase
                    /\ jobs'[j].result = jobs[j].result /\ jobs'[j].aborted = jobs[j].aborted
        PROVE  JobsInv'
    <2>0. \A j \in AsrJob : jobs'[j] = NoJob \/ (InStore(j) <=> InStore(j)')
      BY <1>1 DEF InStore
    <2>1. JobTypes' /\ \A j \in AsrJob : JobSettles(j)'
      BY <1>1, <2>0 DEF JobsInv, JobTypes, JobSettles, InStore, NoJob
    <2>2. \A u \in AsrUser : Active(u)' \subseteq Active(u)
      BY <1>1, <2>0 DEF Active, InStore, NoJob
    <2> QED BY <2>1, <2>2 DEF JobsInv, OneAtATime
  <1>2. \A j \in AsrJob : jobs[j] = NoJob \/ (jobs[j] \in Job /\ jobs[j] # NoJob)
    BY DEF JobsInv, JobTypes
  <1>3. CASE sweepJobs
    <2>1. jobs' \in [AsrJob -> Job \cup {NoJob}] /\ UNCHANGED <<runs, progress>>
      BY <1>3 DEF sweepJobs, JobsInv, JobTypes
    <2>2. \A j \in AsrJob : jobs'[j] = NoJob \/ jobs'[j] = jobs[j]
      BY <1>3 DEF sweepJobs
    <2> QED BY <1>1, <1>2, <2>1, <2>2 DEF JobsInv, JobTypes
  <1>4. CASE restartAsr
    BY <1>1, <1>4 DEF restartAsr, JobsInv, JobTypes
  <1>5. ASSUME NEW j \in AsrJob, tenMinutes(j) PROVE JobsInv'
    <2>1. jobs[j] \in Job /\ jobs[j] # NoJob /\ jobs' = [jobs EXCEPT ![j].fresh = FALSE] /\ UNCHANGED <<runs, progress>>
      BY <1>2, <1>5 DEF tenMinutes, InStore, NoJob
    <2>2. jobs' \in [AsrJob -> Job \cup {NoJob}]
      BY <2>1 DEF JobsInv, JobTypes, Job
    <2>3. \A k \in AsrJob : jobs'[k] = IF k = j THEN [jobs[j] EXCEPT !.fresh = FALSE] ELSE jobs[k]
      BY <2>1 DEF JobsInv, JobTypes
    <2>4. /\ jobs'[j].user = jobs[j].user /\ jobs'[j].phase = jobs[j].phase
          /\ jobs'[j].result = jobs[j].result /\ jobs'[j].aborted = jobs[j].aborted
      BY <2>1, <2>3 DEF Job
    <2> QED BY <1>1, <1>2, <2>1, <2>2, <2>3, <2>4 DEF JobsInv, JobTypes
  <1> QED BY <1>3, <1>4, <1>5

LEMMA JobStep == JobsInv /\ [AsrNext]_asrVars => JobsInv'
  <1> SUFFICES ASSUME JobsInv, [AsrNext]_asrVars
               PROVE  JobsInv'
    OBVIOUS
  <1>1. CASE UNCHANGED asrVars
    BY <1>1 DEF asrVars, JobsInv, JobTypes, OneAtATime, JobSettles, Active, InStore
  <1> QED BY <1>1, StartKeepsJobs, RunKeepsJobs, CancelKeepsJobs, SweepKeepsJobs DEF AsrNext

(* For any number of jobs and accounts: one job at a time for an account,
   a result exactly when it completed, and what the account was told is
   what the store says, over cancelled runs that come back, sweeps and
   restarts (job.store.ts, runJob). *)
THEOREM JobsSettleRight == AsrSpec => []JobsSettle
  <1>1. AsrInit => JobsInv
    BY JobsBegin
  <1>2. JobsInv /\ [AsrNext]_asrVars => JobsInv'
    BY JobStep
  <1> QED BY <1>1, <1>2, JobsSettleThen, PTL DEF AsrSpec

-----------------------------------------------------------------------------
(* The stored notifications. *)
Notification == [mode : Modes, read : BOOLEAN, of : SUBSET Events, gone : BOOLEAN]
FoldTypes ==
    /\ rows \in [RowIds -> Notification \cup {NoRow}]
    /\ telling \in [Events -> {"none", "dropped", "upsert", "retry", "told", "insert", "reinsert", "lost"}]
    /\ wanted \in BOOLEAN /\ inView \subseteq RowIds

(* A row of a key that another delivery would find. *)
InUse(r, m) == r \in Rows /\ rows[r].mode = m /\ (m = "fold" => ~rows[r].read)
OneInUse == \A m \in Modes : \A r, s \in RowIds : InUse(r, m) /\ InUse(s, m) => r = s
RowsTold ==
    \A r \in RowIds : rows[r] # NoRow =>
        /\ rows[r].of # {}
        /\ \A e \in rows[r].of : telling[e] = "told" /\ e.mode = rows[r].mode
CountedOnce ==
    \A e \in Events : telling[e] = "told" /\ e.mode # "once" =>
        /\ \E r \in RowIds : rows[r] # NoRow /\ e \in rows[r].of
        /\ \A r, s \in RowIds : rows[r] # NoRow /\ rows[s] # NoRow /\ e \in rows[r].of /\ e \in rows[s].of => r = s
(* A refused delivery met a row, which is of use no more once it misses
   again. *)
Met(e, d) ==
    \E r \in RowIds :
        /\ rows[r] # NoRow /\ rows[r].mode = "fold" /\ d \in rows[r].of
        /\ telling[e] # "retry" => ~InUse(r, "fold")
RefusalsMet ==
    \A e \in Events :
        /\ telling[e] \in {"insert", "retry", "reinsert", "lost"} => e.mode = "fold"
        /\ telling[e] \in {"retry", "reinsert"} => \E d \in Events : telling[d] = "told" /\ Met(e, d)
        /\ telling[e] = "lost" => \E d, f \in Events : d # f /\ telling[d] = "told" /\ telling[f] = "told"
FoldInv == FoldTypes /\ OneInUse /\ RowsTold /\ CountedOnce /\ RefusalsMet

LEMMA NotesFoldThen == FoldInv => NotesFold
  <1> SUFFICES ASSUME FoldInv PROVE NotesFold
    OBVIOUS
  <1>1. ASSUME NEW m \in Modes
        PROVE  Cardinality({r \in Rows : rows[r].mode = m /\ (m = "fold" => ~rows[r].read)}) <= 1
    <2> DEFINE S == {r \in Rows : rows[r].mode = m /\ (m = "fold" => ~rows[r].read)}
    <2>1. \A r, s \in S : r = s
      BY DEF FoldInv, OneInUse, InUse, Rows
    <2>2. CASE S = {}
      <3>1. Cardinality({}) = 0
        BY FS_EmptySet
      <3> QED BY <2>2, <3>1
    <2>3. CASE S # {}
      <3>1. PICK r : S = {r}
        BY <2>1, <2>3
      <3>2. Cardinality({r}) = 1
        BY FS_Singleton
      <3> QED BY <3>1, <3>2
    <2> QED BY <2>2, <2>3
  <1>2. ASSUME NEW e \in Events, telling[e] = "told", e.mode # "once"
        PROVE  Cardinality({r \in RowIds : rows[r] # NoRow /\ e \in rows[r].of}) = 1
    <2> DEFINE S == {r \in RowIds : rows[r] # NoRow /\ e \in rows[r].of}
    <2>0. PICK r \in RowIds : rows[r] # NoRow /\ e \in rows[r].of
      BY <1>2 DEF FoldInv, CountedOnce
    <2>1. S = {r}
      BY <1>2, <2>0 DEF FoldInv, CountedOnce
    <2>2. Cardinality({r}) = 1
      BY FS_Singleton
    <2> QED BY <2>1, <2>2
  <1>3. ASSUME NEW e \in Events, telling[e] = "lost"
        PROVE  \E d, f \in Events \ {e} : d # f /\ telling[d] = "told" /\ telling[f] = "told"
    BY <1>3 DEF FoldInv, RefusalsMet
  <1> QED BY <1>1, <1>2, <1>3 DEF NotesFold

LEMMA FoldingBegins == FoldInit => FoldInv
  <1> SUFFICES ASSUME FoldInit PROVE FoldInv
    OBVIOUS
  <1>1. FoldTypes
    BY DEF FoldInit, FoldTypes
  <1>2. OneInUse /\ RowsTold
    BY DEF FoldInit, OneInUse, InUse, Rows, RowsTold
  <1>3. CountedOnce /\ RefusalsMet
    BY DEF FoldInit, CountedOnce, RefusalsMet
  <1> QED BY <1>1, <1>2, <1>3 DEF FoldInv

(* A delivery moves on without a row. *)
LEMMA TellKeeps ==
  ASSUME FoldInv, NEW e \in Events, rows' = rows, wanted' = wanted, inView' = inView,
         NEW at \in {"dropped", "upsert", "retry", "insert", "reinsert", "lost"}, Tell(e, at), telling[e] # "told",
         at \in {"insert", "retry", "reinsert", "lost"} => e.mode = "fold",
         at \in {"retry", "reinsert"} =>
            \E d \in Events : telling[d] = "told" /\ \E r \in RowIds :
               rows[r] # NoRow /\ rows[r].mode = "fold" /\ d \in rows[r].of /\ (at # "retry" => ~InUse(r, "fold")),
         at = "lost" => \E d, f \in Events : d # f /\ telling[d] = "told" /\ telling[f] = "told"
  PROVE  FoldInv'
  <1>1. telling'[e] = at /\ \A d \in Events \ {e} : telling'[d] = telling[d]
    BY DEF Tell, FoldInv, FoldTypes
  <1>2. FoldTypes'
    BY DEF Tell, FoldInv, FoldTypes
  <1>3. (\A d \in Events : telling'[d] = "told" <=> telling[d] = "told") /\ \A r \in RowIds, m \in Modes : InUse(r, m)' = InUse(r, m)
    BY <1>1 DEF InUse, Rows
  <1>4. OneInUse'
    BY <1>3 DEF FoldInv, OneInUse
  <1>5. RowsTold'
    <2>1. \A r \in RowIds : rows[r] # NoRow => rows[r].of \subseteq Events
      BY DEF FoldInv, FoldTypes, Notification
    <2> QED BY <1>3, <2>1 DEF FoldInv, RowsTold
  <1>6. CountedOnce'
    BY <1>3 DEF FoldInv, CountedOnce
  <1>7. RefusalsMet'
    <2>0. "fold" \in Modes
      BY DEF Modes
    <2>1. \A f \in Events \ {e}, d \in Events : Met(f, d)' = Met(f, d)
      BY <1>1, <1>3, <2>0 DEF Met
    <2>2. at \in {"retry", "reinsert"} => \E d \in Events : telling'[d] = "told" /\ Met(e, d)'
      BY <1>1, <1>3, <2>0 DEF Met
    <2> QED BY <1>1, <1>3, <2>1, <2>2 DEF FoldInv, RefusalsMet
  <1> QED BY <1>2, <1>4, <1>5, <1>6, <1>7 DEF FoldInv

(* A new row under a key nobody else would find one under. *)
LEMMA InsertKeeps ==
  ASSUME FoldInv, NEW e \in Events, Room, rows' = Inserted(e), Tell(e, "told"), telling[e] # "told",
         Matching(e) = {}, wanted' = wanted, inView' = inView
  PROVE  FoldInv'
  <1> DEFINE r == Fresh
  <1>0. Fresh \in RowIds /\ rows[Fresh] = NoRow
    BY DEF Room, Fresh
  <1>1. PICK n \in RowIds : n = Fresh /\ rows[n] = NoRow
    BY <1>0
  <1>2. telling'[e] = "told" /\ \A d \in Events \ {e} : telling'[d] = telling[d]
    BY DEF Tell, FoldInv, FoldTypes
  <1>a. e.mode \in Modes
    BY EventKinds
  <1>b. [mode |-> e.mode, read |-> FALSE, of |-> {e}, gone |-> FALSE] \in Notification
    BY <1>a DEF Notification
  <1>3. rows' = [rows EXCEPT ![n] = [mode |-> e.mode, read |-> FALSE, of |-> {e}, gone |-> FALSE]]
    BY <1>1 DEF Inserted
  <1>4. FoldTypes'
    BY <1>b, <1>3 DEF Tell, FoldInv, FoldTypes
  <1>5. /\ rows'[n].mode = e.mode /\ rows'[n].of = {e} /\ ~rows'[n].gone /\ rows'[n] # NoRow
        /\ \A s \in RowIds \ {n} : rows'[s] = rows[s]
    BY <1>3, <1>b DEF FoldInv, FoldTypes, NoRow
  <1>6. \A s \in RowIds \ {n}, m \in Modes : InUse(s, m)' = InUse(s, m)
    BY <1>5 DEF InUse, Rows
  <1>7. \A m \in Modes : InUse(n, m)' => m = e.mode /\ \A s \in RowIds : ~InUse(s, m)
    BY <1>5 DEF InUse, Rows, Matching
  <1>8. OneInUse'
    BY <1>6, <1>7 DEF FoldInv, OneInUse
  <1>9. RowsTold'
    <2>1. \A s \in RowIds : rows[s] # NoRow => rows[s].of \subseteq Events
      BY DEF FoldInv, FoldTypes, Notification
    <2> QED BY <1>2, <1>5, <2>1 DEF FoldInv, RowsTold
  <1>10. CountedOnce'
    <2>1. \A s \in RowIds : rows[s] # NoRow => e \notin rows[s].of
      BY DEF FoldInv, RowsTold
    <2> QED BY <1>1, <1>2, <1>5, <2>1 DEF FoldInv, CountedOnce
  <1>11. RefusalsMet'
    <2>0. "fold" \in Modes
      BY DEF Modes
    <2>1. \A f \in Events \ {e}, d \in Events : Met(f, d) => Met(f, d)'
      BY <1>1, <1>2, <1>5, <1>6, <2>0 DEF Met
    <2> QED BY <1>2, <2>1 DEF FoldInv, RefusalsMet
  <1> QED BY <1>4, <1>8, <1>9, <1>10, <1>11 DEF FoldInv

(* An event joins the row its upsert found. *)
LEMMA FoldKeeps ==
  ASSUME FoldInv, NEW e \in Events, NEW r \in Matching(e), e.mode # "once", rows' = Folded(r, e), Tell(e, "told"),
         telling[e] # "told", wanted' = wanted, inView' = inView
  PROVE  FoldInv'
  <1>0. r \in RowIds /\ rows[r] \in Notification /\ rows[r].mode = e.mode /\ ~rows[r].gone /\ rows[r] # NoRow
        /\ InUse(r, e.mode) /\ e.mode \in Modes
    BY EventKinds DEF Matching, Rows, FoldInv, FoldTypes, InUse
  <1>1. telling'[e] = "told" /\ \A d \in Events \ {e} : telling'[d] = telling[d]
    BY DEF Tell, FoldInv, FoldTypes
  <1>2. PICK row : row = [rows[r] EXCEPT !.of = @ \cup {e}, !.read = FALSE]
    OBVIOUS
  <1>3. /\ row \in Notification /\ row.mode = e.mode /\ ~row.gone /\ ~row.read /\ row.of = rows[r].of \cup {e}
    BY <1>0, <1>2 DEF Notification
  <1>4. rows' = [rows EXCEPT ![r] = row]
    BY <1>0, <1>2 DEF Folded, FoldInv, FoldTypes
  <1>5. FoldTypes'
    BY <1>3, <1>4 DEF Tell, FoldInv, FoldTypes
  <1>6. rows'[r] = row /\ rows'[r] # NoRow /\ \A s \in RowIds \ {r} : rows'[s] = rows[s]
    <2>1. row # NoRow
      BY <1>3, <1>0 DEF NoRow, Notification
    <2> QED BY <1>0, <1>4, <2>1 DEF FoldInv, FoldTypes
  <1>7. \A s \in RowIds, m \in Modes : InUse(s, m)' <=> InUse(s, m)
    BY <1>0, <1>3, <1>6 DEF InUse, Rows
  <1>8. OneInUse'
    BY <1>7 DEF FoldInv, OneInUse
  <1>9. RowsTold'
    <2>1. \A s \in RowIds : rows[s] # NoRow => rows[s].of \subseteq Events
      BY DEF FoldInv, FoldTypes, Notification
    <2> QED BY <1>0, <1>1, <1>3, <1>6, <2>1 DEF FoldInv, RowsTold
  <1>10. CountedOnce'
    <2>1. \A s \in RowIds : rows[s] # NoRow => e \notin rows[s].of
      BY DEF FoldInv, RowsTold
    <2> QED BY <1>0, <1>1, <1>3, <1>6, <2>1 DEF FoldInv, CountedOnce
  <1>11. RefusalsMet'
    <2>0. "fold" \in Modes
      BY DEF Modes
    <2>1. \A f \in Events \ {e}, d \in Events : Met(f, d) => Met(f, d)'
      BY <1>0, <1>1, <1>3, <1>6, <1>7, <2>0 DEF Met
    <2> QED BY <1>1, <2>1 DEF FoldInv, RefusalsMet
  <1> QED BY <1>5, <1>8, <1>9, <1>10, <1>11 DEF FoldInv

(* Rows are read or dismissed, and are of use to fewer deliveries. *)
LEMMA ReadingKeeps ==
  ASSUME FoldInv, telling' = telling, wanted' \in BOOLEAN, inView' \subseteq RowIds, FoldTypes',
         \A r \in RowIds :
           /\ rows[r] = NoRow <=> rows'[r] = NoRow
           /\ rows[r] # NoRow => /\ rows'[r].mode = rows[r].mode /\ rows'[r].of = rows[r].of
                                 /\ (rows[r].gone => rows'[r].gone) /\ (rows[r].read => rows'[r].read)
  PROVE  FoldInv'
  <1>1. \A r \in RowIds, m \in Modes : InUse(r, m)' => InUse(r, m)
    BY DEF InUse, Rows
  <1>2. OneInUse'
    BY <1>1 DEF FoldInv, OneInUse
  <1>3. RowsTold'
    BY DEF FoldInv, RowsTold
  <1>4. CountedOnce'
    BY DEF FoldInv, CountedOnce
  <1>5. RefusalsMet'
    <2>0. "fold" \in Modes
      BY DEF Modes
    <2>1. \A f, d \in Events : Met(f, d) => Met(f, d)'
      BY <1>1, <2>0 DEF Met
    <2> QED BY <2>1 DEF FoldInv, RefusalsMet
  <1> QED BY <1>2, <1>3, <1>4, <1>5 DEF FoldInv

LEMMA DeliveryKeeps ==
  ASSUME FoldInv, NEW e \in Events, ask(e) \/ foldsIn(e) \/ misses(e) \/ createsNew(e) \/ inserts(e) \/ isRefused(e)
  PROVE  FoldInv'
  <1>1. CASE ask(e)
    BY <1>1, TellKeeps DEF ask
  <1>2. CASE foldsIn(e)
    <2>1. PICK r \in Matching(e) : rows' = Folded(r, e)
      BY <1>2 DEF foldsIn
    <2>2. CASE e.mode = "once"
      <3>1. rows' = rows
        BY <2>1, <2>2 DEF Folded, FoldInv, FoldTypes, Matching, Rows, Notification
      <3> QED BY <1>2, <2>2, <3>1, TellKeeps DEF foldsIn
    <2>3. CASE e.mode # "once"
      BY <1>2, <2>1, <2>3, FoldKeeps DEF foldsIn
    <2> QED BY <2>2, <2>3
  (* Whoever misses after a refusal misses the row that refused it.         *)
  <1>3. CASE misses(e)
    <2>1. CASE telling[e] = "upsert"
      BY <1>3, <2>1, TellKeeps DEF misses
    <2>2. CASE telling[e] # "upsert"
      <3>1. telling[e] = "retry" /\ Matching(e) = {} /\ e.mode = "fold"
        BY <1>3, <2>2 DEF misses
      <3>2. PICK d \in Events : telling[d] = "told" /\ Met(e, d)
        BY <3>1 DEF FoldInv, RefusalsMet
      <3>3. \A r \in RowIds : ~InUse(r, "fold")
        BY <3>1 DEF Matching, InUse
      <3>4. \E x \in Events : telling[x] = "told" /\ \E r \in RowIds :
               rows[r] # NoRow /\ rows[r].mode = "fold" /\ x \in rows[r].of /\ ~InUse(r, "fold")
        BY <3>2, <3>3 DEF Met
      <3> QED BY <1>3, <2>2, <3>1, <3>4, TellKeeps DEF misses
    <2> QED BY <2>1, <2>2
  <1>4. CASE createsNew(e)
    BY <1>4, InsertKeeps DEF createsNew
  <1>5. CASE inserts(e)
    BY <1>5, InsertKeeps DEF inserts, Refused
  <1>6. CASE isRefused(e)
    <2>1. e.mode = "fold"
      BY <1>6 DEF isRefused, FoldInv, RefusalsMet
    <2>2. PICK s \in RowIds : s \in Matching(e) /\ rows[s] # NoRow /\ rows[s].mode = "fold" /\ InUse(s, "fold")
      BY <1>6, <2>1 DEF isRefused, Refused, Matching, Rows, InUse
    <2>3. PICK f \in Events : f \in rows[s].of /\ telling[f] = "told" /\ f.mode = "fold"
      <3>1. rows[s].of # {} /\ rows[s].of \subseteq Events
        BY <2>2 DEF FoldInv, RowsTold, FoldTypes, Notification
      <3> QED BY <2>2, <3>1 DEF FoldInv, RowsTold
    <2>4. CASE telling[e] = "insert"
      BY <1>6, <2>1, <2>2, <2>3, <2>4, TellKeeps DEF isRefused, AfterRefusal
    <2>5. CASE telling[e] = "reinsert"
      <3>1. PICK d \in Events : telling[d] = "told" /\ Met(e, d)
        BY <2>5 DEF FoldInv, RefusalsMet
      <3>2. PICK r \in RowIds : rows[r] # NoRow /\ rows[r].mode = "fold" /\ d \in rows[r].of /\ ~InUse(r, "fold")
        BY <2>5, <3>1 DEF Met
      <3>3. d # f
        BY <2>2, <2>3, <3>2 DEF FoldInv, CountedOnce
      <3> QED BY <1>6, <2>1, <2>3, <2>5, <3>1, <3>3, TellKeeps DEF isRefused, AfterRefusal
    <2> QED BY <1>6, <2>4, <2>5 DEF isRefused
  <1> QED BY <1>1, <1>2, <1>3, <1>4, <1>5, <1>6

LEMMA ReaderKeeps ==
  ASSUME FoldInv, \/ lists \/ readsListed \/ readsAll \/ prefers
                  \/ \E r \in RowIds : dismisses(r)
                  \/ \E a \in Actors : blocksActor(a)
  PROVE  FoldInv'
  <1>0. Rows \subseteq RowIds
    BY DEF Rows
  <1>1. ASSUME NEW of \in SUBSET Rows
        PROVE  /\ Read(of) \in [RowIds -> Notification \cup {NoRow}]
               /\ \A r \in RowIds : /\ rows[r] = NoRow <=> Read(of)[r] = NoRow
                                    /\ rows[r] # NoRow => /\ Read(of)[r].mode = rows[r].mode /\ Read(of)[r].of = rows[r].of
                                                          /\ Read(of)[r].gone = rows[r].gone /\ (rows[r].read => Read(of)[r].read)
    <2>1. ASSUME NEW r \in of
          PROVE  /\ rows[r] # NoRow /\ rows[r] \in Notification /\ [rows[r] EXCEPT !.read = TRUE] \in Notification
                 /\ [rows[r] EXCEPT !.read = TRUE] # NoRow
      <3>1. rows[r] \in Notification /\ rows[r] # NoRow
        BY <1>1, <2>1 DEF Rows, FoldInv, FoldTypes
      <3>2. [rows[r] EXCEPT !.read = TRUE] \in Notification /\ [rows[r] EXCEPT !.read = TRUE].read
        BY <3>1 DEF Notification
      <3>3. [rows[r] EXCEPT !.read = TRUE].mode = rows[r].mode /\ "none" \notin Modes /\ rows[r].mode \in Modes
        BY <3>1 DEF Notification, Modes
      <3>4. NoRow.mode = "none"
        BY DEF NoRow
      <3> QED BY <3>1, <3>2, <3>3, <3>4
    <2>2. Read(of) \in [RowIds -> Notification \cup {NoRow}]
      BY <2>1 DEF Read, FoldInv, FoldTypes
    <2>3. \A r \in RowIds : Read(of)[r] = IF r \in of THEN [rows[r] EXCEPT !.read = TRUE] ELSE rows[r]
      BY DEF Read
    <2>4. ASSUME NEW r \in of
          PROVE  /\ [rows[r] EXCEPT !.read = TRUE].mode = rows[r].mode /\ [rows[r] EXCEPT !.read = TRUE].of = rows[r].of
                 /\ [rows[r] EXCEPT !.read = TRUE].gone = rows[r].gone /\ [rows[r] EXCEPT !.read = TRUE].read
      BY <2>1, <2>4 DEF Notification
    <2> QED BY <2>1, <2>2, <2>3, <2>4
  <1>2. CASE readsListed \/ readsAll
    <2>1. PICK of \in SUBSET Rows : rows' = Read(of)
      BY <1>2 DEF readsListed, readsAll
    <2>2. UNCHANGED <<telling, wanted>> /\ inView' \subseteq RowIds
      BY <1>2 DEF readsListed, readsAll, FoldInv, FoldTypes
    <2> QED BY <1>1, <2>1, <2>2, ReadingKeeps DEF FoldInv, FoldTypes
  <1>3. CASE lists \/ prefers \/ \E a \in Actors : blocksActor(a)
    <2>1. rows' = rows /\ telling' = telling /\ wanted' \in BOOLEAN /\ inView' \subseteq RowIds
      BY <1>0, <1>3 DEF lists, prefers, blocksActor, FoldInv, FoldTypes
    <2> QED BY <2>1, ReadingKeeps DEF FoldInv, FoldTypes
  <1>4. ASSUME NEW r \in RowIds, dismisses(r)
        PROVE  FoldInv'
    <2>1. rows[r] \in Notification /\ rows[r] # NoRow /\ rows' = [rows EXCEPT ![r].gone = TRUE]
      BY <1>4 DEF dismisses, Rows, FoldInv, FoldTypes
    <2>2. PICK row : row = [rows[r] EXCEPT !.gone = TRUE]
      OBVIOUS
    <2>3. row \in Notification /\ row.mode = rows[r].mode /\ row.of = rows[r].of /\ row.read = rows[r].read /\ row.gone
      BY <2>1, <2>2 DEF Notification
    <2>4. row # NoRow
      <3>1. row.mode \in Modes /\ "none" \notin Modes /\ NoRow.mode = "none"
        BY <2>3 DEF Notification, Modes, NoRow
      <3> QED BY <3>1
    <2>5. rows' = [rows EXCEPT ![r] = row]
      BY <2>1, <2>2
    <2>6. \A s \in RowIds : rows'[s] = IF s = r THEN row ELSE rows[s]
      BY <2>5 DEF FoldInv, FoldTypes
    <2>7. UNCHANGED <<telling, wanted>> /\ inView' \subseteq RowIds /\ FoldTypes'
      BY <1>4, <2>3, <2>5 DEF dismisses, FoldInv, FoldTypes
    <2> QED BY <2>1, <2>3, <2>4, <2>6, <2>7, ReadingKeeps DEF FoldInv, FoldTypes
  <1> QED BY <1>2, <1>3, <1>4

LEMMA FoldStep == FoldInv /\ [FoldNext]_foldVars => FoldInv'
  <1> SUFFICES ASSUME FoldInv, [FoldNext]_foldVars
               PROVE  FoldInv'
    OBVIOUS
  <1>1. CASE UNCHANGED foldVars
    <2>1. FoldTypes' /\ rows' = rows /\ telling' = telling /\ wanted' \in BOOLEAN /\ inView' \subseteq RowIds
      BY <1>1 DEF foldVars, FoldInv, FoldTypes
    <2> QED BY <2>1, ReadingKeeps
  <1> QED BY <1>1, DeliveryKeeps, ReaderKeeps DEF FoldNext

(* For any events, rows and readings: no key has two rows a delivery would
   find, an event told is counted once, and one is lost only after two
   refusals (deliver of notifications.events.ts). *)
THEOREM NotesFoldRight == FoldSpec => []NotesFold
  <1>1. FoldInit => FoldInv
    BY FoldingBegins
  <1>2. FoldInv /\ [FoldNext]_foldVars => FoldInv'
    BY FoldStep
  <1> QED BY <1>1, <1>2, NotesFoldThen, PTL DEF FoldSpec

-----------------------------------------------------------------------------
(* The audience of a comment. *)
Stages == {"mutes", "mentions", "projects", "answered", "owner", "subscribers"}
Text == [status : {"pending", "visible"}, author : Commenters, answered : {Unanswered} \cup Public,
         tags : SUBSET Public, projects : SUBSET Projects]
Creating == [at : {"create", "subscribe", "listen"}, author : Commenters, answered : {Unanswered} \cup Public,
             tags : SUBSET Public, projects : SUBSET Projects, held : BOOLEAN]
Announced == [at : Stages, told : SUBSET Public, list : SUBSET Public, tags : SUBSET Public,
              projects : SUBSET Projects, owners : SUBSET Public, edit : BOOLEAN]
Approving == [at : {"approve", "list"}]
Editing == [at : {"edit", "added"}, tags : SUBSET Public, projects : SUBSET Projects,
            added : SUBSET Public, addedProjects : SUBSET Projects, held : BOOLEAN]
AudienceTypes ==
    /\ comment \in Text \cup {NoText}
    /\ subscribers \subseteq Public /\ muters \subseteq Public
    /\ tellers \in [TellOps -> {NoTeller} \cup Creating \cup Announced \cup Approving \cup Editing]
    /\ heard \in [Public -> Nat] /\ owned \in [Projects -> Nat]
    /\ seen \in [visible : BOOLEAN, edited : BOOLEAN, twice : BOOLEAN]
    /\ since \in [late : SUBSET Public, muted : SUBSET Public]

Creator(o) == tellers[o].at \in {"subscribe", "listen"}
Announces(o) == tellers[o].at \in Stages
Relists(o) == TellerAt(o, "list")
Owing(o) == (~seen.edited => ~tellers[o].edit) /\ (tellers[o].at # "projects" => tellers[o].owners = {})
Unheard == (\A p \in Public : heard[p] = 0) /\ \A project \in Projects : owned[project] = 0

(* Before the comment there is at most its creation; its author hears
   nothing. *)
OneCreates ==
    /\ \A o, q \in TellOps : tellers[o].at \in {"create", "subscribe", "listen"} /\ tellers[q].at \in {"create", "subscribe", "listen"} => o = q
    /\ \A o \in TellOps : IF Posted THEN tellers[o].at # "create" ELSE tellers[o].at \in {"free", "create"}
    /\ ~Posted => since.late = {} /\ ~seen.edited /\ Unheard
    /\ Posted => ~Hears(comment.author)
    /\ \A o \in TellOps : TellerAt(o, "added") => seen.edited
    /\ \A o \in TellOps : Announces(o) => Owing(o)

(* Without an edit. *)
StatusSeen ==
    /\ comment.status = "visible" => seen.visible
    /\ Posted /\ comment.status = "pending" => ~seen.visible
    /\ \A o \in TellOps : Announces(o) \/ Relists(o) => comment.status = "visible"
    /\ ~seen.visible => (\A p \in Public : heard[p] > 0 => p = WallsOwner) /\ \A project \in Projects : owned[project] = 0
Creations ==
    \A o \in TellOps : Creator(o) =>
        /\ ~tellers[o].held => comment.status = "visible" /\ Unheard
                               /\ \A q \in TellOps \ {o} : tellers[q].at \in {"free", "edit"}
        /\ tellers[o].held => ~Hears(WallsOwner) /\ \A q \in TellOps : Announces(q) => WallsOwner \in tellers[q].told
Announcements ==
    \A o \in TellOps : Announces(o) =>
        /\ tellers[o].tags \subseteq comment.tags /\ tellers[o].projects \subseteq comment.projects
        /\ TellerAt(o, "mutes") => tellers[o].tags = comment.tags
        /\ ~TellerAt(o, "mutes") /\ comment.answered # Unanswered => since.muted \ comment.tags \subseteq tellers[o].told
        /\ tellers[o].list \cap since.late = {}
MutedEarlier ==
    /\ Posted => since.muted \subseteq muters
    /\ Posted /\ comment.answered # Unanswered =>
          \A p \in since.muted \ comment.tags : Hears(p) => p = WallsOwner
LateHears ==
    /\ \A p \in since.late : Hears(p) => p \in {WallsOwner, comment.answered} \/ Tagged(p)
    /\ since.late # {} => comment.status = "visible" /\ ~BeforeList
ToldOnce ==
    ~seen.twice =>
      /\ \A p \in Public : heard[p] <= 1
      /\ \A project \in Projects : owned[project] <= 1 /\ (owned[project] > 0 => heard[ProjectOwner[project]] = 0)
      /\ \A o, q \in TellOps : (Announces(o) \/ Relists(o)) /\ (Announces(q) \/ Relists(q)) => o = q
      /\ \A o \in TellOps, p \in Public : heard[p] > 0 =>
            /\ Relists(o) => p = WallsOwner
            /\ Announces(o) => p \in tellers[o].told
      /\ \A o \in TellOps, project \in Projects : owned[project] > 0 =>
            /\ ~Relists(o)
            /\ Announces(o) => project \notin tellers[o].projects /\ ProjectOwner[project] \in tellers[o].told \cup tellers[o].owners
Unedited == StatusSeen /\ Creations /\ Announcements /\ MutedEarlier /\ LateHears /\ ToldOnce
AudienceInv == AudienceTypes /\ OneCreates /\ (~seen.edited => Unedited)

LEMMA AudienceHoldsThen == AudienceInv => AudienceHolds
  <1>o. ASSUME AudienceInv, NEW project \in Projects, owned[project] > 0, ~seen.edited, ~seen.twice
        PROVE  owned[project] = 1 /\ heard[ProjectOwner[project]] = 0
    BY <1>o DEF AudienceInv, AudienceTypes, Unedited, ToldOnce
  <1> SUFFICES ASSUME AudienceInv, Posted, NEW p \in Public
      PROVE  /\ heard[p] <= 1 \/ seen.edited \/ seen.twice
             /\ Hears(p) /\ ~seen.visible => p = WallsOwner \/ seen.edited
             /\ p \in since.muted /\ comment.answered # Unanswered /\ p \notin comment.tags /\ Hears(p)
                => p = WallsOwner \/ seen.edited
             /\ p \in since.late /\ Hears(p) => seen.edited \/ p \in {WallsOwner, comment.answered} \/ Tagged(p)
             /\ p = comment.author => ~Hears(p)
    BY <1>o DEF AudienceHolds
  <1>1. p = comment.author => ~Hears(p)
    BY DEF AudienceInv, OneCreates
  <1>2. CASE seen.edited
    BY <1>1, <1>2
  <1>3. CASE ~seen.edited
    <2>1. Hears(p) /\ ~seen.visible => p = WallsOwner
      BY <1>3 DEF AudienceInv, Unedited, StatusSeen, Hears
    <2> QED BY <1>1, <1>3, <2>1 DEF AudienceInv, Unedited, MutedEarlier, LateHears, ToldOnce
  <1> QED BY <1>2, <1>3

LEMMA AudienceBegins == AudienceInit => AudienceInv
  <1> SUFFICES ASSUME AudienceInit PROVE AudienceInv
    OBVIOUS
  <1>1. AudienceTypes
    BY DEF AudienceInit, AudienceTypes
  <1>2. (\A o \in TellOps : tellers[o].at = "free") /\ comment.status = "none" /\ ~Posted
    BY DEF AudienceInit, NoTeller, NoText, Posted
  <1>3. OneCreates /\ Unheard
    BY <1>2 DEF AudienceInit, OneCreates, Unheard, Announces, Stages, TellerAt
  <1>4. Unedited
    BY <1>2, <1>3 DEF AudienceInit, Unedited, StatusSeen, Creations, Announcements, MutedEarlier, LateHears, ToldOnce,
                Unheard, Creator, Announces, Relists, TellerAt, Stages
  <1> QED BY <1>1, <1>3, <1>4 DEF AudienceInv

(* What a teller can be. *)
LEMMA TellersAre ==
  ASSUME AudienceTypes, NEW o \in TellOps
  PROVE  /\ tellers[o].at \in {"create", "subscribe", "listen"} => tellers[o] \in Creating
         /\ Announces(o) => tellers[o] \in Announced
         /\ tellers[o].at \in {"approve", "list"} => tellers[o] \in Approving
         /\ tellers[o].at \in {"edit", "added"} => tellers[o] \in Editing
         /\ tellers[o].at = "free" => tellers[o] = NoTeller
         /\ "list" \in DOMAIN tellers[o] => tellers[o] \in Announced
  <1>1. tellers[o] \in {NoTeller} \cup Creating \cup Announced \cup Approving \cup Editing
    BY DEF AudienceTypes
  <1> QED BY <1>1 DEF NoTeller, Creating, Announced, Approving, Editing, Announces, Stages

LEMMA TellEachTells ==
  ASSUME AudienceTypes, NEW S, TellEach(S)
  PROVE  /\ heard' \in [Public -> Nat]
         /\ \A p \in Public : \/ heard'[p] = heard[p]
                              \/ p \in S /\ Reached(p) /\ heard'[p] = heard[p] + 1
  <1>1. \A p \in Public : heard'[p] = IF p \in S /\ Reached(p) THEN heard[p] + 1 ELSE heard[p]
    BY DEF TellEach
  <1>2. DOMAIN heard' = Public
    BY DEF TellEach
  <1>3. heard' \in [Public -> Nat]
    BY <1>1, <1>2 DEF AudienceTypes, TellEach
  <1> QED BY <1>1, <1>3

LEMMA TurnTurns ==
  ASSUME AudienceTypes, NEW o \in TellOps, NEW op \in {NoTeller} \cup Creating \cup Announced \cup Approving \cup Editing,
         Turn(o, op)
  PROVE  /\ tellers' \in [TellOps -> {NoTeller} \cup Creating \cup Announced \cup Approving \cup Editing]
         /\ tellers'[o] = op /\ \A q \in TellOps \ {o} : tellers'[q] = tellers[q]
  BY DEF AudienceTypes, Turn

-----------------------------------------------------------------------------
(* Who hears after a step heard before it, or is told by it. *)
LEMMA HearsMore ==
  ASSUME AudienceTypes, NEW S, NEW Q, NEW T, S \subseteq T, \A q \in Q : ProjectOwner[q] \in T,
         heard' \in [Public -> Nat], owned' \in [Projects -> Nat],
         \A p \in Public : heard'[p] = heard[p] \/ (p \in S /\ heard'[p] = heard[p] + 1),
         \A q \in Projects : owned'[q] = owned[q] \/ (q \in Q /\ owned'[q] = owned[q] + 1)
  PROVE  \A p \in Public \ T : Hears(p)' => Hears(p)
  BY DEF Hears, AudienceTypes

(* A step of an announcement: those it tells, of the comment or of a
   project, it has not told before. *)
LEMMA AnnouncementGoesOn ==
  ASSUME AudienceInv, NEW o \in TellOps, Announces(o), NEW op \in Announced \cup {NoTeller}, Turn(o, op),
         UNCHANGED <<comment, subscribers, muters, seen, since>>, heard' \in [Public -> Nat], owned' \in [Projects -> Nat],
         NEW S \in SUBSET Public, NEW Q \in SUBSET Projects, Q \subseteq tellers[o].projects,
         op # NoTeller =>
            /\ op.at # "mutes" /\ op.list = tellers[o].list /\ (op.edit => tellers[o].edit)
            /\ tellers[o].told \subseteq op.told /\ tellers[o].owners \subseteq op.told \cup op.owners
            /\ op.tags \subseteq tellers[o].tags /\ op.projects \subseteq tellers[o].projects \ Q
            /\ op.at # "projects" => op.owners = {}
            /\ TellerAt(o, "mutes") => muters \ tellers[o].tags \subseteq op.told
            /\ S \subseteq op.told /\ \A q \in Q : ProjectOwner[q] \in op.owners,
         \A p \in Public : heard'[p] = heard[p] \/ (p \in S /\ p # comment.author /\ heard'[p] = heard[p] + 1),
         \A q \in Projects : owned'[q] = owned[q] \/ (q \in Q /\ owned'[q] = owned[q] + 1),
         \A q \in Q : ProjectOwner[q] \notin tellers[o].told /\ ProjectOwner[q] # comment.author,
         Q # {} => TellerAt(o, "projects"), TellerAt(o, "mutes") \/ TellerAt(o, "projects") => S = {},
         S \cap tellers[o].told = {}, comment.author \notin S,
         S \subseteq tellers[o].list \cup {WallsOwner, comment.answered} \cup tellers[o].tags
  PROVE  AudienceInv'
  <1>1. /\ tellers' \in [TellOps -> {NoTeller} \cup Creating \cup Announced \cup Approving \cup Editing]
        /\ tellers'[o] = op /\ \A q \in TellOps \ {o} : tellers'[q] = tellers[q]
    BY TurnTurns DEF AudienceInv
  <1>2. op.at \in Stages \cup {"free"} /\ (op.at \in Stages => op # NoTeller)
    BY DEF Announced, NoTeller, Stages
  <1>3. tellers[o] \in Announced
    BY TellersAre DEF AudienceInv
  <1>4. AudienceTypes'
    BY <1>1 DEF AudienceInv, AudienceTypes
  <1>5. tellers[o].at \in Stages
    BY DEF Announces
  <1>a. PICK T : T = S \cup {ProjectOwner[q] : q \in Q}
    OBVIOUS
  <1>b. \A p \in Public \ T : Hears(p)' => Hears(p)
    <2>1. S \subseteq T /\ \A q \in Q : ProjectOwner[q] \in T
      BY <1>a
    <2>2. \A p \in Public : heard'[p] = heard[p] \/ (p \in S /\ heard'[p] = heard[p] + 1)
      OBVIOUS
    <2> QED BY <2>1, <2>2, HearsMore DEF AudienceInv
  <1>c. comment.author \notin T /\ T \cap tellers[o].told = {} /\ (TellerAt(o, "mutes") => T = {})
    BY <1>a DEF TellerAt
  <1>d. heard \in [Public -> Nat] /\ owned \in [Projects -> Nat]
    BY DEF AudienceInv, AudienceTypes
  <1>6. OneCreates'
    <2>1. \A q \in TellOps : tellers'[q].at = tellers[q].at \/ (q = o /\ tellers'[q].at \in Stages \cup {"free"})
      BY <1>1, <1>2
    <2>2. Posted
      BY <1>5 DEF AudienceInv, OneCreates, Stages
    <2>3. comment.author \in Public
      BY <2>2, AudienceAssumption DEF AudienceInv, AudienceTypes, Posted, Text
    <2>4. ~Hears(comment.author)'
      BY <1>b, <1>c, <2>2, <2>3 DEF AudienceInv, OneCreates
    <2>5. ASSUME NEW q \in TellOps, Announces(q)' PROVE Owing(q)'
      <3>1. Owing(o) /\ (Announces(q) => Owing(q))
        BY DEF AudienceInv, OneCreates
      <3>2. CASE q = o
        BY <1>1, <1>2, <2>5, <3>1, <3>2 DEF Owing, Announces
      <3>3. CASE q # o
        BY <1>1, <2>5, <3>1, <3>3 DEF Owing, Announces
      <3> QED BY <3>2, <3>3
    <2> QED BY <1>1, <2>1, <2>2, <2>4, <2>5 DEF AudienceInv, OneCreates, TellerAt, Posted, Stages
  <1>7. ASSUME ~seen'.edited PROVE Unedited'
    <2>0. Unedited
      BY <1>7 DEF AudienceInv
    <2>a. Posted /\ comment.status = "visible" /\ seen.visible
      BY <1>5, <2>0 DEF AudienceInv, OneCreates, Unedited, StatusSeen, Stages
    <2>1. StatusSeen'
      BY <1>1, <1>2, <2>0, <2>a DEF Unedited, StatusSeen, Announces, Relists, TellerAt, Posted
    <2>2. Creations'
      <3>1. ASSUME NEW q \in TellOps, Creator(q)' PROVE Creator(q) /\ tellers'[q] = tellers[q] /\ q # o
        BY <1>1, <1>2, <3>1 DEF Creator, Stages
      <3>2. ASSUME NEW q \in TellOps, Creator(q)'
            PROVE  tellers[q].held /\ ~Hears(WallsOwner) /\ WallsOwner \in tellers[o].told
        BY <1>5, <3>1, <3>2, <2>0 DEF Unedited, Creations, Announces, Stages, AudienceInv
      <3>3. ASSUME NEW q \in TellOps, Creator(q)', NEW r \in TellOps, Announces(r)' PROVE WallsOwner \in tellers'[r].told
        BY <1>1, <1>2, <3>1, <3>2, <3>3, <2>0 DEF Unedited, Creations, Announces
      <3>4. ASSUME NEW q \in TellOps, Creator(q)' PROVE ~Hears(WallsOwner)'
        BY <1>b, <1>c, <3>2, <3>4, AudienceAssumption
      <3> QED BY <3>1, <3>2, <3>3, <3>4 DEF Creations
    <2>3. Announcements'
      <3>1. ASSUME NEW q \in TellOps, Announces(q)', q # o
            PROVE  Announces(q) /\ tellers'[q] = tellers[q]
        BY <1>1, <3>1 DEF Announces
      <3>2. ASSUME Announces(o)'
            PROVE  /\ op.tags \subseteq comment.tags /\ op.projects \subseteq comment.projects /\ op.at # "mutes"
                   /\ comment.answered # Unanswered => since.muted \ comment.tags \subseteq op.told
                   /\ op.list \cap since.late = {}
        BY <1>1, <1>2, <3>2, <2>0, <2>a DEF Unedited, Announcements, MutedEarlier, Announces, TellerAt
      <3> QED BY <1>1, <3>1, <3>2, <2>0 DEF Unedited, Announcements, TellerAt
    <2>4. MutedEarlier'
      <3>1. ASSUME comment.answered # Unanswered PROVE T \cap (since.muted \ comment.tags) = {}
        BY <1>c, <3>1, <2>0 DEF Unedited, Announcements
      <3>2. since.muted \subseteq Public
        BY DEF AudienceInv, AudienceTypes
      <3> QED BY <1>b, <2>0, <3>1, <3>2 DEF Unedited, MutedEarlier, Posted
    <2>5. LateHears'
      <3>1. \A p \in T \cap since.late : p \in {WallsOwner, comment.answered} \/ Tagged(p)
        <4>1. \A p \in S \cap since.late : p \in {WallsOwner, comment.answered} \/ p \in comment.tags
          BY <2>0 DEF Unedited, Announcements
        <4>2. \A q \in Q : q \in comment.projects
          BY <2>0 DEF Unedited, Announcements
        <4> QED BY <1>a, <4>1, <4>2 DEF Tagged
      <3>2. BeforeList' => BeforeList
        BY <1>1, <1>2 DEF BeforeList, Stages
      <3>3. since.late \subseteq Public
        BY DEF AudienceInv, AudienceTypes
      <3>4. \A p : Tagged(p) => Tagged(p)'
        BY DEF Tagged
      <3> QED BY <1>b, <2>0, <3>1, <3>2, <3>3, <3>4 DEF Unedited, LateHears
    <2>6. ToldOnce'
      <3> SUFFICES ASSUME ~seen.twice PROVE ToldOnce'
        BY DEF ToldOnce
      <3>0. /\ \A p \in Public : heard[p] <= 1
            /\ \A q \in Projects : owned[q] <= 1 /\ (owned[q] > 0 => heard[ProjectOwner[q]] = 0)
            /\ \A q \in TellOps : Announces(q) \/ Relists(q) => q = o
            /\ \A p \in Public : heard[p] > 0 => p \in tellers[o].told
            /\ \A q \in Projects : owned[q] > 0 => q \notin tellers[o].projects /\ ProjectOwner[q] \in tellers[o].told \cup tellers[o].owners
        BY <2>0 DEF Unedited, ToldOnce
      <3>1. \A q \in TellOps : (Announces(q) \/ Relists(q))' => q = o
        BY <1>1, <3>0 DEF Announces, Relists, TellerAt
      <3>2. \A p \in S : heard[p] = 0
        BY <1>d, <3>0
      <3>3. \A p \in Public : heard'[p] <= 1
        BY <1>d, <3>0, <3>2
      <3>4. Announces(o)' => \A p \in Public : heard'[p] > 0 => p \in op.told
        BY <1>1, <1>2, <1>d, <3>0, <3>2 DEF Announces
      <3>5. ~Relists(o)'
        BY <1>1, <1>2 DEF Relists, TellerAt, Stages
      <3>6. \A q \in Projects : ProjectOwner[q] \in Public
        BY AudienceAssumption
      <3>7. \A q \in Q : owned[q] = 0 /\ heard[ProjectOwner[q]] = 0
        BY <1>d, <3>0, <3>6
      <3>8. \A q \in Projects : owned[q] > 0 => ProjectOwner[q] \notin S
        <4>1. CASE S = {}
          BY <4>1
        <4>2. CASE S # {}
          <5>1. tellers[o].owners = {}
            BY <4>2 DEF AudienceInv, OneCreates, Owing, TellerAt
          <5> QED BY <3>0, <5>1
        <4> QED BY <4>1, <4>2
      <3>9. \A q \in Projects : owned'[q] <= 1 /\ (owned'[q] > 0 => heard'[ProjectOwner[q]] = 0)
        <4>1. ASSUME NEW q \in Q PROVE heard'[ProjectOwner[q]] = 0 /\ owned'[q] <= 1
          <5>1. S = {}
            OBVIOUS
          <5> QED BY <1>d, <3>6, <3>7, <5>1
        <4>2. ASSUME NEW q \in Projects \ Q PROVE owned'[q] <= 1 /\ (owned'[q] > 0 => heard'[ProjectOwner[q]] = 0)
          BY <1>d, <3>0, <3>6, <3>8
        <4> QED BY <4>1, <4>2
      <3>10. Announces(o)' => \A q \in Projects : owned'[q] > 0 => q \notin op.projects /\ ProjectOwner[q] \in op.told \cup op.owners
        BY <1>1, <1>2, <1>d, <3>0 DEF Announces
      <3> QED BY <1>1, <3>1, <3>3, <3>4, <3>5, <3>9, <3>10 DEF ToldOnce
    <2> QED BY <2>1, <2>2, <2>3, <2>4, <2>5, <2>6 DEF Unedited
  <1> QED BY <1>4, <1>6, <1>7 DEF AudienceInv

LEMMA AnnouncementTells ==
  ASSUME AudienceInv, NEW o \in TellOps, Announces(o), NEW op \in Announced \cup {NoTeller}, Turn(o, op),
         UNCHANGED <<comment, subscribers, muters, seen, since, owned>>, heard' \in [Public -> Nat],
         NEW S \in SUBSET Public, ~TellerAt(o, "projects"),
         op # NoTeller =>
            /\ op.at # "mutes" /\ op.list = tellers[o].list /\ op.edit = tellers[o].edit
            /\ tellers[o].told \subseteq op.told /\ op.owners = tellers[o].owners
            /\ op.tags \subseteq tellers[o].tags /\ op.projects = tellers[o].projects
            /\ TellerAt(o, "mutes") => muters \ tellers[o].tags \subseteq op.told
            /\ S \subseteq op.told,
         \A p \in Public : heard'[p] = heard[p] \/ (p \in S /\ Reached(p) /\ heard'[p] = heard[p] + 1),
         TellerAt(o, "mutes") => S = {}, S \cap tellers[o].told = {},
         S \subseteq tellers[o].list \cup {WallsOwner, comment.answered} \cup tellers[o].tags
  PROVE  AudienceInv'
  <1>1. PICK R \in SUBSET Public : R = S \ {comment.author}
    OBVIOUS
  <1>2. PICK Q \in SUBSET Projects : Q = {}
    OBVIOUS
  <1>3. tellers[o].owners = {}
    BY DEF AudienceInv, OneCreates, Owing, TellerAt
  <1>4. owned' \in [Projects -> Nat]
    BY DEF AudienceInv, AudienceTypes
  <1>5. \A p \in Public : heard'[p] = heard[p] \/ (p \in R /\ p # comment.author /\ heard'[p] = heard[p] + 1)
    BY <1>1 DEF Reached
  <1>6. Q \subseteq tellers[o].projects /\ comment.author \notin R /\ R \cap tellers[o].told = {}
        /\ R \subseteq tellers[o].list \cup {WallsOwner, comment.answered} \cup tellers[o].tags
    BY <1>1, <1>2
  <1>7. op # NoTeller =>
            /\ op.at # "mutes" /\ op.list = tellers[o].list /\ (op.edit => tellers[o].edit)
            /\ tellers[o].told \subseteq op.told /\ tellers[o].owners \subseteq op.told \cup op.owners
            /\ op.tags \subseteq tellers[o].tags /\ op.projects \subseteq tellers[o].projects \ Q
            /\ op.at # "projects" => op.owners = {}
            /\ TellerAt(o, "mutes") => muters \ tellers[o].tags \subseteq op.told
            /\ R \subseteq op.told /\ \A q \in Q : ProjectOwner[q] \in op.owners
    BY <1>1, <1>2, <1>3
  <1>8. TellerAt(o, "mutes") \/ TellerAt(o, "projects") => R = {}
    BY <1>1
  <1> QED BY <1>2, <1>4, <1>5, <1>6, <1>7, <1>8, AnnouncementGoesOn

(* The owners of tagged projects, one project after another. *)
LEMMA OwnersKeep ==
  ASSUME AudienceInv, NEW o \in TellOps, projectOwners(o)
  PROVE  AudienceInv'
  <1>0. Announces(o) /\ TellerAt(o, "projects") /\ tellers[o].at = "projects" /\ UNCHANGED <<comment, subscribers, muters, seen, since, heard>>
    BY DEF projectOwners, Announces, TellerAt, Stages
  <1>1. AudienceTypes /\ tellers[o] \in Announced /\ heard' \in [Public -> Nat] /\ owned \in [Projects -> Nat]
    BY <1>0, TellersAre DEF AudienceInv, AudienceTypes
  <1>2. PICK S \in SUBSET Public : S = {}
    OBVIOUS
  <1>s. /\ S \cap tellers[o].told = {} /\ comment.author \notin S
        /\ S \subseteq tellers[o].list \cup {WallsOwner, comment.answered} \cup tellers[o].tags
        /\ \A q \in Public : heard'[q] = heard[q] \/ (q \in S /\ q # comment.author /\ heard'[q] = heard[q] + 1)
        /\ TellerAt(o, "mutes") \/ TellerAt(o, "projects") => S = {}
    BY <1>0, <1>2
  <1>u. UNCHANGED <<comment, subscribers, muters, seen, since>>
    BY <1>0
  <1>3. CASE tellers[o].projects = {}
    <2>1. PICK Q \in SUBSET Projects : Q = {}
      OBVIOUS
    <2>2. owned' \in [Projects -> Nat] /\ \A q \in Projects : owned'[q] = owned[q] \/ (q \in Q /\ owned'[q] = owned[q] + 1)
      BY <1>1, <1>3 DEF projectOwners
    <2>5. /\ Q \subseteq tellers[o].projects /\ (Q # {} => TellerAt(o, "projects"))
          /\ \A q \in Q : ProjectOwner[q] \notin tellers[o].told /\ ProjectOwner[q] # comment.author
      BY <2>1
    <2>3. CASE tellers[o].edit
      <3>1. Turn(o, NoTeller)
        BY <1>3, <2>3 DEF projectOwners
      <3>2. PICK op \in Announced \cup {NoTeller} : op = NoTeller
        OBVIOUS
      <3>3. Turn(o, op)
        BY <3>1, <3>2
      <3> QED BY <1>0, <1>1, <1>s, <1>u, <2>2, <2>5, <3>2, <3>3, AnnouncementGoesOn
    <2>4. CASE ~tellers[o].edit
      <3> DEFINE op == [tellers[o] EXCEPT !.at = "answered", !.told = @ \cup tellers[o].owners, !.owners = {}]
      <3>1. op \in Announced
        BY <1>1 DEF Announced, Stages
      <3>2. Turn(o, op) /\ op.at = "answered" /\ op.told = tellers[o].told \cup tellers[o].owners /\ op.owners = {}
            /\ op.list = tellers[o].list /\ op.tags = tellers[o].tags /\ op.projects = tellers[o].projects
            /\ op.edit = tellers[o].edit
        BY <1>1, <1>3, <2>4 DEF projectOwners, Announced
      <3> HIDE DEF op
      <3>3. /\ op.at # "mutes" /\ op.list = tellers[o].list /\ (op.edit => tellers[o].edit)
            /\ tellers[o].told \subseteq op.told /\ tellers[o].owners \subseteq op.told \cup op.owners
            /\ op.tags \subseteq tellers[o].tags /\ op.projects \subseteq tellers[o].projects \ Q
            /\ op.at # "projects" => op.owners = {}
            /\ TellerAt(o, "mutes") => muters \ tellers[o].tags \subseteq op.told
            /\ S \subseteq op.told /\ \A q \in Q : ProjectOwner[q] \in op.owners
        BY <1>0, <1>2, <2>1, <3>2 DEF TellerAt
      <3> QED BY <1>0, <1>1, <1>s, <1>u, <2>2, <2>5, <3>1, <3>2, <3>3, AnnouncementGoesOn
    <2> QED BY <2>3, <2>4
  <1>4. CASE tellers[o].projects # {}
    <2>1. PICK project \in tellers[o].projects :
            LET p == ProjectOwner[project]
                tells == p \notin tellers[o].told \cup shut /\ Reached(p) IN
            /\ owned' = [owned EXCEPT ![project] = IF tells THEN @ + 1 ELSE @]
            /\ Turn(o, [tellers[o] EXCEPT !.projects = @ \ {project}, !.owners = IF tells THEN @ \cup {p} ELSE @])
      BY <1>4 DEF projectOwners
    <2> DEFINE p == ProjectOwner[project]
               tells == p \notin tellers[o].told \cup shut /\ Reached(p)
    <2>2. project \in Projects /\ p \in Public
      BY <1>1, AudienceAssumption DEF Announced
    <2>3. PICK Q \in SUBSET Projects : Q = IF tells THEN {project} ELSE {}
      BY <2>2
    <2>4. PICK owners \in SUBSET Public : owners = IF tells THEN tellers[o].owners \cup {p} ELSE tellers[o].owners
      BY <1>1, <2>2 DEF Announced
    <2> DEFINE op == [tellers[o] EXCEPT !.projects = @ \ {project}, !.owners = owners]
    <2>5. op \in Announced
      BY <1>1, <2>4 DEF Announced
    <2>6. Turn(o, op)
      BY <2>1, <2>4
    <2>7. op.at = "projects" /\ op.told = tellers[o].told /\ op.owners = owners
          /\ op.list = tellers[o].list /\ op.tags = tellers[o].tags /\ op.projects = tellers[o].projects \ {project}
          /\ op.edit = tellers[o].edit
      BY <1>0, <1>1 DEF Announced
    <2>8. owned' \in [Projects -> Nat] /\ \A q \in Projects : owned'[q] = owned[q] \/ (q \in Q /\ owned'[q] = owned[q] + 1)
      BY <1>1, <2>1, <2>2, <2>3
    <2>9. /\ Q \subseteq tellers[o].projects /\ Q \subseteq {project}
          /\ \A q \in Q : ProjectOwner[q] \in owners /\ ProjectOwner[q] \notin tellers[o].told /\ ProjectOwner[q] # comment.author
      BY <2>3, <2>4 DEF Reached
    <2>10. tellers[o].owners \subseteq owners
      BY <2>4
    <2> HIDE DEF op, p, tells
    <2>11. /\ op.at # "mutes" /\ op.list = tellers[o].list /\ (op.edit => tellers[o].edit)
           /\ tellers[o].told \subseteq op.told /\ tellers[o].owners \subseteq op.told \cup op.owners
           /\ op.tags \subseteq tellers[o].tags /\ op.projects \subseteq tellers[o].projects \ Q
           /\ op.at # "projects" => op.owners = {}
           /\ TellerAt(o, "mutes") => muters \ tellers[o].tags \subseteq op.told
           /\ S \subseteq op.told /\ \A q \in Q : ProjectOwner[q] \in op.owners
      BY <1>0, <1>2, <2>7, <2>9, <2>10 DEF TellerAt
    <2>12. Q # {} => TellerAt(o, "projects")
      BY <1>0
    <2> QED BY <1>0, <1>1, <1>s, <1>u, <2>5, <2>6, <2>8, <2>9, <2>11, <2>12, AnnouncementGoesOn
  <1> QED BY <1>3, <1>4

LEMMA AnnouncingKeeps ==
  ASSUME AudienceInv, NEW o \in TellOps,
         mutes(o) \/ mentions(o) \/ tellsOne(o) \/ tellsSubscribers(o)
  PROVE  AudienceInv'
  <1>0. Announces(o) /\ ~TellerAt(o, "projects") /\ UNCHANGED <<comment, subscribers, muters, seen, since, owned>>
    BY DEF mutes, mentions, tellsOne, tellsSubscribers, Announces, TellerAt, Stages
  <1>1. AudienceTypes /\ tellers[o] \in Announced /\ heard \in [Public -> Nat]
    BY <1>0, TellersAre DEF AudienceInv, AudienceTypes
  <1>2. Posted /\ comment \in Text
    BY <1>0 DEF AudienceInv, AudienceTypes, OneCreates, Announces, Stages, Posted
  <1>3. CASE mutes(o)
    <2> DEFINE op == [tellers[o] EXCEPT !.at = "mentions", !.told = @ \cup (muters \ tellers[o].tags)]
    <2>1. op \in Announced
      BY <1>1 DEF Announced, Stages, AudienceTypes
    <2>2. Turn(o, op) /\ heard' = heard /\ op.at = "mentions" /\ op.told = tellers[o].told \cup (muters \ tellers[o].tags)
          /\ op.list = tellers[o].list /\ op.tags = tellers[o].tags /\ op.projects = tellers[o].projects
          /\ op.edit = tellers[o].edit /\ op.owners = tellers[o].owners
      BY <1>1, <1>3 DEF mutes, Announced
    <2>3. PICK S \in SUBSET Public : S = {}
      OBVIOUS
    <2>4. op # NoTeller
      BY <2>2 DEF NoTeller
    <2> HIDE DEF op
    <2> QED BY <1>0, <1>1, <2>1, <2>2, <2>3, <2>4, AnnouncementTells
  <1>4. CASE mentions(o)
    <2>0. tellers[o].at = "mentions"
      BY <1>4 DEF mentions, TellerAt
    <2>1. CASE tellers[o].tags = {}
      <3> DEFINE op == [tellers[o] EXCEPT !.at = "projects"]
      <3>1. op \in Announced
        BY <1>1 DEF Announced, Stages
      <3>2. Turn(o, op) /\ heard' = heard /\ op.at = "projects" /\ op.told = tellers[o].told
            /\ op.list = tellers[o].list /\ op.tags = tellers[o].tags /\ op.projects = tellers[o].projects
            /\ op.edit = tellers[o].edit /\ op.owners = tellers[o].owners
        BY <1>1, <1>4, <2>1 DEF mentions, Announced, Step
      <3>3. PICK S \in SUBSET Public : S = {}
        OBVIOUS
      <3> HIDE DEF op
      <3> QED BY <1>0, <1>1, <2>0, <3>1, <3>2, <3>3, AnnouncementTells DEF TellerAt
    <2>2. CASE tellers[o].tags # {}
      <3>1. PICK p \in tellers[o].tags :
              LET tells == p \notin tellers[o].told /\ p \notin shut /\ Mentionable(p) IN
              /\ heard' = [heard EXCEPT ![p] = IF tells THEN @ + 1 ELSE @]
              /\ Turn(o, [tellers[o] EXCEPT !.tags = @ \ {p}, !.told = IF tells \/ p \in shut THEN @ \cup {p} ELSE @])
        BY <1>4, <2>2 DEF mentions
      <3> DEFINE tells == p \notin tellers[o].told /\ p \notin shut /\ Mentionable(p)
                 op == [tellers[o] EXCEPT !.tags = @ \ {p}, !.told = IF tells \/ p \in shut THEN @ \cup {p} ELSE @]
      <3>2. p \in Public
        BY <1>1 DEF Announced
      <3>3. op \in Announced
        BY <1>1, <3>2 DEF Announced
      <3>4. Turn(o, op) /\ op.at = "mentions" /\ tellers[o].told \subseteq op.told /\ (tells => p \in op.told)
            /\ op.list = tellers[o].list /\ op.tags \subseteq tellers[o].tags /\ op.projects = tellers[o].projects
            /\ op.edit = tellers[o].edit /\ op.owners = tellers[o].owners
        BY <1>1, <2>0, <3>1 DEF Announced
      <3>5. PICK S \in SUBSET Public : S = IF tells THEN {p} ELSE {}
        BY <3>2
      <3>6. /\ heard' \in [Public -> Nat]
            /\ \A q \in Public : heard'[q] = heard[q] \/ (q \in S /\ Reached(q) /\ heard'[q] = heard[q] + 1)
        BY <1>1, <3>1, <3>2, <3>5 DEF Mentionable
      <3>7. S \cap tellers[o].told = {} /\ S \subseteq op.told /\ S \subseteq tellers[o].tags
        BY <3>4, <3>5
      <3> HIDE DEF op, tells
      <3> QED BY <1>0, <1>1, <2>0, <3>3, <3>4, <3>6, <3>7, AnnouncementTells DEF TellerAt
    <2> QED BY <2>1, <2>2
  <1>6. CASE tellsOne(o)
    <2>1. PICK one : one = {One(tellers[o])} \cap Public
      OBVIOUS
    <2>2. PICK at \in {"owner", "subscribers"} : at = AfterOne(tellers[o])
      BY DEF AfterOne
    <2> DEFINE op == [tellers[o] EXCEPT !.at = at, !.told = @ \cup one]
    <2>3. op \in Announced
      BY <1>1, <2>1 DEF Announced, Stages
    <2>4. Turn(o, op) /\ TellEach(one \ tellers[o].told) /\ op.at = at /\ op.told = tellers[o].told \cup one
          /\ op.list = tellers[o].list /\ op.tags = tellers[o].tags /\ op.projects = tellers[o].projects
          /\ op.edit = tellers[o].edit /\ op.owners = tellers[o].owners
          /\ tellers[o].at \in {"answered", "owner"}
      BY <1>1, <1>6, <2>1, <2>2 DEF Announced, tellsOne
    <2>5. one \subseteq {WallsOwner, comment.answered}
      BY <2>1 DEF One
    <2>6. PICK S \in SUBSET Public : S = one \ tellers[o].told
      BY <2>1
    <2>7. /\ heard' \in [Public -> Nat]
          /\ \A q \in Public : heard'[q] = heard[q] \/ (q \in S /\ Reached(q) /\ heard'[q] = heard[q] + 1)
      BY <1>1, <2>4, <2>6, TellEachTells
    <2> HIDE DEF op
    <2> QED BY <1>0, <1>1, <2>3, <2>4, <2>5, <2>6, <2>7, AnnouncementTells DEF TellerAt
  <1>7. CASE tellsSubscribers(o)
    <2>1. PICK S \in SUBSET Public : S = tellers[o].list \ tellers[o].told
      BY <1>1 DEF Announced
    <2>2. Turn(o, NoTeller) /\ TellEach(S) /\ tellers[o].at = "subscribers"
      BY <1>7, <2>1 DEF tellsSubscribers, TellerAt
    <2>3. /\ heard' \in [Public -> Nat]
          /\ \A q \in Public : heard'[q] = heard[q] \/ (q \in S /\ Reached(q) /\ heard'[q] = heard[q] + 1)
      BY <1>1, <2>2, TellEachTells
    <2> QED BY <1>0, <1>1, <2>1, <2>2, <2>3, AnnouncementTells DEF TellerAt
  <1> QED BY <1>3, <1>4, <1>6, <1>7

(* A step that tells nobody, in a handler that announces nothing after it. *)
LEMMA QuietStepKeeps ==
  ASSUME AudienceInv, NEW o \in TellOps, NEW op \in Creating \cup Approving \cup Editing, Turn(o, op),
         UNCHANGED <<comment, muters, seen, since, heard, owned>>, subscribers' \subseteq Public,
         ~Announces(o), ~Relists(o), op.at \in {"create", "listen", "approve", "edit"},
         op.at = "create" => ~Posted /\ \A q \in TellOps : tellers[q] = NoTeller,
         op.at = "listen" => TellerAt(o, "subscribe") /\ op.held = tellers[o].held,
         op.at = "approve" => Posted /\ comment.status = "pending",
         op.at = "edit" => Posted /\ tellers[o] = NoTeller
  PROVE  AudienceInv'
  <1>1. /\ tellers' \in [TellOps -> {NoTeller} \cup Creating \cup Announced \cup Approving \cup Editing]
        /\ tellers'[o] = op /\ \A q \in TellOps \ {o} : tellers'[q] = tellers[q]
    BY TurnTurns DEF AudienceInv
  <1>2. AudienceTypes'
    BY <1>1 DEF AudienceInv, AudienceTypes
  <1>h. Unheard' = Unheard /\ \A p \in Public : Hears(p)' = Hears(p)
    BY DEF Unheard, Hears
  <1>t. (Announces(o)' <=> FALSE) /\ \A q \in TellOps : (Announces(q)' <=> Announces(q)) /\ (Announces(q) => tellers'[q] = tellers[q])
    BY <1>1 DEF Announces, Stages
  <1>3. OneCreates'
    <2>1. CASE Posted
      <3>1. Posted' /\ op.at # "create"
        BY <2>1 DEF Posted
      <3>2. op.at # "added"
        OBVIOUS
      <3>3. ~Hears(comment.author)'
        BY <2>1 DEF AudienceInv, OneCreates, Hears
      <3>4. \A q \in TellOps : Announces(q)' => Owing(q)'
        BY <1>t DEF AudienceInv, OneCreates, Owing
      <3> QED BY <1>1, <2>1, <3>1, <3>2, <3>3, <3>4 DEF AudienceInv, OneCreates, TellerAt
    <2>2. CASE ~Posted
      <3>1. op.at = "create" /\ ~Posted'
        BY <2>2 DEF Posted, AudienceInv, OneCreates, TellerAt
      <3>2. \A q \in TellOps \ {o} : tellers'[q].at = "free"
        BY <1>1, <3>1 DEF NoTeller
      <3>3. Unheard' /\ \A q \in TellOps : ~Announces(q)'
        BY <1>1, <1>h, <2>2, <3>1, <3>2 DEF AudienceInv, OneCreates, Announces, Stages
      <3> QED BY <1>1, <2>2, <3>1, <3>2, <3>3 DEF AudienceInv, OneCreates, TellerAt
    <2> QED BY <2>1, <2>2
  <1>4. ASSUME ~seen'.edited PROVE Unedited'
    <2>0. Unedited
      BY <1>4 DEF AudienceInv
    <2>1. \A q \in TellOps : (Announces(q)' <=> Announces(q)) /\ (Relists(q)' <=> Relists(q))
      BY <1>1 DEF Announces, Relists, TellerAt, Stages
    <2>a. \A q \in TellOps : Announces(q) => tellers'[q] = tellers[q]
      BY <1>1
    <2>2. StatusSeen'
      BY <2>0, <2>1 DEF Unedited, StatusSeen, Posted
    <2>3. Creations'
      <3>1. ASSUME NEW q \in TellOps, Creator(q)' PROVE Creator(q) /\ tellers'[q].held = tellers[q].held
        BY <1>1, <3>1 DEF Creator, TellerAt
      <3>2. ASSUME NEW q \in TellOps, Creator(q)', ~tellers'[q].held
            PROVE  \A r \in TellOps \ {q} : tellers'[r].at \in {"free", "edit"}
        <4>1. Creator(q) /\ ~tellers[q].held /\ comment.status = "visible" /\ Posted
          BY <2>0, <3>1, <3>2 DEF Unedited, Creations, Creator, AudienceInv, OneCreates
        <4>2. q # o => op.at \in {"edit"}
          BY <4>1, <2>0 DEF Unedited, Creations, TellerAt
        <4> QED BY <1>1, <4>1, <4>2, <2>0 DEF Unedited, Creations
      <3>3. ASSUME NEW q \in TellOps, Creator(q)', tellers'[q].held
            PROVE  ~Hears(WallsOwner)' /\ \A r \in TellOps : Announces(r)' => WallsOwner \in tellers'[r].told
        BY <1>h, <2>0, <2>1, <2>a, <3>1, <3>3, AudienceAssumption DEF Unedited, Creations
      <3>4. ASSUME NEW q \in TellOps, Creator(q)', ~tellers'[q].held
            PROVE  comment.status = "visible" /\ Unheard'
        BY <1>h, <2>0, <3>1, <3>4 DEF Unedited, Creations
      <3> QED BY <3>2, <3>3, <3>4 DEF Creations
    <2>4. Announcements'
      BY <2>0, <2>1, <2>a DEF Unedited, Announcements, TellerAt
    <2>5. MutedEarlier'
      BY <2>0 DEF Unedited, MutedEarlier, Posted, Hears
    <2>6. LateHears'
      <3>1. ASSUME since.late # {}, BeforeList' PROVE FALSE
        <4>1. Posted /\ comment.status = "visible" /\ ~BeforeList
          BY <2>0, <3>1 DEF Unedited, LateHears, AudienceInv, OneCreates
        <4>2. op.at = "edit"
          BY <4>1 DEF BeforeList, TellerAt
        <4> QED BY <1>1, <3>1, <4>1, <4>2 DEF BeforeList
      <3> QED BY <2>0, <3>1 DEF Unedited, LateHears, Hears, Tagged
    <2>7. ToldOnce'
      BY <2>0, <2>1, <2>a DEF Unedited, ToldOnce
    <2> QED BY <2>2, <2>3, <2>4, <2>5, <2>6, <2>7 DEF Unedited
  <1> QED BY <1>2, <1>3, <1>4 DEF AudienceInv

(* addComment, the author's subscription, and where a handler begins. *)
LEMMA BeginningsKeep ==
  ASSUME AudienceInv, NEW o \in TellOps,
         \/ \E tags \in SUBSET Public, projects \in SUBSET Projects : Comments(o, tags, projects)
         \/ subscribes(o) \/ approve(o)
         \/ \E tags \in SUBSET Public, projects \in SUBSET Projects, held \in BOOLEAN : editComment(o, tags, projects, held)
  PROVE  AudienceInv'
  <1>0. AudienceTypes
    BY DEF AudienceInv
  <1>1. ASSUME NEW tags \in SUBSET Public, NEW projects \in SUBSET Projects, Comments(o, tags, projects) PROVE AudienceInv'
    <2>1. PICK a \in Commenters, answered \in {Unanswered} \cup Public, held \in BOOLEAN :
            addComment(o, a, answered, tags, projects, held)
      BY <1>1 DEF Comments
    <2> DEFINE op == [at |-> "create", author |-> a, answered |-> answered, tags |-> tags,
                      projects |-> projects, held |-> held]
    <2>2. op \in Creating /\ op.at = "create"
      BY <1>1 DEF Creating
    <2>3. Turn(o, op) /\ UNCHANGED <<comment, subscribers, muters, seen, since, heard, owned>> /\ ~Posted
          /\ (\A q \in TellOps : tellers[q] = NoTeller) /\ tellers[o].at = "free"
      BY <2>1 DEF addComment, NoTeller
    <2> HIDE DEF op
    <2> QED BY <1>0, <2>2, <2>3, QuietStepKeeps DEF AudienceTypes, Announces, Relists, TellerAt, Stages
  <1>2. CASE subscribes(o)
    <2> DEFINE op == [tellers[o] EXCEPT !.at = "listen"]
    <2>1. tellers[o] \in Creating /\ tellers[o].at = "subscribe"
      BY <1>0, <1>2, TellersAre DEF subscribes, TellerAt
    <2>2. op \in Creating /\ op.at = "listen" /\ op.held = tellers[o].held
      BY <2>1 DEF Creating
    <2>3. Turn(o, op) /\ UNCHANGED <<comment, muters, seen, since, heard, owned>>
      BY <1>2 DEF subscribes, Step
    <2>4. comment.author \in Public
      BY <2>1, AudienceAssumption DEF AudienceInv, AudienceTypes, OneCreates, Posted, Text
    <2>5. subscribers' \subseteq Public
      BY <1>0, <1>2, <2>4 DEF subscribes, AudienceTypes
    <2> HIDE DEF op
    <2> QED BY <2>1, <2>2, <2>3, <2>5, QuietStepKeeps DEF Announces, Relists, TellerAt, Stages
  <1>3. CASE approve(o)
    <2> DEFINE op == [at |-> "approve"]
    <2>1. op \in Approving /\ op.at = "approve"
      BY DEF Approving
    <2>2. Turn(o, op) /\ UNCHANGED <<comment, subscribers, muters, seen, since, heard, owned>> /\ Posted
          /\ comment.status = "pending" /\ tellers[o].at = "free"
      BY <1>3 DEF approve, NoTeller
    <2> HIDE DEF op
    <2> QED BY <1>0, <2>1, <2>2, QuietStepKeeps DEF AudienceTypes, Announces, Relists, TellerAt, Stages
  <1>4. ASSUME NEW tags \in SUBSET Public, NEW projects \in SUBSET Projects, NEW held \in BOOLEAN, editComment(o, tags, projects, held)
        PROVE  AudienceInv'
    <2> DEFINE op == [at |-> "edit", tags |-> tags, projects |-> projects, held |-> held,
                      added |-> tags \ comment.tags, addedProjects |-> projects \ comment.projects]
    <2>1. op \in Editing /\ op.at = "edit"
      BY DEF Editing
    <2>2. Turn(o, op) /\ UNCHANGED <<comment, subscribers, muters, seen, since, heard, owned>> /\ Posted
          /\ tellers[o] = NoTeller /\ tellers[o].at = "free"
      BY <1>4 DEF editComment, NoTeller
    <2> HIDE DEF op
    <2> QED BY <1>0, <2>1, <2>2, QuietStepKeeps DEF AudienceTypes, Announces, Relists, TellerAt, Stages
  <1> QED BY <1>1, <1>2, <1>3, <1>4

(* The comment is created while nobody else is at work. *)
LEMMA CreateKeeps ==
  ASSUME AudienceInv, NEW o \in TellOps, createText(o)
  PROVE  AudienceInv'
  <1> DEFINE op == tellers[o]
             new == [op EXCEPT !.at = "subscribe"]
             status == IF op.held THEN "pending" ELSE "visible"
  <1>1. op \in Creating /\ op.at = "create"
    BY TellersAre DEF createText, TellerAt, AudienceInv
  <1>2. new \in Creating /\ new.at = "subscribe" /\ new.held = op.held
    BY <1>1 DEF Creating
  <1>3. Turn(o, new)
    BY DEF createText, Step
  <1>4. /\ tellers' \in [TellOps -> {NoTeller} \cup Creating \cup Announced \cup Approving \cup Editing]
        /\ tellers'[o] = new /\ \A q \in TellOps \ {o} : tellers'[q] = tellers[q]
    BY <1>2, <1>3, TurnTurns DEF AudienceInv
  <1>5. ~Posted /\ \A q \in TellOps \ {o} : tellers[q].at = "free"
    BY <1>1 DEF AudienceInv, OneCreates
  <1>6. PICK v \in BOOLEAN : v = ~op.held
    BY <1>1 DEF Creating
  <1>7. /\ comment' \in Text /\ comment'.status = status /\ comment'.author \in Commenters
        /\ seen' = [seen EXCEPT !.visible = v] /\ since' = [since EXCEPT !.muted = muters]
        /\ UNCHANGED <<subscribers, muters, heard, owned>>
    BY <1>1, <1>6 DEF createText, Creating, Text
  <1> HIDE DEF new
  <1>8. Posted'
    BY <1>7 DEF Posted, Text, NoText
  <1>9. seen'.visible = v /\ seen'.edited = seen.edited /\ since'.late = since.late /\ since'.muted = muters
        /\ seen' \in [visible : BOOLEAN, edited : BOOLEAN, twice : BOOLEAN] /\ since' \in [late : SUBSET Public, muted : SUBSET Public]
    BY <1>7 DEF AudienceInv, AudienceTypes
  <1>10. AudienceTypes'
    BY <1>4, <1>7, <1>9 DEF AudienceInv, AudienceTypes
  <1>11. since'.late = {} /\ ~seen'.edited /\ Unheard' /\ \A p \in Public : ~Hears(p)'
    BY <1>5, <1>7, <1>9 DEF AudienceInv, OneCreates, Unheard, Hears
  <1>13. \A q \in TellOps : ~Announces(q)' /\ ~Relists(q)' /\ (Creator(q)' => q = o)
    BY <1>2, <1>4, <1>5 DEF Announces, Relists, Creator, TellerAt, Stages
  <1>12. OneCreates'
    BY <1>2, <1>4, <1>5, <1>7, <1>8, <1>11, <1>13, AudienceAssumption DEF OneCreates, TellerAt
  <1>14. StatusSeen'
    BY <1>6, <1>7, <1>9, <1>11, <1>13 DEF StatusSeen, Unheard
  <1>15. Creations'
    BY <1>2, <1>4, <1>5, <1>7, <1>11, <1>13, AudienceAssumption DEF Creations
  <1>16. Announcements' /\ LateHears'
    BY <1>7, <1>9, <1>11, <1>13 DEF Announcements, LateHears
  <1>17. MutedEarlier'
    BY <1>7, <1>9, <1>10, <1>11 DEF MutedEarlier, AudienceTypes
  <1>18. ToldOnce'
    BY <1>11, <1>13, AudienceAssumption DEF ToldOnce, Unheard
  <1> QED BY <1>10, <1>12, <1>14, <1>15, <1>16, <1>17, <1>18 DEF AudienceInv, Unedited

(* An announcement begins, by whoever was alone to make it. *)
LEMMA AnnouncementBegins ==
  ASSUME AudienceInv, NEW o \in TellOps, NEW skip \in SUBSET {WallsOwner}, Turn(o, Announcement(skip)),
         UNCHANGED <<comment, subscribers, muters, seen, since, heard, owned>>,
         \/ TellerAt(o, "listen") /\ ~tellers[o].held /\ skip = {}
         \/ TellerAt(o, "list") /\ skip = {WallsOwner}
  PROVE  AudienceInv'
  <1>1. Posted /\ comment \in Text /\ comment.author \in Public
    BY AudienceAssumption DEF AudienceInv, AudienceTypes, OneCreates, Posted, Text, TellerAt
  <1> DEFINE op == Announcement(skip)
  <1>2. op \in Announced /\ op.at \in {"mutes", "mentions"} /\ op.told = {comment.author} \cup skip /\ op.list = subscribers
        /\ op.tags = comment.tags /\ op.projects = comment.projects /\ op.owners = {} /\ ~op.edit
        /\ (op.at = "mentions" => comment.answered = Unanswered)
    BY <1>1, AudienceAssumption DEF Announcement, Announced, Stages, Text, AudienceInv, AudienceTypes
  <1>3. /\ tellers' \in [TellOps -> {NoTeller} \cup Creating \cup Announced \cup Approving \cup Editing]
        /\ tellers'[o] = op /\ \A q \in TellOps \ {o} : tellers'[q] = tellers[q]
    BY <1>2, TurnTurns DEF AudienceInv
  <1> HIDE DEF op
  <1>4. AudienceTypes'
    BY <1>3 DEF AudienceInv, AudienceTypes
  <1>h. Unheard' = Unheard /\ \A p \in Public : Hears(p)' = Hears(p)
    BY DEF Unheard, Hears
  <1>5. OneCreates'
    <2>1. \A q \in TellOps : Announces(q)' => Owing(q)'
      BY <1>2, <1>3 DEF AudienceInv, OneCreates, Announces, Owing
    <2>2. ~Hears(comment.author)'
      BY <1>1 DEF AudienceInv, OneCreates, Hears
    <2> QED BY <1>1, <1>2, <1>3, <1>h, <2>1, <2>2 DEF AudienceInv, OneCreates, TellerAt, Posted
  <1>6. ASSUME ~seen'.edited PROVE Unedited'
    <2>0. Unedited
      BY <1>6 DEF AudienceInv
    <2>1. Announces(o)' /\ ~Relists(o)' /\ ~Creator(o)'
          /\ \A q \in TellOps \ {o} : (Announces(q)' <=> Announces(q)) /\ (Relists(q)' <=> Relists(q)) /\ (Creator(q)' <=> Creator(q))
      BY <1>2, <1>3 DEF Announces, Relists, Creator, TellerAt, Stages
    <2>2. comment.status = "visible"
      BY <2>0 DEF Unedited, StatusSeen, Creations, Creator, Relists, TellerAt
    <2>3. StatusSeen'
      BY <2>0, <2>1, <2>2 DEF Unedited, StatusSeen, Posted
    <2>4. Creations'
      <3>1. ASSUME NEW q \in TellOps, Creator(q)'
            PROVE  /\ q # o /\ Creator(q) /\ tellers'[q] = tellers[q] /\ TellerAt(o, "list") /\ tellers[q].held
                   /\ WallsOwner \in op.told
        <4>1. q # o /\ Creator(q) /\ tellers'[q] = tellers[q]
          BY <2>1, <1>3, <3>1
        <4>2. TellerAt(o, "list")
          BY <4>1 DEF AudienceInv, OneCreates, Creator, TellerAt
        <4>3. tellers[q].held
          BY <2>0, <4>1, <4>2 DEF Unedited, Creations, TellerAt
        <4> QED BY <1>2, <4>1, <4>2, <4>3 DEF TellerAt
      <3> QED BY <1>3, <1>h, <2>0, <2>1, <3>1, AudienceAssumption DEF Unedited, Creations
    <2>5. Announcements'
      <3>1. since.late = {}
        BY <2>0 DEF Unedited, LateHears, BeforeList, TellerAt
      <3> QED BY <1>2, <1>3, <2>0, <2>1, <3>1 DEF Unedited, Announcements, TellerAt
    <2>6. MutedEarlier'
      BY <2>0 DEF Unedited, MutedEarlier, Posted, Hears
    <2>7. LateHears'
      <3>1. since.late = {}
        BY <2>0 DEF Unedited, LateHears, BeforeList, TellerAt
      <3> QED BY <3>1 DEF LateHears
    <2>8. ToldOnce'
      <3> SUFFICES ASSUME ~seen.twice PROVE ToldOnce'
        BY DEF ToldOnce
      <3>1. \A q \in TellOps \ {o} : ~Announces(q) /\ ~Relists(q)
        <4>1. CASE TellerAt(o, "list")
          BY <2>0, <4>1 DEF Unedited, ToldOnce, Relists
        <4>2. CASE ~TellerAt(o, "list")
          BY <2>0, <4>2 DEF Unedited, Creations, Creator, TellerAt, Announces, Relists, Stages
        <4> QED BY <4>1, <4>2
      <3>2. \A p \in Public : heard[p] > 0 => p \in op.told
        <4>1. CASE TellerAt(o, "list")
          BY <1>2, <2>0, <4>1 DEF Unedited, ToldOnce, Relists, TellerAt
        <4>2. CASE ~TellerAt(o, "list")
          BY <2>0, <4>2 DEF Unedited, Creations, Creator, TellerAt, Unheard
        <4> QED BY <4>1, <4>2
      <3>3. \A project \in Projects : owned[project] = 0
        <4>1. CASE TellerAt(o, "list")
          BY <2>0, <4>1 DEF Unedited, ToldOnce, Relists, TellerAt, AudienceInv, AudienceTypes
        <4>2. CASE ~TellerAt(o, "list")
          BY <2>0, <4>2 DEF Unedited, Creations, Creator, TellerAt, Unheard
        <4> QED BY <4>1, <4>2
      <3> QED BY <1>3, <2>0, <2>1, <3>1, <3>2, <3>3 DEF Unedited, ToldOnce
    <2> QED BY <2>3, <2>4, <2>5, <2>6, <2>7, <2>8 DEF Unedited
  <1> QED BY <1>4, <1>5, <1>6 DEF AudienceInv

LEMMA ListenKeeps ==
  ASSUME AudienceInv, NEW o \in TellOps, listen(o)
  PROVE  AudienceInv'
  <1>0. AudienceTypes /\ heard \in [Public -> Nat] /\ owned \in [Projects -> Nat]
    BY DEF AudienceInv, AudienceTypes
  <1>1. tellers[o] \in Creating /\ tellers[o].at = "listen"
    BY <1>0, TellersAre DEF listen, TellerAt
  <1>2. CASE ~tellers[o].held
    BY <1>1, <1>2, AnnouncementBegins DEF listen, TellerAt
  <1>3. CASE tellers[o].held
    <2>1. TellEach({WallsOwner}) /\ Turn(o, NoTeller) /\ UNCHANGED <<comment, subscribers, muters, seen, since, owned>>
      BY <1>3 DEF listen
    <2>2. /\ tellers' \in [TellOps -> {NoTeller} \cup Creating \cup Announced \cup Approving \cup Editing]
          /\ tellers'[o] = NoTeller /\ \A q \in TellOps \ {o} : tellers'[q] = tellers[q]
      BY <1>0, <2>1, TurnTurns
    <2>3. /\ heard' \in [Public -> Nat]
          /\ \A p \in Public : heard'[p] = heard[p] \/ (p = WallsOwner /\ p # comment.author /\ heard'[p] = heard[p] + 1)
      BY <1>0, <2>1, TellEachTells DEF Reached
    <2>4. Posted /\ comment.author \in Public
      BY <1>0, <1>1, AudienceAssumption DEF AudienceInv, AudienceTypes, OneCreates, Posted, Text
    <2>5. tellers'[o].at = "free"
      BY <2>2 DEF NoTeller
    <2>h. \A p \in Public : (p # WallsOwner \/ p = comment.author) => Hears(p)' = Hears(p)
      BY <2>1, <2>3 DEF Hears
    <2>6. AudienceTypes'
      BY <1>0, <2>1, <2>2, <2>3 DEF AudienceTypes
    <2>7. OneCreates'
      <3>1. ~Hears(comment.author)'
        BY <2>1, <2>4, <2>h DEF AudienceInv, OneCreates
      <3>2. \A q \in TellOps : Announces(q)' => Owing(q)'
        <4>1. \A q \in TellOps : Announces(q)' => Announces(q) /\ tellers'[q] = tellers[q]
          BY <2>2, <2>5 DEF Announces, Stages
        <4> QED BY <2>1, <4>1 DEF AudienceInv, OneCreates, Owing
      <3> QED BY <2>1, <2>2, <2>4, <2>5, <3>1, <3>2 DEF AudienceInv, OneCreates, TellerAt, Posted
    <2>8. ASSUME ~seen'.edited PROVE Unedited'
      <3>0. Unedited
        BY <2>1, <2>8 DEF AudienceInv
      <3>1. \A q \in TellOps : /\ Announces(q)' <=> Announces(q)
                               /\ Relists(q)' <=> Relists(q)
                               /\ Creator(q)' <=> (Creator(q) /\ q # o)
        BY <1>1, <2>2, <2>5 DEF Announces, Relists, Creator, TellerAt, Stages
      <3>2. \A q \in TellOps : q # o => ~Creator(q)
        BY <1>1 DEF AudienceInv, OneCreates, Creator
      <3>3. ~Hears(WallsOwner) /\ \A q \in TellOps : Announces(q) => WallsOwner \in tellers[q].told
        BY <1>1, <1>3, <3>0 DEF Unedited, Creations, Creator
      <3>4. \A q \in TellOps : Announces(q) => tellers'[q] = tellers[q]
        BY <1>1, <2>2 DEF Announces, Stages
      <3>5. StatusSeen'
        BY <1>0, <2>1, <2>3, <3>0, <3>1 DEF Unedited, StatusSeen, Posted
      <3>6. Creations'
        BY <3>1, <3>2 DEF Creations
      <3>7. Announcements'
        BY <2>1, <3>0, <3>1, <3>4 DEF Unedited, Announcements, TellerAt
      <3>8. MutedEarlier'
        BY <1>0, <2>1, <2>h, <3>0 DEF Unedited, MutedEarlier, Posted, AudienceTypes
      <3>9. LateHears'
        <4>1. BeforeList' => BeforeList
          BY <2>2, <2>5 DEF BeforeList
        <4> QED BY <1>0, <2>1, <2>h, <3>0, <4>1 DEF Unedited, LateHears, Tagged, AudienceTypes
      <3>10. ToldOnce'
        <4>1. heard[WallsOwner] = 0 /\ \A project \in Projects : owned[project] > 0 => ProjectOwner[project] # WallsOwner
          BY <1>0, <3>3, AudienceAssumption DEF Hears
        <4>2. \A project \in Projects : ProjectOwner[project] \in Public
          BY AudienceAssumption
        <4>3. \A project \in Projects : owned[project] > 0 => heard'[ProjectOwner[project]] = heard[ProjectOwner[project]]
          BY <2>3, <4>1, <4>2
        <4>4. \A p \in Public : heard'[p] = heard[p] \/ (p = WallsOwner /\ heard'[p] = 1)
          BY <2>3, <4>1
        <4> SUFFICES ASSUME ~seen.twice PROVE ToldOnce'
          BY <2>1 DEF ToldOnce
        <4>5. /\ \A p \in Public : heard'[p] <= 1
              /\ \A project \in Projects : owned'[project] <= 1 /\ (owned'[project] > 0 => heard'[ProjectOwner[project]] = 0)
          BY <2>1, <3>0, <4>3, <4>4 DEF Unedited, ToldOnce
        <4>6. \A q \in TellOps, p \in Public : heard'[p] > 0 =>
                /\ Relists(q)' => p = WallsOwner
                /\ Announces(q)' => p \in tellers'[q].told
          BY <3>0, <3>1, <3>3, <3>4, <4>4 DEF Unedited, ToldOnce
        <4>7. \A q, r \in TellOps : (Announces(q)' \/ Relists(q)') /\ (Announces(r)' \/ Relists(r)') => q = r
          BY <3>0, <3>1 DEF Unedited, ToldOnce
        <4>8. \A q \in TellOps, project \in Projects : owned'[project] > 0 =>
                /\ ~Relists(q)'
                /\ Announces(q)' => project \notin tellers'[q].projects /\ ProjectOwner[project] \in tellers'[q].told \cup tellers'[q].owners
          BY <2>1, <3>0, <3>1, <3>4 DEF Unedited, ToldOnce
        <4> QED BY <4>5, <4>6, <4>7, <4>8 DEF ToldOnce
      <3> QED BY <3>5, <3>6, <3>7, <3>8, <3>9, <3>10 DEF Unedited
    <2> QED BY <2>6, <2>7, <2>8 DEF AudienceInv
  <1> QED BY <1>2, <1>3

(* An approval that meets a comment approved already is seen to. *)
LEMMA ApprovesKeeps ==
  ASSUME AudienceInv, NEW o \in TellOps, approves(o)
  PROVE  AudienceInv'
  <1>0. AudienceTypes
    BY DEF AudienceInv
  <1>1. tellers[o] \in Approving /\ tellers[o].at = "approve"
    BY <1>0, TellersAre DEF approves, TellerAt
  <1> DEFINE op == [tellers[o] EXCEPT !.at = "list"]
  <1>2. op \in Approving /\ op.at = "list"
    BY <1>1 DEF Approving
  <1>3. Turn(o, op)
    BY DEF approves, Step
  <1>4. /\ tellers' \in [TellOps -> {NoTeller} \cup Creating \cup Announced \cup Approving \cup Editing]
        /\ tellers'[o] = op /\ \A q \in TellOps \ {o} : tellers'[q] = tellers[q]
    BY <1>0, <1>2, <1>3, TurnTurns
  <1> HIDE DEF op
  <1>5. Posted /\ comment \in Text /\ seen \in [visible : BOOLEAN, edited : BOOLEAN, twice : BOOLEAN]
    BY <1>0, <1>1 DEF AudienceInv, AudienceTypes, OneCreates, Posted
  <1>6. /\ comment' \in Text /\ comment'.status = "visible" /\ comment'.author = comment.author
        /\ comment'.answered = comment.answered /\ comment'.tags = comment.tags /\ comment'.projects = comment.projects
    BY <1>5 DEF approves, Text
  <1>7. PICK twice \in BOOLEAN : twice = (seen.twice \/ comment.status = "visible")
    OBVIOUS
  <1>8. seen' = [seen EXCEPT !.visible = TRUE, !.twice = twice]
    BY <1>7 DEF approves
  <1>9. seen'.visible /\ seen'.edited = seen.edited /\ seen'.twice = twice
        /\ seen' \in [visible : BOOLEAN, edited : BOOLEAN, twice : BOOLEAN]
    BY <1>5, <1>8
  <1>10. UNCHANGED <<subscribers, muters, heard, owned, since>>
    BY DEF approves
  <1>11. AudienceTypes'
    BY <1>0, <1>4, <1>6, <1>9, <1>10 DEF AudienceTypes
  <1>h. Unheard' = Unheard /\ (\A p : Hears(p)' = Hears(p)) /\ \A p : Tagged(p)' = Tagged(p)
    BY <1>6, <1>10 DEF Unheard, Hears, Tagged
  <1>12. OneCreates'
    <2>1. Posted'
      BY <1>6 DEF Posted, Text, NoText
    <2>2. ~Hears(comment.author)'
      BY <1>5, <1>6, <1>10 DEF AudienceInv, OneCreates, Hears
    <2>3. \A q \in TellOps : Announces(q)' => Owing(q)'
      <3>1. \A q \in TellOps : Announces(q)' => Announces(q) /\ tellers'[q] = tellers[q]
        BY <1>2, <1>4 DEF Announces, Stages
      <3> QED BY <1>9, <3>1 DEF AudienceInv, OneCreates, Owing
    <2> QED BY <1>2, <1>4, <1>5, <1>6, <1>9, <1>10, <2>1, <2>2, <2>3 DEF AudienceInv, OneCreates, TellerAt
  <1>13. ASSUME ~seen'.edited PROVE Unedited'
    <2>0. Unedited
      BY <1>9, <1>13 DEF AudienceInv
    <2>1. \A q \in TellOps : /\ Announces(q)' <=> Announces(q)
                             /\ Relists(q)' <=> (Relists(q) \/ q = o)
                             /\ Creator(q)' <=> Creator(q)
      BY <1>1, <1>2, <1>4 DEF Announces, Relists, Creator, TellerAt, Stages
    <2>2. \A q \in TellOps : Announces(q) \/ Creator(q) => tellers'[q] = tellers[q] /\ q # o
      BY <1>1, <1>4 DEF Announces, Creator, Stages
    <2>3. StatusSeen'
      BY <1>6, <1>9 DEF StatusSeen
    <2>4. Creations'
      <3>1. \A q \in TellOps : Creator(q) => tellers[q].held
        BY <1>1, <2>0, <2>2 DEF Unedited, Creations
      <3> QED BY <1>h, <2>0, <2>1, <2>2, <3>1, AudienceAssumption DEF Unedited, Creations
    <2>5. Announcements'
      BY <1>6, <1>10, <2>0, <2>1, <2>2 DEF Unedited, Announcements, TellerAt
    <2>6. MutedEarlier'
      BY <1>5, <1>6, <1>10, <1>h, <2>0 DEF Unedited, MutedEarlier
    <2>7. LateHears'
      <3>1. since.late = {}
        BY <1>1, <2>0 DEF Unedited, LateHears, BeforeList
      <3> QED BY <1>10, <3>1 DEF LateHears
    <2>8. ToldOnce'
      <3> SUFFICES ASSUME ~twice PROVE ToldOnce'
        BY <1>9 DEF ToldOnce
      <3>1. ~seen.twice /\ comment.status = "pending"
        BY <1>5, <1>7 DEF Text
      <3>2. (\A q \in TellOps : ~Announces(q) /\ ~Relists(q)) /\ (\A p \in Public : heard[p] > 0 => p = WallsOwner)
            /\ \A project \in Projects : owned[project] = 0
        BY <1>5, <2>0, <3>1 DEF Unedited, StatusSeen
      <3> QED BY <1>10, <2>0, <2>1, <3>1, <3>2, AudienceAssumption DEF Unedited, ToldOnce
    <2> QED BY <2>3, <2>4, <2>5, <2>6, <2>7, <2>8 DEF Unedited
  <1> QED BY <1>11, <1>12, <1>13 DEF AudienceInv

(* An edit tells whom it tags; its author it does not. *)
LEMMA EditKeeps ==
  ASSUME AudienceInv, NEW o \in TellOps, edits(o) \/ added(o)
  PROVE  AudienceInv'
  <1>0. AudienceTypes /\ heard \in [Public -> Nat]
    BY DEF AudienceInv, AudienceTypes
  <1>1. tellers[o] \in Editing /\ tellers[o].at \in {"edit", "added"}
    BY <1>0, TellersAre DEF edits, added, TellerAt
  <1>2. Posted /\ comment \in Text /\ seen \in [visible : BOOLEAN, edited : BOOLEAN, twice : BOOLEAN] /\ comment.author \in Public
    BY <1>0, <1>1, AudienceAssumption DEF AudienceInv, AudienceTypes, OneCreates, Posted, Text
  <1>3. CASE edits(o)
    <2> DEFINE op == [tellers[o] EXCEPT !.at = "added"]
    <2>1. op \in Editing /\ op.at = "added"
      BY <1>1 DEF Editing
    <2>2. Turn(o, op)
      BY <1>3 DEF edits, Step
    <2>3. /\ tellers' \in [TellOps -> {NoTeller} \cup Creating \cup Announced \cup Approving \cup Editing]
          /\ tellers'[o] = op /\ \A q \in TellOps \ {o} : tellers'[q] = tellers[q]
      BY <1>0, <2>1, <2>2, TurnTurns
    <2> HIDE DEF op
    <2>4. comment' \in Text /\ comment'.author = comment.author
      BY <1>1, <1>2, <1>3 DEF edits, Text, Editing
    <2>5. seen'.edited /\ seen' \in [visible : BOOLEAN, edited : BOOLEAN, twice : BOOLEAN]
          /\ UNCHANGED <<subscribers, muters, heard, owned, since>>
      BY <1>2, <1>3 DEF edits
    <2>6. AudienceTypes'
      BY <1>0, <2>3, <2>4, <2>5 DEF AudienceTypes
    <2>7. Posted'
      BY <2>4 DEF Posted, Text, NoText
    <2>8. ~Hears(comment.author)'
      BY <1>2, <2>4, <2>5 DEF AudienceInv, OneCreates, Hears
    <2>9. \A q \in TellOps : Announces(q)' => Owing(q)'
      <3>1. \A q \in TellOps : Announces(q)' => Announces(q) /\ tellers'[q] = tellers[q]
        BY <2>1, <2>3 DEF Announces, Stages
      <3> QED BY <2>5, <3>1 DEF AudienceInv, OneCreates, Owing
    <2> QED BY <1>2, <2>1, <2>3, <2>4, <2>5, <2>6, <2>7, <2>8, <2>9 DEF AudienceInv, OneCreates, TellerAt
  <1>4. CASE added(o)
    <2>1. PICK S : S = {p \in tellers[o].added : p \notin shut /\ Mentionable(p)}
      OBVIOUS
    <2> DEFINE op == [at |-> "projects", told |-> tellers[o].added, list |-> {}, tags |-> {},
                      projects |-> tellers[o].addedProjects, owners |-> {}, edit |-> TRUE]
    <2>a. op \in Announced /\ op.at = "projects"
      BY <1>1 DEF Announced, Stages, Editing
    <2>2. TellEach(S) /\ Turn(o, op) /\ UNCHANGED <<comment, subscribers, muters, seen, since, owned>> /\ TellerAt(o, "added")
      BY <1>4, <2>1 DEF added
    <2> HIDE DEF op
    <2>3. /\ tellers' \in [TellOps -> {NoTeller} \cup Creating \cup Announced \cup Approving \cup Editing]
          /\ tellers'[o] = op /\ \A q \in TellOps \ {o} : tellers'[q] = tellers[q]
      BY <1>0, <2>2, <2>a, TurnTurns
    <2>4. heard' \in [Public -> Nat] /\ heard'[comment.author] = heard[comment.author]
      BY <1>0, <1>2, <2>2, TellEachTells DEF Reached
    <2>5. AudienceTypes'
      BY <1>0, <2>2, <2>3, <2>4 DEF AudienceTypes
    <2>6. seen'.edited
      BY <2>2 DEF AudienceInv, OneCreates
    <2>7. ~Hears(comment.author)' /\ Posted'
      BY <1>2, <2>2, <2>4 DEF AudienceInv, OneCreates, Hears, Posted
    <2>8. \A q \in TellOps : Announces(q)' => q = o \/ (Announces(q) /\ tellers'[q] = tellers[q])
      BY <2>3 DEF Announces
    <2>9. \A q \in TellOps : Announces(q)' => Owing(q)'
      BY <2>3, <2>6, <2>8, <2>a DEF AudienceInv, OneCreates, Owing
    <2> QED BY <1>2, <2>2, <2>3, <2>a, <2>5, <2>6, <2>7, <2>9 DEF AudienceInv, OneCreates, TellerAt
  <1> QED BY <1>3, <1>4

(* Who subscribes late is on no announcement's list. *)
LEMMA SettingsKeep ==
  ASSUME AudienceInv, Settings
  PROVE  AudienceInv'
  <1>0. AudienceTypes
    BY DEF AudienceInv
  <1>1. PICK p \in Public : setSubscription(p) \/ setThreadMute(p)
    BY DEF Settings
  <1>2. UNCHANGED <<comment, tellers, heard, owned, seen>> /\ subscribers' \subseteq Public /\ muters' \subseteq Public
    BY <1>0, <1>1 DEF setSubscription, setThreadMute, AudienceTypes
  <1>3. PICK L, M \in SUBSET Public :
          /\ since'.late = L /\ since'.muted = M /\ since' \in [late : SUBSET Public, muted : SUBSET Public]
          /\ M = IF setThreadMute(p) THEN since.muted \cap muters' ELSE since.muted
          /\ L = since.late \/ (L = since.late \cup {p} /\ Posted /\ comment.status = "visible" /\ ~BeforeList
                                  /\ ~Listed(p) /\ ~Hears(p))
    <2>0. since \in [late : SUBSET Public, muted : SUBSET Public]
      BY <1>0 DEF AudienceTypes
    <2>1. CASE setThreadMute(p)
      <3>1. since'.late = since.late /\ since'.muted = since.muted \cap muters'
            /\ since' \in [late : SUBSET Public, muted : SUBSET Public]
        BY <2>0, <2>1 DEF setThreadMute
      <3>2. since.late \in SUBSET Public /\ since.muted \cap muters' \in SUBSET Public
        BY <2>0
      <3> QED BY <2>1, <3>1, <3>2
    <2>2. CASE ~setThreadMute(p)
      <3>1. setSubscription(p)
        BY <1>1, <2>2
      <3>2. CASE since' = since
        <4>1. since.late \in SUBSET Public /\ since.muted \in SUBSET Public
          BY <2>0
        <4> QED BY <2>0, <2>2, <3>2, <4>1
      <3>3. CASE since' # since
        <4>1. /\ since' = [since EXCEPT !.late = @ \cup {p}]
              /\ Posted /\ comment.status = "visible" /\ ~BeforeList /\ ~Listed(p) /\ ~Hears(p)
          BY <3>1, <3>3 DEF setSubscription
        <4>2. since'.late = since.late \cup {p} /\ since'.muted = since.muted
              /\ since' \in [late : SUBSET Public, muted : SUBSET Public]
          BY <2>0, <4>1
        <4>3. since.late \cup {p} \in SUBSET Public /\ since.muted \in SUBSET Public
          BY <2>0
        <4> QED BY <2>2, <4>1, <4>2, <4>3
      <3> QED BY <3>2, <3>3
    <2> QED BY <2>1, <2>2
  <1>4. since'.late = L /\ since'.muted = M
    BY <1>3
  <1>5. AudienceTypes'
    BY <1>0, <1>2, <1>3 DEF AudienceTypes
  <1>h. (Unheard' <=> Unheard) /\ \A q : Hears(q)' <=> Hears(q)
    BY <1>2 DEF Unheard, Hears
  <1>6. OneCreates'
    <2>2. Posted => ~Hears(comment.author)'
      BY <1>2 DEF AudienceInv, OneCreates, Hears
    <2>3. \A q \in TellOps : Announces(q)' => Owing(q)'
      BY <1>2 DEF AudienceInv, OneCreates, Announces, Owing
    <2> QED BY <1>2, <1>3, <1>4, <1>h, <2>2, <2>3 DEF AudienceInv, OneCreates, TellerAt, Posted
  <1>7. ASSUME ~seen'.edited PROVE Unedited'
    <2>0. Unedited
      BY <1>2, <1>7 DEF AudienceInv
    <2>1. StatusSeen' /\ Creations' /\ ToldOnce'
      BY <1>2, <2>0 DEF Unedited, StatusSeen, Creations, ToldOnce, Unheard, Hears, Posted, Announces, Relists, Creator, TellerAt
    <2>2. Announcements'
      <3>1. ASSUME NEW o \in TellOps, Announces(o) PROVE tellers[o].list \cap L = {}
        <4>1. "list" \in DOMAIN tellers[o]
          BY <1>0, <3>1, TellersAre DEF Announced
        <4> QED BY <1>3, <2>0, <3>1, <4>1 DEF Unedited, Announcements, Listed
      <3>2. M \subseteq since.muted
        BY <1>3
      <3> QED BY <1>2, <1>4, <2>0, <3>1, <3>2 DEF Unedited, Announcements, Announces, TellerAt
    <2>3. MutedEarlier'
      <3>1. CASE setThreadMute(p)
        BY <1>2, <1>3, <1>4, <1>h, <2>0, <3>1 DEF Unedited, MutedEarlier, Posted
      <3>2. CASE ~setThreadMute(p)
        <4>1. muters' = muters /\ M = since.muted
          BY <1>1, <1>3, <3>2 DEF setSubscription
        <4> QED BY <1>2, <1>4, <1>h, <2>0, <4>1 DEF Unedited, MutedEarlier, Posted
      <3> QED BY <3>1, <3>2
    <2>4. LateHears'
      <3>1. BeforeList' <=> BeforeList
        BY <1>2 DEF BeforeList
      <3>2. \A q \in L : Hears(q) => q \in since.late
        BY <1>3
      <3>3. \A q : Tagged(q)' <=> Tagged(q)
        BY <1>2 DEF Tagged
      <3> QED BY <1>2, <1>3, <1>4, <1>h, <2>0, <3>1, <3>2, <3>3 DEF Unedited, LateHears
    <2> QED BY <2>1, <2>2, <2>3, <2>4 DEF Unedited
  <1> QED BY <1>5, <1>6, <1>7 DEF AudienceInv

LEMMA AudienceStep == AudienceInv /\ [AudienceNext]_audienceVars => AudienceInv'
  <1> SUFFICES ASSUME AudienceInv, [AudienceNext]_audienceVars PROVE AudienceInv'
    OBVIOUS
  <1>1. CASE Settings
    BY <1>1, SettingsKeep
  <1>2. ASSUME NEW o \in TellOps, Announcing(o) PROVE AudienceInv'
    <2>1. CASE relists(o)
      BY <2>1, AnnouncementBegins DEF relists
    <2>2. CASE ~relists(o)
      BY <1>2, <2>2, AnnouncingKeeps, OwnersKeep, BeginningsKeep, CreateKeeps, ListenKeeps, ApprovesKeeps DEF Announcing
    <2> QED BY <2>1, <2>2
  <1>3. ASSUME NEW o \in TellOps, NEW tags \in SUBSET Public, NEW projects \in SUBSET Projects, Edits(o, tags, projects)
        PROVE  AudienceInv'
    BY <1>3, BeginningsKeep, EditKeeps DEF Edits
  <1>4. ASSUME NEW o \in TellOps, NEW tags \in SUBSET Public, NEW projects \in SUBSET Projects, Comments(o, tags, projects)
        PROVE  AudienceInv'
    BY <1>4, BeginningsKeep
  <1>5. CASE UNCHANGED audienceVars
    BY <1>5 DEF audienceVars, AudienceInv, AudienceTypes, OneCreates, Unedited, StatusSeen, Creations, Announcements,
                MutedEarlier, LateHears, ToldOnce, Unheard, Owing, Hears, Tagged, BeforeList, Creator, Announces, Relists, TellerAt, Posted
  <1> QED BY <1>1, <1>2, <1>3, <1>4, <1>5 DEF AudienceNext

(* Each is told of a comment once, and who muted, came late or wrote it
   is not, over every order of announcements, approvals, subscriptions,
   mutes and edits (announce in wall.service.ts). *)
THEOREM AudienceIsRight == AudienceSpec => []AudienceHolds
  <1>1. AudienceInit => AudienceInv
    BY AudienceBegins
  <1>2. AudienceInv /\ [AudienceNext]_audienceVars => AudienceInv'
    BY AudienceStep
  <1> QED BY <1>1, <1>2, AudienceHoldsThen, PTL DEF AudienceSpec

-----------------------------------------------------------------------------
(* The components side by side, as they are model-checked: each behaviour
   is of one of them, and the others stay as they begin. *)
AudienceOr == IF focus \in {"audience", "tags", "edits"} THEN AudienceInv ELSE comment = NoText
LiveInv == ViewersInv /\ JobsInv /\ FoldInv /\ AudienceOr

(* In every behaviour the run explores, over any sets and bounds: rosters
   agree, jobs settle as told, notifications fold right and a comment
   reaches its audience (project-viewers.ts, job.store.ts,
   notifications.events.ts and announce of wall.service.ts). *)
THEOREM LiveIsTrue == Spec => []LiveAgrees
  <1>1. Init => LiveInv
    BY ViewersBegin, JobsBegin, FoldingBegins, AudienceBegins DEF Init, LiveInv, AudienceOr, NoAudience
  <1>2. LiveInv /\ [Next]_<<focus, presenceVars, viewerVars, asrVars, foldVars, audienceVars>> => LiveInv'
    <2> SUFFICES ASSUME LiveInv, [Next]_<<focus, presenceVars, viewerVars, asrVars, foldVars, audienceVars>>
                 PROVE  LiveInv'
      OBVIOUS
    <2>1. /\ [ViewersNext]_viewerVars /\ [AsrNext]_asrVars /\ [FoldNext]_foldVars /\ focus' = focus
          /\ UNCHANGED audienceVars \/ (focus \in {"audience", "tags", "edits"} /\ AudienceNext)
      <3>1. /\ \A T : AtMostOne(T) \subseteq SUBSET T
            /\ {} \in SUBSET Projects
        BY DEF AtMostOne
      <3>2. AudienceFocus => AudienceNext /\ focus \in {"audience", "tags", "edits"}
        BY <3>1 DEF AudienceFocus, AudienceNext
      <3> QED BY <3>2 DEF Next
    <2>2. ViewersInv' /\ JobsInv' /\ FoldInv'
      BY <2>1, RosterStep, JobStep, FoldStep DEF LiveInv
    <2>3. AudienceOr'
      BY <2>1, AudienceStep DEF LiveInv, AudienceOr, audienceVars
    <2> QED BY <2>2, <2>3 DEF LiveInv
  <1>3. LiveInv => LiveAgrees
    <2> SUFFICES ASSUME LiveInv PROVE LiveAgrees
      OBVIOUS
    <2>1. RostersAgree
      BY DEF LiveInv, ViewersInv, RostersAgree, RosterOwed, RosterSettles
    <2>2. JobsSettle /\ NotesFold
      BY JobsSettleThen, NotesFoldThen DEF LiveInv
    <2>3. AudienceHolds
      BY AudienceHoldsThen DEF LiveInv, AudienceOr, AudienceHolds, Posted
    <2> QED BY <2>1, <2>2, <2>3 DEF LiveAgrees
  <1> QED BY <1>1, <1>2, <1>3, PTL DEF Spec
=============================================================================
