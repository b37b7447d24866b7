------------------------------ MODULE Presence ------------------------------
(***************************************************************************)
(* What plugins/socket.ts keeps of the sockets that are up.  One account's *)
(* sockets: whether it is shown online (socket/presence.ts), and the heap  *)
(* of its unread notifications (lib/notification-heap.ts,                  *)
(* modules/notifications/notifications.service.ts), which a joining socket *)
(* fills and the last one to leave has evicted after a while.  And who is  *)
(* looking at a project (socket/project-viewers.ts), with the roster its   *)
(* owner is sent: two maps that mirror each other, a timer that gathers a  *)
(* burst of changes, and an emission that reads the maps, waits for the    *)
(* viewers' accounts, and only then sends.                                 *)
(*                                                                         *)
(* The process runs one step at a time: a handler gives way at each await, *)
(* and a socket may go away then.                                          *)
(***************************************************************************)
EXTENDS Naturals, FiniteSets

CONSTANTS Sockets,  \* the sockets the account ever opens
          Notes,    \* its notifications
          Readers   \* requests that list its notifications

VARIABLES
    sockets,    \* new, up or gone
    joins,      \* where the join:user handler of a socket is
    leaving,    \* the sockets whose disconnect handler is to tell and evict
    online,     \* userToSockets and socketToUser
    activity,   \* whether activityStore has what the account is doing
    shown,      \* what the admins and the friends were told last
    notes,      \* the stored notifications: none, unread or read
    heap,       \* the notifications it holds
    loads,      \* the loads of the heap under way
    deliveries, \* notifications stored and not yet put on the heap
    marking,    \* whether a marking as read has still to drop the heap
    timer,      \* whether the eviction is scheduled
    crossed,    \* observed: the last socket left beside a join
    early       \* observed: sockets that went away before they were online

presenceVars == <<sockets, joins, leaving, online, activity, shown, notes, heap,
                  loads, deliveries, marking, timer, crossed, early>>
socketVars == <<sockets, joins, leaving, online, activity, shown, crossed, early>>
heapVars == <<notes, heap, loads, deliveries, marking, timer>>

NoHeap == [on |-> FALSE, ids |-> {}, loaded |-> FALSE]
(* `mine': the heap the load fills is still the one of the account. *)
NoLoad == [at |-> "idle", mine |-> FALSE, found |-> {}]
Loaders == Sockets \cup Readers
Told == {"admins", "friends"}

PresenceInit ==
    /\ sockets = [s \in Sockets |-> "new"]
    /\ joins = [s \in Sockets |-> "none"]
    /\ leaving = {} /\ online = {} /\ activity = FALSE
    /\ shown = [t \in Told |-> FALSE]
    /\ notes = [n \in Notes |-> "none"]
    /\ heap = NoHeap
    /\ loads = [l \in Loaders |-> NoLoad]
    /\ deliveries = {} /\ marking = FALSE
    /\ timer = FALSE /\ crossed = FALSE /\ early = {}

-----------------------------------------------------------------------------
(* The heap. *)

Unread == {n \in Notes : notes[n] = "unread"}

(* loadHeap: the timer is cleared and the heap emptied, then the unread
   ones are looked up, then put on it. *)
LoadBegins(l) ==
    /\ timer' = FALSE
    /\ heap' = [on |-> TRUE, ids |-> {}, loaded |-> FALSE]
    /\ loads' = [loads EXCEPT ![l] = [at |-> "find", mine |-> TRUE, found |-> {}]]

find(l) ==
    /\ loads[l].at = "find"
    /\ loads' = [loads EXCEPT ![l].at = "fill", ![l].found = Unread]
    /\ UNCHANGED <<socketVars, notes, heap, deliveries, marking, timer>>

LoadEnds(l) ==
    /\ loads[l].at = "fill"
    /\ heap' = IF loads[l].mine
               THEN [heap EXCEPT !.ids = @ \cup loads[l].found, !.loaded = TRUE] ELSE heap
    /\ loads' = [loads EXCEPT ![l] = NoLoad]

(* clearHeap: the account's next heap is another one. *)
ClearHeap ==
    /\ heap' = NoHeap
    /\ loads' = [l \in Loaders |-> [loads[l] EXCEPT !.mine = FALSE]]

(* getPrioritizedUnread: an empty heap, or none, is loaded. *)
listNotifications(r) ==
    /\ loads[r] = NoLoad /\ heap.ids = {}
    /\ LoadBegins(r)
    /\ UNCHANGED <<socketVars, notes, deliveries, marking>>

listed(r) ==
    /\ r \in Readers /\ LoadEnds(r)
    /\ UNCHANGED <<socketVars, notes, deliveries, marking, timer>>

(* The services that create or renew a notification, and put what they
   stored on the heap, making one if there is none; the jobs put it only
   on a heap there is (enqueueNotifIfLoaded). *)
createNotification(n, batch) ==
    /\ \A d \in deliveries : d.note # n
    /\ notes' = [notes EXCEPT ![n] = "unread"]
    /\ deliveries' = deliveries \cup {[note |-> n, batch |-> batch]}
    /\ UNCHANGED <<socketVars, heap, loads, marking, timer>>

enqueueNotif(d) ==
    /\ d \in deliveries
    /\ deliveries' = deliveries \ {d}
    /\ heap' = IF d.batch /\ ~heap.on THEN heap
               ELSE [heap EXCEPT !.on = TRUE, !.ids = @ \cup {d.note}]
    /\ UNCHANGED <<socketVars, notes, loads, marking, timer>>

(* markRead and markAllRead: stored first, then the heap is dropped. *)
markRead(read) ==
    /\ ~marking /\ marking' = TRUE
    /\ notes' = [n \in Notes |-> IF n \in read /\ notes[n] = "unread" THEN "read" ELSE notes[n]]
    /\ UNCHANGED <<socketVars, heap, loads, deliveries, timer>>

dropHeap ==
    /\ marking /\ marking' = FALSE
    /\ ClearHeap
    /\ UNCHANGED <<socketVars, notes, deliveries, timer>>

(* dismiss and resolveSticky leave the heap as it is. *)
dismiss(n) ==
    /\ notes[n] # "none"
    /\ notes' = [notes EXCEPT ![n] = "none"]
    /\ UNCHANGED <<socketVars, heap, loads, deliveries, marking, timer>>

evict ==
    /\ timer /\ timer' = FALSE
    /\ ClearHeap
    /\ UNCHANGED <<socketVars, notes, deliveries, marking>>

-----------------------------------------------------------------------------
(* The sockets. *)

connect(s) ==
    /\ sockets[s] = "new"
    /\ sockets' = [sockets EXCEPT ![s] = "up"]
    /\ UNCHANGED <<joins, leaving, online, activity, shown, crossed, early, heapVars>>

(* join:user, until its first await ... *)
joinUser(s) ==
    /\ sockets[s] = "up" /\ joins[s] = "none"
    /\ joins' = [joins EXCEPT ![s] = "load"]
    /\ LoadBegins(s)
    /\ crossed' = (crossed \/ leaving # {})
    /\ UNCHANGED <<sockets, leaving, online, activity, shown, early, notes, deliveries, marking>>

(* ... the heap is filled, the eviction cancelled, the socket online ... *)
setOnline(s) ==
    /\ joins[s] = "load" /\ LoadEnds(s)
    /\ timer' = FALSE
    /\ joins' = [joins EXCEPT ![s] = IF online = {} THEN "announce" ELSE "joined"]
    /\ online' = online \cup {s}
    /\ early' = IF sockets[s] = "gone" THEN early \cup {s} ELSE early
    /\ UNCHANGED <<sockets, leaving, activity, shown, crossed, notes, deliveries, marking>>

(* ... and, with the preferences and the friends read, the first of the
   account is announced; the friends, unless it shows itself to nobody. *)
announce(s) ==
    /\ joins[s] = "announce"
    /\ joins' = [joins EXCEPT ![s] = "joined"]
    /\ shown' = [t \in Told |-> TRUE]
    /\ UNCHANGED <<sockets, leaving, online, activity, crossed, early, heapVars>>

(* disconnect: setOffline knows only a socket that is online. *)
Left(s) == online \ {s}
(* Mutant: whichever socket leaves takes the account offline. *)
IsLast_Any(s) == s \in online
IsLast(s) == s \in online /\ Left(s) = {}
disconnect(s) ==
    /\ sockets[s] = "up"
    /\ sockets' = [sockets EXCEPT ![s] = "gone"]
    /\ online' = Left(s)
    /\ IF IsLast(s)
       THEN /\ leaving' = leaving \cup {s}
            /\ activity' = FALSE
            /\ shown' = [shown EXCEPT !["admins"] = FALSE]
            /\ crossed' = (crossed \/ \E t \in Sockets : joins[t] \in {"load", "announce"})
       ELSE UNCHANGED <<leaving, activity, shown, crossed>>
    /\ UNCHANGED <<joins, early, heapVars>>

(* ... the friends are told, and the heap is to be evicted. *)
scheduleEviction(s) ==
    /\ s \in leaving
    /\ leaving' = leaving \ {s}
    /\ shown' = [shown EXCEPT !["friends"] = FALSE]
    /\ timer' = TRUE
    /\ UNCHANGED <<sockets, joins, online, activity, crossed, early, notes, heap, loads,
                   deliveries, marking>>

setActivity(s, what) ==
    /\ sockets[s] = "up" /\ s \in online
    /\ activity' = what
    /\ UNCHANGED <<sockets, joins, leaving, online, shown, crossed, early, heapVars>>

-----------------------------------------------------------------------------
Joining ==
    \E s \in Sockets :
        \/ connect(s) \/ joinUser(s) \/ find(s) \/ setOnline(s) \/ announce(s)
        \/ disconnect(s) \/ scheduleEviction(s)
        \/ \E what \in BOOLEAN : setActivity(s, what)

Notifying ==
    \/ \E r \in Readers : listNotifications(r) \/ find(r) \/ listed(r)
    \/ \E n \in Notes, batch \in BOOLEAN : createNotification(n, batch)
    \/ \E d \in deliveries : enqueueNotif(d)
    \/ \E read \in SUBSET Notes : markRead(read)
    \/ dropHeap
    \/ \E n \in Notes : dismiss(n)

PresenceNext == Joining \/ Notifying \/ evict

PresenceSpec == PresenceInit /\ [][PresenceNext]_presenceVars

-----------------------------------------------------------------------------
(* Properties. *)

(* A heap that was loaded has every unread notification of the account,
   unless one is being put on it, or it is being loaded again: whatever
   loads, deliveries, readings and evictions interleave (loadHeap empties
   the heap before it looks the notifications up, not after). *)
HeapComplete ==
    heap.loaded /\ ~(\E l \in Loaders : loads[l].at # "idle" /\ loads[l].mine) =>
        Unread \subseteq heap.ids \cup {d.note : d \in deliveries}

(* A socket counts as online only while it is up, unless it went away
   before its join had put it there (join:user waits for the heap first,
   and disconnect runs once). *)
OnlineIsUp == \A s \in online : sockets[s] = "up" \/ s \in early

(* When no join and no leave is under way, what the admins and the friends
   were told last is so, and no eviction awaits an account that is online,
   unless its last socket left beside a join (join:user and disconnect
   tell only after they have waited for the preferences and the friends). *)
ShownIsTrue ==
    ~crossed /\ leaving = {} /\ (\A s \in Sockets : joins[s] \in {"none", "joined"}) =>
        /\ \A t \in Told : shown[t] = (online # {})
        /\ timer => online = {}

(* The activity shown is that of an account that is online. *)
ActivityIsOnline == activity => online # {}

PresenceAgrees == HeapComplete /\ OnlineIsUp /\ ShownIsTrue /\ ActivityIsOnline

-----------------------------------------------------------------------------
(* The viewers of a project. *)

CONSTANTS Tabs,      \* the sockets of viewers
          NamedTabs, \* those signed in, all to one account
          Pages,     \* projects
          MAX_PROJECTS_PER_SOCKET,
          Emissions  \* emissions that can be under way at once

ASSUME ViewersAssumption == NamedTabs \subseteq Tabs /\ MAX_PROJECTS_PER_SOCKET \in Nat

VARIABLES
    viewersByProject, \* page -> the tabs on it
    projectsBySocket, \* tab -> the pages it is on
    gone,             \* tabs that went away
    watching,         \* the pages whose owner listens (the room project-owner:)
    timers,           \* the pages whose roster is due
    emissions,        \* the emissions under way
    sent,             \* page -> the roster its owner was sent last
    stale             \* observed: pages whose last emission met another, or failed

viewerVars == <<viewersByProject, projectsBySocket, gone, watching, timers, emissions, sent, stale>>

NoEmission == [at |-> "idle"]
NoRoster == [named |-> 0, anonymous |-> 0]
Emitting(p) == {e \in Emissions : emissions[e].at # "idle" /\ emissions[e].page = p}

(* getViewerSummary: an account once, whatever tabs it has open. *)
getViewerSummary(p) ==
    [named |-> IF viewersByProject[p] \cap NamedTabs = {} THEN 0 ELSE 1,
     anonymous |-> Cardinality(viewersByProject[p] \ NamedTabs)]

ViewersInit ==
    /\ viewersByProject = [p \in Pages |-> {}]
    /\ projectsBySocket = [s \in Tabs |-> {}]
    /\ gone = {} /\ watching = {} /\ timers = {} /\ stale = {}
    /\ emissions = [e \in Emissions |-> NoEmission]
    /\ sent = [p \in Pages |-> NoRoster]

(* scheduleRoster: nobody listening, or a timer armed, arms none.
   Mutant: nor does an emission under way, as if it still was to read. *)
Armed_Emitting(pages) == {p \in pages \cap watching : Emitting(p) = {}}
Armed(pages) == pages \cap watching
scheduleRoster(pages) == timers' = timers \cup Armed(pages)

-----------------------------------------------------------------------------
(* addViewer: a tab on as many pages as it may be on gets no further. *)
viewersJoin(s, p) ==
    /\ s \notin gone
    /\ IF Cardinality(projectsBySocket[s]) >= MAX_PROJECTS_PER_SOCKET
          /\ p \notin projectsBySocket[s]
       THEN UNCHANGED <<viewersByProject, projectsBySocket>>
       ELSE /\ viewersByProject' = [viewersByProject EXCEPT ![p] = @ \cup {s}]
            /\ projectsBySocket' = [projectsBySocket EXCEPT ![s] = @ \cup {p}]
    /\ scheduleRoster({p})
    /\ UNCHANGED <<gone, watching, emissions, sent, stale>>

viewersLeave(s, p) ==
    /\ s \notin gone
    /\ viewersByProject' = [viewersByProject EXCEPT ![p] = @ \ {s}]
    /\ projectsBySocket' = [projectsBySocket EXCEPT ![s] = @ \ {p}]
    /\ scheduleRoster({p})
    /\ UNCHANGED <<gone, watching, emissions, sent, stale>>

(* removeSocket, when a tab disconnects. *)
removeSocket(s) ==
    /\ s \notin gone
    /\ gone' = gone \cup {s}
    /\ viewersByProject' = [p \in Pages |->
         IF p \in projectsBySocket[s] THEN viewersByProject[p] \ {s} ELSE viewersByProject[p]]
    /\ projectsBySocket' = [projectsBySocket EXCEPT ![s] = {}]
    /\ scheduleRoster(projectsBySocket[s])
    /\ UNCHANGED <<watching, emissions, sent, stale>>

-----------------------------------------------------------------------------
(* emitRoster, on the timer or for an owner who arrives: whether anybody
   listens is asked of the adapter first. *)
Emit(e, p) ==
    /\ emissions[e] = NoEmission
    /\ emissions' = [emissions EXCEPT ![e] = [at |-> "asked", page |-> p]]
    /\ stale' = IF Emitting(p) = {} THEN stale \ {p} ELSE stale \cup {p}

timerFires(e, p) ==
    /\ p \in timers /\ timers' = timers \ {p}
    /\ Emit(e, p)
    /\ UNCHANGED <<viewersByProject, projectsBySocket, gone, watching, sent>>

viewersWatch(e, p) ==
    /\ watching' = watching \cup {p}
    /\ Emit(e, p)
    /\ UNCHANGED <<viewersByProject, projectsBySocket, gone, timers, sent>>

viewersUnwatch(p) ==
    /\ watching' = watching \ {p}
    /\ sent' = [sent EXCEPT ![p] = NoRoster]
    /\ UNCHANGED <<viewersByProject, projectsBySocket, gone, timers, emissions, stale>>

readSummary(e) ==
    LET p == emissions[e].page IN
    /\ emissions[e].at = "asked"
    /\ emissions' = [emissions EXCEPT ![e] =
         IF p \in watching THEN [at |-> "resolving", page |-> p, roster |-> getViewerSummary(p)]
         ELSE NoEmission]
    /\ stale' = IF p \in watching THEN stale ELSE stale \cup {p}
    /\ UNCHANGED <<viewersByProject, projectsBySocket, gone, watching, timers, sent>>

send(e) ==
    LET p == emissions[e].page IN
    /\ emissions[e].at = "resolving"
    /\ sent' = IF p \in watching THEN [sent EXCEPT ![p] = emissions[e].roster] ELSE sent
    /\ emissions' = [emissions EXCEPT ![e] = NoEmission]
    /\ UNCHANGED <<viewersByProject, projectsBySocket, gone, watching, timers, stale>>

(* A lookup fails: it is logged, and nothing is sent. *)
emissionFails(e) ==
    /\ emissions[e].at # "idle"
    /\ stale' = stale \cup {emissions[e].page}
    /\ emissions' = [emissions EXCEPT ![e] = NoEmission]
    /\ UNCHANGED <<viewersByProject, projectsBySocket, gone, watching, timers, sent>>

ViewersNext ==
    \/ \E s \in Tabs, p \in Pages : viewersJoin(s, p) \/ viewersLeave(s, p)
    \/ \E s \in Tabs : removeSocket(s)
    \/ \E e \in Emissions :
        \/ \E p \in Pages : timerFires(e, p) \/ viewersWatch(e, p)
        \/ readSummary(e) \/ send(e) \/ emissionFails(e)
    \/ \E p \in Pages : viewersUnwatch(p)

ViewersSpec == ViewersInit /\ [][ViewersNext]_viewerVars

-----------------------------------------------------------------------------
(* Properties. *)

(* The two maps say the same, no tab is on more pages than it may be, and
   one that went away is on none (addViewer, removeViewer, removeSocket). *)
MapsMirror ==
    /\ \A s \in Tabs, p \in Pages : s \in viewersByProject[p] <=> p \in projectsBySocket[s]
    /\ \A s \in Tabs : Cardinality(projectsBySocket[s]) <= MAX_PROJECTS_PER_SOCKET
    /\ \A s \in gone : projectsBySocket[s] = {}

(* An owner who listens knows who is there as soon as no timer is armed
   and no emission is under way, unless the last emission met another (the
   older reading may be sent last) or failed: no change made while a
   roster was being resolved is lost (the timer is forgotten before the
   emission reads the maps). *)
RosterSettles ==
    \A p \in watching \ (timers \cup stale) :
        Emitting(p) = {} => sent[p] = getViewerSummary(p)

RostersAgree == MapsMirror /\ RosterSettles
=============================================================================
