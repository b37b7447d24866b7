-------------------------- MODULE MCCollabMembership --------------------------
(* One account and one guest it may absorb, two visitors at a time and one
   request of the owner beside them; or what people leave behind.  The two
   share no variable: a behaviour is of one of them. *)
EXTENDS CollabMembership, CollabTraces, TLC

VARIABLE focus
Foci == {"members", "ids", "moves", "credits"}
MCInit == focus \in Foci /\ Init /\ TracesInit /\ (accountOwns => focus = "moves")

(* Two tabs of the person who signs in, or one and somebody else's. *)
At(tabs) == {t \in tabs : links'[t] # NoLink}
TracesFocus ==
    \/ /\ focus = "ids" /\ (Coming \/ Moving \/ Speaking \/ unload)
       /\ ~moves'.lost /\ Cardinality(closed') <= 1
    \/ focus = "moves" /\ (Coming \/ Moving \/ Crediting) /\ At(OtherTabs) = {}
    \/ /\ focus = "credits" /\ (Coming \/ Crediting \/ unload)
       /\ Movers' = {} /\ Cardinality(At(PersonTabs)) <= 1
MCNext ==
    /\ UNCHANGED focus
    /\ \/ focus = "members" /\ Next /\ UNCHANGED tracesVars
       \/ TracesFocus /\ UNCHANGED vars
MCSpec == MCInit /\ [][MCNext]_<<focus, vars, tracesVars>>

EditorInvites == [i \in Invite |-> "editor"]

(* The second link is for guests who join again, without an account around;
   guests are switched off where nobody is kicked and no link is revoked;
   and of two tabs under way one connects. *)
SecondLinkForGuests ==
    \/ Cardinality({i \in Invite : invites[i] # "none"}) <= 1
    \/ /\ \A e \in members : e.subject \in Guest
       /\ \A v \in Visitor : visit[v] # Idle => visit[v].subject \in Guest
OneWayOut == allowGuests \/ (kicked = {} /\ \A i \in Invite : invites[i] # "revoked")
Joins == {v \in Visitor : visit[v].at \notin {"idle", "connected"} /\ visit[v].how = "join"}
Bounds == SecondLinkForGuests /\ OneWayOut /\ Cardinality(Joins) <= 1

SlotSymmetry == Permutations(Visitor) \cup Permutations(Invite)

(* Nobody is in the session twice, and what people leave behind in it is
   theirs (TracesHold). *)
OneEachTheirs == OneEntryPerSubject /\ TracesHold
=============================================================================
