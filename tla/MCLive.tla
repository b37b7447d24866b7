------------------------------- MODULE MCLive -------------------------------
(* The live components share no variable: a behaviour is of one of them. *)
EXTENDS Presence, AsrJobs, NotificationFolding, WallAudience

CONSTANTS a1, a2, u2, u3, p1, p2, p3

VARIABLE focus

Foci == {"sockets", "heap", "viewers", "asr", "folds", "renewals", "audience", "tags", "edits"}
NoAudience ==
    /\ comment = NoText /\ subscribers = {} /\ muters = {} /\ shut = {} /\ shunned = {}
    /\ tellers = [o \in TellOps |-> NoTeller] /\ heard = [p \in Public |-> 0] /\ owned = [p \in Projects |-> 0]
    /\ seen = <<>> /\ since = <<>> /\ turns = 0
(* One is in a block relationship, with the wall's owner, the author or both. *)
FewBlocked == Cardinality(shut \cup shunned) <= 1
Init ==
    /\ focus \in Foci
    /\ PresenceInit /\ ViewersInit /\ AsrInit /\ FoldInit
    /\ IF focus \in {"audience", "tags", "edits"} THEN AudienceInit /\ FewBlocked ELSE NoAudience

(* Three events that fold, or two that renew and one created once. *)
EventsOf == {[actor |-> a1, mode |-> "fold", nr |-> i] : i \in 1..2}
    \cup {[actor |-> a2, mode |-> m, nr |-> 1] : m \in Modes}
    \cup {[actor |-> a1, mode |-> "renew", nr |-> 1]}
(* One socket of the account is enough beside its heap. *)
Only == CHOOSE s \in Sockets : TRUE
Idle(events) == \A e \in events : telling'[e] = "none"
Folds == {e \in Events : e.mode = "fold"}

(* Two projects of one owner and one of the author; a comment that tags
   one of each while people subscribe and mute, that tags more, or that is
   edited. *)
OwnerOf == (p1 :> u3) @@ (p2 :> u3) @@ (p3 :> u2)
AtMostOne(S) == {T \in SUBSET S : Cardinality(T) <= 1}
AudienceFocus ==
    /\ \/ /\ focus = "audience"
          /\ \/ Settings
             \/ \E o \in TellOps : \/ Announcing(o)
                                   \/ \E tags \in AtMostOne(Public), projects \in AtMostOne(Projects \ {p2, p3}) : Comments(o, tags, projects)
       \/ focus = "tags" /\ \E o \in TellOps :
             Announcing(o) \/ \E tags \in SUBSET Public, projects \in SUBSET Projects : Comments(o, tags, projects)
       \/ focus = "edits" /\ \E o \in TellOps :
             \/ Announcing(o) \/ \E tags \in AtMostOne(Public \cap {u3}) : Comments(o, tags, {})
             \/ \E tags \in AtMostOne(Public \cap {u3}), projects \in SUBSET (Projects \ {p3}) : Edits(o, tags, projects)
    /\ FewBlocked'

Next ==
    /\ UNCHANGED focus
    /\ \/ focus = "sockets" /\ (Joining \/ evict) /\ UNCHANGED <<viewerVars, asrVars, foldVars, audienceVars>>
       \/ /\ focus = "heap" /\ (Joining \/ Notifying \/ evict) /\ ~activity'
          /\ \A s \in Sockets \ {Only} : sockets'[s] = "new"
          /\ UNCHANGED <<viewerVars, asrVars, foldVars, audienceVars>>
       \/ focus = "viewers" /\ ViewersNext /\ UNCHANGED <<presenceVars, asrVars, foldVars, audienceVars>>
       \/ focus = "asr" /\ AsrNext /\ UNCHANGED <<presenceVars, viewerVars, foldVars, audienceVars>>
       \/ /\ focus \in {"folds", "renewals"} /\ FoldNext
          /\ Idle(IF focus = "folds" THEN Events \ Folds ELSE Folds)
          /\ UNCHANGED <<presenceVars, viewerVars, asrVars, audienceVars>>
       \/ AudienceFocus /\ UNCHANGED <<presenceVars, viewerVars, asrVars, foldVars>>

Spec == Init /\ [][Next]_<<focus, presenceVars, viewerVars, asrVars, foldVars, audienceVars>>
Symmetry == Permutations(Notes) \cup Permutations(Tabs \ NamedTabs)

(* What each of the parts promises: the rosters agree, one transcription
   at a time settles as its account was told (job.store.ts), no event is
   counted twice or lost (deliver in notifications.events.ts), and a
   comment reaches its audience once (announce in wall.service.ts). *)
LiveAgrees == RostersAgree /\ JobsSettle /\ NotesFold /\ AudienceHolds
=============================================================================
