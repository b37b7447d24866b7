---------------------------- MODULE CollabTraces ----------------------------
(***************************************************************************)
(* What people leave behind in one live document.  The awareness states    *)
(* under the ids their tabs chose (collab.server.ts): the server decides   *)
(* who each id is, keeps it for that person and frees it only when nobody  *)
(* speaks for it and nothing of it is shown.  And the credits of those who *)
(* edited (collab-credits.service.ts), which the owner may remove and      *)
(* which follow a guest that signs in, one write after the other.          *)
(*                                                                         *)
(* Three subjects: a guest, the account the guest signs in to, and         *)
(* somebody else.  Membership and roles are in CollabMembership, the       *)
(* revocations a connection may be refused for in CollabAdmission.  A      *)
(* connection and what onDisconnect cleans up after it go in one step.     *)
(***************************************************************************)
EXTENDS Naturals, Sequences, SequencesExt, FiniteSets

CONSTANTS PersonTabs, \* tabs of the person who may sign in
          OtherTabs,  \* tabs of somebody else
          Ids,        \* awareness client ids
          MAX_AWARENESS_IDS_PER_SUBJECT,
          MAX_PROJECT_COLLABORATORS

ASSUME TracesAssumption ==
    /\ PersonTabs \cap OtherTabs = {} /\ "none" \notin Ids
    /\ MAX_AWARENESS_IDS_PER_SUBJECT \in Nat \ {0} /\ MAX_PROJECT_COLLABORATORS \in Nat \ {0}

VARIABLES
    accountOwns, \* whether the account is the project's owner
    guestEntry,  \* whether the session has a member entry of the guest
    closed,      \* session.kicked
    links,       \* tab -> its connection
    subjectOf,   \* the ids bound to a subject, oldest first
    idOf,        \* tab -> the id its connection speaks for
    states,      \* id -> the subject its state was attested for
    handled,     \* subjects the change hook need not ask about again
    crediting,   \* credits being written
    credits,     \* project.collaborators
    removed,     \* project.removedCollaborators
    moves        \* observed: what befell the guest's credit

idVars == <<subjectOf, idOf, states>>
creditVars == <<handled, crediting, credits, removed, moves>>
tracesVars == <<accountOwns, guestEntry, closed, links, idVars, creditVars>>

AllTabs == PersonTabs \cup OtherTabs

(* What of q is in T, in its order. *)
Only(q, T) ==
    LET kept[n \in 0 .. Len(q)] ==
          IF n = 0 THEN <<>> ELSE IF q[n] \in T THEN Append(kept[n - 1], q[n]) ELSE kept[n - 1]
    IN  kept[Len(q)]

NoLink == [at |-> "none"]
Up == {t \in AllTabs : links[t].at \in {"attached", "up"}}
Movers == {t \in AllTabs : links[t].at \in {"follow", "rename", "drop"}}
Credited == {c.subject : c \in credits}
Owns(s) == s = "account" /\ accountOwns

TracesInit ==
    /\ accountOwns \in BOOLEAN
    /\ guestEntry = FALSE /\ closed = {}
    /\ links = [t \in AllTabs |-> NoLink]
    /\ subjectOf = <<>> /\ idOf = [t \in AllTabs |-> "none"] /\ states = [i \in Ids |-> "none"]
    /\ handled = {} /\ crediting = {} /\ credits = {} /\ removed = {}
    /\ moves = [owed |-> FALSE, barred |-> FALSE, hadOwn |-> FALSE, lost |-> FALSE]

-----------------------------------------------------------------------------
(* Credits. *)

(* recordContributor: only the first change of a subject asks. *)
edit(t) ==
    LET s == links[t].subject IN
    /\ t \in Up /\ ~Owns(s) /\ s \notin handled
    /\ handled' = handled \cup {s}
    /\ crediting' = crediting \cup {[subject |-> s, doc |-> "loaded"]}
    /\ UNCHANGED <<accountOwns, guestEntry, closed, links, idVars, credits, removed, moves>>

(* creditCollaborator: neither credited, nor removed, nor past the cap. *)
MayBeCredited(s) ==
    s \notin Credited \cup removed /\ Cardinality(credits) < MAX_PROJECT_COLLABORATORS
creditCollaborator(w) ==
    /\ w \in crediting /\ crediting' = crediting \ {w}
    /\ credits' = IF MayBeCredited(w.subject)
                  THEN credits \cup {[subject |-> w.subject, earnedAs |-> w.subject]} ELSE credits
    /\ UNCHANGED <<accountOwns, guestEntry, closed, links, idVars, handled, removed, moves>>

(* ... or it fails, and the subject's next change asks again. *)
creditFails(w) ==
    /\ w \in crediting /\ crediting' = crediting \ {w}
    /\ handled' = IF w.doc = "loaded" THEN handled \ {w.subject} ELSE handled
    /\ UNCHANGED <<accountOwns, guestEntry, closed, links, idVars, credits, removed, moves>>

(* The owner removes a credit; the loaded document is told (markHandled). *)
removeProjectCollaborator(s) ==
    /\ s \in Credited \cup removed
    /\ IF s \in Credited
       THEN /\ removed' = removed \cup {s}
            /\ credits' = {c \in credits : c.subject # s}
       ELSE UNCHANGED <<removed, credits>>
    /\ handled' = IF handled = {} THEN {} ELSE handled \cup {s}
    /\ UNCHANGED <<accountOwns, guestEntry, closed, links, idVars, crediting, moves>>

(* transferGuestCredit, in three writes: a removal of the guest follows
   the person to the account, ... *)
followRemoval(t) ==
    /\ links[t].at = "follow"
    /\ links' = [links EXCEPT ![t].at = "rename"]
    /\ removed' = IF "guest" \in removed THEN removed \cup {"account"} ELSE removed
    /\ moves' = [moves EXCEPT !.hadOwn = @ \/ ("guest" \in removed /\ "account" \in Credited)]
    /\ UNCHANGED <<accountOwns, guestEntry, closed, idVars, handled, crediting, credits>>

(* ... the credit becomes the account's, unless it has one or was removed, *)
Recredited(cs) ==
    {IF c.subject = "guest" THEN [c EXCEPT !.subject = "account"] ELSE c : c \in cs}
renameCredit(t) ==
    /\ links[t].at = "rename"
    /\ links' = [links EXCEPT ![t].at = "drop"]
    /\ credits' = IF "account" \in removed \cup Credited THEN credits ELSE Recredited(credits)
    /\ UNCHANGED <<accountOwns, guestEntry, closed, idVars, handled, crediting, removed, moves>>

(* ... and what is left of the guest's goes. *)
Without(cs, s) == {c \in cs : c.subject # s}
dropCredit(t) ==
    /\ links[t].at = "drop"
    /\ links' = [links EXCEPT ![t].at = "enter"]
    /\ credits' = Without(credits, "guest")
    /\ UNCHANGED <<accountOwns, guestEntry, closed, idVars, handled, crediting, removed, moves>>

(* moveCredit: a write that fails must not cost the person the sign-in. *)
moveFails(t) ==
    /\ t \in Movers
    /\ links' = [links EXCEPT ![t].at = "enter"]
    /\ moves' = [moves EXCEPT !.lost = TRUE]
    /\ UNCHANGED <<accountOwns, guestEntry, closed, idVars, handled, crediting, credits, removed>>

-----------------------------------------------------------------------------
(* Connections. *)

(* resolvePrincipal and absorbGuest.  A guest gets its entry, back too; an
   account that shows the guest's token takes it over, and so may another
   tab of it that read the entry before it was gone. *)
authenticate(t, s, token) ==
    LET absorbs == token /\ (guestEntry \/ Movers # {}) IN
    /\ links[t] = NoLink
    /\ s = "other" <=> t \in OtherTabs
    /\ token => s = "account"
    /\ Owns(s) \/ (s \notin closed /\ (token => "guest" \notin closed))
    /\ links' = [links EXCEPT ![t] =
         [subject |-> s, replaces |-> absorbs, added |-> FALSE,
          at |-> IF ~absorbs THEN "enter" ELSE IF accountOwns THEN "drop" ELSE "follow"]]
    /\ guestEntry' = (s = "guest" \/ (guestEntry /\ ~absorbs))
    /\ moves' = IF absorbs /\ ~accountOwns
                THEN [moves EXCEPT !.owed = @ \/ (Movers = {} /\ "guest" \in Credited),
                                   !.barred = @ \/ "guest" \in removed]
                ELSE moves
    /\ UNCHANGED <<accountOwns, closed, idVars, handled, crediting, credits, removed>>

(* rebindAwareness: the person keeps the ids they had as a guest. *)
Rebound == [n \in DOMAIN subjectOf |->
    IF subjectOf[n].subject = "guest" THEN [subjectOf[n] EXCEPT !.subject = "account"] ELSE subjectOf[n]]
onAuthenticate(t) ==
    /\ links[t].at = "enter"
    /\ links' = [links EXCEPT ![t].at = "attached"]
    /\ subjectOf' = IF links[t].replaces THEN Rebound ELSE subjectOf
    /\ UNCHANGED <<accountOwns, guestEntry, closed, idOf, states, creditVars>>

(* Connections go: Hocuspocus takes away the state each had added, and
   onDisconnect that of the id it spoke for, unless another speaks for it. *)
StatesWithout(gone) ==
    [i \in Ids |->
       IF \E t \in gone : idOf[t] = i /\ (links[t].added \/ \A u \in Up \ gone : idOf[u] # i)
       THEN "none" ELSE states[i]]
Cleared(gone) ==
    /\ idOf' = [t \in AllTabs |-> IF t \in gone THEN "none" ELSE idOf[t]]
    /\ states' = StatesWithout(gone)

onDisconnect(t) ==
    /\ t \in Up
    /\ links' = [links EXCEPT ![t] = NoLink]
    /\ Cleared({t})
    /\ UNCHANGED <<accountOwns, guestEntry, closed, subjectOf, creditVars>>

(* reconnectSubject: the guest's own tabs are closed when the account's
   connection is greeted. *)
greeted(t) ==
    LET gone == IF links[t].replaces THEN {u \in Up : links[u].subject = "guest"} ELSE {} IN
    /\ links[t].at = "attached"
    /\ links' = [u \in AllTabs |-> IF u \in gone THEN NoLink
                                   ELSE IF u = t THEN [links[t] EXCEPT !.at = "up"] ELSE links[u]]
    /\ Cleared(gone)
    /\ UNCHANGED <<accountOwns, guestEntry, closed, subjectOf, creditVars>>

(* A kick, with closeSubject: the subject's ids are free at once. *)
closeSubject(s) ==
    LET gone == {t \in Up : links[t].subject = s}
        freed == {b.id : b \in {b \in ToSet(subjectOf) : b.subject = s}} IN
    /\ ~Owns(s) /\ closed' = closed \cup {s}
    /\ guestEntry' = (guestEntry /\ s # "guest")
    /\ links' = [t \in AllTabs |-> IF t \in gone THEN NoLink ELSE links[t]]
    /\ subjectOf' = Only(subjectOf, {b \in ToSet(subjectOf) : b.subject # s})
    /\ idOf' = [t \in AllTabs |-> IF t \in gone \/ idOf[t] \in freed THEN "none" ELSE idOf[t]]
    /\ states' = [i \in Ids |-> IF i \in freed THEN "none" ELSE StatesWithout(gone)[i]]
    /\ UNCHANGED <<accountOwns, creditVars>>

(* afterUnloadDocument. *)
unload ==
    /\ Up = {}
    /\ subjectOf' = <<>> /\ idOf' = [t \in AllTabs |-> "none"] /\ states' = [i \in Ids |-> "none"]
    /\ handled' = {} /\ crediting' = {[w EXCEPT !.doc = "unloaded"] : w \in crediting}
    /\ UNCHANGED <<accountOwns, guestEntry, closed, links, credits, removed, moves>>

-----------------------------------------------------------------------------
(* Awareness. *)

BoundTo(i) == LET at == {n \in DOMAIN subjectOf : subjectOf[n].id = i} IN
    IF at = {} THEN "none" ELSE subjectOf[CHOOSE n \in at : TRUE].subject
Bindings(s) == {n \in DOMAIN subjectOf : subjectOf[n].subject = s}

(* bindForSubject: at the cap the oldest id nobody speaks for and nothing
   is shown of is given up, or the new one is refused. *)
Abandoned(n) == subjectOf[n].id \notin {idOf[t] : t \in Up} /\ states[subjectOf[n].id] = "none"
Victims(s) ==
    IF Cardinality(Bindings(s)) < MAX_AWARENESS_IDS_PER_SUBJECT THEN {}
    ELSE LET mine == {n \in Bindings(s) : Abandoned(n)} IN {n \in mine : \A m \in mine : n <= m}
Bindable(s) == Cardinality(Bindings(s)) < MAX_AWARENESS_IDS_PER_SUBJECT \/ Victims(s) # {}

(* beforeHandleAwareness: a connection speaks for one id, which nobody
   else has. *)
allowed(t, i) == idOf[t] \in {"none", i} /\ BoundTo(i) \in {"none", links[t].subject}
speak(t, i) ==
    LET s == links[t].subject IN
    /\ t \in Up /\ allowed(t, i)
    /\ BoundTo(i) = "none" => Bindable(s)
    /\ subjectOf' = IF BoundTo(i) # "none" THEN subjectOf
                    ELSE Append(Only(subjectOf, ToSet(subjectOf) \ {subjectOf[n] : n \in Victims(s)}),
                                [id |-> i, subject |-> s])
    /\ idOf' = [idOf EXCEPT ![t] = i]
    /\ states' = [states EXCEPT ![i] = s]
    /\ links' = [links EXCEPT ![t].added = @ \/ states[i] = "none"]
    /\ UNCHANGED <<accountOwns, guestEntry, closed, creditVars>>

(* A tab takes its state back (only its own). *)
retract(t) ==
    /\ t \in Up /\ idOf[t] \in Ids /\ allowed(t, idOf[t])
    /\ states' = [states EXCEPT ![idOf[t]] = "none"]
    /\ links' = [links EXCEPT ![t].added = FALSE]
    /\ UNCHANGED <<accountOwns, guestEntry, closed, subjectOf, idOf, creditVars>>

(* A state nobody has renewed for half a minute goes (y-protocols). *)
outdated(i) ==
    /\ states' = [states EXCEPT ![i] = "none"]
    /\ UNCHANGED <<accountOwns, guestEntry, closed, links, subjectOf, idOf, creditVars>>

-----------------------------------------------------------------------------
Subjects == {"guest", "account", "other"}
Coming == \E t \in AllTabs :
    \/ \E s \in Subjects, token \in BOOLEAN : authenticate(t, s, token)
    \/ onAuthenticate(t) \/ greeted(t) \/ onDisconnect(t)
Moving == \E t \in AllTabs : followRemoval(t) \/ renameCredit(t) \/ dropCredit(t) \/ moveFails(t)
Crediting ==
    \/ \E t \in AllTabs : edit(t)
    \/ \E w \in crediting : creditCollaborator(w) \/ creditFails(w)
    \/ \E s \in Subjects : removeProjectCollaborator(s)
Speaking ==
    \/ \E t \in AllTabs : retract(t) \/ \E i \in Ids : speak(t, i)
    \/ \E i \in Ids : outdated(i)
    \/ \E s \in Subjects : closeSubject(s)
TracesNext == Coming \/ Moving \/ Crediting \/ Speaking \/ unload

TracesSpec == TracesInit /\ [][TracesNext]_tracesVars

-----------------------------------------------------------------------------
(* Properties. *)

Person(s) == IF s = "other" THEN "other" ELSE "person"

(* An id is shown, and spoken for by a connection, only as the person it
   is bound to: whatever is evicted, rebound, closed or reconnected, no
   participant speaks over the state of another (bindForSubject). *)
OneVoiceEach ==
    /\ \A i \in Ids : states[i] # "none" => BoundTo(i) # "none" /\ Person(BoundTo(i)) = Person(states[i])
    /\ \A t \in Up : idOf[t] # "none" =>
         BoundTo(idOf[t]) # "none" /\ Person(BoundTo(idOf[t])) = Person(links[t].subject)

(* What is shown has a connection that speaks for it: nobody who left is
   still there (onDisconnect). *)
NoGhosts == \A i \in Ids : states[i] # "none" => \E t \in Up : idOf[t] = i

(* No subject has more ids than it may, but the account, which keeps those
   it had as a guest beside its own (rebindAwareness counts none). *)
IdsCapped == \A s \in Subjects \ {"account"} : Cardinality(Bindings(s)) <= MAX_AWARENESS_IDS_PER_SUBJECT

(* Nobody is credited twice, past the cap, or as the owner; and nobody
   whose credit the owner removed, but an account that had one of its own
   when the removal of its guest reached it (transferGuestCredit adds the
   account to the removed ones and leaves its credit). *)
CreditsOnce ==
    /\ \A c, d \in credits : c.subject = d.subject => c = d
    /\ Cardinality(credits) <= MAX_PROJECT_COLLABORATORS
    /\ accountOwns => "account" \notin Credited
    /\ Credited \cap removed \subseteq (IF moves.hadOwn THEN {"account"} ELSE {})

(* When no credit is being moved and no move failed: signing in has not
   undone the removal of a guest, and the credit a guest had when its move
   began, beside no other, is the account's, unless the owner removed one
   of the two (one written between renameCredit and dropCredit is lost). *)
CreditsFollow ==
    Movers = {} /\ ~moves.lost =>
        /\ moves.barred /\ ~moves.hadOwn => "account" \notin Credited
        /\ moves.owed => "account" \in Credited \/ {"guest", "account"} \cap removed # {}

TracesHold == OneVoiceEach /\ NoGhosts /\ IdsCapped /\ CreditsOnce /\ CreditsFollow
=============================================================================
