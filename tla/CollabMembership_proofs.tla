------------------------ MODULE CollabMembership_proofs ------------------------
(***************************************************************************)
(* Proofs about who may be in a live session, for every set of accounts,   *)
(* guests, invites, visitors and requests of the owner, and every cap on   *)
(* members and kicks.                                                      *)
(***************************************************************************)
EXTENDS MCCollabMembership, FiniteSetTheorems, WellFoundedInduction, TLAPS

-----------------------------------------------------------------------------
(* What a slot and a request hold. *)

Stages == {"note", "drop", "rename", "recheck", "refresh", "push", "reread", "authed"}

UnderWay == [at : Stages, how : {"join", "connect"}, subject : Subject,
             guest : Guest \cup {None}, invite : Invite \cup {None}, known : BOOLEAN,
             role : Roles, replaced : BOOLEAN, revoked : BOOLEAN]

Connection == [at : {"connected"}, subject : Subject, role : Roles]

(* Only an account absorbs a guest, and a guest that joins has its link. *)
UnderWayOK(w) ==
    /\ w.guest \in Guest => w.subject \in Account
    /\ w.at \in {"note", "drop", "rename", "recheck"} \/ w.replaced => w.guest \in Guest
    /\ w.how = "join" /\ w.subject \in Guest => w.invite \in Invite

Visits == {Idle} \cup Connection \cup {w \in UnderWay : UnderWayOK(w)}

Requests ==
    {Idle}
    \cup [at : {"revoke"}, invite : Invite, drop : SUBSET Subject]
    \cup [at : {"reconnect"}, drop : SUBSET Subject]
    \cup [at : {"access"}, allow : BOOLEAN, drop : SUBSET Subject]
    \cup [at : {"role"}, subject : Subject, role : Roles]
    \cup [at : {"kick", "close"}, subject : Subject, absorbed : SUBSET Guest,
          invite : Invite \cup {None}, exempt : BOOLEAN, present : SUBSET Guest,
          drop : SUBSET Subject]

Types ==
    /\ members \subseteq Entry
    /\ kicked \subseteq Subject
    /\ invites \in [Invite -> {"none", "live", "revoked"}]
    /\ allowGuests \in BOOLEAN
    /\ tokens \subseteq Token
    /\ visit \in [Visitor -> Visits]
    /\ request \in [Request -> Requests]
    /\ named \subseteq kicked
    /\ demoted \subseteq Subject

Unique == \A m, n \in members : m.subject = n.subject => m = n

(* A slot through which s is, or may yet be, served. *)
Serving(w, s) ==
    /\ w # Idle
    /\ w.subject = s
    /\ w.at = "connected" \/ (w.how = "connect" /\ ~w.revoked)

Closing(s) == \E r \in Request : request[r].at = "close" /\ request[r].subject = s

(* No entry of anybody kicked; and whoever was kicked by name is on no way
   in but one that the request still under way is about to close. *)
KickInv ==
    /\ \A m \in members : m.subject \notin kicked
    /\ \A s \in named, v \in Visitor : Serving(visit[v], s) => Closing(s)

(* A demoted member's entry says viewer; and a demoted guest is an editor
   on no way in, unless the server has still to be told. *)
DemotionInv ==
    /\ \A s \in demoted : IsMember(s) /\ \A m \in Entries(s) : m.role = "viewer"
    /\ \A s \in demoted \cap Guest, v \in Visitor :
          Serving(visit[v], s) /\ visit[v].role = "editor" => ~Told(s)

IInv == Types /\ Unique /\ KickInv /\ DemotionInv

-----------------------------------------------------------------------------
(* The helpers. *)

(* The entry a subject has is the only one. *)
LEMMA EntryOfIs ==
  ASSUME Unique, NEW s, IsMember(s)
  PROVE  /\ EntryOf(s) \in members /\ EntryOf(s).subject = s
         /\ Entries(s) = {EntryOf(s)}
<1>1. \E m \in members : m.subject = s
  BY DEF IsMember, Entries
<1>2. EntryOf(s) \in members /\ EntryOf(s).subject = s
  BY <1>1 DEF EntryOf
<1> QED  BY <1>2 DEF Unique, Entries

(* What a visit plans after its read has the shape the others expect, and
   an entry's role goes before the link's. *)
LEMMA PlanProps ==
  ASSUME Types, Unique,
         NEW how \in {"join", "connect"}, NEW s \in Subject, NEW g \in Guest \cup {None},
         NEW i \in Invite \cup {None}, NEW role \in Roles, NEW valid \in BOOLEAN,
         g \in Guest => s \in Account,
         how = "join" /\ s \in Guest => i \in Invite
  PROVE  /\ Plan(how, s, g, i, role, valid) \in UnderWay
         /\ UnderWayOK(Plan(how, s, g, i, role, valid))
         /\ Plan(how, s, g, i, role, valid).subject = s
         /\ Plan(how, s, g, i, role, valid).how = how
         /\ IsMember(s) => Plan(how, s, g, i, role, valid).role = EntryOf(s).role
<1>1. IsMember(s) => EntryOf(s).role \in Roles
  BY EntryOfIs DEF Types, Entry
<1> DEFINE absorbs == g # None /\ IsMember(g)
           at == IF absorbs /\ IsMember(s) THEN "note"
                 ELSE IF absorbs /\ valid THEN "rename"
                 ELSE IF absorbs THEN "drop"
                 ELSE IF ~IsMember(s) THEN "push"
                 ELSE IF how = "join" /\ i \notin {None, EntryOf(s).invite} THEN "refresh"
                 ELSE "authed"
           first == IF IsMember(s) THEN EntryOf(s).role ELSE role
<1>2. at \in Stages /\ (at \in {"note", "drop", "rename", "recheck"} => g \in Guest)
  BY MembershipAssumption DEF Stages
<1>3. first \in Roles /\ IsMember(s) \in BOOLEAN /\ (IsMember(s) => first = EntryOf(s).role)
  BY <1>1 DEF IsMember
<1>4. Plan(how, s, g, i, role, valid) =
        [at |-> at, how |-> how, subject |-> s, guest |-> g, invite |-> i,
         known |-> IsMember(s), role |-> first, replaced |-> FALSE, revoked |-> FALSE]
  BY DEF Plan
<1> HIDE DEF at, first
<1> QED
  BY <1>2, <1>3, <1>4 DEF UnderWay, UnderWayOK

(* A visit that settles forgets nothing that its end needs. *)
LEMMA ForgetProps ==
  ASSUME NEW w \in Visits
  PROVE  /\ Forget(w) \in Visits
         /\ Forget(w) = Idle <=> w = Idle
         /\ \A s : Serving(Forget(w), s) => Serving(w, s) /\ Forget(w).role = w.role
         /\ w # Idle => Forget(w).subject = w.subject
<1>1. CASE w = Idle
  BY <1>1 DEF Forget, Serving
<1>2. CASE w \in Connection
  BY <1>2 DEF Forget, Connection, Serving, Idle
<1>3. CASE w \in UnderWay /\ UnderWayOK(w)
  <2>1. CASE w.at # "authed"
    BY <1>3, <2>1 DEF Forget
  <2>2. CASE w.at = "authed"
    <3> DEFINE guest == IF w.replaced THEN w.guest ELSE None
               role == IF w.how = "join" THEN "viewer" ELSE w.role
               invite == IF w.how = "join" /\ w.subject \in Guest THEN w.invite ELSE None
    <3>1. Forget(w) = [w EXCEPT !.known = FALSE, !.guest = guest, !.role = role, !.invite = invite]
      BY <1>3, <2>2 DEF Forget, Idle, UnderWay
    <3>2. /\ guest \in Guest \cup {None} /\ role \in Roles /\ invite \in Invite \cup {None}
          /\ guest \in Guest => w.subject \in Account
          /\ w.replaced => guest \in Guest
          /\ w.how = "join" /\ w.subject \in Guest => invite \in Invite
          /\ w.how = "connect" => role = w.role
      BY <1>3, MembershipAssumption DEF UnderWay, UnderWayOK, Roles
    <3> HIDE DEF guest, role, invite
    <3>3. /\ Forget(w) \in UnderWay
          /\ Forget(w).at = "authed" /\ Forget(w).how = w.how /\ Forget(w).subject = w.subject
          /\ Forget(w).guest = guest /\ Forget(w).invite = invite /\ Forget(w).role = role
          /\ Forget(w).replaced = w.replaced /\ Forget(w).revoked = w.revoked
      BY <1>3, <2>2, <3>1, <3>2 DEF UnderWay
    <3>4. UnderWayOK(Forget(w)) /\ Forget(w) # Idle /\ w # Idle
      BY <2>2, <3>2, <3>3 DEF UnderWayOK, Idle
    <3>5. \A s : Serving(Forget(w), s) => Serving(w, s) /\ Forget(w).role = w.role
      BY <1>3, <2>2, <3>2, <3>3, <3>4 DEF Serving, UnderWay
    <3> QED  BY <3>3, <3>4, <3>5 DEF Visits
  <2> QED  BY <2>1, <2>2
<1> QED  BY <1>1, <1>2, <1>3 DEF Visits

(* Nobody the server was told of goes on being served. *)
LEMMA RevokedProps ==
  ASSUME NEW w \in Visits, NEW S
  PROVE  /\ Revoked(w, S) \in Visits
         /\ \A s : Serving(Revoked(w, S), s) =>
              s \notin S /\ Serving(w, s) /\ Revoked(w, S).role = w.role
<1>1. CASE w = Idle
  BY <1>1 DEF Revoked, Serving, Visits
<1>2. CASE w \in Connection
  BY <1>2 DEF Revoked, Connection, Serving, Idle, Visits
<1>3. CASE w \in UnderWay /\ UnderWayOK(w)
  BY <1>3 DEF Revoked, UnderWay, UnderWayOK, Stages, Visits, Idle, Serving
<1> QED  BY <1>1, <1>2, <1>3 DEF Visits

(* A slot is given what its visit has become, and the others are left. *)
LEMMA BecomeProps ==
  ASSUME visit \in [Visitor -> Visits], NEW v \in Visitor, NEW w \in Visits, Become(v, w)
  PROVE  /\ visit' \in [Visitor -> Visits]
         /\ visit'[v] = Forget(w)
         /\ \A u \in Visitor \ {v} : visit'[u] = visit[u]
BY ForgetProps DEF Become

-----------------------------------------------------------------------------
(* What a step does to the ways in. *)

(* No way in is opened by the step, nor a guest's made an editor's. *)
NoNewWay ==
    \A v \in Visitor, s \in Subject :
        Serving(visit'[v], s) =>
            Serving(visit[v], s) /\ (s \in Guest => visit'[v].role = visit[v].role)

(* A visit under way goes on for the same person, or gives up. *)
LEMMA GoesOn ==
  ASSUME IInv, NEW v \in Visitor, NEW w, Become(v, w),
         \/ w = Idle
         \/ /\ w \in UnderWay /\ UnderWayOK(w)
            /\ visit[v] \in UnderWay
            /\ w.subject = visit[v].subject /\ w.how = visit[v].how
            /\ w.revoked = visit[v].revoked
            /\ w.subject \in Guest => w.role = visit[v].role
  PROVE  visit' \in [Visitor -> Visits] /\ NoNewWay
<1>1. w \in Visits /\ visit \in [Visitor -> Visits]
  BY DEF IInv, Types, Visits
<1>2. /\ visit' \in [Visitor -> Visits]
      /\ visit'[v] = Forget(w)
      /\ \A u \in Visitor \ {v} : visit'[u] = visit[u]
  BY <1>1, BecomeProps
<1>3. ASSUME NEW s \in Subject, Serving(visit'[v], s)
      PROVE  Serving(visit[v], s) /\ (s \in Guest => visit'[v].role = visit[v].role)
  <2>1. Serving(w, s) /\ visit'[v].role = w.role
    BY <1>1, <1>2, <1>3, ForgetProps
  <2>2. w # Idle
    BY <2>1 DEF Serving
  <2> QED  BY <2>1, <2>2 DEF Serving, UnderWay, Stages, Idle
<1> QED  BY <1>2, <1>3 DEF NoNewWay

(* The server is told of the subjects S. *)
LEMMA ServerTold ==
  ASSUME visit \in [Visitor -> Visits], NEW S, visit' = [v \in Visitor |-> Revoked(visit[v], S)]
  PROVE  /\ visit' \in [Visitor -> Visits] /\ NoNewWay
         /\ \A v \in Visitor, s \in S : ~Serving(visit'[v], s)
BY RevokedProps DEF NoNewWay

(* What is kept about the ways in is kept by a step that opens none, kicks
   and demotes nobody, and leaves the owner's requests alone. *)
LEMMA WaysKept ==
  ASSUME IInv, NoNewWay, UNCHANGED <<request, named>>, demoted' \cap Guest \subseteq demoted
  PROVE  /\ \A s \in named', v \in Visitor : Serving(visit'[v], s) => Closing(s)'
         /\ \A s \in demoted' \cap Guest, v \in Visitor :
              Serving(visit'[v], s) /\ visit'[v].role = "editor" => ~Told(s)'
<1>1. \A s \in named : s \in Subject
  BY DEF IInv, Types
<1>2. \A s \in demoted : s \in Subject
  BY DEF IInv, Types
<1>3. \A s : (Closing(s)' <=> Closing(s)) /\ (Told(s)' <=> Told(s))
  BY DEF Closing, Told
<1> QED  BY <1>1, <1>2, <1>3 DEF NoNewWay, IInv, KickInv, DemotionInv

(* One whose entries are left alone too keeps the whole invariant. *)
LEMMA VisitStep ==
  ASSUME IInv, visit' \in [Visitor -> Visits], NoNewWay, tokens' \subseteq Token,
         UNCHANGED <<session, request, history>>
  PROVE  IInv'
<1>1. Types'
  BY DEF IInv, Types, session, history
<1>2. Unique'
  BY DEF IInv, Unique, session
<1>3. KickInv' /\ DemotionInv'
  BY WaysKept DEF IInv, KickInv, DemotionInv, session, history, IsMember, Entries
<1> QED  BY <1>1, <1>2, <1>3 DEF IInv

-----------------------------------------------------------------------------
(* Arriving. *)

(* A new visit reads that its subject is not kicked, and a demoted guest's
   entry says viewer. *)
LEMMA ArrivalInv ==
  ASSUME IInv, NEW v \in Visitor,
         NEW how \in {"join", "connect"}, NEW s \in Subject \ kicked, NEW g \in Guest \cup {None},
         NEW i \in Invite \cup {None}, NEW role \in Roles, NEW valid \in BOOLEAN,
         g \in Guest => s \in Account,
         how = "join" /\ s \in Guest => i \in Invite,
         Become(v, Plan(how, s, g, i, role, valid)),
         UNCHANGED <<session, tokens, request, history>>
  PROVE  IInv'
<1> DEFINE w == Plan(how, s, g, i, role, valid)
<1>1. Types /\ Unique
  BY DEF IInv
<1>2. /\ w \in UnderWay /\ UnderWayOK(w)
      /\ w.subject = s
      /\ IsMember(s) => w.role = EntryOf(s).role
  BY <1>1, PlanProps
<1> HIDE DEF w
<1>3. w \in Visits
  BY <1>2 DEF Visits
<1>4. /\ visit' \in [Visitor -> Visits]
      /\ visit'[v] = Forget(w)
      /\ \A u \in Visitor \ {v} : visit'[u] = visit[u]
  BY <1>1, <1>3, BecomeProps DEF Types, w
<1>5. \A q : Serving(visit'[v], q) => q = s /\ visit'[v].role = w.role
  BY <1>2, <1>3, <1>4, ForgetProps DEF Serving
<1>6. Types'
  BY <1>1, <1>4 DEF Types, session, history
<1>7. Unique'
  BY <1>1 DEF Unique, session
<1>8. \A q : (Closing(q)' <=> Closing(q)) /\ (Told(q)' <=> Told(q))
  BY DEF Closing, Told
<1>9. KickInv'
  <2>1. s \notin named
    BY <1>1 DEF Types
  <2> QED  BY <1>4, <1>5, <1>8, <2>1 DEF IInv, KickInv, session, history
<1>10. DemotionInv'
  <2>1. s \in demoted => w.role = "viewer"
    BY <1>1, <1>2, EntryOfIs DEF IInv, DemotionInv
  <2> QED
    BY <1>4, <1>5, <1>8, <2>1 DEF IInv, DemotionInv, session, history, IsMember, Entries
<1> QED  BY <1>6, <1>7, <1>9, <1>10 DEF IInv

LEMMA ArriveInv ==
  ASSUME IInv, NEW v \in Visitor, Arrive(v)
  PROVE  IInv'
<1> USE MembershipAssumption DEF Subject, Token, Roles
<1>1. Types /\ Unique
  BY DEF IInv
<1>2. ASSUME NEW t \in tokens, connectGuest(v, t)
      PROVE  IInv'
  <2>1. t.guest \in Subject \ kicked /\ t.invite \in Invite /\ InviteRole[t.invite] \in Roles
    BY <1>1, <1>2 DEF Types, connectGuest
  <2>2. t.guest \in Guest /\ None \notin Guest
    BY <1>1 DEF Types
  <2> QED  BY <1>2, <2>1, <2>2, ArrivalInv DEF connectGuest
<1>3. ASSUME NEW a \in Account, connectAccount(v, a)
      PROVE  IInv'
  <2>1. a \in Subject \ kicked
    BY <1>3 DEF connectAccount
  <2>2. CASE Become(v, Plan("connect", a, None, None, "viewer", FALSE))
    BY <1>3, <2>1, <2>2, ArrivalInv DEF connectAccount
  <2>3. ASSUME NEW t \in tokens,
               NEW role, role = IF IsMember(t.guest) THEN EntryOf(t.guest).role ELSE InviteRole[t.invite],
               Become(v, Plan("connect", a, t.guest, None, role, TRUE))
        PROVE  IInv'
    <3>1. t.guest \in Guest /\ t.invite \in Invite
      BY <1>1 DEF Types
    <3>2. IsMember(t.guest) => EntryOf(t.guest).role \in Roles
      BY <1>1, EntryOfIs DEF Types, Entry
    <3>3. role \in Roles
      BY <2>3, <3>1, <3>2
    <3> QED  BY <1>3, <2>1, <2>3, <3>1, <3>3, ArrivalInv DEF connectAccount
  <2> QED  BY <1>3, <2>2, <2>3 DEF connectAccount
<1>4. ASSUME NEW a \in Account, NEW i \in Invite, joinAccount(v, i, a)
      PROVE  IInv'
  <2>1. a \in Subject \ kicked /\ a \notin Guest /\ InviteRole[i] \in Roles
    BY <1>4 DEF joinAccount
  <2>2. CASE Become(v, Plan("join", a, None, None, InviteRole[i], FALSE))
    BY <1>4, <2>1, <2>2, ArrivalInv DEF joinAccount
  <2>3. ASSUME NEW t \in tokens, NEW valid \in BOOLEAN,
               Become(v, Plan("join", a, t.guest, None, InviteRole[i], valid))
        PROVE  IInv'
    <3>1. t.guest \in Guest
      BY <1>1 DEF Types
    <3> QED  BY <1>4, <2>1, <2>3, <3>1, ArrivalInv DEF joinAccount
  <2>4. \A t \in tokens, inTime \in BOOLEAN :
          (allowGuests /\ invites[t.invite] = "live" /\ inTime) \in BOOLEAN
    OBVIOUS
  <2> QED  BY <1>4, <2>2, <2>3, <2>4 DEF joinAccount
<1>5. ASSUME NEW g \in Guest, NEW i \in Invite, joinGuest(v, i, g)
      PROVE  IInv'
  <2>1. g \in Subject \ kicked /\ InviteRole[i] \in Roles /\ None \notin Guest
    BY <1>5 DEF joinGuest
  <2> QED  BY <1>5, <2>1, ArrivalInv DEF joinGuest
<1> QED  BY <1>2, <1>3, <1>4, <1>5 DEF Arrive

-----------------------------------------------------------------------------
(* Absorbing and entering. *)

(* At a stage before the last a visit is one under way. *)
LEMMA AtStage ==
  ASSUME Types, NEW v \in Visitor, visit[v].at \in Stages
  PROVE  visit[v] \in UnderWay /\ UnderWayOK(visit[v])
BY DEF Types, Visits, Stages, Connection, Idle

(* Entries that are changed in place keep their subjects. *)
LEMMA InPlace ==
  ASSUME Types, Unique, NEW changed \in [members -> Entry],
         \A m \in members : changed[m].subject = m.subject,
         members' = {changed[m] : m \in members}
  PROVE  /\ members' \subseteq Entry /\ Unique'
         /\ \A s : IsMember(s)' <=> IsMember(s)
         /\ \A s : \A n \in Entries(s)' : \E m \in Entries(s) : n = changed[m]
BY DEF Unique, IsMember, Entries

LEMMA NoteAbsorbedInv ==
  ASSUME IInv, NEW v \in Visitor, noteAbsorbed(v)
  PROVE  IInv'
<1> DEFINE w == visit[v]
           changed == [m \in members |->
             [m EXCEPT !.absorbed = IF m.subject = w.subject THEN @ \cup {w.guest} ELSE @]]
<1>1. Types /\ Unique /\ w \in UnderWay /\ UnderWayOK(w) /\ w.at = "note"
  BY AtStage DEF IInv, noteAbsorbed, Stages
<1>2. w.guest \in Guest
  BY <1>1 DEF UnderWayOK
<1>3. /\ changed \in [members -> Entry]
      /\ \A m \in members : changed[m].subject = m.subject /\ changed[m].role = m.role
  BY <1>1, <1>2 DEF Types, Entry
<1>4. members' = {changed[m] : m \in members}
  BY DEF noteAbsorbed
<1> HIDE DEF changed
<1>5. /\ members' \subseteq Entry /\ Unique'
      /\ \A s : IsMember(s)' <=> IsMember(s)
      /\ \A s : \A n \in Entries(s)' : \E m \in Entries(s) : n = changed[m]
  BY <1>1, <1>3, <1>4, InPlace
<1>6. visit' \in [Visitor -> Visits] /\ NoNewWay
  BY <1>1, GoesOn DEF noteAbsorbed, UnderWay, UnderWayOK, Stages
<1>7. Types'
  BY <1>1, <1>5, <1>6 DEF Types, noteAbsorbed, history
<1>8. KickInv'
  BY <1>3, <1>4, <1>6, WaysKept DEF noteAbsorbed, history, IInv, KickInv
<1>9. DemotionInv'
  BY <1>3, <1>5, <1>6, WaysKept DEF noteAbsorbed, history, IInv, DemotionInv, Entries
<1> QED  BY <1>5, <1>7, <1>8, <1>9 DEF IInv

LEMMA RefreshInviteInv ==
  ASSUME IInv, NEW v \in Visitor, refreshInvite(v)
  PROVE  IInv'
<1> DEFINE w == visit[v]
           changed == [m \in members |->
             [m EXCEPT !.invite = IF m.subject = w.subject THEN w.invite ELSE @]]
<1>1. Types /\ Unique /\ w \in UnderWay /\ UnderWayOK(w) /\ w.at = "refresh"
  BY AtStage DEF IInv, refreshInvite, Stages
<1>2. /\ changed \in [members -> Entry]
      /\ \A m \in members : changed[m].subject = m.subject /\ changed[m].role = m.role
  BY <1>1 DEF Types, Entry, UnderWay
<1>3. members' = {changed[m] : m \in members}
  BY DEF refreshInvite
<1> HIDE DEF changed
<1>4. /\ members' \subseteq Entry /\ Unique'
      /\ \A s : IsMember(s)' <=> IsMember(s)
      /\ \A s : \A n \in Entries(s)' : \E m \in Entries(s) : n = changed[m]
  BY <1>1, <1>2, <1>3, InPlace
<1>5. visit' \in [Visitor -> Visits] /\ NoNewWay
  BY <1>1, GoesOn DEF refreshInvite, UnderWay, UnderWayOK, Stages
<1>6. Types'
  BY <1>1, <1>4, <1>5 DEF Types, refreshInvite, history
<1>7. KickInv'
  BY <1>2, <1>3, <1>5, WaysKept DEF refreshInvite, history, IInv, KickInv
<1>8. DemotionInv'
  BY <1>2, <1>4, <1>5, WaysKept DEF refreshInvite, history, IInv, DemotionInv, Entries
<1> QED  BY <1>4, <1>6, <1>7, <1>8 DEF IInv

LEMMA DropGuestInv ==
  ASSUME IInv, NEW v \in Visitor, dropGuest(v)
  PROVE  IInv'
<1> DEFINE w == visit[v]
<1>1. Types /\ Unique /\ w \in UnderWay /\ UnderWayOK(w) /\ w.at = "drop"
  BY AtStage DEF IInv, dropGuest, Stages
<1>2. visit' \in [Visitor -> Visits] /\ NoNewWay
  <2> DEFINE u == [w EXCEPT !.replaced = TRUE, !.at = IF w.known THEN "authed" ELSE "push"]
  <2>1. Become(v, u)
    BY DEF dropGuest
  <2>2. /\ u \in UnderWay /\ u.subject = w.subject /\ u.how = w.how /\ u.revoked = w.revoked
        /\ u.role = w.role /\ u.guest = w.guest /\ u.invite = w.invite
        /\ w.guest \in Guest
    BY <1>1 DEF UnderWay, UnderWayOK, Stages
  <2>3. UnderWayOK(u)
    BY <1>1, <2>2 DEF UnderWayOK
  <2> HIDE DEF u
  <2> QED  BY <1>1, <2>1, <2>2, <2>3, GoesOn
<1>3. members' \subseteq members /\ \A m \in members : m.subject # w.guest => m \in members'
  BY DEF dropGuest, Entries
<1>4. Types'
  BY <1>1, <1>2, <1>3 DEF Types, dropGuest
<1>5. Unique'
  BY <1>1, <1>3 DEF Unique
<1>6. KickInv'
  BY <1>2, <1>3, WaysKept DEF dropGuest, IInv, KickInv
<1>7. DemotionInv'
  <2>1. demoted' = demoted \ {w.guest} /\ UNCHANGED <<request, named>>
    BY DEF dropGuest
  <2> QED
    BY <1>2, <1>3, <2>1, WaysKept DEF IInv, DemotionInv, IsMember, Entries
<1> QED  BY <1>4, <1>5, <1>6, <1>7 DEF IInv

(* The guest's entry becomes the account's, role and demotion with it. *)
LEMMA RenameGuestInv ==
  ASSUME IInv, NEW v \in Visitor, renameGuest(v)
  PROVE  IInv'
<1> DEFINE w == visit[v]
           a == w.subject
           g == w.guest
<1>1. Types /\ Unique /\ w \in UnderWay /\ UnderWayOK(w) /\ w.at = "rename"
  BY AtStage DEF IInv, renameGuest, Stages
<1>2. g \in Guest /\ a \in Account /\ a \notin Guest /\ a \in Subject
  BY <1>1, MembershipAssumption DEF UnderWayOK, Subject
<1>3. CASE MayRename(a, g)
  <2>1. /\ IsMember(g) /\ ~IsMember(a) /\ a \notin kicked /\ g \notin kicked
    BY <1>3 DEF MayRename
  <2> DEFINE e == EntryOf(g)
             n == [e EXCEPT !.subject = a, !.invite = None, !.absorbed = @ \cup {g}]
  <2>2. e \in Entry /\ e.subject = g /\ Entries(g) = {e} /\ e \in members
    BY <1>1, <2>1, EntryOfIs DEF Types
  <2>3. n \in Entry /\ n.subject = a /\ n.role = e.role /\ n = Renamed(v, e)
    BY <1>2, <2>2 DEF Entry, Renamed
  <2>4. members' = (members \ {e}) \cup {n}
    BY <1>3, <2>2, <2>3 DEF renameGuest
  <2>5. demoted' = (demoted \ {g}) \cup {a : h \in demoted \cap {g}}
    BY <1>3 DEF renameGuest
  <2>6. UNCHANGED <<kicked, invites, allowGuests, tokens, request, named>>
    BY DEF renameGuest
  <2>7. visit' \in [Visitor -> Visits] /\ NoNewWay
    <3> DEFINE u == [w EXCEPT !.at = "authed", !.known = TRUE, !.replaced = TRUE, !.role = e.role]
    <3>1. Become(v, u)
      BY <1>3 DEF renameGuest
    <3>2. /\ u \in UnderWay /\ u.subject = w.subject /\ u.how = w.how /\ u.revoked = w.revoked
          /\ u.guest = w.guest /\ u.invite = w.invite
      BY <1>1, <2>2 DEF UnderWay, Stages, Entry
    <3>3. UnderWayOK(u)
      BY <1>1, <1>2, <3>2 DEF UnderWayOK
    <3> HIDE DEF u
    <3> QED  BY <1>1, <1>2, <3>1, <3>2, <3>3, GoesOn
  <2> HIDE DEF e, n
  <2>8. \A m \in members : m.subject # a
    BY <2>1 DEF IsMember, Entries
  <2>9. Types'
    BY <1>1, <1>2, <2>3, <2>4, <2>5, <2>6, <2>7 DEF Types
  <2>10. Unique'
    BY <1>1, <2>3, <2>4, <2>8 DEF Unique
  <2>11. KickInv'
    <3>1. demoted' \cap Guest \subseteq demoted
      BY <1>2, <2>5
    <3> QED  BY <2>1, <2>3, <2>4, <2>6, <2>7, <3>1, WaysKept DEF IInv, KickInv
  <2>12. DemotionInv'
    <3>1. demoted' \cap Guest \subseteq demoted
      BY <1>2, <2>5
    <3>2. ASSUME NEW s \in demoted' PROVE (IsMember(s) /\ \A m \in Entries(s) : m.role = "viewer")'
      <4>1. CASE s = a /\ g \in demoted
        <5>1. e.role = "viewer"
          BY <2>2, <4>1 DEF IInv, DemotionInv
        <5> QED  BY <2>3, <2>4, <2>8, <4>1, <5>1 DEF IsMember, Entries
      <4>2. CASE s \in demoted /\ s # g /\ s # a
        BY <2>2, <2>3, <2>4, <4>2 DEF IInv, DemotionInv, IsMember, Entries
      <4>3. a \notin demoted
        BY <2>1 DEF IInv, DemotionInv
      <4> QED  BY <2>5, <4>1, <4>2, <4>3
    <3> QED  BY <2>6, <2>7, <3>1, <3>2, WaysKept DEF DemotionInv
  <2> QED  BY <2>9, <2>10, <2>11, <2>12 DEF IInv
<1>4. CASE ~MayRename(a, g)
  <2>1. visit' \in [Visitor -> Visits] /\ NoNewWay
    BY <1>1, <1>4, GoesOn DEF renameGuest, UnderWay, UnderWayOK, Stages
  <2> QED
    BY <1>1, <1>4, <2>1, VisitStep DEF renameGuest, session, history, Types
<1> QED  BY <1>3, <1>4

LEMMA RecheckGuestInv ==
  ASSUME IInv, NEW v \in Visitor, recheckGuest(v)
  PROVE  IInv'
<1> DEFINE w == visit[v]
           a == w.subject
           g == w.guest
<1>1. Types /\ Unique /\ w \in UnderWay /\ UnderWayOK(w) /\ w.at = "recheck"
  BY AtStage DEF IInv, recheckGuest, Stages
<1>2. g \in Guest /\ a \in Account /\ a \notin Guest
  BY <1>1, MembershipAssumption DEF UnderWayOK
<1>3. visit' \in [Visitor -> Visits] /\ NoNewWay
  <2>1. CASE {a, g} \cap kicked # {}
    BY <2>1, GoesOn DEF recheckGuest
  <2>2. CASE {a, g} \cap kicked = {} /\ ~IsMember(a)
    BY <1>1, <2>2, GoesOn DEF recheckGuest, UnderWay, UnderWayOK, Stages
  <2>3. CASE {a, g} \cap kicked = {} /\ IsMember(a)
    <3> DEFINE u == [w EXCEPT !.at = IF IsMember(g) THEN "note" ELSE "authed",
                              !.known = TRUE, !.role = EntryOf(a).role, !.replaced = ~IsMember(g)]
    <3>1. Become(v, u)
      BY <2>3 DEF recheckGuest
    <3>2. EntryOf(a).role \in Roles
      BY <1>1, <2>3, EntryOfIs DEF Types, Entry
    <3>3. /\ u \in UnderWay /\ u.subject = w.subject /\ u.how = w.how /\ u.revoked = w.revoked
          /\ u.guest = w.guest /\ u.invite = w.invite
      BY <1>1, <3>2 DEF UnderWay, Stages, IsMember
    <3>4. UnderWayOK(u)
      BY <1>1, <1>2, <3>3 DEF UnderWayOK
    <3> HIDE DEF u
    <3> QED  BY <1>1, <1>2, <3>1, <3>3, <3>4, GoesOn
  <2> QED  BY <2>1, <2>2, <2>3
<1> QED  BY <1>1, <1>3, VisitStep DEF recheckGuest, session, history, Types

(* A new member was neither kicked nor in the session, and so not demoted. *)
LEMMA PushMemberInv ==
  ASSUME IInv, NEW v \in Visitor, pushMember(v)
  PROVE  IInv'
<1> DEFINE w == visit[v]
           s == w.subject
<1>1. Types /\ Unique /\ w \in UnderWay /\ UnderWayOK(w) /\ w.at = "push"
  BY AtStage DEF IInv, pushMember, Stages
<1>2. visit' \in [Visitor -> Visits] /\ NoNewWay
  BY <1>1, GoesOn DEF pushMember, UnderWay, UnderWayOK, Stages
<1>3. CASE MayPush(s)
  <2> DEFINE n == [subject |-> s, role |-> w.role, invite |-> w.invite,
                   absorbed |-> IF w.replaced THEN {w.guest} ELSE {}]
  <2>1. ~IsMember(s) /\ s \notin kicked
    BY <1>3 DEF MayPush
  <2>2. n \in Entry /\ n.subject = s
    BY <1>1 DEF UnderWay, UnderWayOK, Entry
  <2>3. members' = members \cup {n}
    BY <1>3 DEF pushMember
  <2>4. UNCHANGED <<kicked, invites, allowGuests, tokens, request, named, demoted>>
    BY DEF pushMember, history
  <2> HIDE DEF n
  <2>5. \A m \in members : m.subject # s
    BY <2>1 DEF IsMember, Entries
  <2>6. Types'
    BY <1>1, <1>2, <2>2, <2>3, <2>4 DEF Types
  <2>7. Unique'
    BY <1>1, <2>2, <2>3, <2>5 DEF Unique
  <2>8. KickInv'
    BY <1>2, <2>1, <2>2, <2>3, <2>4, WaysKept DEF IInv, KickInv
  <2>9. DemotionInv'
    <3>1. s \notin demoted
      BY <2>1 DEF IInv, DemotionInv
    <3> QED
      BY <1>2, <2>2, <2>3, <2>4, <3>1, WaysKept DEF IInv, DemotionInv, IsMember, Entries
  <2> QED  BY <2>6, <2>7, <2>8, <2>9 DEF IInv
<1>4. CASE ~MayPush(s)
  BY <1>1, <1>2, <1>4, VisitStep DEF pushMember, session, history, Types
<1> QED  BY <1>3, <1>4

LEMMA RereadMembersInv ==
  ASSUME IInv, NEW v \in Visitor, rereadMembers(v)
  PROVE  IInv'
<1>1. /\ Types
      /\ visit[v] \in UnderWay /\ UnderWayOK(visit[v]) /\ visit[v].at = "reread"
  BY AtStage DEF IInv, rereadMembers, Stages
<1>2. visit' \in [Visitor -> Visits] /\ NoNewWay
  <2>1. CASE IsMember(visit[v].subject)
    BY <1>1, <2>1, GoesOn DEF rereadMembers, UnderWay, UnderWayOK, Stages
  <2>2. CASE ~IsMember(visit[v].subject)
    BY <2>2, GoesOn DEF rereadMembers
  <2> QED  BY <2>1, <2>2
<1> QED  BY <1>1, <1>2, VisitStep DEF rereadMembers, session, history, Types

-----------------------------------------------------------------------------
(* The ends of a visit. *)

LEMMA JoinedInv ==
  ASSUME IInv, NEW v \in Visitor, joined(v)
  PROVE  IInv'
<1>1. /\ Types
      /\ visit[v] \in UnderWay /\ UnderWayOK(visit[v]) /\ visit[v].how = "join"
  BY AtStage DEF IInv, joined, Stages
<1>2. visit' \in [Visitor -> Visits] /\ NoNewWay
  BY <1>1, RevokedProps DEF joined, NoNewWay, Types, Visits, Serving
<1>3. tokens' \subseteq Token
  BY <1>1 DEF joined, Types, Token, UnderWayOK, UnderWay
<1> QED  BY <1>2, <1>3, VisitStep DEF joined

LEMMA ConnectedInv ==
  ASSUME IInv, NEW v \in Visitor, connected(v)
  PROVE  IInv'
<1> DEFINE w == visit[v]
           c == [at |-> "connected", subject |-> w.subject, role |-> w.role]
<1>1. Types /\ w \in UnderWay /\ UnderWayOK(w) /\ w.how = "connect"
  BY AtStage DEF IInv, connected, Stages
<1>2. visit' \in [Visitor -> Visits] /\ NoNewWay
  <2>1. CASE w.revoked
    BY <2>1, GoesOn DEF connected
  <2>2. CASE ~w.revoked
    <3>1. visit' = [u \in Visitor |-> IF u = v THEN c ELSE Revoked(visit[u], Replaced(v))]
      BY <2>2 DEF connected
    <3>2. c \in Visits
      BY <1>1 DEF Visits, Connection, UnderWay
    <3>3. \A s : Serving(c, s) => Serving(w, s) /\ c.role = w.role
      BY <1>1, <2>2 DEF Serving, UnderWay, Stages, Idle
    <3> HIDE DEF c
    <3> QED  BY <1>1, <3>1, <3>2, <3>3, RevokedProps DEF NoNewWay, Types
  <2> QED  BY <2>1, <2>2
<1> QED  BY <1>1, <1>2, VisitStep DEF connected, session, history, Types

LEMMA LeaveInv ==
  ASSUME IInv, NEW v \in Visitor, Leave(v)
  PROVE  IInv'
<1>1. visit' \in [Visitor -> Visits] /\ NoNewWay
  BY GoesOn DEF Leave
<1> QED  BY <1>1, VisitStep DEF Leave, session, history, IInv, Types

-----------------------------------------------------------------------------
(* The owner's requests. *)

LEMMA AnswerTypes ==
  ASSUME Types, NEW r \in Request, NEW q \in Requests, Answer(r, q)
  PROVE  /\ request' \in [Request -> Requests]
         /\ request'[r] = q
         /\ \A p \in Request \ {r} : request'[p] = request[p]
BY DEF Types, Answer

(* A request that neither closes nor owes a reconnect, nor comes to close,
   changes what is kept about the ways in for the better only. *)
LEMMA RequestStep ==
  ASSUME IInv, NEW r \in Request, NEW q \in Requests, Answer(r, q),
         request[r].at \notin {"close", "reconnect"},
         UNCHANGED <<members, kicked, tokens, visit, history>>,
         invites' \in [Invite -> {"none", "live", "revoked"}], allowGuests' \in BOOLEAN
  PROVE  IInv'
<1>1. /\ request' \in [Request -> Requests]
      /\ request'[r] = q
      /\ \A p \in Request \ {r} : request'[p] = request[p]
  BY AnswerTypes DEF IInv
<1>2. Types' /\ Unique'
  BY <1>1 DEF IInv, Types, Unique, history
<1>3. \A s : (Closing(s) => Closing(s)') /\ (~Told(s) => ~Told(s)')
  BY <1>1 DEF Closing, Told
<1>4. KickInv'
  BY <1>3 DEF IInv, KickInv, history
<1>5. DemotionInv'
  BY <1>3 DEF IInv, DemotionInv, history, IsMember, Entries
<1> QED  BY <1>2, <1>4, <1>5 DEF IInv

LEMMA AskInv ==
  ASSUME IInv, NEW r \in Request, Ask(r)
  PROVE  IInv'
<1>1. Types /\ Unique
  BY DEF IInv
<1>2. ASSUME NEW q \in Requests, Answer(r, q), request[r] = Idle, UNCHANGED <<session, tokens, visit, history>>
      PROVE  IInv'
  BY <1>1, <1>2, RequestStep DEF Idle, session, Types
<1>3. {m.subject : m \in members} \in SUBSET Subject
  BY <1>1 DEF Types, Entry
<1>4. ASSUME NEW i \in Invite, revokeInvite(r, i) PROVE IInv'
  <2>1. JoinedWith(i) \in SUBSET Subject
    BY <1>1 DEF Types, Entry, JoinedWith
  <2>2. [at |-> "revoke", invite |-> i, drop |-> JoinedWith(i)] \in Requests
    BY <2>1 DEF Requests
  <2> QED  BY <1>2, <1>4, <2>2 DEF revokeInvite
<1>5. ASSUME NEW allow \in BOOLEAN, setGuestAccess(r, allow) PROVE IInv'
  <2>1. [at |-> "access", allow |-> allow, drop |-> {m.subject : m \in members} \cap Guest] \in Requests
    BY <1>3 DEF Requests
  <2> QED  BY <1>2, <1>5, <2>1 DEF setGuestAccess
<1>6. ASSUME NEW s \in Subject, NEW role \in Roles, setRole(r, s, role) PROVE IInv'
  <2>1. [at |-> "role", subject |-> s, role |-> role] \in Requests
    BY DEF Requests
  <2> QED  BY <1>2, <1>6, <2>1 DEF setRole
<1>7. ASSUME NEW s \in Subject, kick(r, s) PROVE IInv'
  <2> DEFINE absorbed == UNION {m.absorbed : m \in Entries(s)}
             invite == IF s \in Guest /\ IsMember(s) THEN EntryOf(s).invite ELSE None
             q == [at |-> "kick", subject |-> s, absorbed |-> absorbed, invite |-> invite,
                   exempt |-> Connected(s), present |-> {g \in absorbed : IsMember(g)},
                   drop |-> IF invite = None THEN {} ELSE JoinedWith(invite)]
  <2>1. absorbed \in SUBSET Guest
    BY <1>1 DEF Types, Entry, Entries
  <2>2. invite \in Invite \cup {None}
    BY <1>1, EntryOfIs DEF Types, Entry
  <2>3. JoinedWith(invite) \in SUBSET Subject
    BY <1>1 DEF Types, Entry, JoinedWith
  <2>4. Connected(s) \in BOOLEAN
    BY DEF Connected
  <2>5. Answer(r, q) /\ request[r] = Idle /\ UNCHANGED <<session, tokens, visit, history>>
    BY <1>7 DEF kick
  <2>6. q \in Requests
    <3> HIDE DEF absorbed, invite
    <3> QED  BY <2>1, <2>2, <2>3, <2>4 DEF Requests
  <2> HIDE DEF q
  <2> QED  BY <1>2, <2>5, <2>6
<1> QED  BY <1>4, <1>5, <1>6, <1>7 DEF Ask

(* Whoever is made a viewer is owed a reconnect from then on. *)
LEMMA WriteRoleInv ==
  ASSUME IInv, NEW r \in Request, writeRole(r)
  PROVE  IInv'
<1> DEFINE s == request[r].subject
           role == request[r].role
           q == [at |-> "reconnect", drop |-> {s}]
           changed == [m \in members |-> [m EXCEPT !.role = IF m.subject = s THEN role ELSE @]]
<1>1. Types /\ Unique /\ s \in Subject /\ role \in Roles /\ request[r].at = "role"
  BY DEF IInv, Types, writeRole, Requests, Idle
<1>2. /\ changed \in [members -> Entry]
      /\ \A m \in members : changed[m].subject = m.subject
      /\ \A m \in members : changed[m].role = IF m.subject = s THEN role ELSE m.role
  BY <1>1 DEF Types, Entry
<1>3. /\ members' = {changed[m] : m \in members}
      /\ demoted' = IF IsMember(s) /\ role = "viewer" THEN demoted \cup {s} ELSE demoted \ {s}
      /\ Answer(r, q)
      /\ UNCHANGED <<kicked, invites, allowGuests, tokens, visit, named>>
  BY DEF writeRole
<1>4. q \in Requests
  BY <1>1 DEF Requests
<1>5. /\ request' \in [Request -> Requests]
      /\ request'[r] = q
      /\ \A p \in Request \ {r} : request'[p] = request[p]
  BY <1>1, <1>3, <1>4, AnswerTypes
<1> HIDE DEF changed
<1>6. /\ members' \subseteq Entry /\ Unique'
      /\ \A t : IsMember(t)' <=> IsMember(t)
      /\ \A t : \A n \in Entries(t)' : \E m \in Entries(t) : n = changed[m]
  BY <1>1, <1>2, <1>3, InPlace
<1>7. \A t : /\ Closing(t) => Closing(t)'
             /\ ~Told(t) => ~Told(t)'
             /\ t = s => ~Told(t)'
  BY <1>1, <1>5 DEF Closing, Told
<1> HIDE DEF s, role, q
<1>8. Types'
  BY <1>1, <1>3, <1>5, <1>6 DEF Types
<1>9. KickInv'
  BY <1>2, <1>3, <1>7 DEF IInv, KickInv
<1>10. DemotionInv'
  <2>1. ASSUME NEW t \in demoted' PROVE (IsMember(t) /\ \A m \in Entries(t) : m.role = "viewer")'
    <3>1. CASE t = s
      BY <1>2, <1>3, <1>6, <2>1, <3>1 DEF Entries
    <3>2. CASE t # s
      BY <1>2, <1>3, <1>6, <2>1, <3>2 DEF IInv, DemotionInv, Entries
    <3> QED  BY <3>1, <3>2
  <2>2. ASSUME NEW t \in demoted' \cap Guest, NEW v \in Visitor,
               Serving(visit'[v], t), visit'[v].role = "editor"
        PROVE  ~Told(t)'
    BY <1>3, <1>7, <2>2 DEF IInv, DemotionInv
  <2> QED  BY <2>1, <2>2 DEF DemotionInv
<1> QED  BY <1>6, <1>8, <1>9, <1>10 DEF IInv

LEMMA ReconnectInv ==
  ASSUME IInv, NEW r \in Request, reconnect(r)
  PROVE  IInv'
<1> DEFINE S == request[r].drop
<1>1. Types /\ Unique /\ Idle \in Requests
  BY DEF IInv, Requests
<1>2. /\ visit' \in [Visitor -> Visits] /\ NoNewWay
      /\ \A v \in Visitor, s \in S : ~Serving(visit'[v], s)
  BY <1>1, ServerTold DEF reconnect, Types
<1>3. /\ request' \in [Request -> Requests]
      /\ request'[r] = Idle
      /\ \A p \in Request \ {r} : request'[p] = request[p]
  BY <1>1, AnswerTypes DEF reconnect
<1>4. \A s : Closing(s) => Closing(s)'
  BY <1>3 DEF Closing, reconnect
<1>5. \A s : s \notin S /\ ~Told(s) => ~Told(s)'
  BY <1>3 DEF Told
<1>6. UNCHANGED <<session, tokens, history>>
  BY DEF reconnect
<1> HIDE DEF S
<1>7. Types' /\ Unique'
  BY <1>1, <1>2, <1>3, <1>6 DEF Types, Unique, session, history
<1>8. KickInv'
  BY <1>1, <1>2, <1>4, <1>6 DEF IInv, KickInv, NoNewWay, session, history, Types
<1>9. DemotionInv'
  BY <1>1, <1>2, <1>5, <1>6
  DEF IInv, DemotionInv, NoNewWay, session, history, Types, IsMember, Entries
<1> QED  BY <1>7, <1>8, <1>9 DEF IInv

(* A kick's write puts its subject out and leaves the request to close. *)
LEMMA WriteKickInv ==
  ASSUME IInv, NEW r \in Request, writeKick(r)
  PROVE  IInv'
<1> DEFINE s == request[r].subject
           out == {s} \cup request[r].absorbed
           q == [request[r] EXCEPT !.at = "close"]
<1>1. /\ Types /\ Unique /\ request[r].at = "kick" /\ s \in Subject
      /\ request[r].absorbed \in SUBSET Guest
      /\ q \in Requests /\ Idle \in Requests
      /\ q.at = "close" /\ q.subject = s
  BY DEF IInv, Types, writeKick, Requests, Idle
<1>2. CASE request[r].exempt \/ MayKick(s)
  <2>1. /\ kicked' = kicked \cup out
        /\ members' = {m \in members : m.subject \notin out}
        /\ named' = named \cup {s}
        /\ demoted' = demoted \ out
        /\ Answer(r, q)
        /\ UNCHANGED <<invites, allowGuests, tokens, visit>>
    BY <1>2 DEF writeKick
  <2>2. /\ request' \in [Request -> Requests]
        /\ request'[r] = q
        /\ \A p \in Request \ {r} : request'[p] = request[p]
    BY <1>1, <2>1, AnswerTypes
  <2>3. \A t : (Closing(t) => Closing(t)') /\ (t = s => Closing(t)') /\ (~Told(t) => ~Told(t)')
    BY <1>1, <2>2 DEF Closing, Told
  <2>4. s \in out /\ out \in SUBSET Subject
    BY <1>1 DEF Subject
  <2> HIDE DEF s, out, q
  <2>5. Types'
    BY <1>1, <2>1, <2>2, <2>4 DEF Types
  <2>6. Unique'
    BY <1>1, <2>1 DEF Unique
  <2>7. KickInv'
    BY <2>1, <2>3 DEF IInv, KickInv
  <2>8. DemotionInv'
    BY <2>1, <2>3 DEF IInv, DemotionInv, IsMember, Entries
  <2> QED  BY <2>5, <2>6, <2>7, <2>8 DEF IInv
<1>3. CASE ~(request[r].exempt \/ MayKick(s))
  BY <1>1, <1>3, RequestStep DEF writeKick, Types, history
<1> QED  BY <1>2, <1>3

(* The server closes whoever the kick named before the request lets go. *)
LEMMA CloseKickedInv ==
  ASSUME IInv, NEW r \in Request, closeKicked(r)
  PROVE  IInv'
<1> DEFINE s == request[r].subject
           out == {s} \cup request[r].present \cup {g \in request[r].absorbed : Connected(g)}
           q == IF request[r].invite = None THEN Idle
                ELSE [at |-> "revoke", invite |-> request[r].invite, drop |-> request[r].drop]
<1>1. Types /\ Unique /\ request[r].at = "close" /\ q \in Requests /\ q.at \in {"idle", "revoke"}
  BY DEF IInv, Types, closeKicked, Requests, Idle
<1>2. /\ visit' \in [Visitor -> Visits] /\ NoNewWay
      /\ \A v \in Visitor, t \in out : ~Serving(visit'[v], t)
  BY <1>1, ServerTold DEF closeKicked, Types
<1>3. Answer(r, q) /\ UNCHANGED <<session, tokens, history>>
  BY DEF closeKicked
<1>4. /\ request' \in [Request -> Requests]
      /\ request'[r] = q
      /\ \A p \in Request \ {r} : request'[p] = request[p]
  BY <1>1, <1>3, AnswerTypes
<1>5. \A t : t # s /\ Closing(t) => Closing(t)'
  BY <1>4 DEF Closing
<1>6. \A t : ~Told(t) => ~Told(t)'
  BY <1>1, <1>4 DEF Told
<1>7. s \in out
  OBVIOUS
<1> HIDE DEF s, out, q
<1>8. Types' /\ Unique'
  BY <1>1, <1>2, <1>3, <1>4 DEF Types, Unique, session, history
<1>9. KickInv'
  BY <1>1, <1>2, <1>3, <1>5, <1>7 DEF IInv, KickInv, NoNewWay, session, history, Types
<1>10. DemotionInv'
  BY <1>1, <1>2, <1>3, <1>6
  DEF IInv, DemotionInv, NoNewWay, session, history, Types, IsMember, Entries
<1> QED  BY <1>8, <1>9, <1>10 DEF IInv

LEMMA ServeInv ==
  ASSUME IInv, NEW r \in Request, Serve(r)
  PROVE  IInv'
<1>1. Types
  BY DEF IInv
<1>2. ASSUME revokeInviteIn(r) PROVE IInv'
  <2>1. request[r].invite \in Invite /\ request[r].drop \in SUBSET Subject
    BY <1>1, <1>2 DEF Types, revokeInviteIn, Requests, Idle
  <2>2. [at |-> "reconnect", drop |-> request[r].drop] \in Requests
    BY <2>1 DEF Requests
  <2>3. invites' \in [Invite -> {"none", "live", "revoked"}]
    BY <1>1, <1>2 DEF Types, revokeInviteIn
  <2> QED  BY <1>1, <1>2, <2>2, <2>3, RequestStep DEF revokeInviteIn, Types
<1>3. ASSUME writeGuestAccess(r) PROVE IInv'
  <2>1. request[r].allow \in BOOLEAN /\ request[r].drop \in SUBSET Subject
    BY <1>1, <1>3 DEF Types, writeGuestAccess, Requests, Idle
  <2>2. (IF request[r].allow THEN Idle ELSE [at |-> "reconnect", drop |-> request[r].drop]) \in Requests
    BY <2>1 DEF Requests
  <2> QED  BY <1>1, <1>3, <2>1, <2>2, RequestStep DEF writeGuestAccess, Types
<1>4. ASSUME Fail(r) PROVE IInv'
  <2>1. Idle \in Requests
    BY DEF Requests
  <2> QED  BY <1>1, <1>4, <2>1, RequestStep DEF Fail, session, Types
<1> QED
  BY <1>2, <1>3, <1>4, WriteRoleInv, ReconnectInv, WriteKickInv, CloseKickedInv DEF Serve

-----------------------------------------------------------------------------
(* Every behaviour. *)

LEMMA InitInv == Init => IInv
<1> SUFFICES ASSUME Init PROVE IInv
  OBVIOUS
<1>1. Types
  BY DEF Init, Types, Visits, Requests
<1>2. Unique /\ KickInv /\ DemotionInv
  BY DEF Init, Unique, KickInv, DemotionInv
<1> QED  BY <1>1, <1>2 DEF IInv

LEMMA NextInv == IInv /\ [Next]_vars => IInv'
<1> SUFFICES ASSUME IInv, [Next]_vars PROVE IInv'
  OBVIOUS
<1>1. ASSUME NEW i \in Invite, createInvite(i) PROVE IInv'
  <2>1. Types' /\ Unique'
    BY <1>1 DEF IInv, Types, Unique, createInvite, history
  <2>2. KickInv' /\ DemotionInv'
    BY <1>1 DEF IInv, KickInv, DemotionInv, createInvite, history, Closing, Told, IsMember, Entries
  <2> QED  BY <2>1, <2>2 DEF IInv
<1>2. ASSUME NEW v \in Visitor, Proceed(v) PROVE IInv'
  BY <1>2, NoteAbsorbedInv, DropGuestInv, RenameGuestInv, RecheckGuestInv, RefreshInviteInv,
     PushMemberInv, RereadMembersInv, JoinedInv, ConnectedInv, LeaveInv DEF Proceed
<1>3. CASE UNCHANGED vars
  BY <1>3 DEF vars, session, history, IInv, Types, Unique, KickInv, DemotionInv,
              Closing, Told, IsMember, Entries
<1> QED  BY <1>1, <1>2, <1>3, ArriveInv, AskInv, ServeInv DEF Next

LEMMA Inductive == Spec => []IInv
  BY InitInv, NextInv, PTL DEF Spec

(* The session document, the requests in flight and the signed tokens keep
   their types, and no subject ever has two entries: the code's look-ups
   and positional updates find the one entry there is. *)
THEOREM OneEntryEach == Spec => []OneEntryPerSubject
<1>1. IInv => OneEntryPerSubject
  BY DEF IInv, Types, Unique, OneEntryPerSubject, TypeOK, Visits, UnderWay, Connection
<1> QED  BY <1>1, Inductive, PTL

(* Whoever the owner kicked is out and stays out, for any number of people
   and requests: no join, connection or absorption that was under way when
   the kick was written carries them past it. *)
THEOREM KickedNeverBack == Spec => []KickedStayOut
<1>1. IInv => KickedStayOut
  <2> SUFFICES ASSUME IInv PROVE KickedStayOut
    OBVIOUS
  <2>1. ASSUME NEW s \in named, Connected(s) PROVE Closing(s)
    <3>1. PICK v \in Visitor : visit[v].at = "connected" /\ visit[v].subject = s
      BY <2>1 DEF Connected
    <3>2. Serving(visit[v], s)
      BY <3>1 DEF Serving, Idle
    <3> QED  BY <3>2 DEF IInv, KickInv
  <2> QED  BY <2>1 DEF IInv, KickInv, KickedStayOut, Closing
<1> QED  BY <1>1, Inductive, PTL

(* Whom the owner made a viewer is one in the entry, wherever it goes, and
   in every connection of a guest once the server has been told. *)
THEOREM DemotionHolds == Spec => []DemotedStaysDown
<1>1. IInv => DemotedStaysDown
  <2> SUFFICES ASSUME IInv, NEW s \in demoted
               PROVE  /\ EntryOf(s).role = "viewer"
                      /\ s \in Guest /\ Told(s) => ~ServedAsEditor(s)
    BY DEF DemotedStaysDown
  <2>1. EntryOf(s).role = "viewer"
    BY EntryOfIs DEF IInv, DemotionInv
  <2>2. ASSUME s \in Guest, ServedAsEditor(s) PROVE ~Told(s)
    <3>1. PICK v \in Visitor : visit[v].at = "connected" /\ visit[v].subject = s
                               /\ visit[v].role = "editor"
      BY <2>2 DEF ServedAsEditor
    <3>2. Serving(visit[v], s)
      BY <3>1 DEF Serving, Idle
    <3> QED  BY <2>2, <3>1, <3>2 DEF IInv, DemotionInv
  <2> QED  BY <2>1, <2>2
<1> QED  BY <1>1, Inductive, PTL


(* Induction up to a bound, over a set. *)
LEMMA CountingUp ==
  ASSUME NEW N \in Nat, NEW G, 0 \in G, \A n \in 0 .. N : n \in G /\ n < N => n + 1 \in G
  PROVE  \A n \in 0 .. N : n \in G
<1> DEFINE Less == {p \in Nat \X Nat : p[1] < p[2]}
           Bad == {n \in 0 .. N : n \notin G}
<1>1. IsWellFoundedOn(Less, Nat)
  BY NatLessThanWellFounded DEF OpToRel
<1>2. IsWellFoundedOn(Less, Bad)
  BY <1>1, IsWellFoundedOnSubset
<1>3. SUFFICES ASSUME Bad # {} PROVE FALSE
  OBVIOUS
<1>4. PICK m \in Bad : \A x \in Bad : <<x, m>> \notin Less
  BY <1>2, <1>3, WFMin
<1>5. m # 0 /\ m - 1 \in 0 .. N /\ m - 1 < N
  BY <1>4
<1>6. m - 1 \notin Bad
  <2>1. m \in Nat /\ m - 1 \in Nat /\ m - 1 < m
    BY <1>4, <1>5
  <2>2. <<m - 1, m>> \in Less
    BY <2>1
  <2> QED BY <1>4, <2>2
<1>7. m \in G
  BY <1>5, <1>6
<1> QED  BY <1>4, <1>7

(* What the filter computes. *)
Keeps(q, T, n, f) ==
    f = [k \in 0 .. n |-> IF k = 0 THEN <<>>
                          ELSE IF q[k] \in T THEN Append(f[k - 1], q[k]) ELSE f[k - 1]]

LEMMA OnlyExists ==
  ASSUME NEW q, Len(q) \in Nat, NEW T
  PROVE  \E f : Keeps(q, T, Len(q), f)
<1> DEFINE N == Len(q)
           G == {n \in 0 .. N : \E f : Keeps(q, T, n, f)}
<1>1. 0 \in G
  <2>1. Keeps(q, T, 0, [k \in 0 .. 0 |-> <<>>])
    BY DEF Keeps
  <2> QED BY <2>1
<1>2. ASSUME NEW n \in 0 .. N, n \in G, n < N PROVE n + 1 \in G
  <2>1. PICK f : Keeps(q, T, n, f)
    BY <1>2
  <2> DEFINE last == IF q[n + 1] \in T THEN Append(f[n], q[n + 1]) ELSE f[n]
             g == [k \in 0 .. n + 1 |-> IF k = n + 1 THEN last ELSE f[k]]
  <2>2. \A k \in 0 .. n : g[k] = f[k]
    OBVIOUS
  <2>3. \A k \in 0 .. n : f[k] = IF k = 0 THEN <<>> ELSE IF q[k] \in T THEN Append(f[k - 1], q[k]) ELSE f[k - 1]
    BY <2>1 DEF Keeps
  <2>4. g[n + 1] = last /\ DOMAIN g = 0 .. n + 1
    OBVIOUS
  <2> HIDE DEF g
  <2>5. \A k \in 0 .. n + 1 : g[k] = IF k = 0 THEN <<>> ELSE IF q[k] \in T THEN Append(g[k - 1], q[k]) ELSE g[k - 1]
    <3> TAKE k \in 0 .. n + 1
    <3>1. CASE k = n + 1
      BY <3>1, <2>2, <2>4
    <3>2. CASE k = 0
      BY <3>2, <2>2, <2>3
    <3>3. CASE k \in 1 .. n
      <4>1. k - 1 \in 0 .. n /\ k \in 0 .. n
        BY <3>3
      <4> QED BY <4>1, <3>3, <2>2, <2>3
    <3> QED BY <3>1, <3>2, <3>3
  <2>6. g = [k \in 0 .. n + 1 |-> g[k]]
    BY DEF g
  <2>7. Keeps(q, T, n + 1, g)
    BY <2>5, <2>6 DEF Keeps
  <2>8. n + 1 \in 0 .. N
    BY <1>2
  <2> QED BY <2>7, <2>8
<1>3. \A n \in 0 .. N : n \in G
  <2> HIDE DEF G
  <2> QED BY <1>1, <1>2, CountingUp
<1> QED BY <1>3

LEMMA OnlyStep ==
  ASSUME NEW q, Len(q) \in Nat, NEW T
  PROVE  \E f : /\ Only(q, T) = f[Len(q)] /\ f[0] = <<>>
                /\ \A k \in 0 .. Len(q) : k # 0 => f[k] = IF q[k] \in T THEN Append(f[k - 1], q[k]) ELSE f[k - 1]
<1> DEFINE f == CHOOSE f : Keeps(q, T, Len(q), f)
<1>1. Keeps(q, T, Len(q), f)
  BY OnlyExists
<1>2. Only(q, T) = f[Len(q)]
  BY DEF Only, Keeps
<1> HIDE DEF f
<1>3. f[0] = <<>> /\ \A k \in 0 .. Len(q) : k # 0 => f[k] = IF q[k] \in T THEN Append(f[k - 1], q[k]) ELSE f[k - 1]
  <2> DEFINE body(k) == IF k = 0 THEN <<>> ELSE IF q[k] \in T THEN Append(f[k - 1], q[k]) ELSE f[k - 1]
  <2>1. f = [k \in 0 .. Len(q) |-> body(k)]
    BY <1>1 DEF Keeps
  <2> HIDE DEF body
  <2>2. \A k \in 0 .. Len(q) : f[k] = body(k)
    BY <2>1
  <2>3. 0 \in 0 .. Len(q)
    OBVIOUS
  <2> QED BY <2>2, <2>3 DEF body
<1> QED BY <1>2, <1>3

(* An entry more at the end. *)
OnceEach(q) == \A n, m \in DOMAIN q : q[n] = q[m] => n = m
LEMMA AppendIs ==
  ASSUME NEW S, NEW q \in Seq(S), NEW x \in S
  PROVE  /\ Append(q, x) \in Seq(S)
         /\ ToSet(Append(q, x)) = ToSet(q) \cup {x}
         /\ OnceEach(q) /\ x \notin ToSet(q) => OnceEach(Append(q, x))
<1> DEFINE l == Len(q)
           a == Append(q, x)
<1>1. /\ a \in Seq(S) /\ l \in Nat /\ DOMAIN a = 1 .. l + 1 /\ DOMAIN q = 1 .. l
      /\ \A k \in 1 .. l : a[k] = q[k]
      /\ a[l + 1] = x
  OBVIOUS
<1>2. 1 .. l + 1 = 1 .. l \cup {l + 1}
  BY <1>1
<1> HIDE DEF a, l
<1>3. ToSet(a) = ToSet(q) \cup {x}
  BY <1>1, <1>2 DEF ToSet
<1>4. ASSUME OnceEach(q), x \notin ToSet(q) PROVE OnceEach(a)
  <2>1. \A k \in 1 .. l : q[k] # x
    BY <1>4, <1>1 DEF ToSet
  <2> QED BY <2>1, <1>1, <1>2, <1>4 DEF OnceEach
<1> QED BY <1>1, <1>3, <1>4 DEF a

(* The filter keeps exactly the entries asked for, and each in one place. *)
LEMMA OnlyIs ==
  ASSUME NEW S, NEW q \in Seq(S), NEW T
  PROVE  /\ Only(q, T) \in Seq(S)
         /\ ToSet(Only(q, T)) = ToSet(q) \cap T
         /\ OnceEach(q) => OnceEach(Only(q, T))
<1> DEFINE N == Len(q)
<1>0. N \in Nat /\ DOMAIN q = 1 .. N /\ \A k \in 1 .. N : q[k] \in S
  OBVIOUS
<1>1. PICK f : /\ Only(q, T) = f[N] /\ f[0] = <<>>
               /\ \A k \in 0 .. N : k # 0 => f[k] = IF q[k] \in T THEN Append(f[k - 1], q[k]) ELSE f[k - 1]
  <2> HIDE DEF N
  <2>1. Len(q) \in Nat
    BY <1>0 DEF N
  <2> QED BY <2>1, OnlyStep DEF N
<1> DEFINE Right(n) ==
       /\ f[n] \in Seq(S)
       /\ ToSet(f[n]) = {q[k] : k \in 1 .. n} \cap T
       /\ OnceEach(q) => OnceEach(f[n])
     G == {n \in 0 .. N : Right(n)}
<1>2. 0 \in G
  <2>1. f[0] \in Seq(S) /\ DOMAIN f[0] = {}
    BY <1>1
  <2>2. ToSet(f[0]) = {} /\ OnceEach(f[0]) /\ {q[k] : k \in 1 .. 0} = {}
    BY <2>1 DEF ToSet, OnceEach
  <2>3. Right(0)
    BY <2>1, <2>2
  <2> QED BY <2>3, <1>0
<1>3. ASSUME NEW n \in 0 .. N, n \in G, n < N PROVE n + 1 \in G
  <2>0. n + 1 \in 1 .. N /\ n + 1 \in 0 .. N /\ n + 1 # 0 /\ (n + 1) - 1 = n
    BY <1>3, <1>0
  <2>1. f[n + 1] = IF q[n + 1] \in T THEN Append(f[n], q[n + 1]) ELSE f[n]
    BY <1>1, <2>0
  <2>2. Right(n)
    BY <1>3
  <2>3. {q[k] : k \in 1 .. n + 1} = {q[k] : k \in 1 .. n} \cup {q[n + 1]}
    <3>1. 1 .. n + 1 = 1 .. n \cup {n + 1}
      BY <1>3
    <3> QED BY <3>1
  <2>4. CASE q[n + 1] \notin T
    <3>1. f[n + 1] = f[n]
      BY <2>1, <2>4
    <3>2. {q[k] : k \in 1 .. n + 1} \cap T = {q[k] : k \in 1 .. n} \cap T
      BY <2>3, <2>4
    <3>3. Right(n + 1)
      BY <2>2, <3>1, <3>2
    <3> QED BY <3>3, <2>0
  <2>5. CASE q[n + 1] \in T
    <3>1. f[n + 1] = Append(f[n], q[n + 1]) /\ f[n] \in Seq(S) /\ q[n + 1] \in S
      BY <2>1, <2>5, <2>2, <2>0, <1>0
    <3>2. {q[k] : k \in 1 .. n + 1} \cap T = ({q[k] : k \in 1 .. n} \cap T) \cup {q[n + 1]}
      BY <2>3, <2>5
    <3>3. /\ f[n + 1] \in Seq(S)
          /\ ToSet(f[n + 1]) = ToSet(f[n]) \cup {q[n + 1]}
          /\ OnceEach(f[n]) /\ q[n + 1] \notin ToSet(f[n]) => OnceEach(f[n + 1])
      BY <3>1, AppendIs
    <3>4. ASSUME OnceEach(q) PROVE q[n + 1] \notin ToSet(f[n])
      <4> SUFFICES ASSUME q[n + 1] \in ToSet(f[n]) PROVE FALSE
        OBVIOUS
      <4>1. PICK j \in 1 .. n : q[j] = q[n + 1]
        BY <2>2
      <4>2. j \in DOMAIN q /\ n + 1 \in DOMAIN q /\ j # n + 1
        BY <2>0, <1>0
      <4> QED BY <4>1, <4>2, <3>4 DEF OnceEach
    <3>5. Right(n + 1)
      BY <2>2, <3>2, <3>3, <3>4
    <3> QED BY <3>5, <2>0
  <2> QED BY <2>4, <2>5
<1>4. \A n \in 0 .. N : n \in G
  <2> HIDE DEF G
  <2> QED BY <1>0, <1>2, <1>3, CountingUp
<1>5. Right(N)
  <2>1. N \in 0 .. N
    BY <1>0
  <2>2. N \in G
    BY <1>4, <2>1
  <2> HIDE DEF N, Right
  <2> QED BY <2>2
<1>6. {q[k] : k \in 1 .. N} = ToSet(q)
  BY <1>0 DEF ToSet
<1> HIDE DEF N
<1> QED BY <1>5, <1>6, <1>1

-----------------------------------------------------------------------------
(* What people leave behind: types, and what holds of ids. *)
Linked == [subject : Subjects, replaces : BOOLEAN, added : BOOLEAN,
           at : {"follow", "rename", "drop", "enter", "attached", "up"}]
Binding == [id : Ids, subject : Subjects]
LinkTypes == links \in [AllTabs -> {NoLink} \cup Linked]
IdTypes ==
    /\ subjectOf \in Seq(Binding)
    /\ idOf \in [AllTabs -> Ids \cup {"none"}]
    /\ states \in [Ids -> Subjects \cup {"none"}]
CreditTypes ==
    /\ accountOwns \in BOOLEAN
    /\ crediting \subseteq [subject : Subjects, doc : {"loaded", "unloaded"}]
    /\ credits \subseteq [subject : Subjects, earnedAs : Subjects] /\ IsFiniteSet(credits)
    /\ removed \subseteq Subjects
    /\ moves \in [owed : BOOLEAN, barred : BOOLEAN, hadOwn : BOOLEAN, lost : BOOLEAN]

IdsOnce(q) == \A n, m \in DOMAIN q : q[n].id = q[m].id => n = m
Held(q, s) == {b \in ToSet(q) : b.subject = s}
BoundFor(q, i, s) == \E b \in ToSet(q) : b.id = i /\ Person(b.subject) = Person(s)
Speaks(t) == idOf[t] # "none" => t \in Up /\ BoundFor(subjectOf, idOf[t], links[t].subject)
Shows(i) == states[i] # "none" => BoundFor(subjectOf, i, states[i]) /\ \E t \in Up : idOf[t] = i
IdsInv ==
    /\ IdsOnce(subjectOf)
    /\ \A t \in AllTabs : Speaks(t)
    /\ \A i \in Ids : Shows(i)
    /\ \A s \in {"guest", "other"} : Cardinality(Held(subjectOf, s)) <= MAX_AWARENESS_IDS_PER_SUBJECT

LEMMA LinksAre ==
  ASSUME LinkTypes, NEW t \in AllTabs
  PROVE  /\ links[t] = NoLink \/ links[t] \in Linked
         /\ links[t].at # "none" => links[t] \in Linked
         /\ t \in Up <=> links[t] \in Linked /\ links[t].at \in {"attached", "up"}
  BY DEF LinkTypes, Linked, NoLink, Up

LEMMA OnceIsOnce ==
  ASSUME NEW q
  PROVE  IdsOnce(q) <=> OnceEach(q) /\ \A b, c \in ToSet(q) : b.id = c.id => b = c
  BY DEF IdsOnce, OnceEach, ToSet

(* The entries of a sequence are no more than its places. *)
LEMMA ImageIsFinite ==
  ASSUME NEW f, IsFiniteSet(DOMAIN f), f = [x \in DOMAIN f |-> f[x]]
  PROVE  IsFiniteSet(ToSet(f)) /\ Cardinality(ToSet(f)) <= Cardinality(DOMAIN f)
<1>1. f \in Surjection(DOMAIN f, ToSet(f))
  BY DEF Surjection, ToSet
<1> QED BY <1>1, FS_Surjection

LEMMA EntriesAre ==
  ASSUME NEW q \in Seq(Binding)
  PROVE  ToSet(q) \subseteq Binding /\ IsFiniteSet(ToSet(q))
<1>1. DOMAIN q = 1 .. Len(q) /\ Len(q) \in Nat
  OBVIOUS
<1>2. IsFiniteSet(DOMAIN q)
  BY <1>1, FS_Interval
<1>3. IsFiniteSet(ToSet(q))
  BY <1>1, <1>2, ImageIsFinite
<1> QED BY <1>3 DEF ToSet

LEMMA HeldIs ==
  ASSUME NEW q \in Seq(Binding), NEW s
  PROVE  IsFiniteSet(Held(q, s)) /\ Cardinality(Held(q, s)) \in Nat
<1>1. IsFiniteSet(Held(q, s))
  BY EntriesAre, FS_Subset DEF Held
<1> QED BY <1>1, FS_CardinalityType

(* The positions of a subject's ids are as many as its ids. *)
LEMMA BindingsAre ==
  ASSUME IdTypes, IdsOnce(subjectOf), NEW s
  PROVE  Cardinality(Bindings(s)) = Cardinality(Held(subjectOf, s))
<1> DEFINE f == [n \in Bindings(s) |-> subjectOf[n]]
<1>1. f \in Bijection(Bindings(s), Held(subjectOf, s))
  <2>1. f \in [Bindings(s) -> Held(subjectOf, s)]
    BY DEF Bindings, Held, ToSet
  <2>2. \A n, m \in Bindings(s) : f[n] = f[m] => n = m
    BY DEF Bindings, IdsOnce
  <2>3. \A b \in Held(subjectOf, s) : \E n \in Bindings(s) : f[n] = b
    BY DEF Bindings, Held, ToSet
  <2>4. DOMAIN f = Bindings(s)
    OBVIOUS
  <2> HIDE DEF f
  <2> QED BY <2>1, <2>2, <2>3, <2>4 DEF Bijection, Injection, Surjection, IsInjective
<1>2. subjectOf \in Seq(Binding)
  BY DEF IdTypes
<1>3. DOMAIN subjectOf = 1 .. Len(subjectOf) /\ Len(subjectOf) \in Nat
  BY <1>2
<1>4. IsFiniteSet(Bindings(s))
  <2>1. IsFiniteSet(DOMAIN subjectOf) /\ Bindings(s) \subseteq DOMAIN subjectOf
    BY <1>3, FS_Interval DEF Bindings
  <2> QED BY <2>1, FS_Subset
<1> QED BY <1>1, <1>4, FS_Bijection DEF ExistsBijection

(* Whose an id is. *)
LEMMA BoundToIs ==
  ASSUME IdTypes, IdsOnce(subjectOf), NEW i
  PROVE  /\ BoundTo(i) = "none" => \A b \in ToSet(subjectOf) : b.id # i
         /\ BoundTo(i) # "none" => \E b \in ToSet(subjectOf) : b.id = i /\ b.subject = BoundTo(i)
         /\ \A b \in ToSet(subjectOf) : b.id = i => BoundTo(i) = b.subject /\ BoundTo(i) # "none"
<1> DEFINE at == {n \in DOMAIN subjectOf : subjectOf[n].id = i}
<1>1. BoundTo(i) = IF at = {} THEN "none" ELSE subjectOf[CHOOSE n \in at : TRUE].subject
  BY DEF BoundTo
<1>2. subjectOf \in Seq(Binding) /\ ToSet(subjectOf) \subseteq Binding
  BY EntriesAre DEF IdTypes
<1>3. CASE at = {}
  <2>1. \A b \in ToSet(subjectOf) : b.id # i
    BY <1>3 DEF ToSet
  <2> QED BY <2>1, <1>1, <1>3
<1>4. CASE at # {}
  <2>1. PICK n \in at : BoundTo(i) = subjectOf[n].subject
    BY <1>1, <1>4
  <2>2. subjectOf[n] \in ToSet(subjectOf) /\ subjectOf[n].id = i
    BY <2>1 DEF ToSet
  <2>3. \A b \in ToSet(subjectOf) : b.id = i => b = subjectOf[n]
    BY <2>2, OnceIsOnce
  <2>4. subjectOf[n].subject \in Subjects
    BY <2>2, <1>2 DEF Binding
  <2> QED BY <2>1, <2>2, <2>3, <2>4 DEF Subjects
<1> QED BY <1>3, <1>4

-----------------------------------------------------------------------------
(* Connections that go, and ids that are free at once: who is left speaks
   for, and shows, what it did. *)
LEMMA GoneRight ==
  ASSUME LinkTypes, IdTypes, IdsInv, NEW gone \in SUBSET Up, NEW freed,
         \A t \in Up \ gone : t \in Up' /\ links'[t].subject = links[t].subject,
         idOf' = [t \in AllTabs |-> IF t \in gone \/ idOf[t] \in freed THEN "none" ELSE idOf[t]],
         states' = [i \in Ids |-> IF i \in freed THEN "none" ELSE StatesWithout(gone)[i]],
         \A b \in ToSet(subjectOf) : b.id \notin freed => \E c \in ToSet(subjectOf') : c.id = b.id /\ Person(c.subject) = Person(b.subject)
  PROVE  /\ idOf' \in [AllTabs -> Ids \cup {"none"}] /\ states' \in [Ids -> Subjects \cup {"none"}]
         /\ \A t \in AllTabs : Speaks(t)'
         /\ \A i \in Ids : Shows(i)'
<1>1. idOf' \in [AllTabs -> Ids \cup {"none"}]
  BY DEF IdTypes
<1>2. \A i \in Ids : StatesWithout(gone)[i] = IF \E t \in gone : idOf[t] = i /\ (links[t].added \/ \A u \in Up \ gone : idOf[u] # i)
                                              THEN "none" ELSE states[i]
  BY DEF StatesWithout
<1>3. \A i \in Ids : StatesWithout(gone)[i] \in {"none", states[i]}
  BY <1>2
<1>4. \A i \in Ids : states'[i] = IF i \in freed THEN "none" ELSE StatesWithout(gone)[i]
  OBVIOUS
<1>5. states' \in [Ids -> Subjects \cup {"none"}]
  BY <1>3 DEF IdTypes
<1>6. \A i, s : i \notin freed /\ BoundFor(subjectOf, i, s) => BoundFor(subjectOf', i, s)
  BY DEF BoundFor
<1>7. ASSUME NEW t \in AllTabs PROVE Speaks(t)'
  <2> SUFFICES ASSUME idOf'[t] # "none"
               PROVE  t \in Up' /\ BoundFor(subjectOf', idOf'[t], links'[t].subject)
    BY DEF Speaks
  <2>1. t \notin gone /\ idOf[t] \notin freed /\ idOf'[t] = idOf[t]
    OBVIOUS
  <2>2. t \in Up /\ BoundFor(subjectOf, idOf[t], links[t].subject)
    BY <2>1 DEF IdsInv, Speaks
  <2> QED BY <2>1, <2>2, <1>6
<1>8. ASSUME NEW i \in Ids PROVE Shows(i)'
  <2> SUFFICES ASSUME states'[i] # "none"
               PROVE  BoundFor(subjectOf', i, states'[i]) /\ \E t \in Up' : idOf'[t] = i
    BY DEF Shows
  <2>1. i \notin freed /\ states'[i] = states[i] /\ states[i] # "none"
    BY <1>3, <1>4
  <2>2. \A t \in gone : idOf[t] = i => \E u \in Up \ gone : idOf[u] = i
    BY <2>1, <1>2, <1>4
  <2>3. BoundFor(subjectOf, i, states[i]) /\ \E t \in Up : idOf[t] = i
    BY <2>1 DEF IdsInv, Shows
  <2>4. PICK u \in Up \ gone : idOf[u] = i
    BY <2>2, <2>3
  <2>5. u \in AllTabs /\ idOf'[u] = i /\ u \in Up'
    BY <2>4, <2>1 DEF Up
  <2> QED BY <2>5, <2>1, <2>3, <1>6
<1> QED BY <1>1, <1>5, <1>7, <1>8

(* The filter on the ids. *)
LEMMA FilteredIds ==
  ASSUME IdTypes, IdsInv, NEW T
  PROVE  LET q == Only(subjectOf, T) IN
         /\ q \in Seq(Binding) /\ ToSet(q) = ToSet(subjectOf) \cap T /\ IdsOnce(q)
         /\ \A s : Held(q, s) = Held(subjectOf, s) \cap T
         /\ \A s : Cardinality(Held(q, s)) <= Cardinality(Held(subjectOf, s))
<1> DEFINE q == Only(subjectOf, T)
<1>1. subjectOf \in Seq(Binding) /\ OnceEach(subjectOf) /\ \A b, c \in ToSet(subjectOf) : b.id = c.id => b = c
  BY OnceIsOnce DEF IdTypes, IdsInv
<1>2. q \in Seq(Binding) /\ ToSet(q) = ToSet(subjectOf) \cap T /\ OnceEach(q)
  BY <1>1, OnlyIs
<1> HIDE DEF q
<1>3. IdsOnce(q)
  BY <1>1, <1>2, OnceIsOnce
<1>4. \A s : Held(q, s) = Held(subjectOf, s) \cap T
  BY <1>2 DEF Held
<1>5. ASSUME NEW s PROVE Cardinality(Held(q, s)) <= Cardinality(Held(subjectOf, s))
  <2>1. Held(q, s) \subseteq Held(subjectOf, s) /\ IsFiniteSet(Held(subjectOf, s))
    BY <1>1, <1>4, HeldIs
  <2> QED BY <2>1, FS_Subset
<1> QED BY <1>2, <1>3, <1>4, <1>5 DEF q

-----------------------------------------------------------------------------
(* Every step keeps the ids. *)
VoicesInv == LinkTypes /\ IdTypes /\ IdsInv

(* What leaves ids, states and who is connected as they are. *)
LEMMA VoicesQuiet ==
  ASSUME VoicesInv, UNCHANGED idVars, LinkTypes',
         \A t \in Up : t \in Up' /\ links'[t].subject = links[t].subject
  PROVE  VoicesInv'
<1>1. subjectOf' = subjectOf /\ idOf' = idOf /\ states' = states
  BY DEF idVars
<1>2. \A t \in AllTabs : Speaks(t)'
  BY <1>1 DEF Speaks, VoicesInv, IdsInv
<1>3. \A i \in Ids : Shows(i)'
  BY <1>1 DEF Shows, VoicesInv, IdsInv
<1> QED BY <1>1, <1>2, <1>3 DEF VoicesInv, IdTypes, IdsInv

(* A connection takes another state, with the subject it had. *)
LEMMA LinkGoesOn ==
  ASSUME LinkTypes, NEW t \in AllTabs, links[t] \in Linked, NEW at \in {"rename", "drop", "enter", "attached", "up"},
         links[t].at \in {"attached", "up"} => at \in {"attached", "up"},
         links' = [links EXCEPT ![t].at = at]
  PROVE  LinkTypes' /\ \A u \in Up : u \in Up' /\ links'[u].subject = links[u].subject
<1> DEFINE to == [links[t] EXCEPT !.at = at]
<1>1. to \in Linked /\ to.at = at /\ to.subject = links[t].subject
  BY DEF Linked
<1>2. links' = [links EXCEPT ![t] = to]
  OBVIOUS
<1> HIDE DEF to
<1>3. LinkTypes'
  BY <1>1, <1>2 DEF LinkTypes, AllTabs
<1>4. \A u \in AllTabs : links'[u] = IF u = t THEN to ELSE links[u]
  BY <1>2 DEF LinkTypes
<1> QED BY <1>1, <1>3, <1>4 DEF Up

LEMMA MovingVoices ==
  ASSUME VoicesInv, NEW t \in AllTabs, followRemoval(t) \/ renameCredit(t) \/ dropCredit(t) \/ moveFails(t)
  PROVE  VoicesInv'
<1>1. links[t] \in Linked /\ links[t].at \in {"follow", "rename", "drop"} /\ UNCHANGED idVars
  BY LinksAre DEF VoicesInv, followRemoval, renameCredit, dropCredit, moveFails, Movers
<1>2. PICK at \in {"rename", "drop", "enter"} : links' = [links EXCEPT ![t].at = at]
  BY DEF followRemoval, renameCredit, dropCredit, moveFails
<1>3. LinkTypes' /\ \A u \in Up : u \in Up' /\ links'[u].subject = links[u].subject
  BY <1>1, <1>2, LinkGoesOn DEF VoicesInv
<1> QED BY <1>1, <1>3, VoicesQuiet

LEMMA AuthenticateVoices ==
  ASSUME VoicesInv, NEW t \in AllTabs, NEW s \in Subjects, NEW token \in BOOLEAN, authenticate(t, s, token)
  PROVE  VoicesInv'
<1> DEFINE absorbs == token /\ (guestEntry \/ Movers # {})
           to == [subject |-> s, replaces |-> absorbs, added |-> FALSE,
                  at |-> IF ~absorbs THEN "enter" ELSE IF accountOwns THEN "drop" ELSE "follow"]
<1>1. links[t] = NoLink /\ links' = [links EXCEPT ![t] = to] /\ UNCHANGED idVars
  BY DEF authenticate
<1>2. absorbs \in BOOLEAN
  OBVIOUS
<1>3. to \in Linked
  <2> HIDE DEF absorbs
  <2> QED BY <1>2 DEF Linked
<1> HIDE DEF to
<1>4. LinkTypes' /\ \A u \in AllTabs : links'[u] = IF u = t THEN to ELSE links[u]
  BY <1>1, <1>3 DEF LinkTypes, VoicesInv
<1>5. t \notin Up
  BY <1>1 DEF Up, NoLink
<1>6. \A u \in Up : u \in Up' /\ links'[u].subject = links[u].subject
  BY <1>4, <1>5 DEF Up
<1> QED BY <1>1, <1>4, <1>6, VoicesQuiet

(* Rebinding keeps ids and persons. *)
LEMMA ReboundIs ==
  ASSUME IdTypes, IdsInv
  PROVE  /\ Rebound \in Seq(Binding) /\ IdsOnce(Rebound)
         /\ \A i, s : BoundFor(subjectOf, i, s) => BoundFor(Rebound, i, s)
         /\ \A s \in {"guest", "other"} : Cardinality(Held(Rebound, s)) <= MAX_AWARENESS_IDS_PER_SUBJECT
<1> DEFINE D == DOMAIN subjectOf
<1>1. subjectOf \in Seq(Binding) /\ D = 1 .. Len(subjectOf) /\ Len(subjectOf) \in Nat
  BY DEF IdTypes
<1>2. \A n \in D : subjectOf[n] \in Binding /\ subjectOf[n] \in ToSet(subjectOf)
  BY <1>1 DEF ToSet
<1>3. \A n \in D : Rebound[n] = IF subjectOf[n].subject = "guest" THEN [subjectOf[n] EXCEPT !.subject = "account"] ELSE subjectOf[n]
  BY DEF Rebound
<1>4. \A n \in D : /\ Rebound[n] \in Binding /\ Rebound[n].id = subjectOf[n].id
                   /\ Rebound[n].subject = IF subjectOf[n].subject = "guest" THEN "account" ELSE subjectOf[n].subject
  <2> TAKE n \in D
  <2> DEFINE b == subjectOf[n]
  <2>1. b \in Binding /\ Rebound[n] = IF b.subject = "guest" THEN [b EXCEPT !.subject = "account"] ELSE b
    BY <1>2, <1>3
  <2> HIDE DEF b
  <2>2. /\ Rebound[n] \in Binding /\ Rebound[n].id = b.id
        /\ Rebound[n].subject = IF b.subject = "guest" THEN "account" ELSE b.subject
    BY <2>1 DEF Binding, Subjects
  <2> QED BY <2>2 DEF b
<1>5. DOMAIN Rebound = D
  BY DEF Rebound
<1>6. Rebound = [n \in D |-> Rebound[n]]
  BY DEF Rebound
<1> HIDE DEF D
<1>7. Rebound \in Seq(Binding)
  BY <1>1, <1>4, <1>6
<1>8. IdsOnce(Rebound)
  BY <1>4, <1>5 DEF IdsOnce, IdsInv, D
<1>9. ASSUME NEW i, NEW s, BoundFor(subjectOf, i, s) PROVE BoundFor(Rebound, i, s)
  <2>1. PICK n \in D : subjectOf[n].id = i /\ Person(subjectOf[n].subject) = Person(s)
    BY <1>9 DEF BoundFor, ToSet, D
  <2>2. Rebound[n] \in ToSet(Rebound)
    BY <1>5 DEF ToSet
  <2>3. Rebound[n].id = i /\ Person(Rebound[n].subject) = Person(s)
    BY <2>1, <1>4 DEF Person
  <2> QED BY <2>2, <2>3 DEF BoundFor
<1>10. ASSUME NEW s \in {"guest", "other"} PROVE Cardinality(Held(Rebound, s)) <= MAX_AWARENESS_IDS_PER_SUBJECT
  <2>1. Held(Rebound, s) \subseteq Held(subjectOf, s)
    <3> SUFFICES ASSUME NEW b \in Held(Rebound, s) PROVE b \in Held(subjectOf, s)
      OBVIOUS
    <3>1. PICK n \in D : b = Rebound[n] /\ b.subject = s
      BY <1>5 DEF Held, ToSet
    <3>2. b = subjectOf[n]
      BY <3>1, <1>3, <1>4
    <3> QED BY <3>1, <3>2, <1>2 DEF Held
  <2>2. IsFiniteSet(Held(subjectOf, s)) /\ Cardinality(Held(subjectOf, s)) \in Nat
    BY <1>1, HeldIs
  <2>3. Cardinality(Held(Rebound, s)) <= Cardinality(Held(subjectOf, s)) /\ Cardinality(Held(Rebound, s)) \in Nat
    BY <2>1, <2>2, FS_Subset, FS_CardinalityType
  <2>4. Cardinality(Held(subjectOf, s)) <= MAX_AWARENESS_IDS_PER_SUBJECT
    BY DEF IdsInv
  <2> QED BY <2>2, <2>3, <2>4, TracesAssumption
<1> QED BY <1>7, <1>8, <1>9, <1>10

LEMMA AttachVoices ==
  ASSUME VoicesInv, NEW t \in AllTabs, onAuthenticate(t)
  PROVE  VoicesInv'
<1>1. /\ links[t] \in Linked /\ links[t].at = "enter" /\ links' = [links EXCEPT ![t].at = "attached"]
      /\ idOf' = idOf /\ states' = states
  BY LinksAre DEF VoicesInv, onAuthenticate
<1>2. LinkTypes' /\ \A u \in Up : u \in Up' /\ links'[u].subject = links[u].subject
  BY <1>1, LinkGoesOn DEF VoicesInv
<1>3. subjectOf' = subjectOf \/ subjectOf' = Rebound
  BY DEF onAuthenticate
<1>4. CASE subjectOf' = subjectOf
  BY <1>1, <1>2, <1>4, VoicesQuiet DEF idVars
<1>5. CASE subjectOf' = Rebound
  <2>1. IdTypes /\ IdsInv
    BY DEF VoicesInv
  <2>2. /\ subjectOf' \in Seq(Binding) /\ IdsOnce(subjectOf')
        /\ \A i, s : BoundFor(subjectOf, i, s) => BoundFor(subjectOf', i, s)
        /\ \A s \in {"guest", "other"} : Cardinality(Held(subjectOf', s)) <= MAX_AWARENESS_IDS_PER_SUBJECT
    BY <2>1, <1>5, ReboundIs
  <2>3. \A u \in AllTabs : Speaks(u)'
    BY <2>1, <2>2, <1>1, <1>2 DEF Speaks, IdsInv
  <2>4. \A i \in Ids : Shows(i)'
    BY <2>1, <2>2, <1>1, <1>2 DEF Shows, IdsInv
  <2> QED BY <2>1, <2>2, <2>3, <2>4, <1>1, <1>2 DEF VoicesInv, IdTypes, IdsInv
<1> QED BY <1>3, <1>4, <1>5

LEMMA DisconnectVoices ==
  ASSUME VoicesInv, NEW t \in AllTabs, onDisconnect(t)
  PROVE  VoicesInv'
<1>0. PICK gone \in SUBSET Up : gone = {t}
  BY DEF onDisconnect
<1>01. PICK freed : freed = {}
  OBVIOUS
<1>1. t \in Up /\ links' = [links EXCEPT ![t] = NoLink] /\ Cleared(gone) /\ subjectOf' = subjectOf
  BY <1>0 DEF onDisconnect
<1>2. LinkTypes' /\ \A u \in AllTabs : links'[u] = IF u = t THEN NoLink ELSE links[u]
  BY <1>1 DEF LinkTypes, VoicesInv
<1>3. \A u \in Up \ gone : u \in Up' /\ links'[u].subject = links[u].subject
  BY <1>0, <1>2 DEF Up
<1>4. /\ idOf' = [u \in AllTabs |-> IF u \in gone \/ idOf[u] \in freed THEN "none" ELSE idOf[u]]
      /\ states' = [i \in Ids |-> IF i \in freed THEN "none" ELSE StatesWithout(gone)[i]]
  <2>1. StatesWithout(gone) = [i \in Ids |-> StatesWithout(gone)[i]]
    BY DEF StatesWithout
  <2> QED BY <2>1, <1>01, <1>1 DEF Cleared
<1>5. \A b \in ToSet(subjectOf) : b.id \notin freed => \E c \in ToSet(subjectOf') : c.id = b.id /\ Person(c.subject) = Person(b.subject)
  BY <1>1
<1>6. LinkTypes /\ IdTypes /\ IdsInv
  BY DEF VoicesInv
<1>7. /\ idOf' \in [AllTabs -> Ids \cup {"none"}] /\ states' \in [Ids -> Subjects \cup {"none"}]
      /\ \A u \in AllTabs : Speaks(u)'
      /\ \A i \in Ids : Shows(i)'
  BY <1>3, <1>4, <1>5, <1>6, GoneRight, Zenon
<1> QED BY <1>1, <1>2, <1>6, <1>7 DEF VoicesInv, IdTypes, IdsInv

LEMMA GreetedVoices ==
  ASSUME VoicesInv, NEW t \in AllTabs, greeted(t)
  PROVE  VoicesInv'
<1>0. PICK gone \in SUBSET Up : gone = IF links[t].replaces THEN {u \in Up : links[u].subject = "guest"} ELSE {}
  OBVIOUS
<1>01. PICK freed : freed = {}
  OBVIOUS
<1>1. /\ links[t] \in Linked /\ links[t].at = "attached" /\ subjectOf' = subjectOf /\ Cleared(gone)
      /\ links' = [u \in AllTabs |-> IF u \in gone THEN NoLink
                                     ELSE IF u = t THEN [links[t] EXCEPT !.at = "up"] ELSE links[u]]
  BY <1>0, LinksAre DEF greeted, VoicesInv
<1> DEFINE to == [links[t] EXCEPT !.at = "up"]
<1>2. to \in Linked /\ to.subject = links[t].subject /\ to.at = "up"
  BY <1>1 DEF Linked
<1>3. \A u \in AllTabs : links'[u] = IF u \in gone THEN NoLink ELSE IF u = t THEN to ELSE links[u]
  BY <1>1
<1> HIDE DEF to
<1>4. LinkTypes'
  <2>1. \A u \in AllTabs : links'[u] \in {NoLink} \cup Linked
    BY <1>2, <1>3 DEF LinkTypes, VoicesInv
  <2>2. links' = [u \in AllTabs |-> links'[u]]
    BY <1>1
  <2>3. links' \in [AllTabs -> {NoLink} \cup Linked]
    BY <2>1, <2>2
  <2> QED BY <2>3 DEF LinkTypes, AllTabs
<1>5. \A u \in Up \ gone : u \in Up' /\ links'[u].subject = links[u].subject
  BY <1>2, <1>3 DEF Up
<1>6. /\ idOf' = [u \in AllTabs |-> IF u \in gone \/ idOf[u] \in freed THEN "none" ELSE idOf[u]]
      /\ states' = [i \in Ids |-> IF i \in freed THEN "none" ELSE StatesWithout(gone)[i]]
  <2>1. StatesWithout(gone) = [i \in Ids |-> StatesWithout(gone)[i]]
    BY DEF StatesWithout
  <2> QED BY <2>1, <1>01, <1>1 DEF Cleared
<1>7. \A b \in ToSet(subjectOf) : b.id \notin freed => \E c \in ToSet(subjectOf') : c.id = b.id /\ Person(c.subject) = Person(b.subject)
  BY <1>1
<1>8. LinkTypes /\ IdTypes /\ IdsInv
  BY DEF VoicesInv
<1>9. /\ idOf' \in [AllTabs -> Ids \cup {"none"}] /\ states' \in [Ids -> Subjects \cup {"none"}]
      /\ \A u \in AllTabs : Speaks(u)'
      /\ \A i \in Ids : Shows(i)'
  BY <1>5, <1>6, <1>7, <1>8, GoneRight, Zenon
<1> QED BY <1>1, <1>4, <1>8, <1>9 DEF VoicesInv, IdTypes, IdsInv

LEMMA CloseVoices ==
  ASSUME VoicesInv, NEW s \in Subjects, closeSubject(s)
  PROVE  VoicesInv'
<1>0. PICK gone \in SUBSET Up : gone = {t \in Up : links[t].subject = s}
  OBVIOUS
<1>01. PICK freed : freed = {b.id : b \in {b \in ToSet(subjectOf) : b.subject = s}}
  OBVIOUS
<1> DEFINE T == {b \in ToSet(subjectOf) : b.subject # s}
<1>1. /\ links' = [t \in AllTabs |-> IF t \in gone THEN NoLink ELSE links[t]]
      /\ subjectOf' = Only(subjectOf, T)
      /\ idOf' = [t \in AllTabs |-> IF t \in gone \/ idOf[t] \in freed THEN "none" ELSE idOf[t]]
      /\ states' = [i \in Ids |-> IF i \in freed THEN "none" ELSE StatesWithout(gone)[i]]
  BY <1>0, <1>01 DEF closeSubject
<1>2. LinkTypes' /\ \A u \in AllTabs : links'[u] = IF u \in gone THEN NoLink ELSE links[u]
  BY <1>1 DEF LinkTypes, VoicesInv, AllTabs
<1>3. \A u \in Up \ gone : u \in Up' /\ links'[u].subject = links[u].subject
  BY <1>2 DEF Up
<1>4. LinkTypes /\ IdTypes /\ IdsInv
  BY DEF VoicesInv
<1>5. /\ subjectOf' \in Seq(Binding) /\ ToSet(subjectOf') = ToSet(subjectOf) \cap T /\ IdsOnce(subjectOf')
      /\ \A r : Cardinality(Held(subjectOf', r)) <= Cardinality(Held(subjectOf, r))
  <2> HIDE DEF T
  <2> QED BY <1>1, <1>4, FilteredIds
<1>6. \A b \in ToSet(subjectOf) : b.id \notin freed => \E c \in ToSet(subjectOf') : c.id = b.id /\ Person(c.subject) = Person(b.subject)
  <2> SUFFICES ASSUME NEW b \in ToSet(subjectOf), b.id \notin freed PROVE b \in ToSet(subjectOf')
    OBVIOUS
  <2> QED BY <1>5, <1>01
<1>7. /\ idOf' \in [AllTabs -> Ids \cup {"none"}] /\ states' \in [Ids -> Subjects \cup {"none"}]
      /\ \A u \in AllTabs : Speaks(u)'
      /\ \A i \in Ids : Shows(i)'
  BY <1>1, <1>3, <1>4, <1>6, GoneRight, Zenon
<1>8. \A r \in {"guest", "other"} : Cardinality(Held(subjectOf', r)) <= MAX_AWARENESS_IDS_PER_SUBJECT
  <2> TAKE r \in {"guest", "other"}
  <2>1. subjectOf \in Seq(Binding)
    BY <1>4 DEF IdTypes
  <2>2. Cardinality(Held(subjectOf', r)) \in Nat /\ Cardinality(Held(subjectOf, r)) \in Nat
    BY <2>1, <1>5, HeldIs
  <2> QED BY <2>2, <1>5, <1>4, TracesAssumption DEF IdsInv
<1> QED BY <1>2, <1>4, <1>5, <1>7, <1>8 DEF VoicesInv, IdTypes, IdsInv

LEMMA UnloadVoices ==
  ASSUME VoicesInv, unload
  PROVE  VoicesInv'
<1>1. /\ subjectOf' = <<>> /\ idOf' = [t \in AllTabs |-> "none"] /\ states' = [i \in Ids |-> "none"] /\ links' = links
  BY DEF unload
<1>2. DOMAIN subjectOf' = {} /\ ToSet(subjectOf') = {} /\ subjectOf' \in Seq(Binding)
  BY <1>1 DEF ToSet
<1>3. \A s : Held(subjectOf', s) = {}
  BY <1>2 DEF Held
<1>4. \A s : Cardinality(Held(subjectOf', s)) <= MAX_AWARENESS_IDS_PER_SUBJECT
  BY <1>3, FS_EmptySet, TracesAssumption
<1>5. LinkTypes'
  BY <1>1 DEF VoicesInv, LinkTypes
<1>6. IdTypes'
  BY <1>1, <1>2 DEF IdTypes, AllTabs
<1>7. IdsInv'
  BY <1>1, <1>2, <1>4 DEF IdsInv, IdsOnce, Speaks, Shows
<1> QED BY <1>5, <1>6, <1>7 DEF VoicesInv

LEMMA RetractVoices ==
  ASSUME VoicesInv, NEW t \in AllTabs, retract(t)
  PROVE  VoicesInv'
<1> DEFINE to == [links[t] EXCEPT !.added = FALSE]
<1>1. /\ t \in Up /\ links[t] \in Linked /\ idOf[t] \in Ids /\ idOf' = idOf /\ subjectOf' = subjectOf
      /\ states' = [states EXCEPT ![idOf[t]] = "none"]
      /\ links' = [links EXCEPT ![t] = to]
  BY LinksAre DEF retract, VoicesInv
<1>2. to \in Linked /\ to.subject = links[t].subject /\ to.at = links[t].at
  BY <1>1 DEF Linked
<1> HIDE DEF to
<1>3. LinkTypes' /\ \A u \in AllTabs : links'[u] = IF u = t THEN to ELSE links[u]
  BY <1>1, <1>2 DEF LinkTypes, VoicesInv
<1>4. \A u \in Up : u \in Up' /\ links'[u].subject = links[u].subject
  BY <1>2, <1>3 DEF Up
<1>5. LinkTypes /\ IdTypes /\ IdsInv
  BY DEF VoicesInv
<1>6. IdTypes' /\ \A i \in Ids : states'[i] \in {"none", states[i]}
  BY <1>1, <1>5 DEF IdTypes
<1>7. \A u \in AllTabs : Speaks(u)'
  BY <1>1, <1>4, <1>5 DEF Speaks, IdsInv
<1>8. \A i \in Ids : Shows(i)'
  BY <1>1, <1>4, <1>5, <1>6 DEF Shows, IdsInv
<1> QED BY <1>1, <1>3, <1>5, <1>6, <1>7, <1>8 DEF VoicesInv, IdsInv

LEMMA OutdatedVoices ==
  ASSUME VoicesInv, NEW i \in Ids, outdated(i)
  PROVE  VoicesInv'
<1>1. /\ idOf' = idOf /\ subjectOf' = subjectOf /\ links' = links
      /\ states' = [states EXCEPT ![i] = "none"]
  BY DEF outdated
<1>2. LinkTypes /\ IdTypes /\ IdsInv /\ Up' = Up
  BY <1>1 DEF VoicesInv, Up
<1>3. IdTypes' /\ \A j \in Ids : states'[j] \in {"none", states[j]}
  BY <1>1, <1>2 DEF IdTypes
<1>4. \A u \in AllTabs : Speaks(u)'
  BY <1>1, <1>2 DEF Speaks, IdsInv
<1>5. \A j \in Ids : Shows(j)'
  BY <1>1, <1>2, <1>3 DEF Shows, IdsInv
<1> QED BY <1>1, <1>2, <1>3, <1>4, <1>5 DEF VoicesInv, IdsInv, LinkTypes

(* Who speaks for an id nobody has binds it, where one it has been at the
   cap for makes room. *)
Kept(s) == ToSet(subjectOf) \ {subjectOf[n] : n \in Victims(s)}
Forsaken(b) == b.id \notin {idOf[t] : t \in Up} /\ states[b.id] = "none"
Spoken(q, i, s) == q = Append(Only(subjectOf, Kept(s)), [id |-> i, subject |-> s])
LEMMA SpeakBinds ==
  ASSUME IdTypes, IdsInv, NEW i \in Ids, NEW s \in Subjects, BoundTo(i) = "none", Bindable(s),
         NEW q, Spoken(q, i, s)
  PROVE  /\ q \in Seq(Binding) /\ IdsOnce(q)
         /\ \E b \in ToSet(q) : b.id = i /\ b.subject = s
         /\ \A b \in ToSet(subjectOf) : b \in ToSet(q) \/ Forsaken(b)
         /\ \A r \in {"guest", "other"} : Cardinality(Held(q, r)) <= MAX_AWARENESS_IDS_PER_SUBJECT
<1>0. PICK new : new = [id |-> i, subject |-> s]
  OBVIOUS
<1> DEFINE V == {subjectOf[n] : n \in Victims(s)}
           T == ToSet(subjectOf) \ V
           p == Only(subjectOf, T)
<1>1. subjectOf \in Seq(Binding) /\ ToSet(subjectOf) \subseteq Binding
  BY EntriesAre DEF IdTypes
<1>2. \A b \in ToSet(subjectOf) : b.id # i
  BY BoundToIs DEF IdsInv
<1>3. new \in Binding /\ new \notin ToSet(subjectOf) /\ new.id = i /\ new.subject = s
  BY <1>0, <1>2 DEF Binding
<1>4. /\ p \in Seq(Binding) /\ ToSet(p) = ToSet(subjectOf) \ V /\ IdsOnce(p)
      /\ \A r : Held(p, r) = Held(subjectOf, r) \cap T
      /\ \A r : Cardinality(Held(p, r)) <= Cardinality(Held(subjectOf, r))
  <2>1. ToSet(subjectOf) \cap T = ToSet(subjectOf) \ V
    OBVIOUS
  <2> HIDE DEF T
  <2> QED BY <2>1, FilteredIds
<1>5. OnceEach(p) /\ new \notin ToSet(p)
  BY <1>3, <1>4, OnceIsOnce
<1>6. q \in Seq(Binding) /\ ToSet(q) = ToSet(p) \cup {new} /\ OnceEach(q)
  <2> HIDE DEF p
  <2>1. q = Append(p, new)
    BY <1>0 DEF p, Kept, Spoken
  <2>2. p \in Seq(Binding) /\ new \in Binding
    BY <1>3, <1>4
  <2>3. /\ Append(p, new) \in Seq(Binding)
        /\ ToSet(Append(p, new)) = ToSet(p) \cup {new}
        /\ OnceEach(p) /\ new \notin ToSet(p) => OnceEach(Append(p, new))
    BY ONLY <2>2, AppendIs
  <2> QED BY <2>1, <2>3, <1>5
<1>7. IdsOnce(q)
  <2>1. \A b, c \in ToSet(q) : b.id = c.id => b = c
    <3>1. \A b, c \in ToSet(p) : b.id = c.id => b = c
      BY <1>4, OnceIsOnce
    <3> QED BY <3>1, <1>2, <1>3, <1>4, <1>6
  <2> QED BY <2>1, <1>6, OnceIsOnce
<1>8. \A b \in V : Forsaken(b)
  <2> SUFFICES ASSUME NEW n \in Victims(s)
               PROVE  Forsaken(subjectOf[n])
    OBVIOUS
  <2>1. Abandoned(n)
    BY DEF Victims
  <2> QED BY <2>1 DEF Abandoned, Forsaken
<1>9. ASSUME NEW r \in {"guest", "other"} PROVE Cardinality(Held(q, r)) <= MAX_AWARENESS_IDS_PER_SUBJECT
  <2>1. /\ IsFiniteSet(Held(subjectOf, r)) /\ Cardinality(Held(subjectOf, r)) \in Nat
        /\ IsFiniteSet(Held(p, r)) /\ Cardinality(Held(p, r)) \in Nat
        /\ IsFiniteSet(Held(q, r)) /\ Cardinality(Held(q, r)) \in Nat
    <3> HIDE DEF p
    <3> QED BY <1>1, <1>4, <1>6, HeldIs
  <2>2. Cardinality(Held(p, r)) <= MAX_AWARENESS_IDS_PER_SUBJECT
    <3> HIDE DEF p
    <3> QED BY <2>1, <1>4, TracesAssumption DEF IdsInv
  <2>3. CASE r # s
    <3>1. Held(q, r) = Held(p, r)
      <4> HIDE DEF p
      <4> QED BY <2>3, <1>3, <1>6 DEF Held
    <3> QED BY <3>1, <2>2
  <2>4. CASE r = s
    <3>1. Held(q, s) = Held(p, s) \cup {new}
      <4> HIDE DEF p
      <4> QED BY <1>3, <1>6 DEF Held
    <3>2. Cardinality(Held(q, s)) <= Cardinality(Held(p, s)) + 1
      <4> HIDE DEF p
      <4>1. PICK H : H = Held(p, s)
        OBVIOUS
      <4>2. IsFiniteSet(H) /\ Cardinality(H) \in Nat
        BY <4>1, <2>1, <2>4
      <4>3. Cardinality(H \cup {new}) = Cardinality(H) \/ Cardinality(H \cup {new}) = Cardinality(H) + 1
        BY <4>2, FS_AddElement
      <4>4. Cardinality(Held(q, s)) = Cardinality(H \cup {new})
        BY <3>1, <4>1, Zenon
      <4>5. Cardinality(Held(p, s)) = Cardinality(H)
        BY <4>1, Zenon
      <4>6. Cardinality(H \cup {new}) <= Cardinality(H) + 1
        BY ONLY <4>2, <4>3
      <4> QED BY <4>4, <4>5, <4>6, Zenon
    <3>3. Cardinality(Held(p, s)) < MAX_AWARENESS_IDS_PER_SUBJECT
      <4>1. Cardinality(Bindings(s)) = Cardinality(Held(subjectOf, s))
        BY BindingsAre DEF IdsInv
      <4>2. CASE Cardinality(Bindings(s)) < MAX_AWARENESS_IDS_PER_SUBJECT
        <5> HIDE DEF p
        <5> QED BY <4>1, <4>2, <2>1, <2>4, <1>4, TracesAssumption
      <4>3. CASE Victims(s) # {}
        <5>1. PICK n \in Victims(s) : TRUE
          BY <4>3
        <5>2. n \in Bindings(s)
          BY <5>1 DEF Victims
        <5>3. subjectOf[n] \in Held(subjectOf, s) /\ subjectOf[n] \in V
          BY <5>1, <5>2 DEF Bindings, Held, ToSet
        <5>4. Held(p, s) \subseteq Held(subjectOf, s) \ {subjectOf[n]}
          BY <1>4, <5>3
        <5> HIDE DEF p, V
        <5>5. /\ IsFiniteSet(Held(subjectOf, s) \ {subjectOf[n]})
              /\ Cardinality(Held(subjectOf, s) \ {subjectOf[n]}) = Cardinality(Held(subjectOf, s)) - 1
          BY <5>3, <2>1, <2>4, FS_RemoveElement
        <5>6. Cardinality(Held(p, s)) <= Cardinality(Held(subjectOf, s)) - 1
          BY <5>4, <5>5, FS_Subset
        <5>7. Cardinality(Held(subjectOf, s)) <= MAX_AWARENESS_IDS_PER_SUBJECT
          BY <2>4 DEF IdsInv
        <5> QED BY <5>6, <5>7, <2>1, <2>4, TracesAssumption
      <4> QED BY <4>2, <4>3 DEF Bindable
    <3> HIDE DEF p
    <3> QED BY <3>2, <3>3, <2>1, <2>4, TracesAssumption
  <2> QED BY <2>3, <2>4
<1>10. \A b \in ToSet(subjectOf) : b \in ToSet(q) \/ Forsaken(b)
  <2> TAKE b \in ToSet(subjectOf)
  <2> QED BY <1>4, <1>6, <1>8
<1>11. new \in ToSet(q)
  BY <1>6
<1> QED BY <1>3, <1>6, <1>7, <1>9, <1>10, <1>11

LEMMA SpeakVoices ==
  ASSUME VoicesInv, NEW t \in AllTabs, NEW i \in Ids, speak(t, i)
  PROVE  VoicesInv'
<1> DEFINE s == links[t].subject
           to == [links[t] EXCEPT !.added = @ \/ states[i] = "none"]
<1>1. /\ t \in Up /\ links[t] \in Linked /\ s \in Subjects
      /\ idOf' = [idOf EXCEPT ![t] = i] /\ states' = [states EXCEPT ![i] = s]
      /\ links' = [links EXCEPT ![t] = to]
      /\ idOf[t] \in {"none", i} /\ BoundTo(i) \in {"none", s}
      /\ BoundTo(i) = "none" => Bindable(s)
  BY LinksAre DEF speak, VoicesInv, allowed, Linked
<1>2. to \in Linked /\ to.subject = s /\ to.at = links[t].at
  <2>1. PICK b \in BOOLEAN : b = (links[t].added \/ states[i] = "none")
    OBVIOUS
  <2>2. to = [links[t] EXCEPT !.added = b]
    BY <2>1, <1>1 DEF Linked
  <2> QED BY <2>2, <1>1 DEF Linked
<1>3. s # "none"
  BY <1>1 DEF Subjects
<1> HIDE DEF to, s
<1>4. LinkTypes' /\ \A u \in AllTabs : links'[u] = IF u = t THEN to ELSE links[u]
  BY <1>1, <1>2 DEF LinkTypes, VoicesInv
<1>5. (\A u \in Up : u \in Up') /\ \A u \in Up : links'[u].subject = links[u].subject
  BY <1>2, <1>4 DEF Up, s
<1>6. LinkTypes /\ IdTypes /\ IdsInv
  BY DEF VoicesInv
<1>7. /\ subjectOf' \in Seq(Binding) /\ IdsOnce(subjectOf')
      /\ \E b \in ToSet(subjectOf') : b.id = i /\ b.subject = s
      /\ \A b \in ToSet(subjectOf) : b \in ToSet(subjectOf') \/ Forsaken(b)
      /\ \A r \in {"guest", "other"} : Cardinality(Held(subjectOf', r)) <= MAX_AWARENESS_IDS_PER_SUBJECT
  <2>1. CASE BoundTo(i) # "none"
    <3>1. subjectOf' = subjectOf
      BY <2>1 DEF speak
    <3>2. \E b \in ToSet(subjectOf) : b.id = i /\ b.subject = BoundTo(i)
      BY <2>1, <1>6, BoundToIs DEF IdsInv
    <3>3. BoundTo(i) = s
      BY <1>1, <2>1
    <3> QED BY <3>1, <3>2, <3>3, <1>6 DEF IdsInv, IdTypes
  <2>2. CASE BoundTo(i) = "none"
    <3>1. subjectOf' = Append(Only(subjectOf, Kept(s)), [id |-> i, subject |-> s])
      BY <2>2 DEF speak, s, Kept
    <3>2. IdTypes /\ IdsInv /\ Bindable(s) /\ s \in Subjects
      BY <1>1, <1>6, <2>2
    <3>3. PICK q : q = subjectOf'
      OBVIOUS
    <3>4. Spoken(q, i, s)
      BY <3>1, <3>3 DEF Spoken
    <3>5. /\ q \in Seq(Binding) /\ IdsOnce(q)
          /\ \E b \in ToSet(q) : b.id = i /\ b.subject = s
          /\ \A b \in ToSet(subjectOf) : b \in ToSet(q) \/ Forsaken(b)
          /\ \A r \in {"guest", "other"} : Cardinality(Held(q, r)) <= MAX_AWARENESS_IDS_PER_SUBJECT
      <4>1. IdTypes /\ IdsInv /\ i \in Ids /\ s \in Subjects /\ BoundTo(i) = "none" /\ Bindable(s)
        BY <3>2, <2>2
      <4> QED BY ONLY <4>1, <3>4, SpeakBinds
    <3> QED BY <3>3, <3>5
  <2> QED BY <2>1, <2>2
<1>8. IdTypes'
  BY <1>1, <1>6, <1>7 DEF IdTypes
<1>9. BoundFor(subjectOf', i, s)
  BY <1>7 DEF BoundFor
<1>10. ASSUME NEW u \in AllTabs PROVE Speaks(u)'
  <2>1. CASE u = t
    <3>1. idOf'[u] = i /\ links'[u].subject = s /\ u \in Up'
      BY <2>1, <1>1, <1>2, <1>4, <1>5, <1>6 DEF IdTypes
    <3> QED BY <3>1, <1>9 DEF Speaks
  <2>2. CASE u # t
    <3>1. idOf'[u] = idOf[u]
      BY <2>2, <1>1, <1>6 DEF IdTypes
    <3> SUFFICES ASSUME idOf[u] # "none" PROVE u \in Up' /\ BoundFor(subjectOf', idOf[u], links'[u].subject)
      BY <3>1 DEF Speaks
    <3>2. u \in Up /\ BoundFor(subjectOf, idOf[u], links[u].subject)
      BY <1>6 DEF IdsInv, Speaks
    <3>3. PICK b \in ToSet(subjectOf) : b.id = idOf[u] /\ Person(b.subject) = Person(links[u].subject)
      BY <3>2 DEF BoundFor
    <3>4. b \in ToSet(subjectOf')
      BY <3>2, <3>3, <1>7 DEF Forsaken
    <3> QED BY <3>2, <3>3, <3>4, <1>5 DEF BoundFor
  <2> QED BY <2>1, <2>2
<1>11. ASSUME NEW j \in Ids PROVE Shows(j)'
  <2>1. CASE j = i
    <3>1. states'[j] = s /\ idOf'[t] = j /\ t \in Up'
      BY <2>1, <1>1, <1>5, <1>6 DEF IdTypes
    <3> QED BY <3>1, <2>1, <1>9 DEF Shows
  <2>2. CASE j # i
    <3>1. states'[j] = states[j]
      BY <2>2, <1>1, <1>6 DEF IdTypes
    <3> SUFFICES ASSUME states[j] # "none" PROVE BoundFor(subjectOf', j, states[j]) /\ \E u \in Up' : idOf'[u] = j
      BY <3>1 DEF Shows
    <3>2. BoundFor(subjectOf, j, states[j]) /\ \E u \in Up : idOf[u] = j
      BY <1>6 DEF IdsInv, Shows
    <3>3. PICK b \in ToSet(subjectOf) : b.id = j /\ Person(b.subject) = Person(states[j])
      BY <3>2 DEF BoundFor
    <3>4. PICK u \in Up : idOf[u] = j
      BY <3>2
    <3>5. b \in ToSet(subjectOf')
      BY <3>2, <3>3, <3>4, <1>7 DEF Forsaken
    <3>6. u # t
      <4>1. j # "none"
        BY TracesAssumption
      <4> QED BY <3>4, <4>1, <1>1, <2>2
    <3>7. idOf'[u] = j /\ u \in Up'
      BY <3>4, <3>6, <1>1, <1>5, <1>6 DEF IdTypes, Up
    <3> QED BY <3>3, <3>5, <3>7 DEF BoundFor
  <2> QED BY <2>1, <2>2
<1> QED BY <1>4, <1>7, <1>8, <1>10, <1>11 DEF VoicesInv, IdsInv

-----------------------------------------------------------------------------
(* What holds of credits: no owner's, and while a credit moves, the guest
   still has it as long as nobody has come past the rename. *)
TabsAt(a) == {t \in AllTabs : links[t].at = a}
CreditInv ==
    /\ \A w \in crediting : ~Owns(w.subject)
    /\ TabsAt("follow") \cup TabsAt("rename") # {} => ~accountOwns
    /\ CreditsOnce
    /\ moves.barred \/ moves.owed => ~accountOwns
    /\ moves.barred => "guest" \in removed /\ (moves.lost \/ "account" \in removed \/ TabsAt("follow") # {})
    /\ moves.owed => \/ moves.lost \/ "account" \in Credited \/ {"guest", "account"} \cap removed # {}
                     \/ "guest" \in Credited /\ TabsAt("follow") \cup TabsAt("rename") # {} /\ TabsAt("drop") = {}
EarnedInv == CreditTypes /\ CreditInv

(* What writes no credit and moves none on. *)
LEMMA CreditQuiet ==
  ASSUME EarnedInv, accountOwns' = accountOwns, credits' = credits, removed' = removed, moves' = moves,
         TabsAt("follow")' = TabsAt("follow"), TabsAt("rename")' = TabsAt("rename"), TabsAt("drop")' = TabsAt("drop"),
         crediting' \subseteq [subject : Subjects, doc : {"loaded", "unloaded"}],
         \A w \in crediting' : ~Owns(w.subject)
  PROVE  EarnedInv'
<1>1. CreditTypes'
  BY DEF EarnedInv, CreditTypes
<1>2. Credited' = Credited /\ CreditsOnce' /\ \A s : Owns(s)' <=> Owns(s)
  BY DEF EarnedInv, CreditInv, CreditsOnce, Credited, Owns
<1>3. CreditInv'
  BY <1>2 DEF EarnedInv, CreditInv
<1> QED BY <1>1, <1>3 DEF EarnedInv

(* A connection takes another state. *)
LEMMA AtGoes ==
  ASSUME LinkTypes, NEW t \in AllTabs, links[t] \in Linked, NEW at, links' = [links EXCEPT ![t].at = at]
  PROVE  \A a : TabsAt(a)' = IF a = at THEN TabsAt(a) \cup {t} ELSE TabsAt(a) \ {t}
<1> DEFINE to == [links[t] EXCEPT !.at = at]
<1>1. to.at = at /\ links' = [links EXCEPT ![t] = to]
  BY DEF Linked
<1> HIDE DEF to
<1>2. \A u \in AllTabs : links'[u] = IF u = t THEN to ELSE links[u]
  BY <1>1 DEF LinkTypes
<1> QED BY <1>1, <1>2 DEF TabsAt

(* Who the credits are, with one more, or without those of one. *)
LEMMA CreditMore ==
  ASSUME CreditTypes, CreditsOnce, NEW s \in Subjects, MayBeCredited(s),
         credits' = credits \cup {[subject |-> s, earnedAs |-> s]}
  PROVE  /\ credits' \subseteq [subject : Subjects, earnedAs : Subjects] /\ IsFiniteSet(credits')
         /\ Credited' = Credited \cup {s}
         /\ \A c, d \in credits' : c.subject = d.subject => c = d
         /\ Cardinality(credits') <= MAX_PROJECT_COLLABORATORS
<1> DEFINE new == [subject |-> s, earnedAs |-> s]
<1>1. new \in [subject : Subjects, earnedAs : Subjects] /\ new.subject = s
  OBVIOUS
<1>2. credits' = credits \cup {new}
  OBVIOUS
<1> HIDE DEF new
<1>3. s \notin Credited /\ Cardinality(credits) < MAX_PROJECT_COLLABORATORS
  BY DEF MayBeCredited
<1>4. IsFiniteSet(credits) /\ Cardinality(credits) \in Nat
  BY FS_CardinalityType DEF CreditTypes
<1>5. IsFiniteSet(credits') /\ (Cardinality(credits') = Cardinality(credits) \/ Cardinality(credits') = Cardinality(credits) + 1)
  <2>1. /\ IsFiniteSet(credits \cup {new})
        /\ Cardinality(credits \cup {new}) = Cardinality(credits) \/ Cardinality(credits \cup {new}) = Cardinality(credits) + 1
    BY <1>4, FS_AddElement
  <2> QED BY <2>1, <1>2, Zenon
<1>6. Credited' = Credited \cup {s}
  BY <1>1, <1>2 DEF Credited
<1>7. \A c \in credits : c.subject # s
  BY <1>3 DEF Credited
<1>8. \A c, d \in credits' : c.subject = d.subject => c = d
  BY <1>1, <1>2, <1>7 DEF CreditsOnce
<1>9. Cardinality(credits') <= MAX_PROJECT_COLLABORATORS
  BY <1>3, <1>4, <1>5, TracesAssumption
<1> QED BY <1>1, <1>2, <1>5, <1>6, <1>8, <1>9 DEF CreditTypes

LEMMA CreditLess ==
  ASSUME CreditTypes, CreditsOnce, NEW s, credits' = {c \in credits : c.subject # s}
  PROVE  /\ credits' \subseteq [subject : Subjects, earnedAs : Subjects] /\ IsFiniteSet(credits')
         /\ Credited' = Credited \ {s}
         /\ \A c, d \in credits' : c.subject = d.subject => c = d
         /\ Cardinality(credits') <= MAX_PROJECT_COLLABORATORS
<1>1. IsFiniteSet(credits) /\ Cardinality(credits) \in Nat
  BY FS_CardinalityType DEF CreditTypes
<1>2. IsFiniteSet(credits') /\ Cardinality(credits') \in Nat /\ Cardinality(credits') <= Cardinality(credits)
  <2>1. credits' \subseteq credits
    OBVIOUS
  <2>2. IsFiniteSet(credits') /\ Cardinality(credits') <= Cardinality(credits)
    BY <2>1, <1>1, FS_Subset
  <2> QED BY <2>2, FS_CardinalityType
<1>3. Cardinality(credits') <= MAX_PROJECT_COLLABORATORS
  BY <1>1, <1>2, TracesAssumption DEF CreditsOnce
<1>4. Credited' = Credited \ {s}
  BY DEF Credited
<1> QED BY <1>2, <1>3, <1>4 DEF CreditTypes, CreditsOnce

(* The guest's becomes the account's, which has none. *)
LEMMA CreditRenamed ==
  ASSUME CreditTypes, CreditsOnce, "account" \notin Credited, credits' = Recredited(credits)
  PROVE  /\ credits' \subseteq [subject : Subjects, earnedAs : Subjects] /\ IsFiniteSet(credits')
         /\ Credited' = IF "guest" \in Credited THEN (Credited \ {"guest"}) \cup {"account"} ELSE Credited
         /\ \A c, d \in credits' : c.subject = d.subject => c = d
         /\ Cardinality(credits') <= MAX_PROJECT_COLLABORATORS
<1> DEFINE C == [subject : Subjects, earnedAs : Subjects]
           f == [c \in credits |-> IF c.subject = "guest" THEN [c EXCEPT !.subject = "account"] ELSE c]
<1>1. IsFiniteSet(credits) /\ Cardinality(credits) \in Nat /\ credits \subseteq C /\ Cardinality(credits) <= MAX_PROJECT_COLLABORATORS
  BY FS_CardinalityType DEF CreditTypes, CreditsOnce
<1>2. \A c \in C : LET d == [c EXCEPT !.subject = "account"] IN d \in C /\ d.subject = "account"
  BY DEF Subjects
<1>3. \A c \in credits : /\ f[c] \in C
                         /\ f[c].subject = IF c.subject = "guest" THEN "account" ELSE c.subject
  BY <1>1, <1>2
<1>4. DOMAIN f = credits /\ credits' = {f[c] : c \in credits} /\ f = [c \in DOMAIN f |-> f[c]]
  BY DEF Recredited
<1> HIDE DEF f, C
<1>5. credits' = ToSet(f)
  BY <1>4 DEF ToSet
<1>6. IsFiniteSet(credits') /\ Cardinality(credits') <= Cardinality(credits)
  BY <1>1, <1>4, <1>5, ImageIsFinite
<1>7. Cardinality(credits') <= MAX_PROJECT_COLLABORATORS
  BY <1>6, <1>1, FS_CardinalityType, TracesAssumption
<1>8. \A c \in credits : c.subject \in Credited /\ c.subject # "account"
  BY DEF Credited
<1>9. \A c, d \in credits : f[c].subject = f[d].subject => c = d
  BY <1>3, <1>8 DEF CreditsOnce
<1>10. \A c, d \in credits' : c.subject = d.subject => c = d
  BY <1>4, <1>9
<1>11. Credited' = {f[c].subject : c \in credits}
  BY <1>4 DEF Credited
<1>12. ASSUME NEW s PROVE s \in Credited' <=> s \in (IF "guest" \in Credited THEN (Credited \ {"guest"}) \cup {"account"} ELSE Credited)
  <2>1. s \in Credited' <=> \E c \in credits : s = IF c.subject = "guest" THEN "account" ELSE c.subject
    BY <1>3, <1>11
  <2>2. \A r : r \in Credited <=> \E c \in credits : c.subject = r
    BY DEF Credited
  <2> QED BY <2>1, <2>2
<1> QED BY <1>3, <1>4, <1>6, <1>7, <1>10, <1>12 DEF C

-----------------------------------------------------------------------------
LEMMA EditEarned ==
  ASSUME VoicesInv, EarnedInv, NEW t \in AllTabs, edit(t)
  PROVE  EarnedInv'
<1>1. links[t] \in Linked /\ ~Owns(links[t].subject)
  BY LinksAre DEF VoicesInv, edit
<1>2. links[t].subject \in Subjects
  BY <1>1 DEF Linked
<1>3. PICK s \in Subjects : s = links[t].subject
  BY <1>2
<1>4. /\ crediting' = crediting \cup {[subject |-> s, doc |-> "loaded"]} /\ ~Owns(s)
      /\ accountOwns' = accountOwns /\ credits' = credits /\ removed' = removed /\ moves' = moves /\ links' = links
  BY <1>1, <1>3 DEF edit
<1>5. \A w \in crediting' : w \in [subject : Subjects, doc : {"loaded", "unloaded"}] /\ ~Owns(w.subject)
  BY <1>4 DEF EarnedInv, CreditTypes, CreditInv
<1>6. \A a : TabsAt(a)' = TabsAt(a)
  BY <1>4 DEF TabsAt
<1> QED BY <1>4, <1>5, <1>6, CreditQuiet

LEMMA CreditEarned ==
  ASSUME EarnedInv, NEW w \in crediting, creditCollaborator(w)
  PROVE  EarnedInv'
<1>1. /\ crediting' = crediting \ {w} /\ accountOwns' = accountOwns /\ removed' = removed /\ moves' = moves /\ links' = links
      /\ w.subject \in Subjects /\ ~Owns(w.subject)
  BY DEF creditCollaborator, EarnedInv, CreditTypes, CreditInv
<1>2. \A a : TabsAt(a)' = TabsAt(a)
  BY <1>1 DEF TabsAt
<1>3. CASE ~MayBeCredited(w.subject)
  <2>1. credits' = credits
    BY <1>3 DEF creditCollaborator
  <2> QED BY <2>1, <1>1, <1>2, CreditQuiet DEF EarnedInv, CreditTypes, CreditInv
<1>4. CASE MayBeCredited(w.subject)
  <2>1. credits' = credits \cup {[subject |-> w.subject, earnedAs |-> w.subject]}
    BY <1>4 DEF creditCollaborator
  <2>2. CreditTypes /\ CreditsOnce
    BY DEF EarnedInv, CreditInv
  <2>3. /\ credits' \subseteq [subject : Subjects, earnedAs : Subjects] /\ IsFiniteSet(credits')
        /\ Credited' = Credited \cup {w.subject}
        /\ \A c, d \in credits' : c.subject = d.subject => c = d
        /\ Cardinality(credits') <= MAX_PROJECT_COLLABORATORS
    BY <2>1, <2>2, <1>1, <1>4, CreditMore
  <2>4. w.subject \notin removed
    BY <1>4 DEF MayBeCredited
  <2>5. CreditsOnce'
    BY <2>2, <2>3, <2>4, <1>1 DEF CreditsOnce, Owns
  <2>6. CreditTypes'
    BY <2>3, <1>1 DEF EarnedInv, CreditTypes
  <2>7. CreditInv'
    BY <2>3, <2>5, <1>1, <1>2 DEF EarnedInv, CreditInv, Owns
  <2> QED BY <2>6, <2>7 DEF EarnedInv
<1> QED BY <1>3, <1>4

LEMMA RemoveEarned ==
  ASSUME EarnedInv, NEW s \in Subjects, removeProjectCollaborator(s)
  PROVE  EarnedInv'
<1>1. accountOwns' = accountOwns /\ crediting' = crediting /\ moves' = moves /\ links' = links
  BY DEF removeProjectCollaborator
<1>2. \A a : TabsAt(a)' = TabsAt(a)
  BY <1>1 DEF TabsAt
<1>3. CASE s \notin Credited
  <2>1. credits' = credits /\ removed' = removed
    BY <1>3 DEF removeProjectCollaborator
  <2>2. \A w \in crediting' : w \in [subject : Subjects, doc : {"loaded", "unloaded"}] /\ ~Owns(w.subject)
    BY <1>1 DEF EarnedInv, CreditTypes, CreditInv
  <2> QED BY <2>1, <2>2, <1>1, <1>2, CreditQuiet
<1>4. CASE s \in Credited
  <2>1. removed' = removed \cup {s} /\ credits' = {c \in credits : c.subject # s}
    BY <1>4 DEF removeProjectCollaborator
  <2>2. CreditTypes /\ CreditsOnce
    BY DEF EarnedInv, CreditInv
  <2>3. /\ credits' \subseteq [subject : Subjects, earnedAs : Subjects] /\ IsFiniteSet(credits')
        /\ Credited' = Credited \ {s}
        /\ \A c, d \in credits' : c.subject = d.subject => c = d
        /\ Cardinality(credits') <= MAX_PROJECT_COLLABORATORS
    BY <2>1, <2>2, CreditLess
  <2>4. CreditsOnce'
    BY <2>1, <2>2, <2>3, <1>1 DEF CreditsOnce
  <2>5. CreditTypes'
    BY <2>1, <2>3, <1>1 DEF EarnedInv, CreditTypes
  <2>6. CreditInv'
    BY <2>1, <2>3, <2>4, <1>1, <1>2 DEF EarnedInv, CreditInv, Owns
  <2> QED BY <2>5, <2>6 DEF EarnedInv
<1> QED BY <1>3, <1>4

LEMMA FollowEarned ==
  ASSUME VoicesInv, EarnedInv, NEW t \in AllTabs, followRemoval(t)
  PROVE  EarnedInv'
<1>0. PICK own \in BOOLEAN : own = (moves.hadOwn \/ ("guest" \in removed /\ "account" \in Credited))
  OBVIOUS
<1>1. /\ links[t] \in Linked /\ links[t].at = "follow" /\ links' = [links EXCEPT ![t].at = "rename"]
      /\ accountOwns' = accountOwns /\ crediting' = crediting /\ credits' = credits
      /\ removed' = IF "guest" \in removed THEN removed \cup {"account"} ELSE removed
      /\ moves' = [moves EXCEPT !.hadOwn = own]
  BY <1>0, LinksAre DEF VoicesInv, followRemoval
<1>2. TabsAt("follow")' = TabsAt("follow") \ {t} /\ TabsAt("rename")' = TabsAt("rename") \cup {t} /\ TabsAt("drop")' = TabsAt("drop") \ {t}
  BY <1>1, AtGoes DEF VoicesInv
<1>3. moves' \in [owed : BOOLEAN, barred : BOOLEAN, hadOwn : BOOLEAN, lost : BOOLEAN]
      /\ moves'.owed = moves.owed /\ moves'.barred = moves.barred /\ moves'.lost = moves.lost /\ moves'.hadOwn = own
  BY <1>1 DEF EarnedInv, CreditTypes
<1>4. CreditTypes'
  BY <1>1, <1>3 DEF EarnedInv, CreditTypes, Subjects
<1>5. Credited' = Credited /\ t \in TabsAt("follow")
  BY <1>1 DEF Credited, TabsAt
<1>6. CreditsOnce'
  BY <1>0, <1>1, <1>3, <1>5 DEF EarnedInv, CreditInv, CreditsOnce
<1>7. CreditInv'
  <2>1. \A w \in crediting' : ~Owns(w.subject)'
    BY <1>1 DEF EarnedInv, CreditInv, Owns
  <2>2. ~accountOwns /\ ~accountOwns'
    BY <1>1, <1>5 DEF EarnedInv, CreditInv
  <2>3. moves'.barred => "guest" \in removed' /\ "account" \in removed'
    BY <1>1, <1>3 DEF EarnedInv, CreditInv
  <2>4. moves'.owed => \/ moves'.lost \/ "account" \in Credited' \/ {"guest", "account"} \cap removed' # {}
                       \/ "guest" \in Credited' /\ TabsAt("follow")' \cup TabsAt("rename")' # {} /\ TabsAt("drop")' = {}
    <3>1. {"guest", "account"} \cap removed # {} => {"guest", "account"} \cap removed' # {}
      BY <1>1
    <3> QED BY <3>1, <1>2, <1>3, <1>5 DEF EarnedInv, CreditInv
  <2> QED BY <2>1, <2>2, <2>3, <2>4, <1>6 DEF CreditInv
<1> QED BY <1>4, <1>7 DEF EarnedInv

LEMMA RenameEarned ==
  ASSUME VoicesInv, EarnedInv, NEW t \in AllTabs, renameCredit(t)
  PROVE  EarnedInv'
<1>1. /\ links[t] \in Linked /\ links[t].at = "rename" /\ links' = [links EXCEPT ![t].at = "drop"]
      /\ accountOwns' = accountOwns /\ crediting' = crediting /\ removed' = removed /\ moves' = moves
      /\ credits' = IF "account" \in removed \cup Credited THEN credits ELSE Recredited(credits)
  BY LinksAre DEF VoicesInv, renameCredit
<1>2. TabsAt("follow")' = TabsAt("follow") \ {t} /\ TabsAt("rename")' = TabsAt("rename") \ {t} /\ TabsAt("drop")' = TabsAt("drop") \cup {t}
  BY <1>1, AtGoes DEF VoicesInv
<1>3. t \in TabsAt("rename") /\ t \notin TabsAt("follow") /\ ~accountOwns
  BY <1>1 DEF EarnedInv, CreditInv, TabsAt
<1>4. CreditTypes /\ CreditsOnce
  BY DEF EarnedInv, CreditInv
<1>5. CreditTypes' /\ CreditsOnce'
      /\ (moves.owed => moves.lost \/ "account" \in Credited' \/ {"guest", "account"} \cap removed # {})
  <2>1. CASE "account" \in removed \cup Credited
    <3>1. credits' = credits /\ Credited' = Credited
      BY <1>1, <2>1 DEF Credited
    <3> QED BY <3>1, <2>1, <1>1, <1>4 DEF CreditTypes, CreditsOnce
  <2>2. CASE "account" \notin removed \cup Credited
    <3>1. credits' = Recredited(credits) /\ "account" \notin Credited /\ "account" \notin removed
      BY <1>1, <2>2
    <3>2. /\ credits' \subseteq [subject : Subjects, earnedAs : Subjects] /\ IsFiniteSet(credits')
          /\ Credited' = IF "guest" \in Credited THEN (Credited \ {"guest"}) \cup {"account"} ELSE Credited
          /\ \A c, d \in credits' : c.subject = d.subject => c = d
          /\ Cardinality(credits') <= MAX_PROJECT_COLLABORATORS
      BY <3>1, <1>4, CreditRenamed
    <3>3. CreditTypes'
      BY <3>2, <1>1, <1>4 DEF CreditTypes
    <3>4. CreditsOnce'
      BY <3>1, <3>2, <1>1, <1>3, <1>4 DEF CreditsOnce
    <3>5. moves.owed => moves.lost \/ "account" \in Credited' \/ {"guest", "account"} \cap removed # {}
      BY <3>1, <3>2 DEF EarnedInv, CreditInv
    <3> QED BY <3>3, <3>4, <3>5
  <2> QED BY <2>1, <2>2
<1>6. CreditInv'
  BY <1>1, <1>2, <1>3, <1>5 DEF EarnedInv, CreditInv, Owns
<1> QED BY <1>5, <1>6 DEF EarnedInv

LEMMA DropEarned ==
  ASSUME VoicesInv, EarnedInv, NEW t \in AllTabs, dropCredit(t)
  PROVE  EarnedInv'
<1>1. /\ links[t] \in Linked /\ links[t].at = "drop" /\ links' = [links EXCEPT ![t].at = "enter"]
      /\ accountOwns' = accountOwns /\ crediting' = crediting /\ removed' = removed /\ moves' = moves
      /\ credits' = {c \in credits : c.subject # "guest"}
  BY LinksAre DEF VoicesInv, dropCredit, Without
<1>2. TabsAt("follow")' = TabsAt("follow") \ {t} /\ TabsAt("rename")' = TabsAt("rename") \ {t} /\ TabsAt("drop")' = TabsAt("drop") \ {t}
  BY <1>1, AtGoes DEF VoicesInv
<1>3. t \in TabsAt("drop") /\ t \notin TabsAt("follow") /\ t \notin TabsAt("rename")
  BY <1>1 DEF TabsAt
<1>4. CreditTypes /\ CreditsOnce
  BY DEF EarnedInv, CreditInv
<1>5. /\ credits' \subseteq [subject : Subjects, earnedAs : Subjects] /\ IsFiniteSet(credits')
      /\ Credited' = Credited \ {"guest"}
      /\ \A c, d \in credits' : c.subject = d.subject => c = d
      /\ Cardinality(credits') <= MAX_PROJECT_COLLABORATORS
  BY <1>1, <1>4, CreditLess
<1>6. CreditTypes'
  BY <1>1, <1>4, <1>5 DEF CreditTypes
<1>7. CreditsOnce'
  BY <1>1, <1>4, <1>5 DEF CreditsOnce
<1>8. CreditInv'
  BY <1>1, <1>2, <1>3, <1>5, <1>7 DEF EarnedInv, CreditInv, Owns
<1> QED BY <1>6, <1>8 DEF EarnedInv

LEMMA FailEarned ==
  ASSUME VoicesInv, EarnedInv, NEW t \in AllTabs, moveFails(t)
  PROVE  EarnedInv'
<1>1. /\ links[t] \in Linked /\ links' = [links EXCEPT ![t].at = "enter"]
      /\ accountOwns' = accountOwns /\ crediting' = crediting /\ removed' = removed /\ credits' = credits
      /\ moves' = [moves EXCEPT !.lost = TRUE]
  BY LinksAre DEF VoicesInv, moveFails, Movers
<1>2. TabsAt("follow")' = TabsAt("follow") \ {t} /\ TabsAt("rename")' = TabsAt("rename") \ {t} /\ TabsAt("drop")' = TabsAt("drop") \ {t}
  BY <1>1, AtGoes DEF VoicesInv
<1>3. moves' \in [owed : BOOLEAN, barred : BOOLEAN, hadOwn : BOOLEAN, lost : BOOLEAN]
      /\ moves'.owed = moves.owed /\ moves'.barred = moves.barred /\ moves'.lost /\ moves'.hadOwn = moves.hadOwn
  BY <1>1 DEF EarnedInv, CreditTypes
<1>4. CreditTypes'
  BY <1>1, <1>3 DEF EarnedInv, CreditTypes
<1>5. CreditsOnce' /\ Credited' = Credited
  BY <1>1, <1>3 DEF EarnedInv, CreditInv, CreditsOnce, Credited
<1>6. CreditInv'
  BY <1>1, <1>2, <1>3, <1>5 DEF EarnedInv, CreditInv, Owns
<1> QED BY <1>4, <1>6 DEF EarnedInv

LEMMA AuthenticateEarned ==
  ASSUME VoicesInv, EarnedInv, NEW t \in AllTabs, NEW s \in Subjects, NEW token \in BOOLEAN, authenticate(t, s, token)
  PROVE  EarnedInv'
<1>0. PICK absorbs \in BOOLEAN : absorbs = (token /\ (guestEntry \/ Movers # {}))
  OBVIOUS
<1>01. PICK owed \in BOOLEAN : owed = (moves.owed \/ (Movers = {} /\ "guest" \in Credited))
  OBVIOUS
<1>02. PICK barred \in BOOLEAN : barred = (moves.barred \/ "guest" \in removed)
  OBVIOUS
<1> DEFINE at == IF ~absorbs THEN "enter" ELSE IF accountOwns THEN "drop" ELSE "follow"
           to == [subject |-> s, replaces |-> absorbs, added |-> FALSE, at |-> at]
<1>1. /\ links[t] = NoLink /\ links' = [links EXCEPT ![t] = to]
      /\ accountOwns' = accountOwns /\ crediting' = crediting /\ removed' = removed /\ credits' = credits
      /\ moves' = IF absorbs /\ ~accountOwns THEN [moves EXCEPT !.owed = owed, !.barred = barred] ELSE moves
  BY <1>0, <1>01, <1>02 DEF authenticate
<1>2. to.at = at
  OBVIOUS
<1> HIDE DEF to
<1>3. \A u \in AllTabs : links'[u] = IF u = t THEN to ELSE links[u]
  BY <1>1 DEF LinkTypes, VoicesInv
<1>4. \A a : a # "none" => t \notin TabsAt(a) /\ TabsAt(a)' = IF a = at THEN TabsAt(a) \cup {t} ELSE TabsAt(a)
  <2> HIDE DEF at
  <2> QED BY <1>1, <1>2, <1>3 DEF TabsAt, NoLink
<1>5. Credited' = Credited /\ accountOwns \in BOOLEAN
  BY <1>1 DEF Credited, EarnedInv, CreditTypes
<1>6. CASE ~(absorbs /\ ~accountOwns)
  <2>1. moves' = moves /\ at \in {"enter", "drop"}
    BY <1>1, <1>6
  <2>2. at = "drop" => accountOwns
    BY <1>6
  <2>3. TabsAt("follow")' = TabsAt("follow") /\ TabsAt("rename")' = TabsAt("rename") /\ (~accountOwns => TabsAt("drop")' = TabsAt("drop"))
    <3> HIDE DEF at
    <3> QED BY <1>4, <2>1, <2>2
  <2>4. CreditTypes'
    BY <2>1, <1>1 DEF EarnedInv, CreditTypes
  <2>5. CreditsOnce'
    BY <2>1, <1>1, <1>5 DEF EarnedInv, CreditInv, CreditsOnce
  <2> HIDE DEF at
  <2>6. CreditInv'
    BY <2>1, <2>3, <2>5, <1>1, <1>5 DEF EarnedInv, CreditInv, Owns
  <2> QED BY <2>4, <2>6 DEF EarnedInv
<1>7. CASE absorbs /\ ~accountOwns
  <2>1. moves' = [moves EXCEPT !.owed = owed, !.barred = barred] /\ at = "follow"
    BY <1>1, <1>7
  <2>2. TabsAt("follow")' = TabsAt("follow") \cup {t} /\ TabsAt("rename")' = TabsAt("rename") /\ TabsAt("drop")' = TabsAt("drop")
    <3> HIDE DEF at
    <3> QED BY <1>4, <2>1
  <2>3. moves' \in [owed : BOOLEAN, barred : BOOLEAN, hadOwn : BOOLEAN, lost : BOOLEAN]
        /\ moves'.owed = owed /\ moves'.barred = barred /\ moves'.lost = moves.lost /\ moves'.hadOwn = moves.hadOwn
    BY <2>1 DEF EarnedInv, CreditTypes
  <2>4. CreditTypes'
    BY <2>3, <1>1 DEF EarnedInv, CreditTypes
  <2>5. CreditsOnce'
    BY <2>3, <1>1, <1>5 DEF EarnedInv, CreditInv, CreditsOnce
  <2>6. Movers = {} => TabsAt("drop") = {}
    BY DEF Movers, TabsAt
  <2> HIDE DEF at
  <2>7. barred => "guest" \in removed
    BY <1>02 DEF EarnedInv, CreditInv
  <2>8. owed => \/ moves.lost \/ "account" \in Credited \/ {"guest", "account"} \cap removed # {}
                \/ "guest" \in Credited /\ TabsAt("drop") = {}
    BY <1>01, <2>6 DEF EarnedInv, CreditInv
  <2>9. \A w \in crediting' : ~Owns(w.subject)'
    BY <1>1 DEF EarnedInv, CreditInv, Owns
  <2>10. ~accountOwns' /\ TabsAt("follow")' # {}
    BY <1>1, <1>7, <2>2
  <2>11. CreditInv'
    BY <2>2, <2>3, <2>5, <2>7, <2>8, <2>9, <2>10, <1>1, <1>5 DEF CreditInv
  <2> QED BY <2>4, <2>11 DEF EarnedInv
<1> QED BY <1>6, <1>7

(* Everything else leaves who moves a credit as it is. *)
LEMMA OthersEarned ==
  ASSUME VoicesInv, EarnedInv,
         \/ \E t \in AllTabs : onAuthenticate(t) \/ greeted(t) \/ onDisconnect(t) \/ retract(t) \/ \E i \in Ids : speak(t, i)
         \/ \E i \in Ids : outdated(i)
         \/ \E s \in Subjects : closeSubject(s)
         \/ unload
         \/ \E w \in crediting : creditFails(w)
  PROVE  EarnedInv'
<1>1. accountOwns' = accountOwns /\ credits' = credits /\ removed' = removed /\ moves' = moves
  BY DEF onAuthenticate, greeted, onDisconnect, retract, speak, outdated, closeSubject, unload, creditFails, creditVars
<1>2. /\ crediting' \subseteq [subject : Subjects, doc : {"loaded", "unloaded"}]
      /\ \A w \in crediting' : ~Owns(w.subject)
  <2>1. crediting' \subseteq crediting \/ crediting' = {[w EXCEPT !.doc = "unloaded"] : w \in crediting}
    BY DEF onAuthenticate, greeted, onDisconnect, retract, speak, outdated, closeSubject, unload, creditFails, creditVars
  <2>2. \A w \in crediting : w \in [subject : Subjects, doc : {"loaded", "unloaded"}] /\ ~Owns(w.subject)
    BY DEF EarnedInv, CreditTypes, CreditInv
  <2>3. \A w \in [subject : Subjects, doc : {"loaded", "unloaded"}] :
          LET v == [w EXCEPT !.doc = "unloaded"] IN
          v \in [subject : Subjects, doc : {"loaded", "unloaded"}] /\ v.subject = w.subject
    OBVIOUS
  <2>4. \A v \in crediting' : v \in [subject : Subjects, doc : {"loaded", "unloaded"}] /\ ~Owns(v.subject)
    <3> TAKE v \in crediting'
    <3>1. CASE v \in crediting
      BY <3>1, <2>2
    <3>2. CASE v \notin crediting
      <4>1. PICK w \in crediting : v = [w EXCEPT !.doc = "unloaded"]
        BY <2>1, <3>2
      <4>2. v \in [subject : Subjects, doc : {"loaded", "unloaded"}] /\ v.subject = w.subject
        BY <4>1, <2>2, <2>3
      <4> QED BY <4>2, <2>2
    <3> QED BY <3>1, <3>2
  <2> QED BY <2>4
<1>3. \A u \in AllTabs : \A a \in {"follow", "rename", "drop"} : links'[u].at = a <=> links[u].at = a
  <2>1. ASSUME NEW t \in AllTabs, onAuthenticate(t) \/ retract(t) \/ \E i \in Ids : speak(t, i)
        PROVE  \A u \in AllTabs : \A a \in {"follow", "rename", "drop"} : links'[u].at = a <=> links[u].at = a
    <3>0. links[t] \in Linked /\ links[t].at \in {"enter", "attached", "up"}
      BY <2>1, LinksAre DEF onAuthenticate, retract, speak, VoicesInv, Up
    <3>1. PICK to : /\ links' = [links EXCEPT ![t] = to] /\ to.at \in {"attached", "up"}
      <4>1. CASE onAuthenticate(t)
        <5> DEFINE r == [links[t] EXCEPT !.at = "attached"]
        <5>1. links' = [links EXCEPT ![t] = r] /\ r.at = "attached"
          BY <4>1, <3>0 DEF onAuthenticate, Linked
        <5> HIDE DEF r
        <5> QED BY <5>1
      <4>2. CASE retract(t)
        <5> DEFINE r == [links[t] EXCEPT !.added = FALSE]
        <5>1. links' = [links EXCEPT ![t] = r] /\ r.at = links[t].at /\ links[t].at \in {"attached", "up"}
          BY <4>2, <3>0 DEF retract, Linked, Up
        <5> HIDE DEF r
        <5> QED BY <5>1
      <4>3. ASSUME NEW i \in Ids, speak(t, i) PROVE \E to : links' = [links EXCEPT ![t] = to] /\ to.at \in {"attached", "up"}
        <5> DEFINE r == [links[t] EXCEPT !.added = @ \/ states[i] = "none"]
        <5>1. links' = [links EXCEPT ![t] = r] /\ r.at = links[t].at /\ links[t].at \in {"attached", "up"}
          BY <4>3, <3>0 DEF speak, Linked, Up
        <5> HIDE DEF r
        <5> QED BY <5>1
      <4> QED BY <2>1, <4>1, <4>2, <4>3
    <3>2. \A u \in AllTabs : links'[u] = IF u = t THEN to ELSE links[u]
      BY <3>1 DEF VoicesInv, LinkTypes
    <3> QED BY <3>0, <3>1, <3>2
  <2>2. ASSUME NEW t \in AllTabs, onDisconnect(t)
        PROVE  \A u \in AllTabs : \A a \in {"follow", "rename", "drop"} : links'[u].at = a <=> links[u].at = a
    <3>1. t \in Up /\ \A u \in AllTabs : links'[u] = IF u = t THEN NoLink ELSE links[u]
      BY <2>2 DEF onDisconnect, VoicesInv, LinkTypes
    <3> QED BY <3>1 DEF Up, NoLink
  <2>3. ASSUME NEW t \in AllTabs, greeted(t)
        PROVE  \A u \in AllTabs : \A a \in {"follow", "rename", "drop"} : links'[u].at = a <=> links[u].at = a
    <3>0. PICK gone \in SUBSET Up : gone = IF links[t].replaces THEN {u \in Up : links[u].subject = "guest"} ELSE {}
      OBVIOUS
    <3>1. /\ links[t] \in Linked /\ links[t].at = "attached"
          /\ links' = [u \in AllTabs |-> IF u \in gone THEN NoLink
                                         ELSE IF u = t THEN [links[t] EXCEPT !.at = "up"] ELSE links[u]]
      BY <2>3, <3>0, LinksAre DEF greeted, VoicesInv
    <3> DEFINE to == [links[t] EXCEPT !.at = "up"]
    <3>2. to.at = "up"
      BY <3>1 DEF Linked
    <3>3. \A u \in AllTabs : links'[u] = IF u \in gone THEN NoLink ELSE IF u = t THEN to ELSE links[u]
      BY <3>1
    <3> HIDE DEF to
    <3> QED BY <3>1, <3>2, <3>3 DEF Up, NoLink
  <2>4. ASSUME NEW s \in Subjects, closeSubject(s)
        PROVE  \A u \in AllTabs : \A a \in {"follow", "rename", "drop"} : links'[u].at = a <=> links[u].at = a
    <3>1. PICK gone \in SUBSET Up : links' = [t \in AllTabs |-> IF t \in gone THEN NoLink ELSE links[t]]
      BY <2>4 DEF closeSubject
    <3> QED BY <3>1 DEF Up, NoLink
  <2>5. links' = links => \A u \in AllTabs : \A a \in {"follow", "rename", "drop"} : links'[u].at = a <=> links[u].at = a
    OBVIOUS
  <2>6. (\E i \in Ids : outdated(i)) \/ unload \/ (\E w \in crediting : creditFails(w)) => links' = links
    BY DEF outdated, unload, creditFails
  <2> QED BY <2>1, <2>2, <2>3, <2>4, <2>5, <2>6
<1>4. TabsAt("follow")' = TabsAt("follow") /\ TabsAt("rename")' = TabsAt("rename") /\ TabsAt("drop")' = TabsAt("drop")
  BY <1>3 DEF TabsAt
<1> QED BY <1>1, <1>2, <1>4, CreditQuiet

-----------------------------------------------------------------------------
(* Every step keeps both. *)
TracesInv == VoicesInv /\ EarnedInv

LEMMA TracesBegin ==
  TracesInit => TracesInv
<1> SUFFICES ASSUME TracesInit PROVE TracesInv
  OBVIOUS
<1>1. \A t \in AllTabs : links[t].at = "none" /\ idOf[t] = "none"
  BY DEF TracesInit, NoLink
<1>2. LinkTypes /\ \A a : a # "none" => TabsAt(a) = {}
  BY <1>1 DEF TracesInit, LinkTypes, AllTabs, TabsAt
<1>3. subjectOf = <<>> /\ DOMAIN subjectOf = {} /\ ToSet(subjectOf) = {}
  BY DEF TracesInit, ToSet
<1>4. IdTypes
  BY <1>3 DEF TracesInit, IdTypes, AllTabs
<1>5. \A s : Cardinality(Held(subjectOf, s)) <= MAX_AWARENESS_IDS_PER_SUBJECT
  <2>1. \A s : Held(subjectOf, s) = {}
    BY <1>3 DEF Held
  <2> QED BY <2>1, FS_EmptySet, TracesAssumption
<1>6. IdsInv
  BY <1>1, <1>3, <1>5 DEF TracesInit, IdsInv, IdsOnce, Speaks, Shows
<1>7. CreditTypes
  BY FS_EmptySet DEF TracesInit, CreditTypes
<1>8. CreditInv
  BY <1>2, FS_EmptySet, TracesAssumption DEF TracesInit, CreditInv, CreditsOnce, Credited
<1> QED BY <1>2, <1>4, <1>6, <1>7, <1>8 DEF TracesInv, VoicesInv, EarnedInv

TracesStep == TracesInv /\ [TracesNext]_tracesVars => TracesInv'
LEMMA TracesGoOn ==
  TracesStep
<1> SUFFICES ASSUME TracesInv, [TracesNext]_tracesVars PROVE TracesInv'
  BY DEF TracesStep
<1>1. VoicesInv /\ EarnedInv
  BY DEF TracesInv
<1>2. ASSUME NEW t \in AllTabs, NEW s \in Subjects, NEW token \in BOOLEAN, authenticate(t, s, token) PROVE TracesInv'
  BY <1>1, <1>2, AuthenticateVoices, AuthenticateEarned DEF TracesInv
<1>3. ASSUME NEW t \in AllTabs, onAuthenticate(t) \/ greeted(t) \/ onDisconnect(t) PROVE TracesInv'
  BY <1>1, <1>3, AttachVoices, GreetedVoices, DisconnectVoices, OthersEarned DEF TracesInv
<1>4. ASSUME Moving PROVE TracesInv'
  BY <1>1, <1>4, MovingVoices, FollowEarned, RenameEarned, DropEarned, FailEarned DEF TracesInv, Moving
<1>5. ASSUME Crediting PROVE TracesInv'
  <2>1. UNCHANGED idVars /\ links' = links
    BY <1>5 DEF Crediting, edit, creditCollaborator, creditFails, removeProjectCollaborator
  <2>2. LinkTypes' /\ \A t \in Up : t \in Up' /\ links'[t].subject = links[t].subject
    BY <2>1, <1>1 DEF VoicesInv, LinkTypes, Up
  <2>3. VoicesInv'
    BY <2>1, <2>2, <1>1, VoicesQuiet
  <2>4. EarnedInv'
    BY <1>1, <1>5, EditEarned, CreditEarned, RemoveEarned, OthersEarned DEF Crediting
  <2> QED BY <2>3, <2>4 DEF TracesInv
<1>6. ASSUME Speaking PROVE TracesInv'
  <2>1. VoicesInv'
    BY <1>1, <1>6, RetractVoices, SpeakVoices, OutdatedVoices, CloseVoices DEF Speaking
  <2>2. EarnedInv'
    BY <1>1, <1>6, OthersEarned DEF Speaking
  <2> QED BY <2>1, <2>2 DEF TracesInv
<1>7. ASSUME unload PROVE TracesInv'
  BY <1>1, <1>7, UnloadVoices, OthersEarned DEF TracesInv
<1>8. ASSUME UNCHANGED tracesVars PROVE TracesInv'
  <2>1. /\ links' = links /\ UNCHANGED idVars /\ accountOwns' = accountOwns /\ crediting' = crediting
        /\ credits' = credits /\ removed' = removed /\ moves' = moves
    BY <1>8 DEF tracesVars, creditVars
  <2>2. LinkTypes' /\ \A t \in Up : t \in Up' /\ links'[t].subject = links[t].subject
    BY <2>1, <1>1 DEF VoicesInv, LinkTypes, Up
  <2>3. VoicesInv'
    BY <2>1, <2>2, <1>1, VoicesQuiet
  <2>4. \A a : TabsAt(a)' = TabsAt(a)
    BY <2>1 DEF TabsAt
  <2>5. \A w \in crediting' : w \in [subject : Subjects, doc : {"loaded", "unloaded"}] /\ ~Owns(w.subject)
    BY <2>1, <1>1 DEF EarnedInv, CreditTypes, CreditInv
  <2>6. EarnedInv'
    BY <2>1, <2>4, <2>5, <1>1, CreditQuiet
  <2> QED BY <2>3, <2>6 DEF TracesInv
<1> QED BY <1>2, <1>3, <1>4, <1>5, <1>6, <1>7, <1>8 DEF TracesNext, Coming

LEMMA TracesAre ==
  TracesInv => TracesHold
<1> SUFFICES ASSUME TracesInv PROVE TracesHold
  OBVIOUS
<1>1. LinkTypes /\ IdTypes /\ IdsInv /\ CreditTypes /\ CreditInv
  BY DEF TracesInv, VoicesInv, EarnedInv
<1>2. \A i, s : BoundFor(subjectOf, i, s) => BoundTo(i) # "none" /\ Person(BoundTo(i)) = Person(s)
  BY <1>1, BoundToIs DEF BoundFor, IdsInv
<1>3. OneVoiceEach
  <2>1. \A i \in Ids : states[i] # "none" => BoundTo(i) # "none" /\ Person(BoundTo(i)) = Person(states[i])
    BY <1>1, <1>2 DEF IdsInv, Shows
  <2>2. \A t \in Up : idOf[t] # "none" => BoundTo(idOf[t]) # "none" /\ Person(BoundTo(idOf[t])) = Person(links[t].subject)
    <3> TAKE t \in Up
    <3>1. t \in AllTabs
      BY DEF Up
    <3> QED BY <3>1, <1>1, <1>2 DEF IdsInv, Speaks
  <2> QED BY <2>1, <2>2 DEF OneVoiceEach
<1>4. NoGhosts
  BY <1>1 DEF NoGhosts, IdsInv, Shows
<1>5. IdsCapped
  <2>1. \A s : Cardinality(Bindings(s)) = Cardinality(Held(subjectOf, s))
    BY <1>1, BindingsAre DEF IdsInv
  <2>2. Subjects \ {"account"} = {"guest", "other"}
    BY DEF Subjects
  <2> QED BY <2>1, <2>2, <1>1 DEF IdsCapped, IdsInv
<1>6. CreditsOnce
  BY <1>1 DEF CreditInv
<1>7. CreditsFollow
  <2> SUFFICES ASSUME Movers = {}, ~moves.lost
               PROVE  /\ moves.barred /\ ~moves.hadOwn => "account" \notin Credited
                      /\ moves.owed => "account" \in Credited \/ {"guest", "account"} \cap removed # {}
    BY DEF CreditsFollow
  <2>1. TabsAt("follow") = {} /\ TabsAt("rename") = {}
    BY DEF Movers, TabsAt
  <2> QED BY <2>1, <1>1 DEF CreditInv, CreditsOnce
<1> QED BY <1>3, <1>4, <1>5, <1>6, <1>7 DEF TracesHold

(* Whatever people do, whoever signs in, is kicked or fails: nobody speaks
   over another, nobody who left is shown, no cap is passed, nobody is
   credited twice or against the owner's will, and a credit follows. *)
THEOREM TracesHoldAlways ==
  TracesSpec => []TracesHold
<1>1. TracesInv /\ [TracesNext]_tracesVars => TracesInv'
  BY TracesGoOn DEF TracesStep
<1> QED BY <1>1, TracesBegin, TracesAre, PTL DEF TracesSpec

-----------------------------------------------------------------------------
(* The members and what they leave behind side by side, as TLC runs them:
   nobody is in the session twice, and what they leave in it is theirs. *)
THEOREM OneEachAndTheirs ==
  MCSpec => []OneEachTheirs
<1> DEFINE Both == IInv /\ TracesInv
<1>1. MCInit => Both
  BY InitInv, TracesBegin DEF MCInit
<1>2. Both /\ [MCNext]_<<focus, vars, tracesVars>> => Both'
  <2> SUFFICES ASSUME IInv, TracesInv, [MCNext]_<<focus, vars, tracesVars>> PROVE IInv' /\ TracesInv'
    OBVIOUS
  <2>1. [Next]_vars /\ [TracesNext]_tracesVars
    <3>1. CASE MCNext
      BY <3>1 DEF MCNext, TracesFocus, TracesNext
    <3>2. CASE UNCHANGED <<focus, vars, tracesVars>>
      BY <3>2
    <3> QED BY <3>1, <3>2
  <2> QED BY <2>1, NextInv, TracesGoOn DEF TracesStep
<1>3. Both => OneEachTheirs
  <2>1. IInv => OneEntryPerSubject
    BY DEF IInv, Types, Unique, OneEntryPerSubject, TypeOK, Visits, UnderWay, Connection
  <2> QED BY <2>1, TracesAre DEF OneEachTheirs
<1> HIDE DEF Both
<1> QED BY <1>1, <1>2, <1>3, PTL DEF MCSpec
=============================================================================
