-------------------------- MODULE CollabMembership --------------------------
(***************************************************************************)
(* Who may be in a live session: invites, joins, connections, guests that  *)
(* sign in, and the owner's kicks, revocations and role changes            *)
(* (collab.service.ts, collab.auth.ts), interleaved at every await.        *)
(*                                                                         *)
(* A request reads the session document once, decides on what it read, and *)
(* then writes with filters that repeat some of the rules.  What a request *)
(* has decided is kept in its record; what it read is not needed further.  *)
(* The server catches a connection whose subject was revoked since its     *)
(* authentication began (CollabAdmission), which its `revoked` stands for. *)
(* The owner's own connections, colours, names and credits are left out.   *)
(***************************************************************************)
EXTENDS Naturals, FiniteSets

CONSTANTS
    Account,     \* signed-in people other than the owner
    Guest,       \* guest ids
    Invite,
    InviteRole,  \* the role an invite is created with
    Visitor,     \* slots for joins and connections
    Request,     \* slots for the owner's requests
    None,
    MaxMembers,  \* MAX_MEMBERS
    MaxKicked    \* MAX_KICKED

Subject == Account \cup Guest

Roles == {"editor", "viewer"}

ASSUME MembershipAssumption ==
    /\ Account \cap Guest = {}
    /\ None \notin Subject \cup Invite
    /\ InviteRole \in [Invite -> Roles]
    /\ IsFiniteSet(Subject)
    /\ MaxMembers \in Nat /\ MaxKicked \in Nat

VARIABLES
    members,      \* session.members: entries
    kicked,       \* session.kicked
    invites,      \* per invite: its state
    allowGuests,  \* session.allowGuests
    tokens,       \* guest tokens signed so far: [guest, invite]
    visit,        \* per slot: a join or a connection, or Idle
    request,      \* per slot: a request of the owner, or Idle
    named,        \* history: subjects the owner kicked by name
    demoted       \* history: members the owner made viewers

session == <<members, kicked, invites, allowGuests>>
history == <<named, demoted>>
vars == <<session, tokens, visit, request, history>>

Entry == [subject : Subject, role : Roles, invite : Invite \cup {None}, absorbed : SUBSET Guest]

Token == [guest : Guest, invite : Invite]

Idle == [at |-> "idle"]

Init ==
    /\ members = {} /\ kicked = {}
    /\ invites = [i \in Invite |-> "none"]
    /\ allowGuests = TRUE
    /\ tokens = {}
    /\ visit = [v \in Visitor |-> Idle]
    /\ request = [r \in Request |-> Idle]
    /\ named = {} /\ demoted = {}

Entries(s) == {m \in members : m.subject = s}

IsMember(s) == Entries(s) # {}

EntryOf(s) == CHOOSE m \in members : m.subject = s

(* hasSubject() of the collab server. *)
Connected(s) == \E v \in Visitor : visit[v].at = "connected" /\ visit[v].subject = s

-----------------------------------------------------------------------------
(* Invites.  Whether a link is past its life (inviteExpired) is a choice
   wherever the code asks. *)

createInvite(i) ==
    /\ invites[i] = "none"
    /\ invites' = [invites EXCEPT ![i] = "live"]
    /\ UNCHANGED <<members, kicked, allowGuests, tokens, visit, request, history>>

-----------------------------------------------------------------------------
(* A visit.  subject is who the visitor is going to be, guest the guest it
   was, whose entry it absorbs first, and known says that the code has the
   subject's own entry in hand.  A refusal, a failed read or write and a
   client that goes away put the slot back to Idle (Leave). *)

(* Once settled a visit keeps what its end needs: a join its token's
   invite, a connection its role, and whom to reconnect. *)
Forget(w) ==
    IF w = Idle \/ w.at # "authed" THEN w
    ELSE [w EXCEPT !.known = FALSE,
                   !.guest = IF w.replaced THEN @ ELSE None,
                   !.role = IF w.how = "join" THEN "viewer" ELSE @,
                   !.invite = IF w.how = "join" /\ w.subject \in Guest THEN @ ELSE None]

Become(v, what) == visit' = [visit EXCEPT ![v] = Forget(what)]

(* What a visit does after its read of the session. *)
Plan(how, s, g, invite, role, guestAccessValid) ==
    LET absorbs == g # None /\ IsMember(g)
        known == IsMember(s)
    IN [at |-> IF absorbs /\ known THEN "note"
               ELSE IF absorbs /\ guestAccessValid THEN "rename"
               ELSE IF absorbs THEN "drop"
               ELSE IF ~known THEN "push"
               ELSE IF how = "join" /\ invite \notin {None, EntryOf(s).invite} THEN "refresh"
               ELSE "authed",
        how |-> how, subject |-> s, guest |-> g, invite |-> invite, known |-> known,
        role |-> IF known THEN EntryOf(s).role ELSE role,
        replaced |-> FALSE, revoked |-> FALSE]

(* resolvePrincipal for a guest's token. *)
connectGuest(v, t) ==
    /\ visit[v] = Idle
    /\ t.guest \notin kicked /\ allowGuests /\ invites[t.invite] # "revoked"
    /\ Become(v, Plan("connect", t.guest, None, t.invite, InviteRole[t.invite], FALSE))
    /\ UNCHANGED <<session, tokens, request, history>>

(* ... and for an account, with or without a guest's token in its cookies. *)
connectAccount(v, a) ==
    /\ visit[v] = Idle
    /\ a \notin kicked
    /\ \/ /\ IsMember(a)
          /\ Become(v, Plan("connect", a, None, None, "viewer", FALSE))
       \/ \E t \in tokens :
            LET role == IF IsMember(t.guest) THEN EntryOf(t.guest).role
                        ELSE InviteRole[t.invite]
            IN /\ t.guest \notin kicked
               /\ IsMember(a) \/ (allowGuests /\ invites[t.invite] = "live")
               /\ Become(v, Plan("connect", a, t.guest, None, role, TRUE))
    /\ UNCHANGED <<session, tokens, request, history>>

(* The guest id of a new visitor is one nobody has had. *)
Fresh(g) ==
    /\ ~IsMember(g)
    /\ \A t \in tokens : t.guest # g
    /\ \A v \in Visitor : visit[v] # Idle => visit[v].subject # g

(* joinSession of a guest: with the id of its cookie, or with a new one. *)
joinGuest(v, i, g) ==
    /\ visit[v] = Idle
    /\ invites[i] = "live" /\ allowGuests /\ g \notin kicked
    /\ Fresh(g) \/ \E t \in tokens : t.guest = g
    /\ Become(v, Plan("join", g, None, i, InviteRole[i], FALSE))
    /\ UNCHANGED <<session, tokens, request, history>>

(* joinSession of an account.  The token's own invite may be another one. *)
joinAccount(v, i, a) ==
    /\ visit[v] = Idle
    /\ invites[i] = "live" /\ a \notin kicked
    /\ \/ Become(v, Plan("join", a, None, None, InviteRole[i], FALSE))
       \/ \E t \in tokens :
            /\ t.guest \notin kicked
            /\ \E inTime \in BOOLEAN :
                Become(v, Plan("join", a, t.guest, None, InviteRole[i],
                               allowGuests /\ invites[t.invite] = "live" /\ inTime))
    /\ UNCHANGED <<session, tokens, request, history>>

(* absorbGuest of a person with an entry of their own (or, without one,
   where the owner has cut the guest's access): two writes. *)
noteAbsorbed(v) ==
    /\ visit[v].at = "note"
    /\ members' = {[m EXCEPT !.absorbed = IF m.subject = visit[v].subject
                                          THEN @ \cup {visit[v].guest} ELSE @] : m \in members}
    /\ Become(v, [visit[v] EXCEPT !.at = "drop"])
    /\ UNCHANGED <<kicked, invites, allowGuests, tokens, request, history>>

dropGuest(v) ==
    /\ visit[v].at = "drop"
    /\ members' = members \ Entries(visit[v].guest)
    /\ demoted' = demoted \ {visit[v].guest}
    /\ Become(v, [visit[v] EXCEPT !.replaced = TRUE,
                                  !.at = IF visit[v].known THEN "authed" ELSE "push"])
    /\ UNCHANGED <<kicked, invites, allowGuests, tokens, request, named>>

(* absorbGuest of anyone else: the guest's entry becomes the account's, in
   place.  The filter repeats the rules. *)
MayRename(a, g) == IsMember(g) /\ ~IsMember(a) /\ {a, g} \cap kicked = {}

(* Mutant: the role the visit read, or its link's, instead of the entry's. *)
Renamed_RoleRead(v, m) ==
    [m EXCEPT !.subject = visit[v].subject, !.role = visit[v].role, !.invite = None,
              !.absorbed = @ \cup {visit[v].guest}]

Renamed(v, m) ==
    [m EXCEPT !.subject = visit[v].subject, !.invite = None,
              !.absorbed = @ \cup {visit[v].guest}]

renameGuest(v) ==
    LET a == visit[v].subject
        g == visit[v].guest
    IN /\ visit[v].at = "rename"
       /\ IF MayRename(a, g)
          THEN /\ members' = (members \ Entries(g)) \cup {Renamed(v, m) : m \in Entries(g)}
               /\ demoted' = (demoted \ {g}) \cup {a : h \in demoted \cap {g}}
               /\ Become(v, [visit[v] EXCEPT !.at = "authed", !.known = TRUE, !.replaced = TRUE,
                                             !.role = EntryOf(g).role])
          ELSE /\ Become(v, [visit[v] EXCEPT !.at = "recheck"])
               /\ UNCHANGED <<members, demoted>>
       /\ UNCHANGED <<kicked, invites, allowGuests, tokens, request, named>>

(* "Lost a race: to a kick, to this person's own second tab, or the guest
   entry is already gone." *)
recheckGuest(v) ==
    LET a == visit[v].subject
        g == visit[v].guest
    IN /\ visit[v].at = "recheck"
       /\ Become(v,
            IF {a, g} \cap kicked # {} THEN Idle
            ELSE IF ~IsMember(a) THEN [visit[v] EXCEPT !.at = "push"]
            ELSE [visit[v] EXCEPT !.at = IF IsMember(g) THEN "note" ELSE "authed",
                                  !.known = TRUE, !.role = EntryOf(a).role,
                                  !.replaced = ~IsMember(g)])
       /\ UNCHANGED <<session, tokens, request, history>>

(* A guest who joins again through another link: a kick revokes the last. *)
refreshInvite(v) ==
    /\ visit[v].at = "refresh"
    /\ members' = {[m EXCEPT !.invite = IF m.subject = visit[v].subject
                                        THEN visit[v].invite ELSE @] : m \in members}
    /\ Become(v, [visit[v] EXCEPT !.at = "authed"])
    /\ UNCHANGED <<kicked, invites, allowGuests, tokens, request, history>>

(* Mutant: the write's filter does not ask for an entry of the subject. *)
MayPush_TwoTabs(s) == s \notin kicked /\ Cardinality(members) < MaxMembers

(* The entry of a new member, where the write's filter still allows it. *)
MayPush(s) == ~IsMember(s) /\ s \notin kicked /\ Cardinality(members) < MaxMembers

pushMember(v) ==
    LET s == visit[v].subject
    IN /\ visit[v].at = "push"
       /\ IF MayPush(s)
          THEN /\ members' = members \cup
                    {[subject |-> s, role |-> visit[v].role, invite |-> visit[v].invite,
                      absorbed |-> IF visit[v].replaced THEN {visit[v].guest} ELSE {}]}
               /\ Become(v, [visit[v] EXCEPT !.at = "authed"])
          ELSE /\ Become(v, [visit[v] EXCEPT !.at = "reread"])
               /\ UNCHANGED members
       /\ UNCHANGED <<kicked, invites, allowGuests, tokens, request, history>>

(* Not written: a second tab of the same subject was first, or a kick. *)
rereadMembers(v) ==
    /\ visit[v].at = "reread"
    /\ Become(v, IF IsMember(visit[v].subject) THEN [visit[v] EXCEPT !.at = "authed"] ELSE Idle)
    /\ UNCHANGED <<session, tokens, request, history>>

-----------------------------------------------------------------------------
(* Mutant: connections on their way in are not caught. *)
Revoked_AttachedOnly(w, S) ==
    IF w # Idle /\ w.at = "connected" /\ w.subject \in S THEN Idle ELSE w

(* What the collab server does about the subjects S: reconnectSubject and
   closeSubject log them and close the connections they have. *)
Revoked(w, S) ==
    CASE w = Idle -> Idle
      [] w.at = "connected" -> IF w.subject \in S THEN Idle ELSE w
      [] OTHER -> [w EXCEPT !.revoked = @ \/ (w.how = "connect" /\ w.subject \in S)]

Replaced(v) == IF visit[v].replaced THEN {visit[v].guest} ELSE {}

(* The end of joinSession: replaceSubject, and a guest's token. *)
joined(v) ==
    /\ visit[v].at = "authed" /\ visit[v].how = "join"
    /\ visit' = [u \in Visitor |-> IF u = v THEN Idle ELSE Revoked(visit[u], Replaced(v))]
    /\ tokens' = tokens \cup {[guest |-> g, invite |-> visit[v].invite] :
                                g \in Guest \cap {visit[v].subject}}
    /\ UNCHANGED <<session, request, history>>

(* Attached, past revokedSinceAuth, and the guest it was is told. *)
connected(v) ==
    /\ visit[v].at = "authed" /\ visit[v].how = "connect"
    /\ IF visit[v].revoked
       THEN Become(v, Idle)
       ELSE visit' = [u \in Visitor |->
                IF u = v THEN [at |-> "connected", subject |-> visit[v].subject,
                               role |-> visit[v].role]
                ELSE Revoked(visit[u], Replaced(v))]
    /\ UNCHANGED <<session, tokens, request, history>>

Leave(v) ==
    /\ visit[v] # Idle
    /\ Become(v, Idle)
    /\ UNCHANGED <<session, tokens, request, history>>

-----------------------------------------------------------------------------
(* The owner's requests: a read, a write, a call into the collab server. *)

Answer(r, what) == request' = [request EXCEPT ![r] = what]

(* Guests who joined with the invite, as the members read say. *)
JoinedWith(i) == {m.subject : m \in {n \in members : n.subject \in Guest /\ n.invite = i}}

revokeInvite(r, i) ==
    /\ request[r] = Idle
    /\ invites[i] # "none"
    /\ Answer(r, [at |-> "revoke", invite |-> i, drop |-> JoinedWith(i)])
    /\ UNCHANGED <<session, tokens, visit, history>>

revokeInviteIn(r) ==
    /\ request[r].at = "revoke"
    /\ invites' = [invites EXCEPT ![request[r].invite] = "revoked"]
    /\ Answer(r, [at |-> "reconnect", drop |-> request[r].drop])
    /\ UNCHANGED <<members, kicked, allowGuests, tokens, visit, history>>

setGuestAccess(r, allow) ==
    /\ request[r] = Idle
    /\ Answer(r, [at |-> "access", allow |-> allow,
                  drop |-> {m.subject : m \in members} \cap Guest])
    /\ UNCHANGED <<session, tokens, visit, history>>

writeGuestAccess(r) ==
    /\ request[r].at = "access"
    /\ allowGuests' = request[r].allow
    /\ Answer(r, IF request[r].allow THEN Idle
                 ELSE [at |-> "reconnect", drop |-> request[r].drop])
    /\ UNCHANGED <<members, kicked, invites, tokens, visit, history>>

setRole(r, s, role) ==
    /\ request[r] = Idle
    /\ IsMember(s)
    /\ Answer(r, [at |-> "role", subject |-> s, role |-> role])
    /\ UNCHANGED <<session, tokens, visit, history>>

writeRole(r) ==
    LET s == request[r].subject
        role == request[r].role
    IN /\ request[r].at = "role"
       /\ members' = {[m EXCEPT !.role = IF m.subject = s THEN role ELSE @] : m \in members}
       /\ demoted' = IF IsMember(s) /\ role = "viewer" THEN demoted \cup {s} ELSE demoted \ {s}
       /\ Answer(r, [at |-> "reconnect", drop |-> {s}])
       /\ UNCHANGED <<kicked, invites, allowGuests, tokens, visit, named>>

reconnect(r) ==
    /\ request[r].at = "reconnect"
    /\ visit' = [v \in Visitor |-> Revoked(visit[v], request[r].drop)]
    /\ Answer(r, Idle)
    /\ UNCHANGED <<session, tokens, history>>

(* A kick takes the guests the account absorbed with it, as the members it
   read say, and revokes the link of a guest. *)
kick(r, s) ==
    LET absorbed == UNION {m.absorbed : m \in Entries(s)}
        invite == IF s \in Guest /\ IsMember(s) THEN EntryOf(s).invite ELSE None
    IN /\ request[r] = Idle
       /\ Answer(r, [at |-> "kick", subject |-> s, absorbed |-> absorbed, invite |-> invite,
                     exempt |-> Connected(s),
                     present |-> {g \in absorbed : IsMember(g)},
                     drop |-> IF invite = None THEN {} ELSE JoinedWith(invite)])
       /\ UNCHANGED <<session, tokens, visit, history>>

MayKick(s) == s \in kicked \/ IsMember(s) \/ Cardinality(kicked) < MaxKicked

writeKick(r) ==
    LET s == request[r].subject
        out == {s} \cup request[r].absorbed
    IN /\ request[r].at = "kick"
       /\ IF request[r].exempt \/ MayKick(s)
          THEN /\ kicked' = kicked \cup out
               /\ members' = {m \in members : m.subject \notin out}
               /\ named' = named \cup {s}
               /\ demoted' = demoted \ out
               /\ Answer(r, [request[r] EXCEPT !.at = "close"])
          ELSE /\ Answer(r, Idle)
               /\ UNCHANGED <<kicked, members, named, demoted>>
       /\ UNCHANGED <<invites, allowGuests, tokens, visit>>

(* Of the absorbed guests, "only those actually present". *)
closeKicked(r) ==
    LET out == {request[r].subject} \cup request[r].present
                \cup {g \in request[r].absorbed : Connected(g)}
    IN /\ request[r].at = "close"
       /\ visit' = [v \in Visitor |-> Revoked(visit[v], out)]
       /\ Answer(r, IF request[r].invite = None THEN Idle
                    ELSE [at |-> "revoke", invite |-> request[r].invite,
                          drop |-> request[r].drop])
       /\ UNCHANGED <<session, tokens, history>>

(* A read or write of the request fails; what it has done stays. *)
Fail(r) ==
    /\ request[r].at \in {"kick", "revoke", "access", "role"}
    /\ Answer(r, Idle)
    /\ UNCHANGED <<session, tokens, visit, history>>

-----------------------------------------------------------------------------
Arrive(v) ==
    \/ \E t \in tokens : connectGuest(v, t)
    \/ \E a \in Account : connectAccount(v, a) \/ \E i \in Invite : joinAccount(v, i, a)
    \/ \E g \in Guest, i \in Invite : joinGuest(v, i, g)

Proceed(v) ==
    \/ noteAbsorbed(v) \/ dropGuest(v) \/ renameGuest(v) \/ recheckGuest(v)
    \/ refreshInvite(v) \/ pushMember(v) \/ rereadMembers(v)
    \/ joined(v) \/ connected(v) \/ Leave(v)

Ask(r) ==
    \/ \E i \in Invite : revokeInvite(r, i)
    \/ \E allow \in BOOLEAN : setGuestAccess(r, allow)
    \/ \E s \in Subject : kick(r, s) \/ \E role \in Roles : setRole(r, s, role)

Serve(r) ==
    \/ revokeInviteIn(r) \/ writeGuestAccess(r) \/ writeRole(r) \/ reconnect(r)
    \/ writeKick(r) \/ closeKicked(r) \/ Fail(r)

Next ==
    \/ \E i \in Invite : createInvite(i)
    \/ \E v \in Visitor : Arrive(v) \/ Proceed(v)
    \/ \E r \in Request : Ask(r) \/ Serve(r)

Spec == Init /\ [][Next]_vars

-----------------------------------------------------------------------------
(* What each variable holds. *)
TypeOK ==
    /\ members \subseteq Entry
    /\ kicked \subseteq Subject
    /\ invites \in [Invite -> {"none", "live", "revoked"}]
    /\ allowGuests \in BOOLEAN
    /\ tokens \subseteq Token
    /\ DOMAIN visit = Visitor /\ DOMAIN request = Request
    /\ \A v \in Visitor : visit[v] # Idle => visit[v].subject \in Subject
    /\ named \subseteq kicked
    /\ demoted \subseteq Subject

(* Every variable keeps its type, and a subject has one entry, however its
   tabs, its joins and its sign-in race: the code's lookups and positional
   updates rely on it. *)
OneEntryPerSubject ==
    TypeOK /\ \A m, n \in members : m.subject = n.subject => m = n

(* Whoever the owner kicked is not a member again, and once the kick has
   called the server, not connected: no join, connection or absorption
   that was under way carries them past it. *)
KickedStayOut ==
    /\ \A m \in members : m.subject \notin kicked
    /\ \A s \in named :
        Connected(s) => \E r \in Request : request[r].at = "close" /\ request[r].subject = s

(* Whom the owner made a viewer stays one until the owner says otherwise:
   in the entry, which a guest takes along when it becomes an account, and
   in every connection of the guest, unless the server has still to be
   told. *)
Told(s) == ~\E r \in Request : request[r].at = "reconnect" /\ s \in request[r].drop

ServedAsEditor(s) ==
    \E v \in Visitor :
        visit[v].at = "connected" /\ visit[v].subject = s /\ visit[v].role = "editor"

DemotedStaysDown ==
    \A s \in demoted :
        /\ EntryOf(s).role = "viewer"
        /\ s \in Guest /\ Told(s) => ~ServedAsEditor(s)

(* "A demoted guest must not climb through the invite's role": nor is the
   account that absorbed it served as an editor. *)
DemotedAccountStaysDown ==
    \A s \in demoted : Told(s) => ~ServedAsEditor(s)

(* "Drops every guest who joined with it": once an invite is revoked and
   the server was told, no guest is connected whose entry names it. *)
RevokedInviteDrops ==
    \A m \in members :
        (m.subject \in Guest /\ m.invite # None /\ invites[m.invite] = "revoked"
            /\ Connected(m.subject)) =>
                \E r \in Request : request[r] # Idle

=============================================================================
