---------------------------- MODULE SignInMethods ----------------------------
(***************************************************************************)
(* The ways into an account (google.service.ts, and the passkeys of        *)
(* auth.service.ts): a password, a linked Google identity, passkeys.  A    *)
(* handler is cut where it awaits.  Whoever answers Google's page is an    *)
(* identity that comes with one of the addresses; whoever answers a        *)
(* passkey's challenge answers one that was once set for the account.      *)
(***************************************************************************)
EXTENDS Naturals, Sequences, FiniteSets

CONSTANTS SignOps,       \* handlers that can be under way at once
          Members,       \* accounts there may be
          Identities,    \* Google's `sub'
          Addresses,     \* e-mail addresses
          Passkeys,      \* credentialIDs
          MaxChallenges  \* bound: challenges asked

ASSUME MethodsAssumption == "nobody" \notin Members \cup Identities \cup Addresses

VARIABLES
    members,     \* the user documents: there, password, google, email, challenge
    keyOf,       \* the passkeys collection: credentialID |-> its account
    asked,       \* challenge |-> the account it was set for
    signOps,     \* the handlers under way
    signedIn,    \* observed: the last sign-in, and who held its method since it began
    consumed     \* observed: challenges a verification has cleared, and answered
methodVars == <<members, keyOf, asked, signOps, signedIn, consumed>>

Nobody == "nobody"
NoSign == [kind |-> "free"]
SFree(o) == signOps[o] = NoSign
SGoto(o, op) == signOps' = [signOps EXCEPT ![o] = op]
SEnd(o) == SGoto(o, NoSign)
SAt(o, kind) == signOps[o].kind = kind

Absent == [there |-> FALSE, password |-> FALSE, google |-> Nobody, email |-> Nobody, challenge |-> 0]
Linked(g) == {a \in Members : members[a].google = g}
HasAddress(e) == {a \in Members : members[a].there /\ members[a].email = e}
NoSignIn == [by |-> Nobody, to |-> Nobody, held |-> {}]

MethodsInit ==
    /\ members = [a \in Members |-> Absent]
    /\ keyOf = [k \in Passkeys |-> Nobody]
    /\ asked = <<>>
    /\ signOps = [o \in SignOps |-> NoSign]
    /\ signedIn = NoSignIn
    /\ consumed = {}

(* The unique indexes: of an address, and of a Google identity. *)
Taken(g, e, a) ==
    \/ g # Nobody /\ Linked(g) \ {a} # {}
    \/ e # Nobody /\ HasAddress(e) \ {a} # {}

(* Who holds g, or the address it came with, while a sign-in is under way. *)
Watch(ops, next) ==
    [o \in SignOps |->
        IF "held" \in DOMAIN ops[o]
        THEN [ops[o] EXCEPT !.held = @ \cup {a \in Members : next[a].there /\ (next[a].google = ops[o].g \/ next[a].email = ops[o].e)}]
        ELSE ops[o]]

Write(o, a, user, op) ==
    /\ members' = [members EXCEPT ![a] = user]
    /\ signOps' = [Watch(signOps, members') EXCEPT ![o] = op]

-----------------------------------------------------------------------------
(* register: an account with a password. *)
registerMember(a, e) ==
    /\ ~members[a].there /\ ~Taken(Nobody, e, a)
    /\ members' = [members EXCEPT ![a] = [Absent EXCEPT !.there = TRUE, !.password = TRUE, !.email = e]]
    /\ signOps' = Watch(signOps, members')
    /\ UNCHANGED <<keyOf, asked, signedIn, consumed>>

(* changePassword with isSetPassword, and resetPassword. *)
setPassword(a) ==
    /\ members[a].there
    /\ members' = [members EXCEPT ![a].password = TRUE]
    /\ UNCHANGED <<keyOf, asked, signOps, signedIn, consumed>>

-----------------------------------------------------------------------------
(* handleCallback: the signed-in account a links g. *)
connectGoogle(o, a, g) ==
    /\ SFree(o) /\ members[a].there /\ Linked(g) \ {a} = {}
    /\ SGoto(o, [kind |-> "connects", a |-> a, g |-> g])
    /\ UNCHANGED <<members, keyOf, asked, signedIn, consumed>>

connects(o) ==
    LET op == signOps[o] IN
    /\ SAt(o, "connects")
    /\ IF Taken(op.g, Nobody, op.a) THEN SEnd(o) /\ UNCHANGED members
       ELSE Write(o, op.a, [members[op.a] EXCEPT !.google = op.g], NoSign)
    /\ UNCHANGED <<keyOf, asked, signedIn, consumed>>

(* disconnectGoogle: only beside a password. *)
MayDisconnect(a) == members[a].google # Nobody /\ members[a].password
disconnectGoogle(o, a) ==
    /\ SFree(o) /\ members[a].there /\ MayDisconnect(a)
    /\ SGoto(o, [kind |-> "disconnects", a |-> a])
    /\ UNCHANGED <<members, keyOf, asked, signedIn, consumed>>

disconnects(o) ==
    /\ SAt(o, "disconnects")
    /\ Write(o, signOps[o].a, [members[signOps[o].a] EXCEPT !.google = Nobody], NoSign)
    /\ UNCHANGED <<keyOf, asked, signedIn, consumed>>

-----------------------------------------------------------------------------
(* handleLoginCallback: the account of g; else the account with its
   address, which is linked to g; else a new one. *)
GoogleOp(kind, g, e, a) ==
    [kind |-> kind, g |-> g, e |-> e, a |-> a,
     held |-> {b \in Members : members[b].there /\ (members[b].google = g \/ members[b].email = e)}]

googleCallback(o, g, e) ==
    /\ SFree(o)
    /\ IF Linked(g) # {}
       THEN \E a \in Linked(g) : SGoto(o, GoogleOp("returns", g, e, a))
       ELSE SGoto(o, GoogleOp("byEmail", g, e, Nobody))
    /\ UNCHANGED <<members, keyOf, asked, signedIn, consumed>>

findByEmail(o) ==
    LET op == signOps[o] IN
    /\ SAt(o, "byEmail")
    /\ \/ \E a \in HasAddress(op.e) : SGoto(o, [op EXCEPT !.kind = "links", !.a = a])
       \/ /\ HasAddress(op.e) = {}
          /\ \E a \in Members : ~members[a].there /\ SGoto(o, [op EXCEPT !.kind = "creates", !.a = a])
    /\ UNCHANGED <<members, keyOf, asked, signedIn, consumed>>

linksByEmail(o) ==
    LET op == signOps[o] IN
    /\ SAt(o, "links")
    /\ IF Taken(op.g, Nobody, op.a) THEN SEnd(o) /\ UNCHANGED members
       ELSE Write(o, op.a, [members[op.a] EXCEPT !.google = op.g], [op EXCEPT !.kind = "returns"])
    /\ UNCHANGED <<keyOf, asked, signedIn, consumed>>

(* The index refuses what another callback created meanwhile. *)
createsMember(o) ==
    LET op == signOps[o] IN
    /\ SAt(o, "creates")
    /\ IF Taken(op.g, op.e, Nobody) \/ members[op.a].there THEN SEnd(o) /\ UNCHANGED members
       ELSE Write(o, op.a, [Absent EXCEPT !.there = TRUE, !.google = op.g, !.email = op.e],
                  [op EXCEPT !.kind = "returns", !.held = @ \cup {op.a}])
    /\ UNCHANGED <<keyOf, asked, signedIn, consumed>>

(* loginByUserId; the save of a returning account writes no link it did
   not change. *)
loginByUserId(o) ==
    LET op == signOps[o] IN
    /\ SAt(o, "returns")
    /\ signedIn' = [by |-> op.g, to |-> op.a, held |-> op.held]
    /\ SEnd(o)
    /\ UNCHANGED <<members, keyOf, asked, consumed>>

-----------------------------------------------------------------------------
(* Passkeys.  Registration and the step-up of an administrator keep their
   challenge in the account: the last one asked. *)
NewChallenge == Len(asked) + 1
challengeAsked(a) ==
    /\ members[a].there /\ NewChallenge <= MaxChallenges
    /\ members' = [members EXCEPT ![a].challenge = NewChallenge]
    /\ asked' = Append(asked, a)
    /\ UNCHANGED <<keyOf, signOps, signedIn, consumed>>
getPasskeyRegistrationOptions(a) == challengeAsked(a)
getSudoPasskeyOptions(a) == (\E k \in Passkeys : keyOf[k] = a) /\ challengeAsked(a)

(* The challenge is read, then cleared before the answer is looked at. *)
verifyBegins(o, a, k, c, kind) ==
    /\ SFree(o) /\ members[a].there /\ members[a].challenge # 0
    /\ c \in DOMAIN asked /\ asked[c] = a
    /\ SGoto(o, [kind |-> kind, a |-> a, k |-> k, c |-> c, expected |-> members[a].challenge, late |-> c \in consumed])
    /\ UNCHANGED <<members, keyOf, asked, signedIn, consumed>>
verifyPasskeyRegistration(o, a, k, c) == verifyBegins(o, a, k, c, "clearsToAdd")
verifySudoPasskey(o, a, k, c) == keyOf[k] = a /\ verifyBegins(o, a, k, c, "clearsToGrant")

clears(o) ==
    LET op == signOps[o] IN
    /\ op.kind \in {"clearsToAdd", "clearsToGrant"}
    /\ members' = [members EXCEPT ![op.a].challenge = 0]
    /\ consumed' = consumed \cup {op.expected}
    /\ IF op.c # op.expected THEN SEnd(o)
       ELSE SGoto(o, [op EXCEPT !.kind = IF @ = "clearsToAdd" THEN "adds" ELSE "grants"])
    /\ UNCHANGED <<keyOf, asked, signedIn>>

(* findOne by credentialID, then create under its unique index. *)
addsPasskey(o) ==
    LET op == signOps[o] IN
    /\ SAt(o, "adds")
    /\ keyOf' = IF keyOf[op.k] = Nobody THEN [keyOf EXCEPT ![op.k] = op.a] ELSE keyOf
    /\ SEnd(o)
    /\ UNCHANGED <<members, asked, signedIn, consumed>>

(* The save of the counter fails on a passkey deleted meanwhile. *)
grantsSudo(o) ==
    /\ SAt(o, "grants") /\ SEnd(o)
    /\ signedIn' = IF keyOf[signOps[o].k] # signOps[o].a THEN signedIn
                   ELSE [by |-> signOps[o].k, to |-> signOps[o].a, held |-> IF signOps[o].late THEN {} ELSE {keyOf[signOps[o].k]}]
    /\ UNCHANGED <<members, keyOf, asked, consumed>>

(* A sign-in's challenge is kept by the browser, not by the account. *)
verifyPasskeyLogin(o, a, k) ==
    /\ SFree(o) /\ keyOf[k] = a
    /\ SGoto(o, [kind |-> "grants", a |-> a, k |-> k, late |-> FALSE])
    /\ UNCHANGED <<members, keyOf, asked, signedIn, consumed>>

deletePasskeyForUser(k) ==
    /\ keyOf[k] # Nobody
    /\ keyOf' = [keyOf EXCEPT ![k] = Nobody]
    /\ UNCHANGED <<members, asked, signOps, signedIn, consumed>>

-----------------------------------------------------------------------------
GoogleSteps(o) ==
    \/ \E a \in Members, g \in Identities : connectGoogle(o, a, g)
    \/ connects(o)
    \/ \E a \in Members : disconnectGoogle(o, a)
    \/ disconnects(o)
    \/ \E g \in Identities, e \in Addresses : googleCallback(o, g, e)
    \/ findByEmail(o) \/ linksByEmail(o) \/ createsMember(o) \/ loginByUserId(o)
PasskeySteps(o) ==
    \/ \E a \in Members, k \in Passkeys, c \in DOMAIN asked :
          verifyPasskeyRegistration(o, a, k, c) \/ verifySudoPasskey(o, a, k, c)
    \/ clears(o) \/ addsPasskey(o) \/ grantsSudo(o)
    \/ \E a \in Members, k \in Passkeys : verifyPasskeyLogin(o, a, k)
AccountSteps ==
    \/ \E a \in Members, e \in Addresses : registerMember(a, e)
    \/ \E a \in Members : setPassword(a)
KeySteps ==
    \/ \E a \in Members : getPasskeyRegistrationOptions(a) \/ getSudoPasskeyOptions(a)
    \/ \E k \in Passkeys : deletePasskeyForUser(k)

MethodsNext == AccountSteps \/ KeySteps \/ \E o \in SignOps : GoogleSteps(o) \/ PasskeySteps(o)
MethodsSpec == MethodsInit /\ [][MethodsNext]_methodVars

-----------------------------------------------------------------------------
(* Every account keeps a way in: a password or a linked identity (the
   safety check of disconnectGoogle; passkeys come and go).  An identity
   and an address are one account's.  Whoever was let in by an identity
   was let into an account that held it, or its address, while the
   callback ran; by a passkey, into its account, on a challenge no earlier
   verification had cleared when this one began. *)
MethodsHold ==
    /\ \A a \in Members : members[a].there => members[a].password \/ members[a].google # Nobody
    /\ \A a, b \in Members :
          a # b /\ members[a].there /\ members[b].there
          => members[a].email # members[b].email
             /\ (members[a].google # Nobody => members[a].google # members[b].google)
    /\ signedIn.to # Nobody => signedIn.to \in signedIn.held
=============================================================================
