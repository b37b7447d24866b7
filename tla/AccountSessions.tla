--------------------------- MODULE AccountSessions ---------------------------
(***************************************************************************)
(* The sign-ins of one account: the rows of the sessions collection, the   *)
(* refresh tokens issued for them, the links that reset the password, and  *)
(* every handler of modules/auth and modules/password-reset that writes    *)
(* them.  A handler is cut where it awaits: what it read before the await  *)
(* is in its record of `ops', what it writes afterwards is an action.      *)
(*                                                                         *)
(* A token is the number under which it was issued; it names its family    *)
(* for ever (the signed claim), whatever its row holds now.  Time appears  *)
(* only where the code compares it: the grace of a rotated token, the      *)
(* validity of a link, the hour of the rate limit, the minute of an OTT.   *)
(***************************************************************************)
EXTENDS Naturals, Sequences, FiniteSets

CONSTANTS Ops,        \* handlers that can be under way at once
          Devices,    \* values of the x-device-id header
          MaxTokens,  \* bound: refresh tokens issued
          MaxFamilies,\* bound: sign-ins
          MaxLinks,   \* bound: reset links requested
          MaxPasswords \* bound: passwords the account has had

ASSUME BoundsAssumption ==
    /\ MaxTokens \in Nat /\ MaxFamilies \in Nat
    /\ MaxLinks \in Nat /\ MaxPasswords \in Nat \ {0}

VARIABLES
    account,    \* the user document: password (0 is OAUTH_NO_PASSWORD), isDeleted
    rows,       \* the sessions collection
    familyOf,   \* token |-> the familyId it was signed with
    held,       \* tokens a client was given
    otts,       \* tokens waiting behind a one-time token
    links,      \* the password resets collection
    ops,        \* the handlers under way
    lastReset,  \* observed: its link, the links there were then, and at the reset before
    judged      \* observed: families answered token_reused

auth == <<account, rows, familyOf, held, otts, links, ops>>
seen == <<lastReset, judged>>
vars == <<account, rows, familyOf, held, otts, links, ops,
          lastReset, judged>>

None == 0
Idle == [kind |-> "idle"]
Families == 1 .. MaxFamilies
Tokens == DOMAIN familyOf
NextToken == Len(familyOf) + 1
UsedFamilies == {familyOf[t] : t \in Tokens}

(* One family is one row: a sign-in on a known device takes the row over. *)
Live(f) == \E i \in DOMAIN rows : rows[i].valid /\ rows[i].family = f
Signed(f) == Live(f) /\ ~account.isDeleted

Start(o, op) == ops[o] = Idle /\ ops' = [ops EXCEPT ![o] = op]
Done(o) == ops' = [ops EXCEPT ![o] = Idle]
At(o, kind) == ops[o].kind = kind
Goto(o, kind) == ops' = [ops EXCEPT ![o].kind = kind]

(* What is observed of a session is dropped when it ends. *)
Dead(r) == [r EXCEPT !.valid = FALSE, !.epoch = 0, !.raced = FALSE, !.tip = None, !.forked = FALSE]
Ended(which) == [i \in DOMAIN rows |-> IF i \in which THEN Dead(rows[i]) ELSE rows[i]]

Init ==
    /\ account \in [password : {0, 1}, isDeleted : {FALSE}]
    /\ rows = <<>> /\ familyOf = <<>> /\ links = <<>>
    /\ held = {} /\ otts = {}
    /\ ops = [o \in Ops |-> Idle]
    /\ lastReset = [by |-> None, killed |-> 0, before |-> 0]
    /\ judged = {}

-----------------------------------------------------------------------------
(* Sign-in.  The account is read, and its credential checked, before
   loginAtomically writes the session in a transaction. *)

(* login: the password is compared with the hash just read. *)
login(o, d) ==
    /\ account.password # 0 /\ ~account.isDeleted
    /\ Start(o, [kind |-> "signin", device |-> d, via |-> "direct", epoch |-> account.password])
    /\ UNCHANGED <<account, rows, familyOf, held, otts, links, seen>>

(* verifyPasskeyLogin answers with the tokens; loginByUserId, behind the
   Google callback, leaves them behind a one-time token. *)
signInWithout(o, d, via) ==
    /\ ~account.isDeleted
    /\ Start(o, [kind |-> "signin", device |-> d, via |-> via, epoch |-> account.password])
    /\ UNCHANGED <<account, rows, familyOf, held, otts, links, seen>>

NewRow(f, n, op) ==
    [family |-> f, hash |-> n, previous |-> None, grace |-> FALSE, valid |-> TRUE,
     device |-> op.device, epoch |-> op.epoch, raced |-> op.epoch # account.password,
     tip |-> None, forked |-> FALSE]

(* The row of a device that is signed in is taken over: family and hash
   are replaced, the hash rotated away before stays in it. *)
Reused(r, f, n, op) ==
    [r EXCEPT !.family = f, !.hash = n, !.epoch = op.epoch, !.raced = op.epoch # account.password,
              !.tip = None, !.forked = FALSE]

SameDevice(d) == {i \in DOMAIN rows : rows[i].valid /\ rows[i].device = d}

loginAtomically(o) ==
    /\ At(o, "signin")
    /\ NextToken <= MaxTokens
    /\ \E f \in Families \ UsedFamilies :
        /\ \A g \in Families \ UsedFamilies : f <= g
        /\ \/ \E i \in SameDevice(ops[o].device) :
                rows' = [rows EXCEPT ![i] = Reused(rows[i], f, NextToken, ops[o])]
           \/ /\ SameDevice(ops[o].device) = {}
              /\ rows' = Append(rows, NewRow(f, NextToken, ops[o]))
        /\ familyOf' = Append(familyOf, f)
    /\ IF ops[o].via = "ott"
         THEN otts' = otts \cup {NextToken} /\ UNCHANGED held
         ELSE held' = held \cup {NextToken} /\ UNCHANGED otts
    /\ Done(o)
    /\ UNCHANGED <<account, links, seen>>

(* findOneAndDelete: redeemed once, or reaped by its TTL. *)
consumeOtt(n) ==
    /\ n \in otts
    /\ otts' = otts \ {n}
    /\ held' = held \cup {n}
    /\ UNCHANGED <<account, rows, familyOf, links, ops, seen>>

OttExpires(n) ==
    /\ n \in otts
    /\ otts' = otts \ {n}
    /\ UNCHANGED <<account, rows, familyOf, held, links, ops, seen>>

-----------------------------------------------------------------------------
(* refresh.  Three queries and a write, each its own step. *)

refresh(o, t, d) ==
    /\ t \in held
    /\ ~account.isDeleted
    /\ Start(o, [kind |-> "rotate", token |-> t, device |-> d])
    /\ rows' = [i \in DOMAIN rows |->
                    IF rows[i].valid /\ rows[i].family = familyOf[t] /\ rows[i].tip < t
                    THEN [rows[i] EXCEPT !.tip = t] ELSE rows[i]]
    /\ UNCHANGED <<account, familyOf, held, otts, links, seen>>

Current(t) == {i \in DOMAIN rows : rows[i].valid /\ rows[i].family = familyOf[t] /\ rows[i].hash = t}
(* Mutant: the grace path forgets that the session must still be valid. *)
Graced_Dead(t) == {i \in DOMAIN rows : /\ rows[i].family = familyOf[t]
                                      /\ rows[i].previous = t /\ rows[i].grace}
Graced(t) == {i \in DOMAIN rows : /\ rows[i].valid /\ rows[i].family = familyOf[t]
                                  /\ rows[i].previous = t /\ rows[i].grace}

Issue(o, f) ==
    /\ NextToken <= MaxTokens
    /\ familyOf' = Append(familyOf, f)
    /\ held' = held \cup {NextToken}
    /\ Done(o)

(* Mutant: rotation does not remember the token it rotates away. *)
Rotated_Forget(r, t, d) == [r EXCEPT !.hash = NextToken, !.device = d]
Rotated(r, t, d) == [r EXCEPT !.hash = NextToken, !.previous = t, !.grace = TRUE, !.device = d]

rotate(o) ==
    /\ At(o, "rotate")
    /\ \E i \in Current(ops[o].token) :
        /\ rows' = [rows EXCEPT ![i] = Rotated(rows[i], ops[o].token, ops[o].device)]
        /\ Issue(o, rows[i].family)
    /\ UNCHANGED <<account, otts, links, seen>>

notCurrent(o) ==
    /\ At(o, "rotate")
    /\ Current(ops[o].token) = {}
    /\ Goto(o, "grace")
    /\ UNCHANGED <<account, rows, familyOf, held, otts, links, seen>>

(* The previous hash and its expiry stay as they are. *)
graceRotate(o) ==
    /\ At(o, "grace")
    /\ \E i \in Graced(ops[o].token) :
        /\ rows' = [rows EXCEPT ![i].hash = NextToken, ![i].device = ops[o].device,
                                 ![i].forked = TRUE]
        /\ Issue(o, rows[i].family)
    /\ UNCHANGED <<account, otts, links, seen>>

(* Neither matched: the session is read to choose the answer. *)
look(o) ==
    /\ At(o, "grace")
    /\ Graced(ops[o].token) = {}
    /\ LET mine == {i \in DOMAIN rows : rows[i].family = familyOf[ops[o].token]}
       IN \/ \E i \in mine : /\ rows[i].valid
                             /\ ops' = [ops EXCEPT ![o] = [kind |-> "reused", token |-> ops[o].token, row |-> i]]
          \/ (\A i \in mine : ~rows[i].valid) /\ Done(o)
    /\ UNCHANGED <<account, rows, familyOf, held, otts, links, seen>>

(* The write is by the row's id, not by the family that was looked up.
   Mutant: the answer is reuse, but the session is left alone when the
   presented token no longer matches it. *)
revokeReused_ByHash(o) ==
    /\ At(o, "reused")
    /\ rows' = IF rows[ops[o].row].hash = ops[o].token THEN Ended({ops[o].row}) ELSE rows
    /\ judged' = judged \cup {familyOf[ops[o].token]}
    /\ Done(o)
    /\ UNCHANGED <<account, familyOf, held, otts, links, lastReset>>
revokeReused(o) ==
    /\ At(o, "reused")
    /\ rows' = Ended({ops[o].row})
    /\ judged' = judged \cup {familyOf[ops[o].token]}
    /\ Done(o)
    /\ UNCHANGED <<account, familyOf, held, otts, links, lastReset>>

(* A minute after a rotation. *)
GraceEnds(i) ==
    /\ rows[i].grace
    /\ rows' = [rows EXCEPT ![i].grace = FALSE]
    /\ UNCHANGED <<account, familyOf, held, otts, links, ops, seen>>

-----------------------------------------------------------------------------
(* Ending sessions.  Each handler passes the gate (a live session of an
   account that is not deleted) before its write. *)

(* logout: the family of the refresh cookie.  optionalAuth lets a caller
   whose access token lapsed through as anonymous: nothing is written. *)
logout(o, f) ==
    /\ Signed(f)
    /\ Start(o, [kind |-> "end", families |-> {f}, row |-> None])
    /\ UNCHANGED <<account, rows, familyOf, held, otts, links, seen>>

(* revokeAllSessions with keepCurrent; without it, and in a logout that
   brings no refresh cookie, everything goes (keep = None). *)
revokeAllSessions(o, f, keep) ==
    /\ Signed(f)
    /\ keep \in {f, None}
    /\ Start(o, [kind |-> "end", families |-> Families \ {keep}, row |-> None])
    /\ UNCHANGED <<account, rows, familyOf, held, otts, links, seen>>

(* revokeSession reads the row, marks it, and saves it by its id. *)
revokeSession(o, f, i) ==
    /\ Signed(f)
    /\ Start(o, [kind |-> "end", families |-> {}, row |-> i])
    /\ UNCHANGED <<account, rows, familyOf, held, otts, links, seen>>

endSessions(o) ==
    /\ At(o, "end")
    /\ rows' = Ended({i \in DOMAIN rows : rows[i].family \in ops[o].families \/ i = ops[o].row})
    /\ Done(o)
    /\ UNCHANGED <<account, familyOf, held, otts, links, seen>>

-----------------------------------------------------------------------------
(* The password. *)

(* Two requests an hour (the links of the model are those of one hour):
   the count is read before the link is created. *)
requestPasswordReset(o) ==
    /\ Len(links) < 2
    /\ Start(o, [kind |-> "newlink"])
    /\ UNCHANGED <<account, rows, familyOf, held, otts, links, seen>>

createLink(o) ==
    /\ At(o, "newlink")
    /\ Len(links) < MaxLinks
    /\ links' = Append(links, "open")
    /\ Done(o)
    /\ UNCHANGED <<account, rows, familyOf, held, otts, seen>>

(* Half an hour later. *)
LinkExpires(l) ==
    /\ links[l] = "open"
    /\ links' = [links EXCEPT ![l] = "expired"]
    /\ UNCHANGED <<account, rows, familyOf, held, otts, ops, seen>>

Usable(l) == links[l] = "open"

(* validateResetToken and the checks of resetPassword only read. *)
resetPassword(o, l) ==
    /\ Usable(l)
    /\ Start(o, [kind |-> "reset", link |-> l])
    /\ UNCHANGED <<account, rows, familyOf, held, otts, links, seen>>

(* The link is consumed by the write that checks it, and every other link
   of the address dies with it.
   Mutant: only the presented link is marked. *)
Consumed_Alone(l) == [links EXCEPT ![l] = "used"]
Consumed(l) == [k \in DOMAIN links |-> "used"]

(* Mutant: a reset does not sign the other devices out. *)
EvictedByReset_Nobody == {}
EvictedByReset == DOMAIN rows

resetPasswordAtomically(o) ==
    /\ At(o, "reset")
    /\ LET l == ops[o].link
       IN \/ /\ Usable(l) /\ account.password < MaxPasswords
             /\ links' = Consumed(l)
             /\ account' = [account EXCEPT !.password = @ + 1]
             /\ rows' = Ended(EvictedByReset)
             /\ lastReset' = [by |-> l, killed |-> Len(links), before |-> lastReset.killed]
          \/ ~Usable(l) /\ UNCHANGED <<links, account, rows, lastReset>>
    /\ Done(o)
    /\ UNCHANGED <<familyOf, held, otts, judged>>

(* changePassword verifies the current password, setPassword that there
   is none; the caller's own family survives. *)
changePassword(o, f) ==
    /\ Signed(f)
    /\ Start(o, [kind |-> "change", keep |-> f])
    /\ UNCHANGED <<account, rows, familyOf, held, otts, links, seen>>

changePasswordAtomically(o) ==
    /\ At(o, "change")
    /\ account.password < MaxPasswords
    /\ account' = [account EXCEPT !.password = @ + 1]
    /\ rows' = [i \in DOMAIN rows |->
                    IF rows[i].family = ops[o].keep
                    THEN [rows[i] EXCEPT !.epoch = account.password + 1]
                    ELSE Dead(rows[i])]
    /\ Done(o)
    /\ UNCHANGED <<familyOf, held, otts, links, seen>>

-----------------------------------------------------------------------------
(* The account goes and comes back; its sessions stay as they are. *)

deactivateUser(f) ==
    /\ Signed(f)
    /\ account' = [account EXCEPT !.isDeleted = TRUE]
    /\ UNCHANGED <<rows, familyOf, held, otts, links, ops, seen>>

reactivateUser ==
    /\ account.isDeleted
    /\ account' = [account EXCEPT !.isDeleted = FALSE]
    /\ UNCHANGED <<rows, familyOf, held, otts, links, ops, seen>>

Next ==
    \/ \E o \in Ops :
        \/ \E d \in Devices :
            \/ login(o, d)
            \/ \E via \in {"direct", "ott"} : signInWithout(o, d, via)
            \/ \E t \in held : refresh(o, t, d)
        \/ loginAtomically(o)
        \/ rotate(o) \/ notCurrent(o) \/ graceRotate(o) \/ look(o) \/ revokeReused(o)
        \/ \E f \in UsedFamilies :
            \/ logout(o, f)
            \/ revokeAllSessions(o, f, f) \/ revokeAllSessions(o, f, None)
            \/ \E i \in DOMAIN rows : revokeSession(o, f, i)
            \/ changePassword(o, f)
        \/ endSessions(o)
        \/ requestPasswordReset(o) \/ createLink(o)
        \/ \E l \in DOMAIN links : resetPassword(o, l)
        \/ resetPasswordAtomically(o) \/ changePasswordAtomically(o)
    \/ \E n \in otts : consumeOtt(n) \/ OttExpires(n)
    \/ \E i \in DOMAIN rows : GraceEnds(i)
    \/ \E l \in DOMAIN links : LinkExpires(l)
    \/ \E f \in UsedFamilies : deactivateUser(f)
    \/ reactivateUser

Spec == Init /\ [][Next]_vars
-----------------------------------------------------------------------------
(* Properties. *)

Row == [family : Families, hash : Nat, previous : Nat, grace : BOOLEAN, valid : BOOLEAN,
        device : Devices, epoch : Nat, raced : BOOLEAN, tip : Nat, forked : BOOLEAN]

(* The shape of every document; a token in a row was issued, no two rows
   share a hash, and only a token that was rotated away has a grace. *)
TypeOK ==
    /\ account \in [password : 0 .. MaxPasswords, isDeleted : BOOLEAN]
    /\ rows \in Seq(Row)
    /\ familyOf \in Seq(Families)
    /\ held \subseteq Tokens /\ otts \subseteq Tokens \ held
    /\ links \in Seq({"open", "used", "expired"})
    /\ \A i, j \in DOMAIN rows :
        /\ rows[i].hash \in Tokens
        /\ rows[i].grace => rows[i].previous \in Tokens
        /\ i # j => rows[i].hash # rows[j].hash /\ rows[i].family # rows[j].family

(* A session that was logged out, revoked, reset or taken over never gives
   out another token: whatever a refresh had read before the session ended,
   each of its writes checks again that it is valid (auth.service.ts, the
   filters of refresh). *)
TokensOfLive ==
    [][\A n \in DOMAIN familyOf' \ DOMAIN familyOf :
        \E i \in DOMAIN rows' : rows'[i].valid /\ rows'[i].family = familyOf'[n]]_vars

(* Besides the types:
   when the password changes nobody is left signed in from before it, over
   every way a session is written while the change is under way, but for
   the session that asked for the change and a sign-in that had already
   checked its credential when the change committed (auth.tx.service.ts,
   resetPasswordAtomically and changePasswordAtomically). *)
EvictedStayOut ==
    TypeOK /\ \A i \in DOMAIN rows : rows[i].valid => rows[i].epoch = account.password \/ rows[i].raced

(* A link sets the password only if it was requested after the last reset:
   two links checked before either was used cannot both win, and a link
   that lost is dead (auth.tx.service.ts, the write that consumes it). *)
OldLinksDie == lastReset.by # None => lastReset.by > lastReset.before

(* Reuse detection.  A token is taken for reused only if its minute of
   grace was over, or a later token of its family had been presented, or
   the grace path had given the family a second successor; and a family
   answered token_reused is gone (auth.service.ts, the end of refresh). *)
ReuseDetection ==
    /\ \A o \in Ops : At(o, "reused") =>
        LET r == rows[ops[o].row]
            t == ops[o].token
        IN \/ ~r.valid \/ r.family # familyOf[t]
           \/ r.previous = t /\ ~r.grace
           \/ r.tip > t
           \/ r.forked
    /\ \A f \in judged : ~Live(f)

(* As a comment of refresh has it, reuse is a token older than the one in
   its grace: the newest token a client was given is not taken for reused. *)
NewestTokenAccepted ==
    \A o \in Ops : At(o, "reused") =>
        LET r == rows[ops[o].row]
            t == ops[o].token
        IN ~r.valid \/ r.family # familyOf[t] \/ r.tip > t \/ (r.previous = t /\ ~r.grace)
=============================================================================
