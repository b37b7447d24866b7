----------------------------- MODULE AccountNames -----------------------------
(***************************************************************************)
(* The names and addresses of accounts: registration and renaming          *)
(* (register of auth.service.ts, updateProfile of user.resolvers.ts,       *)
(* account-name.service.ts), where a former name goes on leading to its    *)
(* account, and the change of an address by a link sent to it              *)
(* (updateProfile, email-verification.service.ts).  The unique indexes on  *)
(* name and address are what a write is checked against in the end; what   *)
(* was read before it may have changed.                                    *)
(***************************************************************************)
EXTENDS Naturals, FiniteSets

CONSTANTS NameOps,      \* handlers that can be under way at once
          Accounts, Names, Addresses,
          SignedUpWith, \* the address an account begins with, if any
          MaxLinks,     \* verification links per hour
          MaxNamings,   \* bound: names given, over all accounts
          MaxMails      \* bound: changes of address begun

ASSUME NamesAssumption ==
    /\ MaxLinks \in Nat /\ MaxNamings \in Nat /\ MaxMails \in Nat
    /\ SignedUpWith \in [Accounts -> SUBSET Addresses]
    /\ \A a, b \in Accounts : a # b => SignedUpWith[a] \cap SignedUpWith[b] = {}

VARIABLES
    named,      \* the account's name, as a set of at most one
    formers,    \* the AccountNameHistory rows: the account and the name it left
    had,        \* observed: who has had which name
    blurred,    \* observed: the names whose history overlapping handlers spoilt
    mail, pending,  \* the account's address and the one to be confirmed
    links,      \* the links that can still be used
    sent,       \* links made in the last hour, per account
    begun,      \* changes of address begun
    muddled,    \* observed: changes of the account's address overlapped, or
                \* one had no link for want of an allowance
    astray,     \* observed: an address was confirmed by a link sent elsewhere
    nops        \* the handlers under way

nameVars == <<named, formers, had, blurred>>
mailVars == <<mail, pending, links, sent, begun, muddled, astray>>
identityVars == <<nameVars, mailVars, nops>>

NoNameOp == [at |-> "idle"]
NGo(o, op) == nops' = [nops EXCEPT ![o] = op]
NTo(o, at) == nops' = [nops EXCEPT ![o].at = at]
NEnd(o) == nops' = [nops EXCEPT ![o] = NoNameOp]
NDoing(o, ats) == nops[o].at \in ats

Held(n) == \E a \in Accounts : n \in named[a]
isAccountNameInHistoryOfOther(n, a) == \E row \in formers : row.from = n /\ row.user # a

NamesInit ==
    /\ named = [a \in Accounts |-> {}]
    /\ formers = {} /\ had = {} /\ blurred = {}
    /\ mail = SignedUpWith /\ pending = [a \in Accounts |-> {}]
    /\ links = {} /\ sent = [a \in Accounts |-> 0] /\ begun = 0
    /\ muddled = {} /\ astray = FALSE
    /\ nops = [o \in NameOps |-> NoNameOp]

-----------------------------------------------------------------------------
(* register: the history is asked, then the accounts; then it is created. *)
register(o, a, n) ==
    /\ NDoing(o, {"idle"}) /\ named[a] = {} /\ Cardinality(had) < MaxNamings
    /\ ~isAccountNameInHistoryOfOther(n, a)
    /\ NGo(o, [at |-> "find", user |-> a, to |-> n])
    /\ UNCHANGED <<nameVars, mailVars>>

findRegistered(o) ==
    /\ NDoing(o, {"find"})
    /\ IF Held(nops[o].to) THEN NEnd(o) ELSE NTo(o, "create")
    /\ UNCHANGED <<nameVars, mailVars>>

registerAtomically(o) ==
    LET a == nops[o].user
        n == nops[o].to IN
    /\ NDoing(o, {"create"})
    /\ IF Held(n) \/ named[a] # {} THEN UNCHANGED <<named, had>>
       ELSE named' = [named EXCEPT ![a] = {n}] /\ had' = had \cup {<<a, n>>}
    /\ NEnd(o)
    /\ UNCHANGED <<formers, blurred, mailVars>>

(* updateProfile, another name: the accounts are asked, then the history;
   the history is rewritten, and the account saved, or not, if the name
   has been taken. *)
rename(o, a, n) ==
    /\ NDoing(o, {"idle"}) /\ named[a] # {} /\ ~Held(n) /\ Cardinality(had) < MaxNamings
    /\ NGo(o, [at |-> "past", user |-> a, from |-> named[a], to |-> n])
    /\ UNCHANGED <<nameVars, mailVars>>

(* Mutant: only who holds a name now keeps it from another. *)
Reissued_Held(op) == FALSE
Reissued(op) == isAccountNameInHistoryOfOther(op.to, op.user)

askHistory(o) ==
    /\ NDoing(o, {"past"})
    /\ IF Reissued(nops[o]) THEN NEnd(o) ELSE NTo(o, "release")
    /\ UNCHANGED <<nameVars, mailVars>>

(* recordAccountNameChange: its own row of the new name goes, then the old
   name's is made.  A handler past its look at the history misses it. *)
releaseOwn(o) ==
    /\ NDoing(o, {"release"})
    /\ formers' = formers \ {[user |-> nops[o].user, from |-> nops[o].to]}
    /\ NTo(o, "record")
    /\ UNCHANGED <<named, had, blurred, mailVars>>

Taking == {"find", "create", "release", "record", "rename"}
recordFormer(o) ==
    LET op == nops[o] IN
    /\ NDoing(o, {"record"})
    /\ formers' = formers \cup {[user |-> op.user, from |-> n] : n \in op.from}
    /\ blurred' = blurred \cup {n \in op.from : \E p \in NameOps \ {o} : NDoing(p, Taking) /\ nops[p].to = n}
    /\ NTo(o, "rename")
    /\ UNCHANGED <<named, had, mailVars>>

saveName(o) ==
    LET op == nops[o]
        refused == \E b \in Accounts \ {op.user} : op.to \in named[b]
        beside == {p \in NameOps \ {o} : nops[p].at \in {"past", "release", "record", "rename"} /\ nops[p].user = op.user} IN
    /\ NDoing(o, {"rename"})
    /\ IF refused THEN UNCHANGED <<named, had>>
       ELSE named' = [named EXCEPT ![op.user] = {op.to}] /\ had' = had \cup {<<op.user, op.to>>}
    /\ blurred' = blurred \cup (IF refused \/ named[op.user] # op.from THEN {op.to} \cup op.from \cup named[op.user] ELSE {})
         \cup UNION {{op.to, nops[p].to} \cup op.from \cup nops[p].from : p \in beside}
    /\ NEnd(o)
    /\ UNCHANGED <<formers, mailVars>>

(* findUserByAccountName: who holds the name, else who had it. *)
findUserByAccountName(n) ==
    LET now == {a \in Accounts : n \in named[a]} IN
    IF now # {} THEN now ELSE {row.user : row \in {r \in formers : r.from = n}}

-----------------------------------------------------------------------------
(* updateProfile, another address: none may hold or await it.  The account
   is saved while sendVerification is under way. *)
Changing(a) == {o \in NameOps : nops[o].at # "idle" /\ nops[o].user = a}

changeEmail(o, a, e) ==
    /\ NDoing(o, {"idle"}) /\ begun < MaxMails
    /\ \A b \in Accounts : e \notin mail[b] \cup pending[b]
    /\ NGo(o, [at |-> "mail", mails |-> e, user |-> a, saved |-> FALSE])
    /\ begun' = begun + 1
    /\ muddled' = IF Changing(a) # {} THEN muddled \cup {a} ELSE muddled
    /\ UNCHANGED <<nameVars, mail, pending, links, sent, astray>>

(* resendVerification: of the address pending when it looked. *)
resendVerification(o, a) ==
    /\ NDoing(o, {"idle"}) /\ pending[a] # {}
    /\ NGo(o, [at |-> "mail", mails |-> CHOOSE e \in pending[a] : TRUE, user |-> a, saved |-> TRUE])
    /\ muddled' = IF Changing(a) # {} THEN muddled \cup {a} ELSE muddled
    /\ UNCHANGED <<nameVars, mail, pending, links, sent, begun, astray>>

savePending(o) ==
    LET op == nops[o] IN
    /\ "mails" \in DOMAIN op /\ ~op.saved
    /\ pending' = [pending EXCEPT ![op.user] = {op.mails}]
    /\ IF op.at = "sent" THEN NEnd(o) ELSE nops' = [nops EXCEPT ![o].saved = TRUE]
    /\ UNCHANGED <<nameVars, mail, links, sent, begun, muddled, astray>>

(* sendVerification: three links an hour; older links are retired, and one
   is made. *)
MSent(o) == IF nops[o].saved THEN NEnd(o) ELSE NTo(o, "sent")

countLinks(o) ==
    LET a == nops[o].user IN
    /\ NDoing(o, {"mail"})
    /\ IF sent[a] < MaxLinks THEN NTo(o, "retire") /\ UNCHANGED muddled
       ELSE MSent(o) /\ muddled' = muddled \cup {a}
    /\ UNCHANGED <<nameVars, mail, pending, links, sent, begun, astray>>

Retired(a) == {link \in links : link.user = a}

retireLinks(o) ==
    /\ NDoing(o, {"retire"})
    /\ links' = links \ Retired(nops[o].user)
    /\ NTo(o, "make")
    /\ UNCHANGED <<nameVars, mail, pending, sent, begun, muddled, astray>>

makeLink(o) ==
    LET a == nops[o].user IN
    /\ NDoing(o, {"make"})
    /\ links' = links \cup {[user |-> a, email |-> nops[o].mails]}
    /\ sent' = [sent EXCEPT ![a] = @ + 1]
    /\ MSent(o)
    /\ UNCHANGED <<nameVars, mail, pending, begun, muddled, astray>>

hourPasses ==
    /\ \E a \in Accounts : sent[a] = MaxLinks
    /\ sent' = [a \in Accounts |-> 0]
    /\ UNCHANGED <<nameVars, mail, pending, links, begun, muddled, astray, nops>>

(* verifyEmailToken: the link is claimed; the account is read; a history
   row, which wants a former address, and the save, which wants the new
   one free.  Whatever fails then, the link is used up. *)
verifyEmailToken(o, link) ==
    /\ NDoing(o, {"idle"}) /\ link \in links
    /\ links' = links \ {link}
    /\ NGo(o, [at |-> "claimed", user |-> link.user, sentTo |-> link.email])
    /\ muddled' = IF Changing(link.user) # {} THEN muddled \cup {link.user} ELSE muddled
    /\ UNCHANGED <<nameVars, mail, pending, sent, begun, astray>>

readVerified(o) ==
    LET a == nops[o].user IN
    /\ NDoing(o, {"claimed"})
    /\ IF pending[a] = {} \/ mail[a] = {} THEN NEnd(o)
       ELSE NGo(o, [at |-> "confirm", user |-> a, sentTo |-> nops[o].sentTo,
                    to |-> CHOOSE e \in pending[a] : TRUE])
    /\ UNCHANGED <<nameVars, mailVars>>

saveVerified(o) ==
    LET op == nops[o]
        a == op.user
        refused == \E b \in Accounts \ {a} : op.to \in mail[b] IN
    /\ NDoing(o, {"confirm"})
    /\ IF refused THEN UNCHANGED <<mail, pending, astray>>
       ELSE /\ mail' = [mail EXCEPT ![a] = {op.to}]
            /\ pending' = [pending EXCEPT ![a] = {}]
            /\ astray' = (astray \/ (op.to # op.sentTo /\ a \notin muddled))
    /\ NEnd(o)
    /\ UNCHANGED <<nameVars, links, sent, begun, muddled>>

Naming == \E o \in NameOps :
    \/ \E a \in Accounts, n \in Names : register(o, a, n) \/ rename(o, a, n)
    \/ findRegistered(o) \/ registerAtomically(o)
    \/ askHistory(o) \/ releaseOwn(o) \/ recordFormer(o) \/ saveName(o)
Mailing ==
    \/ hourPasses
    \/ \E o \in NameOps :
        \/ \E a \in Accounts : resendVerification(o, a) \/ \E e \in Addresses : changeEmail(o, a, e)
        \/ \E link \in links : verifyEmailToken(o, link)
        \/ savePending(o) \/ countLinks(o) \/ retireLinks(o) \/ makeLink(o)
        \/ readVerified(o) \/ saveVerified(o)
NamesNext == Naming \/ Mailing
NamesSpec == NamesInit /\ [][NamesNext]_identityVars

-----------------------------------------------------------------------------
(* With nobody at work, a name an account has ever had leads to it and to
   nobody else, and the history lists no name its account holds; unless
   handlers overlapped on the name: one looked at the history before
   another's rename made its row, two renames of one account, or a rename
   refused by the index after it wrote the history.  No two accounts hold
   an address, and unless changes of the account's address overlapped or
   its allowance of links was spent, the address a link confirms is the
   one it was sent to (account-name.service.ts, email-verification.
   service.ts). *)
NamesLead ==
    (\A o \in NameOps : nops[o].at = "idle") =>
        /\ \A pair \in had : pair[2] \notin blurred => findUserByAccountName(pair[2]) = {pair[1]}
        /\ \A row \in formers : row.from \in named[row.user] => row.from \in blurred
AddressesProven ==
    /\ \A a, b \in Accounts : a # b => mail[a] \cap mail[b] = {}
    /\ ~astray
NamesHold == NamesLead /\ AddressesProven
=============================================================================
