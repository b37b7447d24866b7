--------------------------- MODULE AccountStanding ---------------------------
(***************************************************************************)
(* The standing of one account (banned, shadow-banned, deleted, appealing),*)
(* the networks blocked on its behalf, and the copies of its standing that *)
(* are kept on everything it owns: ownerActive and ownerListed of each     *)
(* project and playlist (modules/admin/admin.service.ts,                   *)
(* modules/users/owner-visibility.service.ts, checkBanStatus of the user   *)
(* model, appeals and deactivation in modules/auth/auth.service.ts).       *)
(*                                                                         *)
(* A handler reads the account, writes the fields it changes by the        *)
(* account's id, reads the account again, and then writes its content, one *)
(* collection at a time; a record of `ops' is between two of these steps.  *)
(***************************************************************************)
EXTENDS Naturals, FiniteSets

CONSTANTS Ops,      \* handlers that can be under way at once
          Items,    \* pieces of content of the account
          Networks, \* the address and the devices of the account
          MaxBans   \* bound: bans imposed

ASSUME BansAssumption == MaxBans \in Nat

VARIABLES
    account,    \* ban, shadow (shadowBan.search), deleted, appeal of the user document
    content,    \* the flags stored on each item
    blocks,     \* for each kind of network: whose ban it is blocked for
    ops,        \* the handlers under way
    overlapped, \* observed: handlers overlapped, or a sync failed, since one that syncs began alone
    lateAppeal  \* observed: the appeal was saved when its ban had ended

vars == <<account, content, blocks, ops, overlapped, lateAppeal>>

Idle == [at |-> "idle"]
NoBan == [active |-> FALSE, id |-> 0, term |-> "none"]
Absent == [active |-> FALSE, listed |-> FALSE, exists |-> FALSE]

computeOwnerVisibility(u) ==
    LET active == ~u.deleted /\ ~u.ban.active
    IN [active |-> active, listed |-> active /\ ~u.shadow]

Stamped(flags) == [active |-> flags.active, listed |-> flags.listed, exists |-> TRUE]

Quiet == \A o \in Ops : ops[o] = Idle
Start(o, op, syncs) ==
    /\ ops[o] = Idle
    /\ ops' = [ops EXCEPT ![o] = op]
    /\ overlapped' = (~Quiet \/ (overlapped /\ ~syncs))
Goto(o, op) == ops[o].at # "idle" /\ ops' = [ops EXCEPT ![o] = op]
At(o, at) == ops[o].at = at

Init ==
    /\ account = [ban |-> NoBan, shadow |-> FALSE, deleted |-> FALSE, appeal |-> "none"]
    /\ content = [i \in Items |-> Absent]
    /\ blocks = [n \in Networks |-> "none"]
    /\ ops = [o \in Ops |-> Idle]
    /\ overlapped = FALSE
    /\ lateAppeal = FALSE

-----------------------------------------------------------------------------
(* The staff's side.  The actor outranks the account (actorRank). *)

(* toggleBan, banning: the account's last address and its devices are
   blocked first, when asked for, and an earlier block is taken over. *)
ban(o, term, nets) ==
    /\ account.ban.id < MaxBans
    /\ Start(o, [at |-> "blocking", term |-> term, nets |-> nets], TRUE)
    /\ UNCHANGED <<account, content, blocks, lateAppeal>>

blockForBan(o) ==
    /\ At(o, "blocking")
    /\ \/ \E n \in ops[o].nets :
            /\ blocks' = [blocks EXCEPT ![n] = "user"]
            /\ ops' = [ops EXCEPT ![o].nets = @ \ {n}]
            /\ UNCHANGED account
       \/ /\ ops[o].nets = {}
          /\ account.ban.id < MaxBans
          /\ account' = [account EXCEPT !.ban =
                [active |-> TRUE, id |-> account.ban.id + 1, term |-> ops[o].term]]
          /\ Goto(o, [at |-> "sync"])
          /\ UNCHANGED blocks
    /\ UNCHANGED <<content, overlapped, lateAppeal>>

(* toggleBan, lifting: the blocks made for this account go, then the ban. *)
unban(o) ==
    /\ Start(o, [at |-> "unblocking", nets |-> Networks], TRUE)
    /\ UNCHANGED <<account, content, blocks, lateAppeal>>

(* A ban keeps its number when it is lifted. *)
Lifted(b) == [active |-> FALSE, id |-> b.id, term |-> "none"]

liftBan(o) ==
    /\ At(o, "unblocking")
    /\ \/ \E n \in ops[o].nets :
            /\ blocks' = [blocks EXCEPT ![n] = IF @ = "user" THEN "none" ELSE @]
            /\ ops' = [ops EXCEPT ![o].nets = @ \ {n}]
            /\ UNCHANGED account
       \/ /\ ops[o].nets = {}
          /\ account' = [account EXCEPT !.ban = Lifted(@), !.appeal = "none"]
          /\ Goto(o, [at |-> "sync"])
          /\ UNCHANGED blocks
    /\ UNCHANGED <<content, overlapped, lateAppeal>>

(* blockIp and blockDevice refuse a network that is blocked; unblockIp and
   unblockDevice delete whatever block there is. *)
blockNetwork(n) ==
    /\ blocks[n] = "none"
    /\ blocks' = [blocks EXCEPT ![n] = "staff"]
    /\ UNCHANGED <<account, content, ops, overlapped, lateAppeal>>

unblockNetwork(n) ==
    /\ blocks[n] # "none"
    /\ blocks' = [blocks EXCEPT ![n] = "none"]
    /\ UNCHANGED <<account, content, ops, overlapped, lateAppeal>>

(* The handlers that set one thing of the account: what they read before
   it (the rank, the account itself) does not reach the write. *)
set(o, what) ==
    /\ Start(o, [at |-> "set", what |-> what], what # "reject")
    /\ UNCHANGED <<account, content, blocks, lateAppeal>>

(* deleteUser and deactivateUser clear the ban and the appeal. *)
Deleted(u) == [u EXCEPT !.deleted = TRUE, !.ban = Lifted(@), !.appeal = "none"]
(* Mutant: only the deletion is undone on the account, not on its content. *)
AfterReactivation_Done == Idle
AfterReactivation == [at |-> "sync"]

setStanding(o) ==
    /\ At(o, "set")
    /\ \/ /\ ops[o].what = "shadow" /\ account' = [account EXCEPT !.shadow = TRUE]
          /\ Goto(o, [at |-> "sync"])
       \/ /\ ops[o].what = "unshadow" /\ account' = [account EXCEPT !.shadow = FALSE]
          /\ Goto(o, [at |-> "sync"])
       \/ /\ ops[o].what = "delete" /\ account' = Deleted(account)
          /\ Goto(o, [at |-> "sync"])
       \/ /\ ops[o].what = "reactivate" /\ account' = [account EXCEPT !.deleted = FALSE]
          /\ Goto(o, AfterReactivation)
       \/ /\ ops[o].what = "reject" /\ account' = [account EXCEPT !.appeal = "rejected"]
          /\ Goto(o, Idle)
    /\ UNCHANGED <<content, blocks, overlapped, lateAppeal>>

-----------------------------------------------------------------------------
(* The account's side. *)

TermEnds ==
    /\ account.ban.term = "running"
    /\ account' = [account EXCEPT !.ban.term = "over"]
    /\ UNCHANGED <<content, blocks, ops, overlapped, lateAppeal>>

(* checkBanStatus, on whichever request of the account reads it next.
   Mutant: a ban without an end counts as one whose end has passed. *)
Due_NoEnd(b) == b.active /\ b.term # "running"
Due(b) == b.active /\ b.term = "over"

checkBanStatus(o) ==
    /\ Due(account.ban)
    /\ Start(o, [at |-> "lapse", id |-> account.ban.id], TRUE)
    /\ UNCHANGED <<account, content, blocks, lateAppeal>>

(* save() writes the fields it cleared, whatever ban they now describe.
   Mutant: the appeal outlives the ban it was made against. *)
Lapsed_Appealing(u) == [u EXCEPT !.ban = Lifted(@)]
Lapsed(u) == [u EXCEPT !.ban = Lifted(@), !.appeal = "none"]

lapse(o) ==
    /\ At(o, "lapse")
    /\ account' = Lapsed(account)
    /\ Goto(o, [at |-> "sync"])
    /\ UNCHANGED <<content, blocks, overlapped, lateAppeal>>

(* Only here is a failing sync swallowed: the request goes on. *)
lapseUnsynced(o) ==
    /\ At(o, "lapse")
    /\ account' = Lapsed(account)
    /\ Goto(o, Idle)
    /\ overlapped' = TRUE
    /\ UNCHANGED <<content, blocks, lateAppeal>>

submitAppeal(o) ==
    /\ account.ban.active /\ ~account.deleted
    /\ account.appeal # "pending"
    /\ Start(o, [at |-> "appeal"], FALSE)
    /\ UNCHANGED <<account, content, blocks, lateAppeal>>

saveAppeal(o) ==
    /\ At(o, "appeal")
    /\ account' = [account EXCEPT !.appeal = "pending"]
    /\ lateAppeal' = ~account.ban.active
    /\ Goto(o, Idle)
    /\ UNCHANGED <<content, blocks, overlapped>>

(* New content is stamped with the owner's standing, read before it is
   created (visibilityForNewContent). *)
createContent(o, i) ==
    /\ ~content[i].exists
    /\ ~account.deleted /\ ~account.ban.active
    /\ Start(o, [at |-> "create", item |-> i, flags |-> computeOwnerVisibility(account)], FALSE)
    /\ UNCHANGED <<account, content, blocks, lateAppeal>>

insertContent(o) ==
    /\ At(o, "create")
    /\ content' = [content EXCEPT ![ops[o].item] = Stamped(ops[o].flags)]
    /\ Goto(o, Idle)
    /\ UNCHANGED <<account, blocks, overlapped, lateAppeal>>

-----------------------------------------------------------------------------
(* syncOwnerVisibility: the account is read, then each collection written. *)

syncRead(o) ==
    /\ At(o, "sync")
    /\ Goto(o, [at |-> "apply", flags |-> computeOwnerVisibility(account), items |-> Items])
    /\ UNCHANGED <<account, content, blocks, overlapped, lateAppeal>>

syncWrite(o) ==
    /\ At(o, "apply")
    /\ \E i \in ops[o].items :
        /\ content' = IF content[i].exists
                      THEN [content EXCEPT ![i] = Stamped(ops[o].flags)] ELSE content
        /\ Goto(o, IF ops[o].items = {i} THEN Idle
                   ELSE [ops[o] EXCEPT !.items = @ \ {i}])
    /\ UNCHANGED <<account, blocks, overlapped, lateAppeal>>

Next ==
    \/ \E o \in Ops :
        \/ \E term \in {"open", "running"}, nets \in SUBSET Networks : ban(o, term, nets)
        \/ blockForBan(o) \/ unban(o) \/ liftBan(o)
        \/ \E what \in {"shadow", "unshadow", "delete", "reactivate", "reject"} : set(o, what)
        \/ setStanding(o)
        \/ checkBanStatus(o) \/ lapse(o) \/ lapseUnsynced(o)
        \/ submitAppeal(o) \/ saveAppeal(o)
        \/ \E i \in Items : createContent(o, i)
        \/ insertContent(o)
        \/ syncRead(o) \/ syncWrite(o)
    \/ TermEnds
    \/ \E n \in Networks : blockNetwork(n) \/ unblockNetwork(n)

Spec == Init /\ [][Next]_vars

-----------------------------------------------------------------------------
(* Properties. *)

(* The shape of the documents; what is listed is active, in every order in
   which two handlers write the flags of an item. *)
TypeOK ==
    /\ account \in [ban : [active : BOOLEAN, id : 0 .. MaxBans,
                           term : {"none", "open", "running", "over"}],
                    shadow : BOOLEAN, deleted : BOOLEAN,
                    appeal : {"none", "pending", "rejected"}]
    /\ content \in [Items -> [active : BOOLEAN, listed : BOOLEAN, exists : BOOLEAN]]
    /\ blocks \in [Networks -> {"none", "user", "staff"}]
    /\ \A i \in Items : content[i].listed => content[i].active

(* Besides the types: whatever an overlap or a failed sync left before,
   once a handler has run alone the flags of every item say what the
   account is: no composition of bans, shadow bans, deletions, lapses and
   creations hides what should be seen or shows what should be hidden
   (owner-visibility.service.ts: the flags are recomputed from scratch). *)
ContentSettles ==
    TypeOK /\ (Quiet /\ ~overlapped =>
        \A i \in Items : content[i].exists =>
            content[i] = Stamped(computeOwnerVisibility(account)))

(* The same without the proviso: what a comment of owner-visibility calls
   safe, and two handlers that overlap break. *)
ContentFollows ==
    Quiet => \A i \in Items : content[i].exists =>
        content[i] = Stamped(computeOwnerVisibility(account))

(* A ban ends by the staff's hand, by deletion, or when its term is over;
   a request of the account ends no other ban than one that was over, or
   one imposed after it had read that one (checkBanStatus). *)
BanLastsItsTerm ==
    [][account.ban.active /\ ~account'.ban.active =>
        \/ \E o \in Ops : ops[o].at \in {"unblocking", "set"}
        \/ account.ban.term = "over"
        \/ \E o \in Ops : At(o, "lapse") /\ ops[o].id < account.ban.id]_vars

(* An appeal that waits for the staff is against a ban in force, unless
   that ban ended while the appeal was being saved: every way a ban ends
   ends its appeal in the same write (toggleBan, deleteUser,
   deactivateUser, checkBanStatus). *)
AppealsOfBans ==
    account.appeal = "pending" => account.ban.active \/ lateAppeal
=============================================================================
