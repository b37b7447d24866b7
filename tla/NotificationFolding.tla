------------------------ MODULE NotificationFolding ------------------------
(***************************************************************************)
(* The stored notifications of one recipient (notifications.events.ts,     *)
(* notifications.service.ts): events under one key fold into the unread    *)
(* one there is, stars, forks and follows renew the one there is whether   *)
(* read or not, and some are created once.  An event is told on its own:   *)
(* the blocks and the preference are read first, and an upsert that found  *)
(* nothing inserts in a later step, which a unique index may refuse.       *)
(***************************************************************************)
EXTENDS Integers, FiniteSets

CONSTANTS Events,       \* what happens: an actor and how it is told
          MaxRows       \* rows ever inserted

Modes == {"fold", "renew", "once"}
ASSUME EventKinds == MaxRows \in Nat /\ \A e \in Events : e.mode \in Modes

VARIABLES
    rows,       \* the notifications: mode, read, the events counted, gone
    telling,    \* where the delivery of an event is
    blockList,  \* the actors in a block relationship with the recipient
    wanted,     \* whether the preference lets these events through
    inView      \* the rows the recipient's last list showed

foldVars == <<rows, telling, blockList, wanted, inView>>

RowIds == 1..MaxRows
Actors == {e.actor : e \in Events}
NoRow == [mode |-> "none"]
Rows == {r \in RowIds : rows[r] # NoRow /\ ~rows[r].gone}
ActorsOf(r) == {e.actor : e \in rows[r].of}

FoldInit ==
    /\ rows = [r \in RowIds |-> NoRow]
    /\ telling = [e \in Events |-> "none"]
    /\ blockList = {} /\ wanted = TRUE /\ inView = {}

-----------------------------------------------------------------------------
(* What an upsert finds: the filter of deliver asks for an unread row, the
   one of upsertSocial, upsertReaction and upsertFollow for any, as that
   of createOnce. *)
Matching(e) == {r \in Rows : rows[r].mode = e.mode /\ (e.mode = "fold" => ~rows[r].read)}
(* The unique index on (userId, dedupeKey) of the unread rows. *)
Refused(e) == Matching(e) # {}

Tell(e, at) == telling' = [telling EXCEPT ![e] = at]

(* blocked, then the preference; createOnce asks for neither. *)
ask(e) ==
    /\ telling[e] = "none"
    /\ Tell(e, IF e.mode # "once" /\ (e.actor \in blockList \/ ~wanted) THEN "dropped" ELSE "upsert")
    /\ UNCHANGED <<rows, blockList, wanted, inView>>

Folded(r, e) == [rows EXCEPT ![r].of = IF e.mode = "once" THEN @ ELSE @ \cup {e},
                             ![r].read = IF e.mode = "once" THEN @ ELSE FALSE]
Fresh == CHOOSE r \in RowIds : rows[r] = NoRow
Room == \E r \in RowIds : rows[r] = NoRow
Inserted(e) == [rows EXCEPT ![Fresh] = [mode |-> e.mode, read |-> FALSE, of |-> {e}, gone |-> FALSE]]

(* A filter with every field of a unique index is upserted in one step;
   that of deliver has not the dedupeKey, and a miss inserts afterwards. *)
foldsIn(e) ==
    /\ telling[e] \in {"upsert", "retry"} /\ Matching(e) # {}
    /\ \E r \in Matching(e) : rows' = Folded(r, e)
    /\ Tell(e, IF e.mode = "once" THEN "dropped" ELSE "told")
    /\ UNCHANGED <<blockList, wanted, inView>>

misses(e) ==
    /\ telling[e] \in {"upsert", "retry"} /\ Matching(e) = {} /\ e.mode = "fold"
    /\ Tell(e, IF telling[e] = "upsert" THEN "insert" ELSE "reinsert")
    /\ UNCHANGED <<rows, blockList, wanted, inView>>

createsNew(e) ==
    /\ telling[e] \in {"upsert", "retry"} /\ Matching(e) = {} /\ e.mode # "fold"
    /\ Room /\ rows' = Inserted(e)
    /\ Tell(e, "told")
    /\ UNCHANGED <<blockList, wanted, inView>>

inserts(e) ==
    /\ telling[e] \in {"insert", "reinsert"} /\ ~Refused(e)
    /\ Room /\ rows' = Inserted(e)
    /\ Tell(e, "told")
    /\ UNCHANGED <<blockList, wanted, inView>>

(* One retry; a second refusal is an error nobody hears of. *)
AfterRefusal(at) == IF at = "insert" THEN "retry" ELSE "lost"
isRefused(e) ==
    /\ telling[e] \in {"insert", "reinsert"} /\ Refused(e)
    /\ Tell(e, AfterRefusal(telling[e]))
    /\ UNCHANGED <<rows, blockList, wanted, inView>>

-----------------------------------------------------------------------------
(* listNotifications: without the blocked actors, and without a row of
   which nobody else is left; the count of the unread is a query. *)
Shown(r) == ActorsOf(r) = {} \/ ActorsOf(r) \ blockList # {}
lists ==
    /\ inView' = {r \in Rows : ~rows[r].read /\ Shown(r)}
    /\ UNCHANGED <<rows, telling, blockList, wanted>>

Read(of) == [r \in RowIds |-> IF r \in of THEN [rows[r] EXCEPT !.read = TRUE] ELSE rows[r]]
readsListed ==
    /\ inView # {} /\ rows' = Read(inView \cap Rows)
    /\ inView' = {}
    /\ UNCHANGED <<telling, blockList, wanted>>
readsAll ==
    /\ rows' = Read({r \in Rows : ~rows[r].read})
    /\ UNCHANGED <<telling, blockList, wanted, inView>>

dismisses(r) ==
    /\ r \in Rows /\ rows' = [rows EXCEPT ![r].gone = TRUE]
    /\ inView' = inView \ {r}
    /\ UNCHANGED <<telling, blockList, wanted>>

blocksActor(a) ==
    /\ blockList' = IF a \in blockList THEN blockList \ {a} ELSE blockList \cup {a}
    /\ UNCHANGED <<rows, telling, wanted, inView>>
prefers ==
    /\ wanted' = ~wanted
    /\ UNCHANGED <<rows, telling, blockList, inView>>

FoldNext ==
    \/ \E e \in Events : ask(e) \/ foldsIn(e) \/ misses(e) \/ createsNew(e) \/ inserts(e) \/ isRefused(e)
    \/ lists \/ readsListed \/ readsAll \/ prefers
    \/ \E r \in RowIds : dismisses(r)
    \/ \E a \in Actors : blocksActor(a)
FoldSpec == FoldInit /\ [][FoldNext]_foldVars

-----------------------------------------------------------------------------
(* However deliveries and readings interleave, no key has two unread rows,
   nor a renewed or once-created one two rows; an event that was told is
   counted in exactly one row, and none is lost unless another reader and
   two more deliveries came between its two tries (deliver's one retry). *)
NotesFold ==
    /\ \A m \in Modes : Cardinality({r \in Rows : rows[r].mode = m /\ (m = "fold" => ~rows[r].read)}) <= 1
    /\ \A e \in Events :
         /\ telling[e] = "told" /\ e.mode # "once" =>
              Cardinality({r \in RowIds : rows[r] # NoRow /\ e \in rows[r].of}) = 1
         /\ telling[e] = "lost" =>
              \E d, f \in Events \ {e} : d # f /\ telling[d] = "told" /\ telling[f] = "told"
=============================================================================
