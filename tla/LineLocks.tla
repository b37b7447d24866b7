------------------------------ MODULE LineLocks ------------------------------
(***************************************************************************)
(* What the line locks promise: a line has at most one holder, and a       *)
(* holder is never replaced by another without the line having been free   *)
(* in between.  How locks end (release, disconnect, kick, idle timeout) is *)
(* left to the implementation, CollabLocks.                                *)
(***************************************************************************)
CONSTANTS Line, Conn, NoConn

VARIABLE holder

Init == holder = [l \in Line |-> NoConn]

(* A connection takes some lines that are free or already its own. *)
Take(c, S) ==
    /\ \A l \in S : holder[l] \in {c, NoConn}
    /\ holder' = [l \in Line |-> IF l \in S THEN c ELSE holder[l]]

(* Some lines become free. *)
Free(S) == holder' = [l \in Line |-> IF l \in S THEN NoConn ELSE holder[l]]

Next ==
    \E S \in SUBSET Line : Free(S) \/ \E c \in Conn : Take(c, S)

Spec == Init /\ [][Next]_holder

=============================================================================
