---------------------------- MODULE MCCollabLocks ----------------------------
(* Two people, one of them the owner, and two lines; with a cap of one line
   per connection and of two ids per heartbeat, the cap is met both ways. *)
EXTENDS CollabLocks, TLC

CONSTANTS c1, c2, s1, s2, l1, l2

MCSubjectOf == c1 :> s1 @@ c2 :> s2

=============================================================================
