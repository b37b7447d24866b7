------------------------- MODULE MCAccountStanding -------------------------
(* Instances of AccountStanding, AccountNames and Discovery for TLC.  They
   share no variable: a behaviour is of one of them. *)
EXTENDS AccountStanding, AccountNames, Discovery, TLC

VARIABLE part
Parts == {"standing", "names", "mails", "shown"}
Origin == part \in Parts /\ Init /\ NamesInit /\ DiscoveryInit
Step ==
    /\ UNCHANGED part
    /\ \/ part = "standing" /\ Next /\ UNCHANGED <<identityVars, discoveryVars>>
       \/ part = "names" /\ Naming /\ UNCHANGED <<vars, discoveryVars>>
       \/ part = "mails" /\ Mailing /\ UNCHANGED <<vars, discoveryVars>>
       \/ part = "shown" /\ DiscoveryNext /\ UNCHANGED <<vars, identityVars>>
StandingSpec == Origin /\ [][Step]_<<part, vars, identityVars, discoveryVars>>

SignedUp == [a \in Accounts |-> IF a = "u1" THEN {"home"} ELSE {}]
OpSymmetry == Permutations(Ops) \cup Permutations(Items)

Scores == [u \in Folk |-> IF u = 3 THEN 2 ELSE 1]
Winnings == [u \in Folk |-> IF u = 1 THEN 0 ELSE 1]
Tastes == {<<1, 2>>, <<2, 1>>}
Done == <<[actor |-> 1, of |-> 2], [actor |-> 2, of |-> 3], [actor |-> 3, of |-> 1],
          [actor |-> 3, of |-> 2], [actor |-> 1, of |-> 3]>>

(* What is shown of an account follows its standing: the flags on its
   content settle with it (owner-visibility.service.ts), and every surface
   that lists or opens something reads them alike. *)
ShownAsTheyStand == ContentSettles /\ (part = "shown" => DiscoveryHolds)
=============================================================================
