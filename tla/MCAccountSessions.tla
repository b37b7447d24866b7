------------------------- MODULE MCAccountSessions -------------------------
(* Instances of AccountSessions and SignInMethods for TLC.  They share no
   variable: a behaviour is of one of them. *)
EXTENDS AccountSessions, SignInMethods, TLC

VARIABLE focus
Foci == {"sessions", "google", "keys"}
FocusInit == focus \in Foci /\ Init /\ MethodsInit
FocusNext ==
    /\ UNCHANGED focus
    /\ \/ focus = "sessions" /\ Next /\ UNCHANGED methodVars
       \/ /\ focus \in {"google", "keys"} /\ UNCHANGED vars
          /\ \/ AccountSteps
             \/ focus = "google" /\ \E o \in SignOps : GoogleSteps(o)
             \/ focus = "keys" /\ (KeySteps \/ \E o \in SignOps : PasskeySteps(o))
FocusSpec == FocusInit /\ [][FocusNext]_<<focus, vars, methodVars>>
Symmetry == Permutations(Ops)

(* What lets someone in: a reset link requested after the last reset
   (OldLinksDie), and the password, identity or passkey of the account
   that is entered (MethodsHold). *)
WaysIn == OldLinksDie /\ MethodsHold
=============================================================================
