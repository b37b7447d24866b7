--------------------------- MODULE MCCollabDocStore ---------------------------
(* Two tabs and two edits are enough for a store that races an edit, and
   for a tab that comes back to a document somebody else kept loaded. *)
EXTENDS CollabDocStore, TLC

(* A bound of the run with two sessions: they follow each other, and no tab
   is left past the read of a session that has ended since. *)
OneByOne ==
    /\ SessionsApart
    /\ ~session.live => \A c \in Client : client[c] # "read"

TabSymmetry == Permutations(Client) \cup Permutations(Edit)

=============================================================================
