------------------------------ MODULE MediaSweep ------------------------------
(***************************************************************************)
(* Stored media and the weekly run that deletes what nothing refers to     *)
(* (media-sweep.job.ts): the assets are listed, the collections that can   *)
(* refer to them are read one after the other, and the old assets nobody   *)
(* referred to are deleted in batches.  Meanwhile clients save what they   *)
(* have uploaded, and references are copied from document to document,     *)
(* replaced and restored (covers, avatars, saveMedia, deleteMedia).        *)
(***************************************************************************)
EXTENDS Naturals, FiniteSets

CONSTANTS Assets,
          COLLECTIONS,      \* those that can refer to an asset, read in order
          DESTROY_BATCH,
          MaxSweeps         \* bound: runs

ASSUME MediaAssumption ==
    COLLECTIONS \in Nat \ {0} /\ DESTROY_BATCH \in Nat \ {0} /\ MaxSweeps \in Nat

Collections == 1 .. COLLECTIONS

VARIABLES
    assets,     \* "none", "young", "old" once the grace is over, or "gone"
    refs,       \* the assets each collection refers to
    sweep,      \* the run
    sweeps,     \* runs so far
    cameBack    \* observed: assets referred to again from a collection that
                \* had been read, and from nothing the run had seen

mediaVars == <<assets, refs, sweep, sweeps, cameBack>>

NoSweep == [at |-> "idle", there |-> {}, cutoff |-> {}, listed |-> {}, candidates |-> {},
            read |-> 0, seen |-> {}]
Stored(a) == assets[a] \in {"young", "old"}

MediaInit ==
    /\ assets = [a \in Assets |-> "none"]
    /\ refs = [c \in Collections |-> {}]
    /\ sweep = NoSweep /\ sweeps = 0 /\ cameBack = {}

-----------------------------------------------------------------------------
(* The client uploads with a signature, then saves the project, profile or
   media that shows it: within a week, or never. *)
upload(a) ==
    /\ assets[a] = "none"
    /\ assets' = [assets EXCEPT ![a] = "young"]
    /\ UNCHANGED <<refs, sweep, sweeps, cameBack>>

save(c, a) ==
    /\ assets[a] = "young" /\ a \notin refs[c]
    /\ refs' = [refs EXCEPT ![c] = @ \cup {a}]
    /\ UNCHANGED <<assets, sweep, sweeps, cameBack>>

graceEnds ==
    /\ \E a \in Assets : assets[a] = "young"
    /\ assets' = [a \in Assets |-> IF assets[a] = "young" THEN "old" ELSE assets[a]]
    /\ UNCHANGED <<refs, sweep, sweeps, cameBack>>

(* A fork, an activity or a notification copies a reference, or a client
   sends an earlier one again. *)
AlreadyRead(c) == sweep.at = "destroy" \/ (sweep.at = "read" /\ c <= sweep.read)

copy(c, a) ==
    /\ Stored(a) /\ a \notin refs[c]
    /\ refs' = [refs EXCEPT ![c] = @ \cup {a}]
    /\ cameBack' = IF AlreadyRead(c) /\ a \notin sweep.seen THEN cameBack \cup {a} ELSE cameBack
    /\ UNCHANGED <<assets, sweep, sweeps>>

(* A reference is replaced, or its document deleted (deleteMedia deletes
   the row alone). *)
drop(c, a) ==
    /\ a \in refs[c]
    /\ refs' = [refs EXCEPT ![c] = @ \ {a}]
    /\ UNCHANGED <<assets, sweep, sweeps, cameBack>>

-----------------------------------------------------------------------------
(* runMediaSweep.  What is uploaded while the folders are listed may be
   listed or not. *)
sweepOrphanedMedia ==
    /\ sweep.at = "idle" /\ sweeps < MaxSweeps
    /\ sweep' = [NoSweep EXCEPT !.at = "list", !.there = {a \in Assets : Stored(a)},
                                !.cutoff = {a \in Assets : assets[a] = "old"}]
    /\ sweeps' = sweeps + 1
    /\ UNCHANGED <<assets, refs, cameBack>>

(* Mutant: whatever is listed is a candidate, however young. *)
Candidate_AnyAge(a) == Stored(a)
Candidate(a) == a \in sweep.cutoff

listAsset(a) ==
    /\ sweep.at = "list" /\ Stored(a) /\ a \notin sweep.listed
    /\ sweep' = [sweep EXCEPT !.listed = @ \cup {a},
                              !.candidates = IF Candidate(a) THEN @ \cup {a} ELSE @]
    /\ UNCHANGED <<assets, refs, sweeps, cameBack>>

listed ==
    /\ sweep.at = "list"
    /\ sweep.there \subseteq sweep.listed
    /\ sweep' = [sweep EXCEPT !.at = "read", !.there = {}, !.cutoff = {}]
    /\ UNCHANGED <<assets, refs, sweeps, cameBack>>

collectReferencedIds ==
    /\ sweep.at = "read" /\ sweep.read < COLLECTIONS
    /\ sweep' = [sweep EXCEPT !.read = @ + 1, !.seen = @ \cup refs[sweep.read + 1]]
    /\ UNCHANGED <<assets, refs, sweeps, cameBack>>

(* More than half of what was listed, or a run that may not delete: none. *)
Orphans == sweep.candidates \ sweep.seen

decide ==
    /\ sweep.at = "read" /\ sweep.read = COLLECTIONS
    /\ \/ /\ Orphans # {} /\ 2 * Cardinality(Orphans) <= Cardinality(sweep.listed)
          /\ sweep' = [sweep EXCEPT !.at = "destroy", !.candidates = Orphans]
       \/ sweep' = NoSweep
    /\ UNCHANGED <<assets, refs, sweeps, cameBack>>

(* A batch; the last ends the run, and so does a call that fails. *)
destroyBatch ==
    /\ sweep.at = "destroy"
    /\ \/ \E batch \in SUBSET sweep.candidates :
            /\ batch # {} /\ Cardinality(batch) <= DESTROY_BATCH
            /\ assets' = [a \in Assets |-> IF a \in batch THEN "gone" ELSE assets[a]]
            /\ sweep' = IF batch = sweep.candidates THEN NoSweep
                        ELSE [sweep EXCEPT !.candidates = @ \ batch]
       \/ assets' = assets /\ sweep' = NoSweep
    /\ UNCHANGED <<refs, sweeps, cameBack>>

MediaNext ==
    \/ graceEnds \/ sweepOrphanedMedia \/ listed \/ collectReferencedIds \/ decide \/ destroyBatch
    \/ \E a \in Assets : upload(a) \/ listAsset(a)
         \/ \E c \in Collections : save(c, a) \/ copy(c, a) \/ drop(c, a)
MediaSpec == MediaInit /\ [][MediaNext]_mediaVars

-----------------------------------------------------------------------------
(* Nothing refers to an asset that was deleted: not what a client saved
   while the run was listing, reading or deleting, and not what was copied
   about among the collections; unless a reference came back to a
   collection the run had read, from one it had still to read or from a
   client (media-sweep.job.ts: listed before the references are read, and
   the grace). *)
MediaKept ==
    \A a \in Assets : assets[a] = "gone" => a \in cameBack \/ \A c \in Collections : a \notin refs[c]
=============================================================================
