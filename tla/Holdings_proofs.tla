---------------------------- MODULE Holdings_proofs ----------------------------
(***************************************************************************)
(* What holds of what accounts have: their projects with the counts beside *)
(* them, the stars, shares and views of one, its saves and its media, a    *)
(* playlist; their standing and what is shown of them, their names and     *)
(* addresses; for any number of accounts, projects, songs, assets, items,  *)
(* names, addresses, handlers and runs.                                    *)
(***************************************************************************)
EXTENDS MCProjects, MCAccountStanding,
        FiniteSetTheorems, SequenceTheorems, WellFoundedInduction, TLAPS

-----------------------------------------------------------------------------
(* Stored media and the sweep. *)
Sweep == [at : {"idle", "list", "read", "destroy"}, there : SUBSET Assets, cutoff : SUBSET Assets,
          listed : SUBSET Assets, candidates : SUBSET Assets, read : Nat, seen : SUBSET Assets]
MediaTypes ==
    /\ assets \in [Assets -> {"none", "young", "old", "gone"}]
    /\ refs \in [Collections -> SUBSET Assets]
    /\ sweep \in Sweep
    /\ sweeps \in Nat
    /\ cameBack \in SUBSET Assets

(* What may be deleted is stored and past its grace: nobody saves it anew. *)
CandidatesAreOld ==
    \A a \in sweep.candidates \cup sweep.cutoff : assets[a] = "old"

(* A run looks at each collection once, in order. *)
ReadInOrder ==
    /\ sweep.at \in {"idle", "list"} => sweep.read = 0
    /\ sweep.read <= COLLECTIONS
    /\ sweep.at = "destroy" => sweep.read = COLLECTIONS /\ sweep.candidates \cap sweep.seen = {}
    /\ sweep.at \in {"read", "destroy"} => sweep.cutoff = {}

(* What a run has not seen is in none of the collections it has read. *)
UnseenIsUnreferred ==
    sweep.at \in {"read", "destroy"} =>
        \A a \in Assets \ (sweep.seen \cup cameBack), c \in Collections : c <= sweep.read /\ a \in refs[c] =>
            a \notin sweep.candidates

MediaInv == MediaTypes /\ CandidatesAreOld /\ ReadInOrder /\ UnseenIsUnreferred /\ MediaKept

LEMMA NoSweepTypes == NoSweep \in Sweep
  BY DEF NoSweep, Sweep

LEMMA MediaBegins == MediaInit => MediaInv
  BY NoSweepTypes, MediaAssumption DEF MediaInit, MediaInv, MediaTypes, CandidatesAreOld, ReadInOrder, UnseenIsUnreferred,
     MediaKept, NoSweep

(* Clients and copies, beside a run. *)
LEMMA ClientsKeepMedia ==
    ASSUME MediaInv, NEW a \in Assets,
           upload(a) \/ graceEnds \/ \E c \in Collections : save(c, a) \/ copy(c, a) \/ drop(c, a)
    PROVE  MediaInv'
  <1> USE DEF MediaInv
  <1>1. CASE upload(a)
    <2>1. assets' \in [Assets -> {"none", "young", "old", "gone"}]
      BY <1>1 DEF upload, MediaTypes
    <2> QED BY <1>1, <2>1 DEF upload, MediaTypes, CandidatesAreOld, ReadInOrder, UnseenIsUnreferred, MediaKept, Sweep
  <1>2. CASE graceEnds
    <2>1. assets' \in [Assets -> {"none", "young", "old", "gone"}]
      BY <1>2 DEF graceEnds, MediaTypes
    <2> QED BY <1>2, <2>1 DEF graceEnds, MediaTypes, CandidatesAreOld, ReadInOrder, UnseenIsUnreferred, MediaKept, Sweep
  <1>3. ASSUME NEW c \in Collections, save(c, a)
        PROVE  MediaInv'
    <2>1. refs' \in [Collections -> SUBSET Assets] /\ a \notin sweep.candidates /\ assets[a] # "gone"
          /\ (\A d \in Collections : refs'[d] \subseteq refs[d] \cup {a})
      BY <1>3 DEF save, MediaTypes, CandidatesAreOld
    <2> QED BY <1>3, <2>1 DEF save, MediaTypes, CandidatesAreOld, ReadInOrder, UnseenIsUnreferred, MediaKept
  <1>4. ASSUME NEW c \in Collections, copy(c, a)
        PROVE  MediaInv'
    <2>1. refs' \in [Collections -> SUBSET Assets] /\ cameBack' \in SUBSET Assets /\ cameBack \subseteq cameBack'
          /\ (\A d \in Collections : refs'[d] \subseteq refs[d] \cup {a}) /\ assets[a] # "gone"
          /\ (\A d \in Collections : d # c => refs'[d] = refs[d])
      BY <1>4 DEF copy, MediaTypes, Stored
    <2>2. sweep.at \in {"read", "destroy"} /\ c <= sweep.read /\ a \notin sweep.seen => a \in cameBack'
      BY <1>4 DEF copy, AlreadyRead
    <2>3. UnseenIsUnreferred'
      BY <1>4, <2>1, <2>2 DEF copy, UnseenIsUnreferred
    <2>4. MediaKept'
      BY <1>4, <2>1 DEF copy, MediaKept
    <2> QED BY <1>4, <2>1, <2>3, <2>4 DEF copy, MediaTypes, CandidatesAreOld, ReadInOrder
  <1>5. ASSUME NEW c \in Collections, drop(c, a)
        PROVE  MediaInv'
    <2>1. refs' \in [Collections -> SUBSET Assets] /\ (\A d \in Collections : refs'[d] \subseteq refs[d])
      BY <1>5 DEF drop, MediaTypes
    <2> QED BY <1>5, <2>1 DEF drop, MediaTypes, CandidatesAreOld, ReadInOrder, UnseenIsUnreferred, MediaKept
  <1> QED BY <1>1, <1>2, <1>3, <1>4, <1>5

LEMMA SweepKeepsMedia ==
    ASSUME MediaInv,
           \/ sweepOrphanedMedia \/ listed \/ collectReferencedIds \/ decide \/ destroyBatch
           \/ \E a \in Assets : listAsset(a)
    PROVE  MediaInv'
  <1> USE DEF MediaInv
  <1>1. CASE sweepOrphanedMedia
    <2>1. /\ sweep' \in Sweep /\ sweep'.at = "list" /\ sweep'.read = 0 /\ sweep'.candidates = {}
          /\ sweep'.cutoff = {a \in Assets : assets[a] = "old"}
      BY <1>1 DEF sweepOrphanedMedia, NoSweep, Sweep
    <2> QED BY <1>1, <2>1, MediaAssumption DEF sweepOrphanedMedia, MediaTypes, CandidatesAreOld, ReadInOrder, UnseenIsUnreferred, MediaKept
  <1>2. ASSUME NEW a \in Assets, listAsset(a)
        PROVE  MediaInv'
    <2>1. /\ sweep' \in Sweep /\ sweep'.at = "list" /\ sweep'.read = sweep.read /\ sweep'.cutoff = sweep.cutoff
          /\ sweep'.candidates \subseteq sweep.candidates \cup sweep.cutoff
      <3>1. PICK candidates : candidates = IF Candidate(a) THEN sweep.candidates \cup {a} ELSE sweep.candidates
        OBVIOUS
      <3>2. sweep' = [sweep EXCEPT !.listed = sweep.listed \cup {a}, !.candidates = candidates] /\ sweep.at = "list"
        BY <1>2, <3>1 DEF listAsset
      <3>3. sweep \in Sweep /\ candidates \in SUBSET Assets /\ candidates \subseteq sweep.candidates \cup sweep.cutoff
        BY <3>1 DEF Candidate, MediaTypes, Sweep
      <3>4. sweep' \in Sweep /\ sweep'.candidates = candidates
        BY <3>2, <3>3 DEF Sweep
      <3>5. sweep'.at = "list" /\ sweep'.read = sweep.read /\ sweep'.cutoff = sweep.cutoff
        BY <3>2, <3>3 DEF Sweep
      <3> QED BY <3>3, <3>4, <3>5
    <2> QED BY <1>2, <2>1 DEF listAsset, MediaTypes, CandidatesAreOld, ReadInOrder, UnseenIsUnreferred, MediaKept
  <1>3. CASE listed
    <2>1. /\ sweep' \in Sweep /\ sweep'.at = "read" /\ sweep'.read = 0 /\ sweep'.cutoff = {} /\ sweep'.candidates = sweep.candidates
      BY <1>3 DEF listed, MediaTypes, Sweep, ReadInOrder
    <2> QED BY <1>3, <2>1, MediaAssumption DEF listed, MediaTypes, CandidatesAreOld, ReadInOrder, UnseenIsUnreferred, MediaKept, Collections
  <1>4. CASE collectReferencedIds
    <2>1. sweep.read + 1 \in Collections /\ sweep.read \in Nat
      BY <1>4, MediaAssumption DEF collectReferencedIds, Collections, MediaTypes, Sweep
    <2>2. /\ sweep' \in Sweep /\ sweep'.at = "read" /\ sweep'.read = sweep.read + 1 /\ sweep'.cutoff = sweep.cutoff
          /\ sweep'.candidates = sweep.candidates /\ sweep'.seen = sweep.seen \cup refs[sweep.read + 1]
      <3>1. PICK seen : seen = sweep.seen \cup refs[sweep.read + 1]
        OBVIOUS
      <3>2. sweep' = [sweep EXCEPT !.read = sweep.read + 1, !.seen = seen] /\ sweep.at = "read"
        BY <1>4, <3>1 DEF collectReferencedIds
      <3>3. sweep \in Sweep /\ seen \in SUBSET Assets /\ sweep.read + 1 \in Nat
        BY <2>1, <3>1 DEF MediaTypes, Sweep
      <3>4. sweep' \in Sweep /\ sweep'.seen = seen /\ sweep'.read = sweep.read + 1
        BY <3>2, <3>3 DEF Sweep
      <3>5. sweep'.at = "read" /\ sweep'.candidates = sweep.candidates /\ sweep'.cutoff = sweep.cutoff
        BY <3>2, <3>3 DEF Sweep
      <3> QED BY <3>1, <3>4, <3>5
    <2>3. UnseenIsUnreferred'
      BY <1>4, <2>1, <2>2 DEF collectReferencedIds, UnseenIsUnreferred, Collections
    <2>4. ReadInOrder'
      BY <1>4, <2>1, <2>2, MediaAssumption DEF collectReferencedIds, ReadInOrder
    <2> QED BY <1>4, <2>2, <2>3, <2>4 DEF collectReferencedIds, MediaTypes, CandidatesAreOld, MediaKept
  <1>5. CASE decide
    <2>1. CASE sweep' = NoSweep
      BY <1>5, <2>1, NoSweepTypes, MediaAssumption DEF decide, NoSweep, MediaTypes, CandidatesAreOld, ReadInOrder, UnseenIsUnreferred, MediaKept
    <2>2. CASE sweep' # NoSweep
      <3>1. /\ sweep' \in Sweep /\ sweep'.at = "destroy" /\ sweep'.read = sweep.read /\ sweep'.cutoff = sweep.cutoff
            /\ sweep'.candidates = sweep.candidates \ sweep.seen /\ sweep'.seen = sweep.seen
        <4>1. sweep' = [sweep EXCEPT !.at = "destroy", !.candidates = sweep.candidates \ sweep.seen] /\ sweep \in Sweep
          BY <1>5, <2>2 DEF decide, Orphans, MediaTypes
        <4>2. sweep' \in Sweep
          BY <4>1 DEF Sweep
        <4> QED BY <4>1, <4>2 DEF Sweep
      <3> QED BY <1>5, <3>1 DEF decide, MediaTypes, CandidatesAreOld, ReadInOrder, UnseenIsUnreferred, MediaKept
    <2> QED BY <2>1, <2>2
  (* What a batch deletes is in no collection, or came back.                *)
  <1>6. CASE destroyBatch
    <2>1. CASE assets' = assets /\ sweep' = NoSweep
      BY <1>6, <2>1, NoSweepTypes, MediaAssumption DEF destroyBatch, NoSweep, MediaTypes, CandidatesAreOld, ReadInOrder, UnseenIsUnreferred, MediaKept
    <2>2. ASSUME NEW batch \in SUBSET sweep.candidates,
                 assets' = [a \in Assets |-> IF a \in batch THEN "gone" ELSE assets[a]],
                 sweep' = IF batch = sweep.candidates THEN NoSweep ELSE [sweep EXCEPT !.candidates = @ \ batch]
          PROVE  MediaInv'
      <3>1. /\ sweep.at = "destroy" /\ sweep.read = COLLECTIONS /\ sweep.candidates \cap sweep.seen = {}
            /\ refs' = refs /\ sweeps' = sweeps /\ cameBack' = cameBack
        BY <1>6 DEF destroyBatch, ReadInOrder
      <3>2. \A a \in batch, c \in Collections : a \in cameBack \/ a \notin refs[c]
        BY <3>1, MediaAssumption DEF UnseenIsUnreferred, Collections, MediaTypes, Sweep
      <3>3. MediaKept'
        BY <2>2, <3>1, <3>2 DEF MediaKept
      <3>4. assets' \in [Assets -> {"none", "young", "old", "gone"}]
        BY <2>2 DEF MediaTypes
      <3>5. CASE batch = sweep.candidates
        BY <2>2, <3>1, <3>3, <3>4, <3>5, NoSweepTypes, MediaAssumption
           DEF NoSweep, MediaTypes, CandidatesAreOld, ReadInOrder, UnseenIsUnreferred
      <3>6. CASE batch # sweep.candidates
        <4>1. /\ sweep' \in Sweep /\ sweep'.at = sweep.at /\ sweep'.read = sweep.read /\ sweep'.cutoff = sweep.cutoff
              /\ sweep'.candidates = sweep.candidates \ batch /\ sweep'.seen = sweep.seen
          BY <2>2, <3>6 DEF MediaTypes, Sweep
        <4>2. sweep.cutoff = {}
          BY <3>1 DEF ReadInOrder
        <4>3. CandidatesAreOld'
          BY <2>2, <4>1, <4>2 DEF CandidatesAreOld, MediaTypes, Sweep
        <4>4. ReadInOrder' /\ UnseenIsUnreferred'
          BY <3>1, <4>1, <4>2 DEF ReadInOrder, UnseenIsUnreferred
        <4> QED BY <3>1, <3>3, <3>4, <4>1, <4>3, <4>4 DEF MediaTypes
      <3> QED BY <3>5, <3>6
    <2> QED BY <1>6, <2>1, <2>2 DEF destroyBatch
  <1> QED BY <1>1, <1>2, <1>3, <1>4, <1>5, <1>6

(* Nothing refers to an asset the sweep deleted, for any number of assets,
   collections and runs and any size of a batch, unless a reference came
   back to a collection the run had read (media-sweep.job.ts). *)
THEOREM MediaIsKept == MediaSpec => []MediaKept
  <1>1. MediaInit => MediaInv
    BY MediaBegins
  <1>2. MediaInv /\ [MediaNext]_mediaVars => MediaInv'
    <2> SUFFICES ASSUME MediaInv, [MediaNext]_mediaVars
                 PROVE  MediaInv'
      OBVIOUS
    <2>1. CASE UNCHANGED mediaVars
      BY <2>1 DEF mediaVars, MediaInv, MediaTypes, CandidatesAreOld, ReadInOrder, UnseenIsUnreferred, MediaKept
    <2> QED BY <2>1, ClientsKeepMedia, SweepKeepsMedia DEF MediaNext, graceEnds
  <1>3. MediaInv => MediaKept
    BY DEF MediaInv
  <1> QED BY <1>1, <1>2, <1>3, PTL DEF MediaSpec
-----------------------------------------------------------------------------
(* The saves of one project. *)
Row == [version : Nat, stamp : Nat, public : BOOLEAN, first : BOOLEAN, clear : BOOLEAN]
Text == [stamp : Nat, timed : BOOLEAN, apart : BOOLEAN]
Reads == [version : Nat, text : Nat, torn : BOOLEAN]
Opens == [at : {"half", "page"}, knew : SUBSET Reads]
Patches == [at : {"patch", "claim"}, id : Nat, knew : SUBSET Reads, public : Sends, timed : Sends, publishing : BOOLEAN]
Puts == [at : {"put"}, id : Nat, public : Sends, timed : Sends, todo : SUBSET {"project", "lyrics"}]
Scans == [at : {"scan"}, stamp : Nat]
Looks == [at : {"again", "hide"}, stamp : Nat, text : Nat, beside : BOOLEAN]
Handling == {NoSave} \cup Opens \cup Patches \cup Puts \cup Scans \cup Looks
SaveTypes ==
    /\ project \in Row
    /\ lyrics \in Text
    /\ saves \in Nat
    /\ vops \in [SaveOps -> Handling]

(* What handler o has still to write. *)
OwesProject(o) == vops[o].at = "patch" \/ (vops[o].at = "put" /\ "project" \in vops[o].todo)
OwesLyrics(o) == vops[o].at = "patch" \/ (vops[o].at = "put" /\ "lyrics" \in vops[o].todo)
Scanned(o) == vops[o].at \in {"scan", "again", "hide"}
Looked(o) == vops[o].at \in {"again", "hide"}

(* Every save stamps with a number of its own, ... *)
StampsAreOwn ==
    /\ \A o \in SaveOps : vops[o].at \in {"patch", "put"} => vops[o].id <= saves
    /\ \A o, p \in SaveOps : vops[o].at \in {"patch", "put"} /\ vops[p].at \in {"patch", "put"} /\ vops[o].id = vops[p].id => o = p
    /\ project.stamp <= saves /\ lyrics.stamp <= saves
    /\ \A o \in SaveOps : Scanned(o) => vops[o].stamp <= saves
    /\ \A o \in SaveOps : Looked(o) => vops[o].text <= saves
(* ... which nobody has seen before it is written. *)
UnwrittenIsUnseen ==
    \A o \in SaveOps :
        /\ OwesProject(o) => project.stamp # vops[o].id /\ \A r \in SaveOps : Scanned(r) => vops[r].stamp # vops[o].id
        /\ OwesLyrics(o) => lyrics.stamp # vops[o].id /\ \A r \in SaveOps : Looked(r) => vops[r].text # vops[o].id
(* Lyrics whose stamp a run still finds are as untimed as it found them;
   from its second look on the project's stamp tells, but for a whole save. *)
LooksHold ==
    \A r \in SaveOps :
        /\ vops[r].at = "again" /\ vops[r].text = lyrics.stamp => ~lyrics.timed
        /\ vops[r].at = "hide" /\ vops[r].stamp = project.stamp /\ ~vops[r].beside => ~lyrics.timed
(* A page whose version is still the project's has the lyrics there are,
   or nothing is said of it. *)
Reading(op) == op.at \in {"half", "page", "patch"}
PageHolds(page) == page.version <= project.version /\ (page.version = project.version => Seen(page))
PagesHold == \A o \in SaveOps : Reading(vops[o]) =>
    \A page \in vops[o].knew : PageHolds(page) /\ (vops[o].at = "half" => ~page.torn)
(* A project first published has its announcement claimed or under way. *)
FirstIsTold ==
    /\ told = IF project.first THEN 1 ELSE 0
    /\ project.clear /\ project.public /\ ~project.first => \E o \in SaveOps : vops[o].at = "claim"
SavesInv == SaveTypes /\ StampsAreOwn /\ UnwrittenIsUnseen /\ LooksHold /\ PagesHold /\ FirstIsTold /\ ~unseen /\ ~wronged

LEMMA SavesBegin == SavesInit => SavesInv
  <1> SUFFICES ASSUME SavesInit
               PROVE  SavesInv
    OBVIOUS
  <1>1. SaveTypes
    BY DEF SavesInit, SaveTypes, Row, Text, Handling
  <1> QED BY <1>1 DEF SavesInit, SavesInv, StampsAreOwn, UnwrittenIsUnseen, OwesProject, OwesLyrics, Scanned, Looked,
     LooksHold, PagesHold, Reading, FirstIsTold, NoSave

(* A handler that writes nothing, and goes on to what it saw. *)
LEMMA HandlerGoes ==
    ASSUME SavesInv, NEW o \in SaveOps, NEW op \in Handling,
           vops' = [vops EXCEPT ![o] = op], UNCHANGED <<project, lyrics, saves, told, unseen, wronged>>,
           vops[o].at # "claim",
           op.at \notin {"patch", "put"},
           op.at \in {"scan", "again", "hide"} => op.stamp = project.stamp \/ (Scanned(o) /\ op.stamp = vops[o].stamp),
           op.at \in {"again", "hide"} => op.text = lyrics.stamp \/ (Looked(o) /\ op.text = vops[o].text),
           op.at \in {"again", "hide"} => ~lyrics.timed,
           Reading(op) => \A page \in op.knew : PageHolds(page) /\ (op.at = "half" => ~page.torn)
    PROVE  SavesInv'
  <1> USE DEF SavesInv, Handling
  <1>1. SaveTypes' /\ vops'[o] = op /\ \A p \in SaveOps \ {o} : vops'[p] = vops[p]
    BY DEF SaveTypes
  <1>2. StampsAreOwn'
    BY <1>1 DEF StampsAreOwn, Scanned, Looked
  <1>3. UnwrittenIsUnseen'
    BY <1>1 DEF UnwrittenIsUnseen, OwesProject, OwesLyrics, Scanned, Looked
  <1>4. LooksHold'
    BY <1>1 DEF LooksHold
  <1>5. FirstIsTold'
    BY <1>1 DEF FirstIsTold
  <1>6. PagesHold'
    BY <1>1 DEF PagesHold, PageHolds, Seen, Reading
  <1> QED BY <1>1, <1>2, <1>3, <1>4, <1>5, <1>6

(* A save begins, with the next number. *)
LEMMA SaveStarts ==
    ASSUME SavesInv, NEW o \in SaveOps, NEW op \in Patches \cup Puts,
           vops' = [vops EXCEPT ![o] = op], saves' = saves + 1, UNCHANGED <<project, lyrics, told, unseen, wronged>>,
           vops[o].at \in {"idle", "page"}, op.at \in {"patch", "put"}, op.id = saves + 1,
           Reading(op) => \A page \in op.knew : PageHolds(page) /\ (op.at = "half" => ~page.torn)
    PROVE  SavesInv'
  <1> USE DEF SavesInv, Handling
  <1>1. SaveTypes' /\ vops'[o] = op /\ \A p \in SaveOps \ {o} : vops'[p] = vops[p]
    BY DEF SaveTypes
  <1>0. /\ saves \in Nat /\ project.stamp \in Nat /\ lyrics.stamp \in Nat
        /\ \A p \in SaveOps : Scanned(p) => vops[p].stamp \in Nat
        /\ \A p \in SaveOps : Looked(p) => vops[p].text \in Nat
        /\ \A p \in SaveOps : vops[p].at \in {"patch", "put"} => vops[p].id \in Nat
    BY DEF SaveTypes, Row, Text, Opens, Patches, Puts, Scans, Looks, NoSave, Scanned, Looked
  <1>2. StampsAreOwn'
    BY <1>0, <1>1 DEF StampsAreOwn, Scanned, Looked
  <1>3. UnwrittenIsUnseen'
    BY <1>0, <1>1 DEF StampsAreOwn, UnwrittenIsUnseen, OwesProject, OwesLyrics, Scanned, Looked
  <1>4. LooksHold'
    BY <1>1 DEF LooksHold
  <1>5. FirstIsTold'
    BY <1>1 DEF FirstIsTold
  <1>6. PagesHold'
    BY <1>1 DEF PagesHold, PageHolds, Seen, Reading
  <1> QED BY <1>1, <1>2, <1>3, <1>4, <1>5, <1>6

LEMMA SavesStep ==
    ASSUME SavesInv, NEW o \in SaveOps,
           \/ \E public \in Sends, timed \in Sends :
                updateProject_(o, public, timed) \/ patchProject(o, public, timed)
           \/ \E timed \in Sends \ {{}} : updateLyrics(o, timed)
           \/ openProject(o) \/ readsOther(o)
           \/ patchConflicts(o) \/ scanProject(o) \/ scanLyrics(o) \/ rereadLyrics(o)
    PROVE  SavesInv'
  <1> USE DEF SavesInv, Handling
  <1>0. saves \in Nat /\ project.stamp \in Nat /\ lyrics.stamp \in Nat
    BY DEF SaveTypes, Row, Text
  <1>1. ASSUME NEW public \in Sends, NEW timed \in Sends, updateProject_(o, public, timed)
        PROVE  SavesInv'
    <2>1. PICK todo \in SUBSET {"project", "lyrics"} : todo = {"project"} \cup (IF timed = {} THEN {} ELSE {"lyrics"})
      OBVIOUS
    <2>2. PICK op : op = [at |-> "put", id |-> saves + 1, public |-> public, timed |-> timed, todo |-> todo]
      OBVIOUS
    <2>3. op \in Puts /\ op.at = "put" /\ op.id = saves + 1
      BY <1>0, <2>2 DEF Puts
    <2> QED BY <1>1, <2>1, <2>2, <2>3, SaveStarts DEF updateProject_, VGo, Reading
  <1>2. ASSUME NEW public \in Sends, NEW timed \in Sends, patchProject(o, public, timed)
        PROVE  SavesInv'
    <2>1. PICK publishing \in BOOLEAN : publishing = (public = {TRUE} /\ ~project.public)
      OBVIOUS
    <2>6. PICK knew \in SUBSET Reads : /\ knew = IF vops[o].at = "page" THEN vops[o].knew ELSE {}
                                       /\ \A page \in knew : PageHolds(page)
      <3>1. vops[o].at = "page" => vops[o] \in Opens
        BY DEF SaveTypes, Handling, NoSave, Patches, Puts, Scans, Looks, Opens
      <3>2. PICK knew : knew = IF vops[o].at = "page" THEN vops[o].knew ELSE {}
        OBVIOUS
      <3>3. knew \in SUBSET Reads /\ \A page \in knew : PageHolds(page)
        BY <3>1, <3>2 DEF Opens, Reads, PagesHold, Reading
      <3> QED BY <3>2, <3>3
    <2>2. PICK op : op = [at |-> "patch", id |-> saves + 1, knew |-> knew,
                          public |-> public, timed |-> timed, publishing |-> publishing]
      OBVIOUS
    <2>3. op \in Patches /\ op.at = "patch" /\ op.id = saves + 1 /\ op.knew = knew
      BY <1>0, <2>2 DEF Patches
    <2>4. vops' = [vops EXCEPT ![o] = op] /\ saves' = saves + 1 /\ vops[o].at \in {"idle", "page"}
      BY <1>2, <2>1, <2>2, <2>6 DEF patchProject, VGo
    <2>5. UNCHANGED <<project, lyrics, told, unseen, wronged>>
      BY <1>2 DEF patchProject
    <2> QED BY <2>3, <2>4, <2>5, <2>6, SaveStarts
  <1>3. CASE patchConflicts(o)
    <2>1. NoSave.at = "idle"
      BY DEF NoSave
    <2> QED BY <1>3, <2>1, HandlerGoes DEF patchConflicts, VEnd, Reading
  <1>4. CASE scanProject(o)
    <2>1. PICK op : op = [at |-> "scan", stamp |-> project.stamp]
      OBVIOUS
    <2>2. op \in Scans /\ op.at = "scan" /\ op.stamp = project.stamp
      BY <1>0, <2>1 DEF Scans
    <2> QED BY <1>4, <2>1, <2>2, HandlerGoes DEF scanProject, VGo, Reading
  <1>5. CASE scanLyrics(o)
    <2>1. CASE lyrics.timed
      <3>1. NoSave.at = "idle"
        BY DEF NoSave
      <3> QED BY <1>5, <2>1, <3>1, HandlerGoes DEF scanLyrics, VEnd, Reading
    <2>2. CASE ~lyrics.timed
      <3>1. PICK op : op = [at |-> "again", stamp |-> vops[o].stamp, text |-> lyrics.stamp, beside |-> FALSE]
        OBVIOUS
      <3>2. vops[o] \in Scans /\ vops[o].at = "scan"
        BY <1>5 DEF scanLyrics, SaveTypes, Handling, Opens, NoSave, Patches, Puts, Looks, Scans
      <3>3. op \in Looks /\ op.at = "again" /\ op.stamp = vops[o].stamp /\ op.text = lyrics.stamp
        BY <1>0, <3>1, <3>2 DEF Looks, Scans
      <3>4. vops' = [vops EXCEPT ![o] = op] /\ UNCHANGED <<project, lyrics, saves, told, unseen, wronged>>
        BY <1>5, <2>2, <3>1 DEF scanLyrics, VGo
      <3> QED BY <2>2, <3>2, <3>3, <3>4, HandlerGoes DEF Scanned, Reading
    <2> QED BY <2>1, <2>2
  <1>6. CASE rereadLyrics(o)
    <2>1. CASE ~Unchanged(vops[o])
      <3>1. NoSave.at = "idle"
        BY DEF NoSave
      <3> QED BY <1>6, <2>1, <3>1, HandlerGoes DEF rereadLyrics, VEnd, Reading
    <2>2. CASE Unchanged(vops[o])
      <3>1. vops[o] \in Looks /\ vops[o].at = "again"
        BY <1>6 DEF rereadLyrics, SaveTypes, Handling, Opens, NoSave, Patches, Puts, Looks, Scans
      <3>2. PICK op : op = [vops[o] EXCEPT !.at = "hide"]
        OBVIOUS
      <3>3. op \in Looks /\ op.at = "hide" /\ op.stamp = vops[o].stamp /\ op.text = vops[o].text
        BY <3>1, <3>2 DEF Looks
      <3>4. vops' = [vops EXCEPT ![o] = op] /\ UNCHANGED <<project, lyrics, saves, told, unseen, wronged>>
        BY <1>6, <2>2, <3>2 DEF rereadLyrics, VTo
      <3>5. ~lyrics.timed
        BY <2>2, <3>1 DEF LooksHold, Unchanged
      <3> QED BY <3>1, <3>3, <3>4, <3>5, HandlerGoes DEF Scanned, Looked, Reading
    <2> QED BY <2>1, <2>2
  <1>7. ASSUME NEW timed \in Sends \ {{}}, updateLyrics(o, timed) PROVE SavesInv'
    <2>1. PICK op : op = [at |-> "put", id |-> saves + 1, public |-> {}, timed |-> timed, todo |-> {"lyrics"}]
      OBVIOUS
    <2>2. timed \in Sends /\ {} \in Sends
      BY DEF Sends
    <2>3. op \in Puts /\ op.at = "put" /\ op.id = saves + 1
      BY <1>0, <2>1, <2>2 DEF Puts
    <2> QED BY <1>7, <2>1, <2>3, SaveStarts DEF updateLyrics, VGo, Reading
  <1>8. CASE openProject(o)
    <2>1. PICK page : page = [version |-> project.version, text |-> lyrics.stamp, torn |-> FALSE]
      OBVIOUS
    <2>2. page \in Reads /\ PageHolds(page) /\ ~page.torn
      BY <1>0, <2>1 DEF Reads, PageHolds, Seen, SaveTypes, Row
    <2>3. PICK op : op = [at |-> "half", knew |-> {page}]
      OBVIOUS
    <2>4. op \in Opens /\ op.at = "half" /\ op.knew = {page}
      BY <2>1, <2>2, <2>3 DEF Opens, Reads
    <2> QED BY <1>8, <2>1, <2>2, <2>3, <2>4, HandlerGoes DEF openProject, VGo, Handling
  <1>9. CASE readsOther(o)
    <2>1. PICK old \in vops[o].knew :
            \/ VGo(o, [at |-> "page", knew |-> {[old EXCEPT !.text = lyrics.stamp]}])
            \/ VGo(o, [at |-> "page", knew |-> {[old EXCEPT !.version = project.version,
                                                          !.torn = old.version # project.version]}])
      BY <1>9 DEF readsOther
    <2>a. vops[o].at = "half"
      BY <1>9 DEF readsOther
    <2>2. vops[o] \in Opens
      BY <2>a DEF SaveTypes, NoSave, Patches, Puts, Scans, Looks, Opens
    <2>3. old \in Reads /\ PageHolds(old) /\ ~old.torn
      BY <2>1, <2>2, <2>a DEF Opens, Reads, PagesHold, Reading
    <2>4. project.version \in Nat
      BY DEF SaveTypes, Row
    <2>5. PICK torn \in BOOLEAN : torn = (old.version # project.version)
      OBVIOUS
    <2>6. PICK page : /\ page = [old EXCEPT !.text = lyrics.stamp] \/ page = [old EXCEPT !.version = project.version, !.torn = torn]
                      /\ VGo(o, [at |-> "page", knew |-> {page}])
      BY <2>1, <2>5
    <2>7. page \in Reads /\ PageHolds(page)
      <3>1. CASE page = [old EXCEPT !.text = lyrics.stamp]
        BY <1>0, <2>3, <2>4, <3>1 DEF Reads, PageHolds, Seen
      <3>2. CASE page = [old EXCEPT !.version = project.version, !.torn = torn]
        <4>1. page \in Reads /\ page.version = project.version /\ page.text = old.text /\ page.torn = torn
          BY <2>3, <2>4, <3>2 DEF Reads
        <4>2. ~torn => old.version = project.version
          BY <2>3, <2>4, <2>5 DEF Reads, PageHolds
        <4>3. Seen(page)
          BY <2>3, <4>1, <4>2 DEF Reads, PageHolds, Seen
        <4> QED BY <2>4, <4>1, <4>3 DEF PageHolds
      <3> QED BY <2>6, <3>1, <3>2
    <2>8. PICK op : op = [at |-> "page", knew |-> {page}]
      OBVIOUS
    <2>9. op \in Opens /\ op.at = "page" /\ op.knew = {page}
      BY <2>7, <2>8 DEF Opens
    <2> QED BY <1>9, <2>a, <2>6, <2>7, <2>8, <2>9, HandlerGoes DEF readsOther, VGo, Handling
  <1> QED BY <1>1, <1>2, <1>3, <1>4, <1>5, <1>6, <1>7, <1>8, <1>9
(* What a save of o, once written, leaves: stamps of its number, and
   nothing of the kind still to be written. *)
LEMMA SaveLands ==
    ASSUME SavesInv, NEW o \in SaveOps, vops[o].at \in {"patch", "put"}, NEW op \in {NoSave} \cup Patches \cup Puts,
           project' \in Row, lyrics' \in Text, saves' = saves, vops' \in [SaveOps -> Handling],
           vops'[o] = op, op.at \in {"idle", "claim", "put"},
           op.at = "put" => /\ vops[o].at = "put" /\ op.id = vops[o].id
                            /\ op.todo \subseteq vops[o].todo,
           \A p \in SaveOps \ {o} :
               /\ vops'[p].at = vops[p].at
               /\ vops[p].at \in {"patch", "put"} => vops'[p] = vops[p]
               /\ Scanned(p) => vops'[p].stamp = vops[p].stamp
               /\ Looked(p) => vops'[p].text = vops[p].text
               /\ vops[p].at = "hide" => (lyrics' # lyrics /\ project' = project => vops'[p].beside)
                                         /\ (vops[p].beside => vops'[p].beside),
           project'.stamp = project.stamp \/ (OwesProject(o) /\ project'.stamp = vops[o].id /\ (op.at = "put" => "project" \notin op.todo)),
           lyrics' = lyrics \/ (OwesLyrics(o) /\ lyrics'.stamp = vops[o].id /\ (op.at = "put" => "lyrics" \notin op.todo)),
           lyrics' # lyrics => project' = project \/ (OwesProject(o) /\ project'.stamp = vops[o].id)
    PROVE  SaveTypes' /\ StampsAreOwn' /\ UnwrittenIsUnseen' /\ LooksHold'
  <1> USE DEF SavesInv, Handling
  <1>1. SaveTypes'
    BY DEF SaveTypes
  <1>2. StampsAreOwn'
    BY DEF StampsAreOwn, Scanned, Looked
  <1>3. UnwrittenIsUnseen'
    <2> SUFFICES ASSUME NEW p \in SaveOps
                 PROVE  /\ OwesProject(p)' => project'.stamp # vops'[p].id /\ \A r \in SaveOps : Scanned(r)' => vops'[r].stamp # vops'[p].id
                        /\ OwesLyrics(p)' => lyrics'.stamp # vops'[p].id /\ \A r \in SaveOps : Looked(r)' => vops'[r].text # vops'[p].id
      BY DEF UnwrittenIsUnseen
    <2>1. \A r \in SaveOps : Scanned(r)' => Scanned(r) /\ vops'[r].stamp = vops[r].stamp
      BY DEF Scanned
    <2>2. \A r \in SaveOps : Looked(r)' => Looked(r) /\ vops'[r].text = vops[r].text
      BY DEF Looked
    <2>3. CASE p = o
      <3>1. OwesProject(p)' => OwesProject(p) /\ vops'[p].id = vops[p].id /\ project'.stamp = project.stamp
        BY <2>3 DEF OwesProject
      <3>2. OwesLyrics(p)' => OwesLyrics(p) /\ vops'[p].id = vops[p].id /\ lyrics'.stamp = lyrics.stamp
        BY <2>3 DEF OwesLyrics
      <3> QED BY <2>1, <2>2, <3>1, <3>2 DEF UnwrittenIsUnseen
    <2>4. CASE p # o
      <3>1. OwesProject(p)' => OwesProject(p) /\ vops'[p].id = vops[p].id /\ vops[p].id # vops[o].id
        BY <2>4 DEF OwesProject, StampsAreOwn
      <3>2. OwesLyrics(p)' => OwesLyrics(p) /\ vops'[p].id = vops[p].id /\ vops[p].id # vops[o].id
        BY <2>4 DEF OwesLyrics, StampsAreOwn
      <3> QED BY <2>1, <2>2, <3>1, <3>2 DEF UnwrittenIsUnseen
    <2> QED BY <2>3, <2>4
  <1>4. LooksHold'
    <2> SUFFICES ASSUME NEW r \in SaveOps
                 PROVE  /\ vops'[r].at = "again" /\ vops'[r].text = lyrics'.stamp => ~lyrics'.timed
                        /\ vops'[r].at = "hide" /\ vops'[r].stamp = project'.stamp /\ ~vops'[r].beside => ~lyrics'.timed
      BY DEF LooksHold
    <2>1. vops'[r].at \in {"again", "hide"} => r # o /\ vops[r].at = vops'[r].at /\ Scanned(r) /\ Looked(r)
      BY DEF Scanned, Looked
    <2>2. CASE vops'[r].at = "again"
      BY <2>1, <2>2 DEF LooksHold, UnwrittenIsUnseen
    <2>3. CASE vops'[r].at = "hide"
      BY <2>1, <2>3 DEF LooksHold, UnwrittenIsUnseen
    <2> QED BY <2>2, <2>3
  <1> QED BY <1>1, <1>2, <1>3, <1>4

LEMMA SaysTrue == ASSUME NEW S PROVE \E b \in BOOLEAN : b = (TRUE \in S)
  <1>1. PICK b : b = (TRUE \in S)
    OBVIOUS
  <1>2. b \in BOOLEAN
    BY <1>1
  <1> QED BY <1>1, <1>2

(* A version gone by holds no page to anything. *)
LEMMA LaterPagesHold ==
    ASSUME SavesInv, project'.version = project.version + 1, project.version \in Nat, NEW o \in SaveOps,
           ~Reading(vops'[o]), \A p \in SaveOps \ {o} : vops'[p] = vops[p]
    PROVE  PagesHold'
  <1> SUFFICES ASSUME NEW p \in SaveOps, Reading(vops'[p]), NEW page \in vops'[p].knew
               PROVE  PageHolds(page)' /\ (vops'[p].at = "half" => ~page.torn)
    BY DEF PagesHold
  <1>1. Reading(vops[p]) /\ page \in vops[p].knew /\ vops'[p] = vops[p]
    OBVIOUS
  <1>2. vops[p] \in Opens \cup Patches
    BY <1>1 DEF SavesInv, SaveTypes, Handling, NoSave, Puts, Scans, Looks, Opens, Patches, Reading
  <1>3. page.version \in Nat /\ page.version <= project.version
    BY <1>1, <1>2 DEF Opens, Patches, Reads, SavesInv, PagesHold, PageHolds
  <1> QED BY <1>1, <1>3 DEF PageHolds, SavesInv, PagesHold

LEMMA PatchLands == ASSUME SavesInv, NEW o \in SaveOps, writePatch(o) PROVE SavesInv'
  <1> USE DEF SavesInv, Handling
  <1>1. PICK sv : sv = vops[o]
    OBVIOUS
  <1>2. sv \in Patches /\ sv.at = "patch"
    BY <1>1 DEF writePatch, SaveTypes, Handling, Opens, NoSave, Puts, Scans, Looks, Patches
  <1>3. PICK text \in BOOLEAN : text = (sv.timed # {})
    OBVIOUS
  <1>4. PICK stamp : stamp = IF text THEN sv.id ELSE project.stamp
    OBVIOUS
  <1>5. PICK public \in BOOLEAN : public = IF sv.public = {} THEN project.public ELSE TRUE \in sv.public
    <2>1. PICK said \in BOOLEAN : said = (TRUE \in sv.public)
      BY SaysTrue
    <2>2. project.public \in BOOLEAN
      BY DEF SaveTypes, Row
    <2> QED BY <2>1, <2>2
  <1>6. PICK clear \in BOOLEAN : clear = IF sv.public = {TRUE} /\ ~sv.publishing /\ ~project.public THEN FALSE ELSE project.clear
    BY DEF SaveTypes, Row
  <1>7. project' = [project EXCEPT !.version = project.version + 1, !.stamp = stamp, !.public = public, !.clear = clear]
    BY <1>1, <1>3, <1>4, <1>5, <1>6 DEF writePatch
  <1>8. project \in Row /\ stamp \in Nat /\ project.version + 1 \in Nat
    BY <1>2, <1>4 DEF SaveTypes, Row, Patches
  <1>9. project' \in Row /\ project'.stamp = stamp /\ project'.public = public /\ project'.clear = clear /\ project'.first = project.first
    BY <1>7, <1>8 DEF Row
  <1>10. PICK timed \in BOOLEAN : timed = (TRUE \in sv.timed)
    BY SaysTrue
  <1>11. lyrics' = IF text THEN [stamp |-> sv.id, timed |-> timed, apart |-> FALSE] ELSE lyrics
    BY <1>1, <1>3, <1>10 DEF writePatch
  <1>12. lyrics' \in Text /\ (text => lyrics'.stamp = sv.id)
    BY <1>2, <1>11 DEF SaveTypes, Text, Patches
  <1>13. PICK op : op = IF sv.publishing THEN [sv EXCEPT !.at = "claim"] ELSE NoSave
    OBVIOUS
  <1>14. vops' = [vops EXCEPT ![o] = op]
    BY <1>1, <1>13 DEF writePatch, VTo, VEnd
  <1>15. op \in {NoSave} \cup Patches /\ op.at = IF sv.publishing THEN "claim" ELSE "idle"
    BY <1>2, <1>13 DEF Patches, NoSave
  <1>16. vops'[o] = op /\ (\A p \in SaveOps \ {o} : vops'[p] = vops[p])
         /\ vops' \in [SaveOps -> Handling]
    BY <1>14, <1>15 DEF SaveTypes
  <1>17. ~unseen'
    <2>1. \A page \in sv.knew : page.version = project.version
      BY <1>1 DEF writePatch, Matches
    <2>2. \A page \in sv.knew : Seen(page)
      BY <1>1, <1>2, <2>1 DEF PagesHold, PageHolds, Reading
    <2>3. unseen' = (unseen \/ (sv.timed # {} /\ \E page \in sv.knew : ~Seen(page)))
      BY <1>1 DEF writePatch
    <2> QED BY <2>2, <2>3
  <1>18. SaveTypes' /\ StampsAreOwn' /\ UnwrittenIsUnseen' /\ LooksHold'
    <2>1. lyrics' = lyrics \/ (OwesLyrics(o) /\ lyrics'.stamp = vops[o].id)
      BY <1>1, <1>2, <1>11, <1>12 DEF OwesLyrics
    <2>2. project'.stamp = project.stamp \/ (OwesProject(o) /\ project'.stamp = vops[o].id)
      BY <1>1, <1>2, <1>4, <1>9 DEF OwesProject
    <2>3. lyrics' # lyrics => project'.stamp = vops[o].id
      BY <1>1, <1>4, <1>9, <1>11
    <2>4. \A p \in SaveOps \ {o} : vops[p].at = "hide" => (lyrics' # lyrics /\ project' = project => vops'[p].beside)
      <3>1. OwesProject(o) /\ project.stamp # vops[o].id
        BY <1>1, <1>2 DEF OwesProject, UnwrittenIsUnseen
      <3> QED BY <2>3, <3>1
    <2>5. op.at \in {"idle", "claim"} /\ saves' = saves /\ vops[o].at \in {"patch", "put"}
      BY <1>1, <1>2, <1>15 DEF writePatch
    <2>6. lyrics' # lyrics => OwesProject(o) /\ project'.stamp = vops[o].id
      BY <1>1, <1>2, <2>3 DEF OwesProject
    <2>7. op \in {NoSave} \cup Patches \cup Puts
      BY <1>15
    <2> QED BY <1>9, <1>12, <1>16, <2>1, <2>2, <2>4, <2>5, <2>6, <2>7, SaveLands
  <1>19. FirstIsTold'
    <2>1. sv.public \in Sends /\ (sv.publishing => op.at = "claim")
      BY <1>2, <1>15 DEF Patches
    <2>2. project'.clear /\ project'.public => sv.publishing \/ (project.clear /\ project.public)
      BY <1>5, <1>6, <1>9, <2>1 DEF Sends
    <2>3. \A p \in SaveOps : vops[p].at = "claim" => vops'[p].at = "claim"
      BY <1>1, <1>2, <1>16
    <2>4. project'.first = project.first /\ told' = told
      BY <1>9 DEF writePatch
    <2> QED BY <1>16, <2>1, <2>2, <2>3, <2>4 DEF FirstIsTold
  <1>20. PagesHold'
    BY <1>7, <1>8, <1>15, <1>16, LaterPagesHold DEF Row, Reading
  <1> QED BY <1>17, <1>18, <1>19, <1>20 DEF writePatch

LEMMA PutsLand == ASSUME SavesInv, NEW o \in SaveOps, putProject(o) \/ putLyrics(o) PROVE SavesInv'
  <1> USE DEF SavesInv, Handling
  <1>1. PICK sv : sv = vops[o]
    OBVIOUS
  <1>2. sv \in Puts /\ sv.at = "put"
    <2>1. sv.at = "put"
      BY <1>1 DEF putProject, putLyrics
    <2> QED BY <1>1, <2>1 DEF SaveTypes, Handling, Opens, NoSave, Patches, Puts, Scans, Looks
  <1>3. CASE putProject(o)
    <2>1. PICK stamp : stamp = IF sv.timed # {} THEN sv.id ELSE project.stamp
      OBVIOUS
    <2>2. PICK public \in BOOLEAN : public = IF sv.public = {} THEN project.public ELSE TRUE \in sv.public
      <3>1. PICK said \in BOOLEAN : said = (TRUE \in sv.public)
        BY SaysTrue
      <3>2. project.public \in BOOLEAN
        BY DEF SaveTypes, Row
      <3> QED BY <3>1, <3>2
    <2>3. PICK clear \in BOOLEAN : clear = IF sv.public = {TRUE} THEN FALSE ELSE project.clear
      BY DEF SaveTypes, Row
    <2>4. project' = [project EXCEPT !.version = project.version + 1, !.stamp = stamp, !.public = public, !.clear = clear]
      BY <1>1, <1>3, <2>1, <2>2, <2>3 DEF putProject
    <2>5. project \in Row /\ stamp \in Nat /\ project.version + 1 \in Nat
      BY <1>2, <2>1 DEF SaveTypes, Row, Puts
    <2>6. project' \in Row /\ project'.stamp = stamp /\ project'.public = public /\ project'.clear = clear /\ project'.first = project.first
      BY <2>4, <2>5 DEF Row
    <2>7. PICK op : op = IF sv.todo = {"project"} THEN NoSave ELSE [sv EXCEPT !.todo = {"lyrics"}]
      OBVIOUS
    <2>8. vops' = [vops EXCEPT ![o] = op]
      BY <1>1, <1>3, <2>7 DEF putProject, VEnd
    <2>9. op \in {NoSave} \cup Puts /\ op.at \in {"idle", "put"} /\ (op.at = "put" => op.id = sv.id /\ op.todo = {"lyrics"} /\ sv.todo # {"project"})
      BY <1>2, <2>7 DEF Puts, NoSave
    <2>10. "project" \in sv.todo /\ sv.todo \in SUBSET {"project", "lyrics"}
      BY <1>1, <1>2, <1>3 DEF putProject, Puts
    <2>11. vops'[o] = op /\ (\A p \in SaveOps \ {o} : vops'[p] = vops[p])
           /\ vops' \in [SaveOps -> Handling]
      BY <2>8, <2>9 DEF SaveTypes
    <2>12. SaveTypes' /\ StampsAreOwn' /\ UnwrittenIsUnseen' /\ LooksHold'
      <3>1. project'.stamp = project.stamp \/ (OwesProject(o) /\ project'.stamp = vops[o].id /\ (op.at = "put" => "project" \notin op.todo))
        BY <1>1, <1>2, <2>1, <2>6, <2>9, <2>10 DEF OwesProject
      <3>2. op.at = "put" => vops[o].at = "put" /\ op.id = vops[o].id /\ op.todo \subseteq vops[o].todo
        BY <1>1, <1>2, <2>9, <2>10
      <3>3. lyrics' = lyrics /\ lyrics' \in Text /\ saves' = saves /\ vops[o].at \in {"patch", "put"}
        BY <1>1, <1>2, <1>3 DEF putProject, SaveTypes
      <3>4. op \in {NoSave} \cup Patches \cup Puts /\ op.at \in {"idle", "claim", "put"}
        BY <2>9
      <3> QED BY <2>6, <2>11, <3>1, <3>2, <3>3, <3>4, SaveLands
    <2>13. FirstIsTold'
      <3>1. sv.public \in Sends
        BY <1>2 DEF Puts
      <3>2. project'.clear /\ project'.public => project.clear /\ project.public
        BY <2>2, <2>3, <2>6, <3>1 DEF Sends
      <3>3. \A p \in SaveOps : vops[p].at = "claim" => vops'[p].at = "claim"
        BY <1>1, <1>2, <2>11
      <3>4. told' = told
        BY <1>3 DEF putProject
      <3> QED BY <2>6, <3>2, <3>3, <3>4 DEF FirstIsTold
    <2>14. PagesHold'
      BY <2>4, <2>5, <2>9, <2>11, LaterPagesHold DEF Row, Reading
    <2> QED BY <1>3, <2>12, <2>13, <2>14 DEF putProject
  <1>4. CASE putLyrics(o)
    <2>1. PICK timed \in BOOLEAN : timed = (TRUE \in sv.timed)
      BY SaysTrue
    <2>2. lyrics' = [stamp |-> sv.id, timed |-> timed, apart |-> TRUE]
      BY <1>1, <1>4, <2>1 DEF putLyrics
    <2>3. lyrics' \in Text /\ lyrics'.stamp = sv.id
      BY <1>2, <2>2 DEF Text, Puts
    <2>4. PICK op : op = IF sv.todo = {"lyrics"} THEN NoSave ELSE [sv EXCEPT !.todo = sv.todo \ {"lyrics"}]
      OBVIOUS
    <2>5. op \in {NoSave} \cup Puts /\ op.at \in {"idle", "put"} /\ (op.at = "put" => op.id = sv.id /\ op.todo = sv.todo \ {"lyrics"})
      BY <1>2, <2>4 DEF Puts, NoSave
    <2>6. "lyrics" \in sv.todo
      BY <1>1, <1>4 DEF putLyrics
    <2>7. vops' = [q \in SaveOps |-> IF q = o THEN op
                                     ELSE IF vops[q].at = "hide" THEN [vops[q] EXCEPT !.beside = TRUE] ELSE vops[q]]
      BY <1>1, <1>4, <2>4 DEF putLyrics
    <2>8. vops'[o] = op
      BY <2>7
    <2>9. ASSUME NEW p \in SaveOps \ {o}
          PROVE  /\ vops'[p] \in Handling
                 /\ vops'[p].at = vops[p].at
                 /\ vops[p].at \in {"patch", "put"} => vops'[p] = vops[p]
                 /\ Scanned(p) => vops'[p].stamp = vops[p].stamp
                 /\ Looked(p) => vops'[p].text = vops[p].text
                 /\ vops[p].at = "hide" => vops'[p].beside
      <3>1. CASE vops[p].at # "hide"
        BY <2>7, <2>9, <3>1 DEF SaveTypes
      <3>2. CASE vops[p].at = "hide"
        <4>1. vops[p] \in Looks
          BY <2>9, <3>2 DEF SaveTypes, Handling, Opens, NoSave, Patches, Puts, Scans, Looks
        <4>2. vops'[p] = [vops[p] EXCEPT !.beside = TRUE]
          BY <2>7, <2>9, <3>2
        <4>3. vops'[p] \in Looks /\ vops'[p].at = vops[p].at /\ vops'[p].stamp = vops[p].stamp /\ vops'[p].text = vops[p].text /\ vops'[p].beside = TRUE
          BY <4>1, <4>2 DEF Looks
        <4> QED BY <3>2, <4>3
      <3> QED BY <3>1, <3>2
    <2>10. vops' \in [SaveOps -> Handling]
      BY <2>5, <2>7, <2>8, <2>9
    <2>11. SaveTypes' /\ StampsAreOwn' /\ UnwrittenIsUnseen' /\ LooksHold'
      <3>1. OwesLyrics(o) /\ lyrics'.stamp = vops[o].id /\ (op.at = "put" => "lyrics" \notin op.todo)
        BY <1>1, <1>2, <2>3, <2>5, <2>6 DEF OwesLyrics
      <3>2. op.at = "put" => vops[o].at = "put" /\ op.id = vops[o].id /\ op.todo \subseteq vops[o].todo
        BY <1>1, <1>2, <2>5
      <3>3. project' = project /\ project' \in Row /\ saves' = saves /\ vops[o].at \in {"patch", "put"}
        BY <1>1, <1>2, <1>4 DEF putLyrics, SaveTypes
      <3>4. op \in {NoSave} \cup Patches \cup Puts /\ op.at \in {"idle", "claim", "put"}
        BY <2>5
      <3> QED BY <2>3, <2>8, <2>9, <2>10, <3>1, <3>2, <3>3, <3>4, SaveLands
    <2>12. FirstIsTold'
      <3>1. \A p \in SaveOps : vops[p].at = "claim" => vops'[p].at = "claim"
        BY <1>1, <1>2, <2>9
      <3> QED BY <1>4, <3>1 DEF putLyrics, FirstIsTold
    <2>13. PagesHold'
      <3>1. \A p \in SaveOps : Reading(vops'[p]) => p # o /\ vops[p].at = vops'[p].at /\ vops'[p] = vops[p]
        BY <2>5, <2>7, <2>8, <2>9 DEF Reading
      <3>2. project' = project /\ lyrics'.apart
        BY <1>4, <2>2 DEF putLyrics
      <3> QED BY <3>1, <3>2 DEF PagesHold, PageHolds, Seen
    <2> QED BY <1>4, <2>11, <2>12, <2>13 DEF putLyrics
  <1> QED BY <1>3, <1>4

LEMMA ClaimsAndRunsEnd == ASSUME SavesInv, NEW o \in SaveOps, claimFirstPublish(o) \/ privatize(o) PROVE SavesInv'
  <1> USE DEF SavesInv, Handling
  <1>1. vops' = [vops EXCEPT ![o] = NoSave] /\ NoSave.at = "idle" /\ vops[o].at \in {"claim", "hide"}
        /\ lyrics' = lyrics /\ saves' = saves /\ unseen' = unseen
    BY DEF claimFirstPublish, privatize, VEnd, NoSave
  <1>2. vops'[o] = NoSave /\ \A p \in SaveOps \ {o} : vops'[p] = vops[p]
    BY <1>1 DEF SaveTypes
  <1>3. project' \in Row /\ project'.stamp = project.stamp
    <2>1. project \in Row
      BY DEF SaveTypes
    <2>2. project' \in {project, [project EXCEPT !.first = TRUE], [project EXCEPT !.public = FALSE]}
      BY DEF claimFirstPublish, privatize
    <2> QED BY <2>1, <2>2 DEF Row
  <1>4. SaveTypes'
    BY <1>1, <1>3 DEF SaveTypes
  <1>5. StampsAreOwn' /\ LooksHold'
    BY <1>1, <1>2, <1>3 DEF StampsAreOwn, LooksHold, Scanned, Looked
  <1>6. UnwrittenIsUnseen'
    BY <1>1, <1>2, <1>3 DEF UnwrittenIsUnseen, OwesProject, OwesLyrics, Scanned, Looked
  <1>7. ~wronged' /\ FirstIsTold'
    <2>1. CASE claimFirstPublish(o)
      <3>1. project'.first /\ told' = 1
        BY <2>1 DEF claimFirstPublish, FirstPublish, FirstIsTold, SaveTypes, Row
      <3> QED BY <2>1, <3>1 DEF claimFirstPublish, FirstIsTold
    <2>2. CASE privatize(o)
      <3>1. ~wronged'
        BY <2>2 DEF privatize, LooksHold
      <3>2. project \in Row /\ project' \in {project, [project EXCEPT !.public = FALSE]} /\ told' = told
        BY <2>2 DEF privatize, SaveTypes
      <3>3. project'.first = project.first /\ project'.clear = project.clear /\ (project'.public => project.public)
        BY <3>2 DEF Row
      <3>4. \A p \in SaveOps : vops[p].at = "claim" => vops'[p].at = "claim"
        BY <1>2, <2>2 DEF privatize
      <3> QED BY <3>1, <3>2, <3>3, <3>4 DEF FirstIsTold
    <2> QED BY <2>1, <2>2
  <1>8. PagesHold'
    <2>1. project'.version = project.version
      <3>1. project' \in {project, [project EXCEPT !.first = TRUE], [project EXCEPT !.public = FALSE]} /\ project \in Row
        BY DEF claimFirstPublish, privatize, SaveTypes
      <3> QED BY <3>1 DEF Row
    <2> QED BY <1>1, <1>2, <2>1 DEF PagesHold, PageHolds, Seen, Reading
  <1> QED BY <1>1, <1>4, <1>5, <1>6, <1>7, <1>8

(* For any number of handlers and saves: the first publication is told
   once; a save sent with a version replaces only lyrics its page had, but
   for those written apart from the project and for a torn page; and the
   run makes no project private whose lyrics have been timed meanwhile
   (patchProject, updateProject, updateLyrics, privatizeIncomplete). *)
THEOREM SavesAreHonest == SavesSpec => []SavesHonest
  <1>1. SavesInit => SavesInv
    BY SavesBegin
  <1>2. SavesInv /\ [SavesNext]_savesVars => SavesInv'
    <2> SUFFICES ASSUME SavesInv, [SavesNext]_savesVars
                 PROVE  SavesInv'
      OBVIOUS
    <2>1. CASE UNCHANGED savesVars
      BY <2>1 DEF savesVars, SavesInv, SaveTypes, StampsAreOwn, UnwrittenIsUnseen, OwesProject, OwesLyrics, Scanned, Looked,
         LooksHold, PagesHold, PageHolds, Seen, Reading, FirstIsTold
    <2> QED BY <2>1, SavesStep, PatchLands, PutsLand, ClaimsAndRunsEnd DEF SavesNext
  <1>3. SavesInv => SavesHonest
    BY DEF SavesInv, FirstIsTold, SavesHonest, Working
  <1> QED BY <1>1, <1>2, <1>3, PTL DEF SavesSpec

-----------------------------------------------------------------------------
(* The standing of an account. *)
Flags == {f \in [active : BOOLEAN, listed : BOOLEAN] : f.listed => f.active}
Blocking == [at : {"blocking"}, term : {"open", "running"}, nets : SUBSET Networks]
Unblocking == [at : {"unblocking"}, nets : SUBSET Networks]
Setting == [at : {"set"}, what : {"shadow", "unshadow", "delete", "reactivate", "reject"}]
Lapsing == [at : {"lapse"}, id : 0 .. MaxBans]
Creating == [at : {"create"}, item : Items, flags : Flags]
Applying == [at : {"apply"}, flags : Flags, items : SUBSET Items]
Simple == [at : {"idle", "sync", "appeal"}]
Handler == Simple \cup Blocking \cup Unblocking \cup Setting \cup Lapsing \cup Creating \cup Applying
StandingTypes == TypeOK /\ ops \in [Ops -> Handler] /\ overlapped \in BOOLEAN /\ lateAppeal \in BOOLEAN

(* A request that found a ban to be over found that ban. *)
LapsesKnown ==
    \A o \in Ops : At(o, "lapse") =>
        /\ ops[o].id <= account.ban.id
        /\ ops[o].id = account.ban.id /\ account.ban.active => account.ban.term = "over"

(* A handler under way that will bring the content where the account is. *)
Syncing(op) ==
    \/ op.at \in {"blocking", "unblocking", "lapse", "sync", "apply"}
    \/ op.at = "set" /\ op.what # "reject"
Standing == computeOwnerVisibility(account)
Settled(i) == content[i].exists => content[i] = Stamped(Standing)
SettlesAlone ==
    ~overlapped =>
        /\ \A o, p \in Ops : ops[o].at # "idle" /\ ops[p].at # "idle" => o = p
        /\ (\A o \in Ops : ~Syncing(ops[o])) => \A i \in Items : Settled(i)
        /\ \A o \in Ops : ops[o].at \in {"create", "apply"} => ops[o].flags = Standing
        /\ \A o \in Ops : ops[o].at = "apply" => \A i \in Items \ ops[o].items : Settled(i)
StandingInv == StandingTypes /\ AppealsOfBans /\ LapsesKnown /\ SettlesAlone

LEMMA HandlerKinds ==
    ASSUME NEW op \in Handler
    PROVE  /\ op.at \in {"idle", "sync", "appeal", "blocking", "unblocking", "set", "lapse", "create", "apply"}
           /\ op.at = "idle" => op = Idle
           /\ op.at = "blocking" => op \in Blocking
           /\ op.at = "unblocking" => op \in Unblocking
           /\ op.at = "set" => op \in Setting
           /\ op.at = "lapse" => op \in Lapsing
           /\ op.at = "create" => op \in Creating
           /\ op.at = "apply" => op \in Applying
  BY DEF Handler, Simple, Blocking, Unblocking, Setting, Lapsing, Creating, Applying, Idle

LEMMA AlwaysFlags ==
    ASSUME StandingTypes
    PROVE  Standing \in Flags
  <1>1. PICK a \in BOOLEAN : a = (~account.deleted /\ ~account.ban.active)
    OBVIOUS
  <1>2. PICK l \in BOOLEAN : l = (a /\ ~account.shadow)
    OBVIOUS
  <1>3. Standing = [active |-> a, listed |-> l]
    BY <1>1, <1>2 DEF Standing, computeOwnerVisibility
  <1> QED BY <1>2, <1>3 DEF Flags

Document == [ban : [active : BOOLEAN, id : 0 .. MaxBans, term : {"none", "open", "running", "over"}],
             shadow : BOOLEAN, deleted : BOOLEAN, appeal : {"none", "pending", "rejected"}]

LEMMA StandingBegins == Init => StandingInv
  <1> SUFFICES ASSUME Init
               PROVE  StandingInv
    OBVIOUS
  <1>1. Idle \in Handler
    BY DEF Idle, Handler, Simple
  <1>2. account \in Document
    BY BansAssumption DEF Init, NoBan, Document
  <1>3. StandingTypes
    BY <1>1, <1>2 DEF Init, StandingTypes, TypeOK, Absent, Document
  <1>4. AppealsOfBans
    BY DEF Init, AppealsOfBans
  <1>5. LapsesKnown /\ SettlesAlone
    BY DEF Init, LapsesKnown, At, SettlesAlone, Settled, Absent, Idle
  <1> QED BY <1>3, <1>4, <1>5 DEF StandingInv

(* A handler begins, having read the account as it is. *)
LEMMA StartKeeps ==
    ASSUME StandingInv, NEW o \in Ops, NEW op \in Handler, NEW syncs \in BOOLEAN, Start(o, op, syncs),
           op.at # "apply", op.at # "idle", syncs <=> Syncing(op),
           op.at = "create" => op.flags = Standing,
           op.at = "lapse" => op.id = account.ban.id /\ account.ban.term = "over",
           UNCHANGED <<account, content, blocks, lateAppeal>>
    PROVE  StandingInv'
  <1>1. /\ ops' \in [Ops -> Handler] /\ ops'[o] = op /\ \A p \in Ops \ {o} : ops'[p] = ops[p]
        /\ ops[o] = Idle
    BY DEF Start, StandingInv, StandingTypes
  <1>2. StandingTypes'
    BY <1>1 DEF Start, StandingInv, StandingTypes, TypeOK
  <1>3. AppealsOfBans'
    BY DEF StandingInv, AppealsOfBans
  <1>4. LapsesKnown'
    BY <1>1 DEF StandingInv, LapsesKnown, At, StandingTypes, TypeOK
  <1>5. SettlesAlone'
    <2> SUFFICES ASSUME ~overlapped'
                 PROVE  SettlesAlone'
      BY DEF SettlesAlone
    <2>1. Quiet /\ (~overlapped \/ syncs)
      BY DEF Start
    <2>2. \A p \in Ops : p # o => ops'[p] = Idle
      BY <1>1, <2>1 DEF Quiet
    <2>3. Standing' = Standing
      BY DEF Standing
    <2>4. \A p, q \in Ops : ops'[p].at # "idle" /\ ops'[q].at # "idle" => p = q
      BY <2>2 DEF Idle
    <2>5. \A p \in Ops : ops'[p].at \in {"create", "apply"} => ops'[p].flags = Standing'
      BY <1>1, <2>2, <2>3 DEF Idle
    <2>6. \A p \in Ops : ops'[p].at # "apply"
      BY <1>1, <2>2 DEF Idle
    <2>7. (\A p \in Ops : ~Syncing(ops'[p])) => \A i \in Items : Settled(i)'
      <3> SUFFICES ASSUME \A p \in Ops : ~Syncing(ops'[p]), NEW i \in Items
                   PROVE  Settled(i)'
        OBVIOUS
      <3>1. ~Syncing(op) /\ ~overlapped
        BY <1>1, <2>1
      <3>2. \A p \in Ops : ~Syncing(ops[p])
        BY <2>1 DEF Quiet, Syncing, Idle
      <3> QED BY <2>3, <3>1, <3>2 DEF StandingInv, SettlesAlone, Settled
    <2> QED BY <2>4, <2>5, <2>6, <2>7 DEF SettlesAlone
  <1> QED BY <1>2, <1>3, <1>4, <1>5 DEF StandingInv

(* A handler writes the account, and then its content. *)
LEMMA WriteKeeps ==
    ASSUME StandingInv, NEW o \in Ops, NEW op \in Handler, ops' = [ops EXCEPT ![o] = op],
           ops[o].at # "idle",
           op.at \notin {"create", "apply", "lapse"},
           ~overlapped' => ~overlapped /\ (Syncing(ops[o]) => Syncing(op)),
           ~Syncing(ops[o]) => Standing' = Standing,
           account' \in Document, account'.ban.id >= account.ban.id,
           account'.ban.id = account.ban.id /\ account'.ban.active => account'.ban = account.ban,
           AppealsOfBans', overlapped' \in BOOLEAN, lateAppeal' \in BOOLEAN,
           blocks' \in [Networks -> {"none", "user", "staff"}],
           UNCHANGED content
    PROVE  StandingInv'
  <1>1. ops' \in [Ops -> Handler] /\ ops'[o] = op /\ \A p \in Ops \ {o} : ops'[p] = ops[p]
    BY DEF StandingInv, StandingTypes
  <1>2. StandingTypes'
    BY <1>1 DEF StandingInv, StandingTypes, TypeOK, Document
  <1>3. LapsesKnown'
    <2> SUFFICES ASSUME NEW p \in Ops, At(p, "lapse")'
                 PROVE  /\ ops'[p].id <= account'.ban.id
                        /\ ops'[p].id = account'.ban.id /\ account'.ban.active => account'.ban.term = "over"
      BY DEF LapsesKnown
    <2>1. p # o /\ ops'[p] = ops[p] /\ ops[p].at = "lapse"
      BY <1>1 DEF At
    <2>2. ops[p] \in Lapsing
      BY <2>1, HandlerKinds DEF StandingInv, StandingTypes
    <2>3. ops[p].id \in Nat /\ account.ban.id \in Nat /\ account'.ban.id \in Nat
      BY <2>2, BansAssumption DEF StandingInv, StandingTypes, TypeOK, Lapsing, Document
    <2>4. ops[p].id <= account.ban.id
      BY <2>1 DEF StandingInv, LapsesKnown, At
    <2>5. ops[p].id = account.ban.id /\ account.ban.active => account.ban.term = "over"
      BY <2>1 DEF StandingInv, LapsesKnown, At
    <2> QED BY <2>1, <2>3, <2>4, <2>5
  <1>4. SettlesAlone'
    <2> SUFFICES ASSUME ~overlapped'
                 PROVE  SettlesAlone'
      BY DEF SettlesAlone
    <2>1. /\ \A p, q \in Ops : ops[p].at # "idle" /\ ops[q].at # "idle" => p = q
          /\ (\A p \in Ops : ~Syncing(ops[p])) => \A i \in Items : Settled(i)
      BY DEF StandingInv, SettlesAlone
    <2>2. \A p \in Ops : p # o => ops[p].at = "idle" /\ ops'[p].at = "idle"
      BY <1>1, <2>1
    <2>3. \A p, q \in Ops : ops'[p].at # "idle" /\ ops'[q].at # "idle" => p = q
      BY <2>2
    <2>4. \A p \in Ops : ops'[p].at \notin {"create", "apply"}
      BY <1>1, <2>2
    <2>5. (\A p \in Ops : ~Syncing(ops'[p])) => \A i \in Items : Settled(i)'
      <3> SUFFICES ASSUME \A p \in Ops : ~Syncing(ops'[p]), NEW i \in Items
                   PROVE  Settled(i)'
        OBVIOUS
      <3>1. ~Syncing(ops[o])
        BY <1>1
      <3>2. \A p \in Ops : ~Syncing(ops[p])
        BY <2>2, <3>1 DEF Syncing
      <3> QED BY <2>1, <3>1, <3>2 DEF Settled
    <2> QED BY <2>3, <2>4, <2>5 DEF SettlesAlone
  <1> QED BY <1>2, <1>3, <1>4 DEF StandingInv

(* A handler that writes blocks only, or nothing. *)
LEMMA NoWriteKeeps ==
    ASSUME StandingInv, NEW o \in Ops, NEW op \in Handler, ops' = [ops EXCEPT ![o] = op],
           ops[o].at # "idle", Syncing(ops[o]) => Syncing(op), op.at \notin {"create", "apply", "lapse"},
           blocks' \in [Networks -> {"none", "user", "staff"}],
           UNCHANGED <<account, content, overlapped, lateAppeal>>
    PROVE  StandingInv'
  <1>1. account' \in Document /\ account'.ban.id >= account.ban.id
    BY BansAssumption DEF StandingInv, StandingTypes, TypeOK, Document
  <1>2. AppealsOfBans' /\ Standing' = Standing
    BY DEF StandingInv, AppealsOfBans, Standing
  <1>3. overlapped' \in BOOLEAN /\ lateAppeal' \in BOOLEAN
    BY DEF StandingInv, StandingTypes
  <1> QED BY <1>1, <1>2, <1>3, WriteKeeps

(* What ends a ban ends its appeal. *)
Ended(u) ==
    /\ u.ban = Lifted(account.ban) /\ u.appeal = "none" /\ u.shadow = account.shadow /\ u.deleted \in BOOLEAN
    /\ u \in Document

LEMMA EndedDocs ==
    ASSUME StandingInv
    PROVE  /\ Ended([account EXCEPT !.ban = Lifted(@), !.appeal = "none"])
           /\ Ended([account EXCEPT !.deleted = TRUE, !.ban = Lifted(@), !.appeal = "none"])
  <1>1. account \in Document
    BY DEF StandingInv, StandingTypes, TypeOK, Document
  <1>2. PICK b : b = Lifted(account.ban)
    OBVIOUS
  <1>3. b \in [active : BOOLEAN, id : 0 .. MaxBans, term : {"none", "open", "running", "over"}]
    BY <1>1, <1>2 DEF Lifted, Document
  <1>4. PICK u : u = [account EXCEPT !.ban = b, !.appeal = "none"]
    OBVIOUS
  <1>5. u \in Document /\ u.ban = b /\ u.appeal = "none" /\ u.shadow = account.shadow /\ u.deleted \in BOOLEAN
    BY <1>1, <1>3, <1>4 DEF Document
  <1>6. PICK w : w = [account EXCEPT !.deleted = TRUE, !.ban = b, !.appeal = "none"]
    OBVIOUS
  <1>7. w \in Document /\ w.ban = b /\ w.appeal = "none" /\ w.shadow = account.shadow /\ w.deleted \in BOOLEAN
    BY <1>1, <1>3, <1>6 DEF Document
  <1> QED BY <1>2, <1>4, <1>5, <1>6, <1>7 DEF Ended

LEMMA EndKeeps ==
    ASSUME StandingInv, NEW o \in Ops, NEW op \in Handler, ops' = [ops EXCEPT ![o] = op],
           Syncing(ops[o]), ops[o].at # "idle", Ended(account'), op.at \in {"idle", "sync"},
           overlapped' \in BOOLEAN, ~overlapped' => ~overlapped /\ op.at = "sync",
           UNCHANGED <<content, blocks, lateAppeal>>
    PROVE  StandingInv'
  <1>1. /\ account' \in Document /\ ~account'.ban.active /\ account'.ban.id = account.ban.id
        /\ account'.appeal = "none"
    BY DEF Ended, Lifted
  <1>2. account'.ban.id >= account.ban.id
    BY <1>1, BansAssumption DEF StandingInv, StandingTypes, TypeOK
  <1>3. AppealsOfBans'
    BY <1>1 DEF AppealsOfBans
  <1>4. lateAppeal' \in BOOLEAN /\ blocks' \in [Networks -> {"none", "user", "staff"}]
    BY DEF StandingInv, StandingTypes, TypeOK
  <1>5. Syncing(ops[o]) => (op.at = "sync" => Syncing(op))
    BY DEF Syncing
  <1> QED BY <1>1, <1>2, <1>3, <1>4, <1>5, WriteKeeps

LEMMA BanKeeps ==
    ASSUME StandingInv, NEW o \in Ops, blockForBan(o)
    PROVE  StandingInv'
  <1>1. ops[o] \in Blocking /\ ops[o].at = "blocking" /\ Syncing(ops[o])
    BY HandlerKinds DEF blockForBan, At, StandingInv, StandingTypes, Syncing
  <1>2. CASE \E n \in ops[o].nets :
               /\ blocks' = [blocks EXCEPT ![n] = "user"]
               /\ ops' = [ops EXCEPT ![o].nets = @ \ {n}]
               /\ UNCHANGED account
    <2>1. PICK n \in ops[o].nets :
               /\ blocks' = [blocks EXCEPT ![n] = "user"]
               /\ ops' = [ops EXCEPT ![o].nets = @ \ {n}]
               /\ UNCHANGED account
      BY <1>2
    <2>2. PICK op : op = [ops[o] EXCEPT !.nets = ops[o].nets \ {n}]
      OBVIOUS
    <2>3. op \in Blocking /\ op.at = "blocking"
      BY <1>1, <2>2 DEF Blocking
    <2>4. op \in Handler /\ Syncing(op)
      BY <2>3 DEF Handler, Syncing
    <2>5. blocks' \in [Networks -> {"none", "user", "staff"}]
      BY <2>1 DEF StandingInv, StandingTypes, TypeOK
    <2>6. ops' = [ops EXCEPT ![o] = op]
      BY <2>1, <2>2
    <2>7. UNCHANGED <<account, content, overlapped, lateAppeal>>
      BY <2>1 DEF blockForBan
    <2> QED BY <1>1, <2>3, <2>4, <2>5, <2>6, <2>7, NoWriteKeeps
  <1>3. CASE /\ ops[o].nets = {}
             /\ account.ban.id < MaxBans
             /\ account' = [account EXCEPT !.ban =
                   [active |-> TRUE, id |-> account.ban.id + 1, term |-> ops[o].term]]
             /\ Goto(o, [at |-> "sync"])
             /\ UNCHANGED blocks
    <2>1. PICK b : b = [active |-> TRUE, id |-> account.ban.id + 1, term |-> ops[o].term]
      OBVIOUS
    <2>2. account \in Document /\ account.ban.id \in 0 .. MaxBans
      BY DEF StandingInv, StandingTypes, TypeOK, Document
    <2>3. b \in [active : BOOLEAN, id : 0 .. MaxBans, term : {"none", "open", "running", "over"}]
      BY <1>1, <1>3, <2>1, <2>2, BansAssumption DEF Blocking
    <2>4. account' = [account EXCEPT !.ban = b]
      BY <1>3, <2>1
    <2>5. account' \in Document /\ account'.ban = b
      BY <2>2, <2>3, <2>4 DEF Document
    <2>6. account'.ban.active /\ account'.ban.id > account.ban.id
      BY <2>1, <2>2, <2>5, BansAssumption
    <2>7. PICK op : op = [at |-> "sync"]
      OBVIOUS
    <2>8. op \in Handler /\ op.at = "sync" /\ Syncing(op)
      BY <2>7 DEF Handler, Simple, Syncing
    <2>9. ops' = [ops EXCEPT ![o] = op]
      BY <1>3, <2>7 DEF Goto
    <2>10. AppealsOfBans'
      BY <2>6 DEF AppealsOfBans
    <2>11. /\ overlapped' \in BOOLEAN /\ lateAppeal' \in BOOLEAN /\ overlapped' = overlapped
           /\ UNCHANGED content /\ blocks' \in [Networks -> {"none", "user", "staff"}]
      BY <1>3 DEF blockForBan, StandingInv, StandingTypes, TypeOK
    <2>12. account'.ban.id >= account.ban.id /\ account'.ban.id # account.ban.id
      BY <2>2, <2>5, <2>6, BansAssumption DEF Document
    <2> QED BY <1>1, <2>5, <2>8, <2>9, <2>10, <2>11, <2>12, WriteKeeps
  <1> QED BY <1>2, <1>3 DEF blockForBan

LEMMA LiftKeeps ==
    ASSUME StandingInv, NEW o \in Ops, liftBan(o)
    PROVE  StandingInv'
  <1>1. ops[o] \in Unblocking /\ ops[o].at = "unblocking" /\ Syncing(ops[o])
    BY HandlerKinds DEF liftBan, At, StandingInv, StandingTypes, Syncing
  <1>2. CASE \E n \in ops[o].nets :
               /\ blocks' = [blocks EXCEPT ![n] = IF @ = "user" THEN "none" ELSE @]
               /\ ops' = [ops EXCEPT ![o].nets = @ \ {n}]
               /\ UNCHANGED account
    <2>1. PICK n \in ops[o].nets :
               /\ blocks' = [blocks EXCEPT ![n] = IF @ = "user" THEN "none" ELSE @]
               /\ ops' = [ops EXCEPT ![o].nets = @ \ {n}]
               /\ UNCHANGED account
      BY <1>2
    <2>2. PICK op : op = [ops[o] EXCEPT !.nets = ops[o].nets \ {n}]
      OBVIOUS
    <2>3. op \in Unblocking /\ op.at = "unblocking"
      BY <1>1, <2>2 DEF Unblocking
    <2>4. op \in Handler /\ Syncing(op)
      BY <2>3 DEF Handler, Syncing
    <2>5. blocks' \in [Networks -> {"none", "user", "staff"}]
      BY <1>1, <2>1 DEF StandingInv, StandingTypes, TypeOK, Unblocking
    <2>6. ops' = [ops EXCEPT ![o] = op]
      BY <2>1, <2>2
    <2>7. UNCHANGED <<account, content, overlapped, lateAppeal>>
      BY <2>1 DEF liftBan
    <2> QED BY <1>1, <2>3, <2>4, <2>5, <2>6, <2>7, NoWriteKeeps
  <1>3. CASE /\ ops[o].nets = {}
             /\ account' = [account EXCEPT !.ban = Lifted(@), !.appeal = "none"]
             /\ Goto(o, [at |-> "sync"])
             /\ UNCHANGED blocks
    <2>1. PICK op : op = [at |-> "sync"]
      OBVIOUS
    <2>2. op \in Handler /\ op.at = "sync"
      BY <2>1 DEF Handler, Simple
    <2>3. ops' = [ops EXCEPT ![o] = op]
      BY <1>3, <2>1 DEF Goto
    <2>4. Ended(account')
      BY <1>3, EndedDocs
    <2>5. overlapped' \in BOOLEAN /\ overlapped' = overlapped /\ UNCHANGED <<content, blocks, lateAppeal>>
      BY <1>3 DEF liftBan, StandingInv, StandingTypes
    <2> QED BY <1>1, <2>2, <2>3, <2>4, <2>5, EndKeeps
  <1> QED BY <1>2, <1>3 DEF liftBan

LEMMA PlainOps ==
    /\ [at |-> "sync"] \in Handler /\ Syncing([at |-> "sync"])
    /\ Idle \in Handler /\ ~Syncing(Idle)
  BY DEF Handler, Simple, Syncing, Idle

LEMMA SetKeeps ==
    ASSUME StandingInv, NEW o \in Ops, setStanding(o)
    PROVE  StandingInv'
  <1>0. /\ ops[o] \in Setting /\ ops[o].at = "set"
        /\ account \in Document /\ account.ban.id \in Nat
    BY HandlerKinds, BansAssumption DEF setStanding, At, StandingInv, StandingTypes, TypeOK, Document
  <1>1. /\ UNCHANGED <<content, blocks, overlapped, lateAppeal>>
        /\ overlapped' \in BOOLEAN /\ lateAppeal' \in BOOLEAN
        /\ blocks' \in [Networks -> {"none", "user", "staff"}]
    BY DEF setStanding, StandingInv, StandingTypes, TypeOK
  <1>2. PICK sync : sync = [at |-> "sync"]
    OBVIOUS
  <1>3. sync \in Handler /\ Syncing(sync) /\ sync.at = "sync"
    BY <1>2, PlainOps
  (* The ban is left alone.                                                *)
  <1>4. ASSUME account' \in Document, account'.ban = account.ban, account'.appeal = account.appeal,
               ops' = [ops EXCEPT ![o] = sync], Syncing(ops[o])
        PROVE  StandingInv'
    <2>1. AppealsOfBans' /\ account'.ban.id >= account.ban.id
      BY <1>0, <1>1, <1>4 DEF StandingInv, AppealsOfBans
    <2> QED BY <1>0, <1>1, <1>3, <1>4, <2>1, WriteKeeps
  <1>5. ASSUME NEW s \in BOOLEAN, account' = [account EXCEPT !.shadow = s], Goto(o, [at |-> "sync"]),
               ops[o].what # "reject"
        PROVE  StandingInv'
    <2>1. account' \in Document /\ account'.ban = account.ban /\ account'.appeal = account.appeal
      BY <1>0, <1>5 DEF Document
    <2>2. Syncing(ops[o]) /\ ops' = [ops EXCEPT ![o] = sync]
      BY <1>0, <1>2, <1>5 DEF Syncing, Goto
    <2> QED BY <1>4, <2>1, <2>2
  <1>6. CASE ops[o].what = "delete" /\ account' = Deleted(account) /\ Goto(o, [at |-> "sync"])
    <2>1. Ended(account')
      BY <1>6, EndedDocs DEF Deleted
    <2>2. Syncing(ops[o]) /\ ops' = [ops EXCEPT ![o] = sync]
      BY <1>0, <1>2, <1>6 DEF Syncing, Goto
    <2> QED BY <1>0, <1>1, <1>3, <2>1, <2>2, EndKeeps
  <1>7. CASE /\ ops[o].what = "reactivate" /\ account' = [account EXCEPT !.deleted = FALSE]
             /\ Goto(o, AfterReactivation)
    <2>1. account' \in Document /\ account'.ban = account.ban /\ account'.appeal = account.appeal
      BY <1>0, <1>7 DEF Document
    <2>2. Syncing(ops[o]) /\ ops' = [ops EXCEPT ![o] = sync]
      BY <1>0, <1>2, <1>7 DEF Syncing, Goto, AfterReactivation
    <2> QED BY <1>4, <2>1, <2>2
  <1>8. CASE ops[o].what = "reject" /\ account' = [account EXCEPT !.appeal = "rejected"] /\ Goto(o, Idle)
    <2>1. account' \in Document /\ account'.ban = account.ban /\ account'.appeal = "rejected"
          /\ account'.deleted = account.deleted /\ account'.shadow = account.shadow
      BY <1>0, <1>8 DEF Document
    <2>2. ~Syncing(ops[o]) /\ ops' = [ops EXCEPT ![o] = Idle] /\ Idle.at = "idle"
      BY <1>0, <1>8 DEF Syncing, Goto, Idle
    <2>3. Standing' = Standing /\ AppealsOfBans' /\ account'.ban.id >= account.ban.id
      BY <1>0, <2>1 DEF Standing, computeOwnerVisibility, AppealsOfBans
    <2> QED BY <1>0, <1>1, <2>1, <2>2, <2>3, PlainOps, WriteKeeps
  <1> QED BY <1>5, <1>6, <1>7, <1>8 DEF setStanding

LEMMA LapseKeeps ==
    ASSUME StandingInv, NEW o \in Ops, lapse(o) \/ lapseUnsynced(o)
    PROVE  StandingInv'
  <1>1. Ended(account')
    BY EndedDocs DEF lapse, lapseUnsynced, Lapsed
  <1>2. ops[o].at = "lapse" /\ Syncing(ops[o]) /\ UNCHANGED <<content, blocks, lateAppeal>>
    BY DEF lapse, lapseUnsynced, At, Syncing
  <1>3. PICK sync : sync = [at |-> "sync"]
    OBVIOUS
  <1>4. sync \in Handler /\ Syncing(sync) /\ sync.at = "sync"
    BY <1>3, PlainOps
  <1>5. CASE lapse(o)
    <2>1. ops' = [ops EXCEPT ![o] = sync] /\ overlapped' = overlapped /\ overlapped' \in BOOLEAN
      BY <1>3, <1>5 DEF lapse, Goto, StandingInv, StandingTypes
    <2> QED BY <1>1, <1>2, <1>4, <2>1, EndKeeps
  <1>6. CASE lapseUnsynced(o)
    <2>1. ops' = [ops EXCEPT ![o] = Idle] /\ overlapped' = TRUE /\ Idle.at = "idle"
      BY <1>6 DEF lapseUnsynced, Goto, Idle
    <2> QED BY <1>1, <1>2, <2>1, PlainOps, EndKeeps
  <1> QED BY <1>5, <1>6

LEMMA AppealKeeps ==
    ASSUME StandingInv, NEW o \in Ops, saveAppeal(o)
    PROVE  StandingInv'
  <1>1. account \in Document /\ account.ban.id \in Nat
    BY BansAssumption DEF StandingInv, StandingTypes, TypeOK, Document
  <1>2. /\ account' \in Document /\ account'.ban = account.ban /\ account'.appeal = "pending"
        /\ account'.deleted = account.deleted /\ account'.shadow = account.shadow
    BY <1>1 DEF saveAppeal, Document
  <1>3. PICK late \in BOOLEAN : late = ~account.ban.active
    OBVIOUS
  <1>4. lateAppeal' \in BOOLEAN /\ AppealsOfBans'
    BY <1>2, <1>3 DEF saveAppeal, AppealsOfBans
  <1>5. Standing' = Standing /\ account'.ban.id >= account.ban.id
    BY <1>1, <1>2 DEF Standing, computeOwnerVisibility
  <1>6. /\ ops[o].at = "appeal" /\ ~Syncing(ops[o]) /\ ops' = [ops EXCEPT ![o] = Idle] /\ Idle.at = "idle"
        /\ overlapped' \in BOOLEAN /\ overlapped' = overlapped /\ UNCHANGED content
        /\ blocks' \in [Networks -> {"none", "user", "staff"}]
    BY DEF saveAppeal, At, Syncing, Goto, Idle, StandingInv, StandingTypes, TypeOK
  <1> QED BY <1>2, <1>4, <1>5, <1>6, PlainOps, WriteKeeps

(* The flags of an item, as they are written. *)
LEMMA StampedFlags ==
    ASSUME NEW flags \in Flags
    PROVE  /\ Stamped(flags) \in [active : BOOLEAN, listed : BOOLEAN, exists : BOOLEAN]
           /\ Stamped(flags).listed => Stamped(flags).active
  BY DEF Stamped, Flags

LEMMA InsertKeeps ==
    ASSUME StandingInv, NEW o \in Ops, insertContent(o)
    PROVE  StandingInv'
  <1>1. ops[o].at = "create" /\ ops[o] \in Creating /\ ops[o].flags \in Flags /\ ops[o].item \in Items
    BY HandlerKinds DEF insertContent, At, StandingInv, StandingTypes, Creating
  <1>2. PICK s : s = Stamped(ops[o].flags)
    OBVIOUS
  <1>3. content' = [content EXCEPT ![ops[o].item] = s] /\ ops' = [ops EXCEPT ![o] = Idle]
        /\ UNCHANGED <<account, blocks, overlapped, lateAppeal>>
    BY <1>2 DEF insertContent, Goto
  <1>4. /\ ops' \in [Ops -> Handler] /\ ops'[o] = Idle /\ \A p \in Ops \ {o} : ops'[p] = ops[p]
    BY <1>3, PlainOps DEF StandingInv, StandingTypes
  <1>5. s \in [active : BOOLEAN, listed : BOOLEAN, exists : BOOLEAN] /\ (s.listed => s.active)
    BY <1>1, <1>2, StampedFlags
  <1>6. /\ content' \in [Items -> [active : BOOLEAN, listed : BOOLEAN, exists : BOOLEAN]]
        /\ \A i \in Items : content'[i].listed => content'[i].active
    BY <1>3, <1>5 DEF StandingInv, StandingTypes, TypeOK
  <1>7. StandingTypes'
    BY <1>3, <1>4, <1>6 DEF StandingInv, StandingTypes, TypeOK
  <1>8. AppealsOfBans' /\ LapsesKnown'
    BY <1>3, <1>4 DEF StandingInv, AppealsOfBans, LapsesKnown, At, Idle
  <1>9. SettlesAlone'
    <2> SUFFICES ASSUME ~overlapped'
                 PROVE  SettlesAlone'
      BY DEF SettlesAlone
    <2>1. /\ \A p, q \in Ops : ops[p].at # "idle" /\ ops[q].at # "idle" => p = q
          /\ (\A p \in Ops : ~Syncing(ops[p])) => \A i \in Items : Settled(i)
          /\ ops[o].flags = Standing
      BY <1>1, <1>3 DEF StandingInv, SettlesAlone
    <2>2. \A p \in Ops : ops'[p].at = "idle"
      BY <1>1, <1>4, <2>1 DEF Idle
    <2>3. \A p \in Ops : ~Syncing(ops[p])
      BY <1>1, <2>1 DEF Syncing
    <2>4. \A i \in Items : Settled(i)'
      <3> SUFFICES ASSUME NEW i \in Items
                   PROVE  Settled(i)'
        OBVIOUS
      <3>1. Standing' = Standing /\ s = Stamped(Standing)
        BY <1>2, <1>3, <2>1 DEF Standing
      <3>2. content'[i] = s \/ content'[i] = content[i]
        BY <1>3 DEF StandingInv, StandingTypes, TypeOK
      <3> QED BY <2>1, <2>3, <3>1, <3>2 DEF Settled
    <2> QED BY <2>2, <2>4 DEF SettlesAlone
  <1> QED BY <1>7, <1>8, <1>9 DEF StandingInv

LEMMA SyncReadKeeps ==
    ASSUME StandingInv, NEW o \in Ops, syncRead(o)
    PROVE  StandingInv'
  <1>1. PICK op : op = [at |-> "apply", flags |-> Standing, items |-> Items]
    OBVIOUS
  <1>2. op \in Applying /\ op.at = "apply" /\ op.flags = Standing /\ op.items = Items
    BY <1>1, AlwaysFlags DEF Applying, StandingInv
  <1>3. op \in Handler /\ Syncing(op)
    BY <1>2 DEF Handler, Syncing
  <1>4. /\ ops' = [ops EXCEPT ![o] = op] /\ ops[o].at = "sync"
        /\ UNCHANGED <<account, content, blocks, overlapped, lateAppeal>>
    BY <1>1 DEF syncRead, Goto, Standing, At
  <1>5. ops' \in [Ops -> Handler] /\ ops'[o] = op /\ \A p \in Ops \ {o} : ops'[p] = ops[p]
    BY <1>3, <1>4 DEF StandingInv, StandingTypes
  <1>6. StandingTypes' /\ AppealsOfBans' /\ Standing' = Standing
    BY <1>4, <1>5 DEF StandingInv, StandingTypes, TypeOK, AppealsOfBans, Standing
  <1>7. LapsesKnown'
    BY <1>2, <1>4, <1>5 DEF StandingInv, LapsesKnown, At
  <1>8. SettlesAlone'
    BY <1>2, <1>3, <1>4, <1>5, <1>6 DEF StandingInv, SettlesAlone, Settled
  <1> QED BY <1>6, <1>7, <1>8 DEF StandingInv

LEMMA SyncWriteKeeps ==
    ASSUME StandingInv, NEW o \in Ops, syncWrite(o)
    PROVE  StandingInv'
  <1>1. ops[o].at = "apply" /\ ops[o] \in Applying /\ ops[o].flags \in Flags /\ ops[o].items \in SUBSET Items
    BY HandlerKinds DEF syncWrite, At, StandingInv, StandingTypes, Applying
  <1>2. PICK s : s = Stamped(ops[o].flags)
    OBVIOUS
  <1>3. PICK i \in ops[o].items :
          /\ content' = IF content[i].exists THEN [content EXCEPT ![i] = s] ELSE content
          /\ ops' = [ops EXCEPT ![o] = IF ops[o].items = {i} THEN Idle
                                        ELSE [ops[o] EXCEPT !.items = @ \ {i}]]
    BY <1>2 DEF syncWrite, Goto
  <1>4. PICK op : op = IF ops[o].items = {i} THEN Idle ELSE [ops[o] EXCEPT !.items = ops[o].items \ {i}]
    OBVIOUS
  <1>5. /\ op \in Handler
        /\ \/ op = Idle /\ ops[o].items = {i}
           \/ op.at = "apply" /\ op.flags = ops[o].flags /\ op.items = ops[o].items \ {i}
    <2>1. CASE ops[o].items = {i}
      BY <1>4, <2>1, PlainOps
    <2>2. CASE ops[o].items # {i}
      <3>1. op \in Applying /\ op.at = "apply" /\ op.flags = ops[o].flags /\ op.items = ops[o].items \ {i}
        BY <1>1, <1>4, <2>2 DEF Applying
      <3> QED BY <3>1 DEF Handler
    <2> QED BY <2>1, <2>2
  <1>6. UNCHANGED <<account, blocks, overlapped, lateAppeal>>
    BY DEF syncWrite
  <1>7. ops' \in [Ops -> Handler] /\ ops'[o] = op /\ \A p \in Ops \ {o} : ops'[p] = ops[p]
    BY <1>3, <1>4, <1>5 DEF StandingInv, StandingTypes
  <1>8. s \in [active : BOOLEAN, listed : BOOLEAN, exists : BOOLEAN] /\ (s.listed => s.active)
    BY <1>1, <1>2, StampedFlags
  <1>9. /\ content' \in [Items -> [active : BOOLEAN, listed : BOOLEAN, exists : BOOLEAN]]
        /\ \A j \in Items : content'[j].listed => content'[j].active
        /\ \A j \in Items : content'[j] = content[j] \/ content'[j] = s
        /\ i \in Items /\ (content[i].exists => content'[i] = s) /\ (~content[i].exists => content' = content)
    BY <1>1, <1>3, <1>8 DEF StandingInv, StandingTypes, TypeOK
  <1>10. StandingTypes' /\ AppealsOfBans' /\ Standing' = Standing
    BY <1>6, <1>7, <1>9 DEF StandingInv, StandingTypes, TypeOK, AppealsOfBans, Standing
  <1>11. LapsesKnown'
    BY <1>5, <1>6, <1>7 DEF StandingInv, LapsesKnown, At, Idle
  <1>12. SettlesAlone'
    <2> SUFFICES ASSUME ~overlapped'
                 PROVE  SettlesAlone'
      BY DEF SettlesAlone
    <2>1. /\ \A p, q \in Ops : ops[p].at # "idle" /\ ops[q].at # "idle" => p = q
          /\ ops[o].flags = Standing
          /\ \A j \in Items \ ops[o].items : Settled(j)
      BY <1>1, <1>6 DEF StandingInv, SettlesAlone
    <2>2. \A p \in Ops : p # o => ops'[p].at = "idle"
      BY <1>1, <1>7, <2>1
    <2>3. s = Stamped(Standing')
      BY <1>2, <1>10, <2>1
    <2>4. \A j \in Items \ (ops[o].items \ {i}) : Settled(j)'
      <3> SUFFICES ASSUME NEW j \in Items \ (ops[o].items \ {i})
                   PROVE  Settled(j)'
        OBVIOUS
      <3>1. CASE j = i
        BY <1>9, <2>3, <3>1 DEF Settled
      <3>2. CASE j # i
        <4>1. Settled(j)
          BY <2>1, <3>2
        <4> QED BY <1>9, <1>10, <2>3, <4>1 DEF Settled
      <3> QED BY <3>1, <3>2
    <2>5. CASE op = Idle /\ ops[o].items = {i}
      BY <1>7, <2>2, <2>4, <2>5 DEF SettlesAlone, Idle
    <2>6. CASE op.at = "apply" /\ op.flags = ops[o].flags /\ op.items = ops[o].items \ {i}
      <3>1. Syncing(ops'[o])
        BY <1>7, <2>6 DEF Syncing
      <3> QED BY <1>7, <1>10, <2>1, <2>2, <2>4, <2>6, <3>1 DEF SettlesAlone
    <2> QED BY <1>5, <2>5, <2>6
  <1> QED BY <1>10, <1>11, <1>12 DEF StandingInv

(* The handlers as they begin. *)
LEMMA BeginKeeps ==
    ASSUME StandingInv, NEW o \in Ops,
           \/ \E term \in {"open", "running"}, nets \in SUBSET Networks : ban(o, term, nets)
           \/ unban(o) \/ \E what \in {"shadow", "unshadow", "delete", "reactivate", "reject"} : set(o, what)
           \/ checkBanStatus(o) \/ submitAppeal(o) \/ \E i \in Items : createContent(o, i)
    PROVE  StandingInv'
  <1>1. ASSUME NEW term \in {"open", "running"}, NEW nets \in SUBSET Networks, ban(o, term, nets)
        PROVE  StandingInv'
    <2>1. PICK op : op = [at |-> "blocking", term |-> term, nets |-> nets]
      OBVIOUS
    <2>2. op \in Blocking /\ op.at = "blocking"
      BY <2>1 DEF Blocking
    <2>3. op \in Handler /\ Syncing(op)
      BY <2>2 DEF Handler, Syncing
    <2>4. Start(o, op, TRUE) /\ UNCHANGED <<account, content, blocks, lateAppeal>>
      BY <1>1, <2>1 DEF ban
    <2> QED BY <2>2, <2>3, <2>4, StartKeeps
  <1>2. CASE unban(o)
    <2>1. PICK op : op = [at |-> "unblocking", nets |-> Networks]
      OBVIOUS
    <2>2. op \in Unblocking /\ op.at = "unblocking"
      BY <2>1 DEF Unblocking
    <2>3. op \in Handler /\ Syncing(op)
      BY <2>2 DEF Handler, Syncing
    <2>4. Start(o, op, TRUE) /\ UNCHANGED <<account, content, blocks, lateAppeal>>
      BY <1>2, <2>1 DEF unban
    <2> QED BY <2>2, <2>3, <2>4, StartKeeps
  <1>3. ASSUME NEW what \in {"shadow", "unshadow", "delete", "reactivate", "reject"}, set(o, what)
        PROVE  StandingInv'
    <2>1. PICK op : op = [at |-> "set", what |-> what]
      OBVIOUS
    <2>2. op \in Setting /\ op.at = "set" /\ op.what = what
      BY <2>1 DEF Setting
    <2>3. PICK syncs \in BOOLEAN : syncs = (what # "reject")
      OBVIOUS
    <2>4. op \in Handler /\ (syncs <=> Syncing(op))
      BY <2>2, <2>3 DEF Handler, Syncing
    <2>5. Start(o, op, syncs) /\ UNCHANGED <<account, content, blocks, lateAppeal>>
      BY <1>3, <2>1, <2>3 DEF set
    <2> QED BY <2>2, <2>4, <2>5, StartKeeps
  <1>4. CASE checkBanStatus(o)
    <2>1. PICK op : op = [at |-> "lapse", id |-> account.ban.id]
      OBVIOUS
    <2>2. op \in Lapsing /\ op.at = "lapse" /\ op.id = account.ban.id
      BY <2>1 DEF Lapsing, StandingInv, StandingTypes, TypeOK
    <2>3. op \in Handler /\ Syncing(op)
      BY <2>2 DEF Handler, Syncing
    <2>4. /\ Start(o, op, TRUE) /\ account.ban.term = "over"
          /\ UNCHANGED <<account, content, blocks, lateAppeal>>
      BY <1>4, <2>1 DEF checkBanStatus, Due
    <2> QED BY <2>2, <2>3, <2>4, StartKeeps
  <1>5. CASE submitAppeal(o)
    <2>1. PICK op : op = [at |-> "appeal"]
      OBVIOUS
    <2>2. op \in Handler /\ op.at = "appeal" /\ ~Syncing(op)
      BY <2>1 DEF Handler, Simple, Syncing
    <2>3. Start(o, op, FALSE) /\ UNCHANGED <<account, content, blocks, lateAppeal>>
      BY <1>5, <2>1 DEF submitAppeal
    <2> QED BY <2>2, <2>3, StartKeeps
  <1>6. ASSUME NEW i \in Items, createContent(o, i)
        PROVE  StandingInv'
    <2>1. PICK op : op = [at |-> "create", item |-> i, flags |-> Standing]
      OBVIOUS
    <2>2. op \in Creating /\ op.at = "create" /\ op.flags = Standing
      BY <2>1, AlwaysFlags DEF Creating, StandingInv
    <2>3. op \in Handler /\ ~Syncing(op)
      BY <2>2 DEF Handler, Syncing
    <2>4. Start(o, op, FALSE) /\ UNCHANGED <<account, content, blocks, lateAppeal>>
      BY <1>6, <2>1 DEF createContent, Standing
    <2> QED BY <2>2, <2>3, <2>4, StartKeeps
  <1> QED BY <1>1, <1>2, <1>3, <1>4, <1>5, <1>6

LEMMA OutsideKeeps ==
    ASSUME StandingInv, TermEnds \/ \E n \in Networks : blockNetwork(n) \/ unblockNetwork(n)
    PROVE  StandingInv'
  <1>1. CASE TermEnds
    <2>1. PICK b : b = [account.ban EXCEPT !.term = "over"]
      OBVIOUS
    <2>2. account \in Document
      BY DEF StandingInv, StandingTypes, TypeOK, Document
    <2>3. /\ b \in [active : BOOLEAN, id : 0 .. MaxBans, term : {"none", "open", "running", "over"}]
          /\ b.active = account.ban.active /\ b.id = account.ban.id /\ b.term = "over"
      BY <2>1, <2>2 DEF Document
    <2>4. account' = [account EXCEPT !.ban = b] /\ UNCHANGED <<content, blocks, ops, overlapped, lateAppeal>>
      BY <1>1, <2>1 DEF TermEnds
    <2>5. /\ account' \in Document /\ account'.ban = b /\ account'.appeal = account.appeal
          /\ account'.shadow = account.shadow /\ account'.deleted = account.deleted
      BY <2>2, <2>3, <2>4 DEF Document
    <2>6. Standing' = Standing
      BY <2>3, <2>5 DEF Standing, computeOwnerVisibility
    <2>7. StandingTypes' /\ AppealsOfBans' /\ LapsesKnown'
      BY <2>3, <2>4, <2>5 DEF StandingInv, StandingTypes, TypeOK, Document, AppealsOfBans, LapsesKnown, At
    <2>8. SettlesAlone'
      BY <2>4, <2>6 DEF StandingInv, SettlesAlone, Settled
    <2> QED BY <2>7, <2>8 DEF StandingInv
  <1>2. CASE \E n \in Networks : blockNetwork(n) \/ unblockNetwork(n)
    <2>1. /\ blocks' \in [Networks -> {"none", "user", "staff"}]
          /\ UNCHANGED <<account, content, ops, overlapped, lateAppeal>>
      BY <1>2 DEF blockNetwork, unblockNetwork, StandingInv, StandingTypes, TypeOK
    <2>2. Standing' = Standing
      BY <2>1 DEF Standing
    <2> QED BY <2>1, <2>2 DEF StandingInv, StandingTypes, TypeOK, AppealsOfBans, LapsesKnown, At, SettlesAlone, Settled
  <1> QED BY <1>1, <1>2

LEMMA StandingStep == StandingInv /\ [Next]_vars => StandingInv'
  <1>1. StandingInv /\ UNCHANGED vars => StandingInv'
    BY DEF vars, StandingInv, StandingTypes, TypeOK, AppealsOfBans, LapsesKnown, At, SettlesAlone, Settled, Standing
  <1> QED BY <1>1, BeginKeeps, BanKeeps, LiftKeeps, SetKeeps, LapseKeeps, AppealKeeps, InsertKeeps,
             SyncReadKeeps, SyncWriteKeeps, OutsideKeeps DEF Next

LEMMA StandingAlways == Spec => []StandingInv
  BY StandingBegins, StandingStep, PTL DEF Spec

(* An appeal waits only against a ban in force, or one that ended while it
   was being saved, for any number of handlers and of bans. *)
THEOREM AppealsAreOfBans == Spec => []AppealsOfBans
  <1>1. StandingInv => AppealsOfBans
    BY DEF StandingInv
  <1> QED BY <1>1, StandingAlways, PTL

(* Once handlers no longer overlap the flags of everything an account owns
   say what the account is (syncOwnerVisibility, visibilityForNewContent). *)
THEOREM ContentComesToSettle == Spec => []ContentSettles
  <1>1. StandingInv => ContentSettles
    <2> SUFFICES ASSUME StandingInv, Quiet, ~overlapped, NEW i \in Items, content[i].exists
                 PROVE  content[i] = Stamped(computeOwnerVisibility(account))
      BY DEF ContentSettles, StandingInv, StandingTypes
    <2>1. \A o \in Ops : ~Syncing(ops[o])
      BY PlainOps DEF Quiet
    <2> QED BY <2>1 DEF StandingInv, SettlesAlone, Settled, Standing
  <1> QED BY <1>1, StandingAlways, PTL

(* No ban ends before its time but by the staff's hand or the account's
   deletion: a request that found one over ends that one, or one imposed
   since (checkBanStatus). *)
THEOREM BansLastTheirTerm == Spec => BanLastsItsTerm
  <1> DEFINE Lasts == account.ban.active /\ ~account'.ban.active =>
               \/ \E o \in Ops : ops[o].at \in {"unblocking", "set"}
               \/ account.ban.term = "over"
               \/ \E o \in Ops : At(o, "lapse") /\ ops[o].id < account.ban.id
  <1>1. StandingInv /\ [Next]_vars => [Lasts]_vars
    <2> SUFFICES ASSUME StandingInv, Next, account.ban.active, ~account'.ban.active
                 PROVE  \/ \E o \in Ops : ops[o].at \in {"unblocking", "set"}
                        \/ account.ban.term = "over"
                        \/ \E o \in Ops : At(o, "lapse") /\ ops[o].id < account.ban.id
      OBVIOUS
    <2>1. account' # account
      OBVIOUS
    <2>2. CASE TermEnds \/ \E n \in Networks : blockNetwork(n) \/ unblockNetwork(n)
      <3>1. TermEnds
        BY <2>1, <2>2 DEF blockNetwork, unblockNetwork
      <3>2. account'.ban.active = account.ban.active
        BY <3>1 DEF TermEnds, StandingInv, StandingTypes, TypeOK
      <3> QED BY <3>2
    <2>3. ASSUME NEW o \in Ops, blockForBan(o)
          PROVE  account'.ban.active
      BY <2>1, <2>3 DEF blockForBan, StandingInv, StandingTypes, TypeOK
    <2>4. ASSUME NEW o \in Ops, saveAppeal(o)
          PROVE  account'.ban = account.ban
      BY <2>4 DEF saveAppeal, StandingInv, StandingTypes, TypeOK
    <2>5. ASSUME NEW o \in Ops, lapse(o) \/ lapseUnsynced(o)
          PROVE  \/ account.ban.term = "over"
                 \/ At(o, "lapse") /\ ops[o].id < account.ban.id
      <3>1. At(o, "lapse") /\ ops[o] \in Lapsing
        BY <2>5, HandlerKinds DEF lapse, lapseUnsynced, At, StandingInv, StandingTypes
      <3>2. ops[o].id \in Nat /\ account.ban.id \in Nat /\ ops[o].id <= account.ban.id
        BY <3>1, BansAssumption DEF Lapsing, StandingInv, StandingTypes, TypeOK, LapsesKnown
      <3>3. ops[o].id = account.ban.id => account.ban.term = "over"
        BY <3>1 DEF StandingInv, LapsesKnown
      <3> QED BY <3>1, <3>2, <3>3
    <2>6. ASSUME NEW o \in Ops, liftBan(o) \/ setStanding(o)
          PROVE  ops[o].at \in {"unblocking", "set"}
      BY <2>6 DEF liftBan, setStanding, At
    <2>7. ASSUME NEW o \in Ops,
                 \/ \E term \in {"open", "running"}, nets \in SUBSET Networks : ban(o, term, nets)
                 \/ unban(o) \/ \E what \in {"shadow", "unshadow", "delete", "reactivate", "reject"} : set(o, what)
                 \/ checkBanStatus(o) \/ submitAppeal(o) \/ \E i \in Items : createContent(o, i)
                 \/ insertContent(o) \/ syncRead(o) \/ syncWrite(o)
          PROVE  account' = account
      BY <2>7 DEF ban, unban, set, checkBanStatus, submitAppeal, createContent, insertContent, syncRead, syncWrite
    <2> QED BY <2>1, <2>2, <2>3, <2>4, <2>5, <2>6, <2>7 DEF Next
  <1> QED BY <1>1, StandingAlways, PTL DEF Spec, BanLastsItsTerm

-----------------------------------------------------------------------------
(* The names of accounts. *)
Registering == [at : {"find", "create"}, user : Accounts, to : Names]
Renaming == [at : {"past", "release", "record", "rename"}, user : Accounts, from : SUBSET Names, to : Names]
Mail == [at : {"mail", "retire", "make", "sent"}, mails : Addresses, user : Accounts, saved : BOOLEAN]
Claimed == [at : {"claimed"}, user : Accounts, sentTo : Addresses]
Confirming == [at : {"confirm"}, user : Accounts, sentTo : Addresses, to : Addresses]
NameHandler == {NoNameOp} \cup Registering \cup Renaming \cup Mail \cup Claimed \cup Confirming
NameAts == {"find", "create", "past", "release", "record", "rename"}

NameTypes ==
    /\ named \in [Accounts -> SUBSET Names]
    /\ formers \in SUBSET [user : Accounts, from : Names]
    /\ had \in SUBSET (Accounts \X Names)
    /\ nops \in [NameOps -> NameHandler]

FormerRow(a, n) == [user |-> a, from |-> n]
(* A handler that gave its account's former name up to take it again; one
   that has recorded the name it is about to leave; one past the history. *)
Back(o, a, n) == nops[o].at \in {"record", "rename"} /\ nops[o].user = a /\ nops[o].to = n
Leaves(o, a, n) == nops[o].at = "rename" /\ nops[o].user = a /\ n \in nops[o].from
Takes(o, a, n) == nops[o].at \in Taking /\ nops[o].user = a /\ nops[o].to = n
FromIs(o) ==
    /\ \A n \in nops[o].from : <<nops[o].user, n>> \in had
    /\ nops[o].to \notin nops[o].from /\ named[nops[o].user] # {}

HadKnown ==
    /\ \A a \in Accounts : \A n \in named[a] : <<a, n>> \in had
    /\ \A a \in Accounts, n \in Names : FormerRow(a, n) \in formers => <<a, n>> \in had
    /\ \A a \in Accounts, n \in Names : <<a, n>> \in had => named[a] # {}
    /\ \A o \in NameOps : nops[o] \in Renaming => FromIs(o)
(* A name an account had is its own, or in its history, or on its way back. *)
Kept ==
    \A a \in Accounts, n \in Names : <<a, n>> \in had =>
        \/ n \in blurred \/ n \in named[a] \/ FormerRow(a, n) \in formers
        \/ \E o \in NameOps : Back(o, a, n)
(* Two have had a name only while one of them is about to be refused it. *)
OneOwner ==
    \A a, b \in Accounts, n \in Names : a # b /\ <<a, n>> \in had /\ <<b, n>> \in had =>
        \/ n \in blurred
        \/ \E o \in NameOps, c, d \in Accounts : c # d /\ Back(o, d, n) /\ n \in named[c]
(* Nobody takes a name another's history lists. *)
Guarded ==
    \A o \in NameOps, a, b \in Accounts, n \in Names :
        Takes(o, a, n) /\ FormerRow(b, n) \in formers /\ a # b => n \in blurred
(* The history lists no name its account holds, but one about to be left. *)
NotBoth ==
    \A a \in Accounts, n \in Names : FormerRow(a, n) \in formers /\ n \in named[a] =>
        n \in blurred \/ \E o \in NameOps : Leaves(o, a, n)
Freed ==
    \A o \in NameOps, a \in Accounts, n \in Names : Back(o, a, n) /\ FormerRow(a, n) \in formers =>
        n \in blurred \/ \E q \in NameOps \ {o} : Leaves(q, a, n)
Recorded ==
    \A o \in NameOps, a \in Accounts, n \in Names : Leaves(o, a, n) =>
        n \in blurred \/ FormerRow(a, n) \in formers \/ \E p \in NameOps \ {o} : Back(p, a, n)
Awaited ==
    \A o, p \in NameOps, a, b \in Accounts, n \in Names : Leaves(o, a, n) /\ Takes(p, b, n) /\ a # b =>
        n \in blurred \/ \E q \in NameOps \ {o} : Back(q, a, n)
NameInv ==
    NameTypes /\ HadKnown /\ Kept /\ OneOwner /\ Guarded /\ NotBoth /\ Freed /\ Recorded /\ Awaited

LEMMA NameKinds ==
    ASSUME NEW op \in NameHandler
    PROVE  /\ op.at = "idle" => op = NoNameOp
           /\ op.at \in {"find", "create"} => op \in Registering
           /\ op.at \in {"past", "release", "record", "rename"} => op \in Renaming
           /\ op \in Renaming => op.at \in {"past", "release", "record", "rename"}
           /\ op.at \in {"mail", "retire", "make", "sent"} => op \in Mail
           /\ op.at = "claimed" => op \in Claimed
           /\ op.at = "confirm" => op \in Confirming
           /\ op.at \in NameAts => op.user \in Accounts /\ op.to \in Names
  BY DEF NameHandler, NoNameOp, Registering, Renaming, Mail, Claimed, Confirming, NameAts

LEMMA NamesBegin == NamesInit => NameInv
  <1> SUFFICES ASSUME NamesInit
               PROVE  NameInv
    OBVIOUS
  <1>1. \A o \in NameOps : nops[o] = NoNameOp /\ nops[o].at = "idle"
    BY DEF NamesInit, NoNameOp
  <1>2. NoNameOp \in NameHandler /\ NoNameOp \notin Renaming
    BY DEF NameHandler, NoNameOp, Renaming
  <1>3. NameTypes /\ HadKnown
    BY <1>1, <1>2 DEF NamesInit, NameTypes, HadKnown
  <1>4. Kept /\ OneOwner /\ Guarded /\ NotBoth /\ Freed /\ Recorded /\ Awaited
    BY <1>1 DEF NamesInit, Kept, OneOwner, Guarded, NotBoth, Freed, Recorded, Awaited, Back, Leaves, Takes
  <1> QED BY <1>3, <1>4 DEF NameInv

(* A handler that only looks: at names, at the history, or at addresses. *)
LEMMA LookKeeps ==
    ASSUME NameInv, NEW o \in NameOps, NEW op \in NameHandler, nops' = [nops EXCEPT ![o] = op],
           UNCHANGED nameVars,
           nops[o].at \notin {"record", "rename"}, op.at \notin {"record", "rename"},
           op \in Renaming => /\ \A n \in op.from : <<op.user, n>> \in had
                              /\ op.to \notin op.from /\ named[op.user] # {},
           op.at \in Taking =>
               \/ nops[o].at \in Taking /\ op.user = nops[o].user /\ op.to = nops[o].to
               \/ ~isAccountNameInHistoryOfOther(op.to, op.user)
    PROVE  NameInv'
  <1>1. nops' \in [NameOps -> NameHandler] /\ nops'[o] = op /\ \A p \in NameOps \ {o} : nops'[p] = nops[p]
    BY DEF NameInv, NameTypes
  <1>2. UNCHANGED <<named, formers, had, blurred>>
    BY DEF nameVars
  <1>3. \A p \in NameOps, a \in Accounts, n \in Names :
           /\ Back(p, a, n)' <=> Back(p, a, n)
           /\ Leaves(p, a, n)' <=> Leaves(p, a, n)
    BY <1>1 DEF Back, Leaves
  <1>4. \A p \in NameOps, a \in Accounts, n \in Names : Takes(p, a, n)' =>
           Takes(p, a, n) \/ \A b \in Accounts : b # a => FormerRow(b, n) \notin formers
    <2> SUFFICES ASSUME NEW p \in NameOps, NEW a \in Accounts, NEW n \in Names, Takes(p, a, n)', ~Takes(p, a, n),
                        NEW b \in Accounts, b # a, FormerRow(b, n) \in formers
                 PROVE  FALSE
      OBVIOUS
    <2>1. p = o /\ op.at \in Taking /\ op.user = a /\ op.to = n
      BY <1>1 DEF Takes
    <2>2. ~isAccountNameInHistoryOfOther(n, a)
      BY <2>1 DEF Takes
    <2>3. FormerRow(b, n).from = n /\ FormerRow(b, n).user = b
      BY DEF FormerRow
    <2> QED BY <2>2, <2>3 DEF isAccountNameInHistoryOfOther
  <1>5. NameTypes'
    BY <1>1, <1>2 DEF NameInv, NameTypes
  <1>6. HadKnown'
    BY <1>1, <1>2 DEF NameInv, HadKnown, FromIs, FormerRow
  <1>7. Kept' /\ NotBoth' /\ Freed' /\ Recorded'
    BY <1>2, <1>3 DEF NameInv, Kept, NotBoth, Freed, Recorded, FormerRow
  <1>8. OneOwner'
    BY <1>2, <1>3 DEF NameInv, OneOwner
  <1>9. Guarded'
    BY <1>2, <1>4 DEF NameInv, Guarded, FormerRow
  <1>10. Awaited'
    <2> SUFFICES ASSUME NEW r \in NameOps, NEW p \in NameOps, NEW a \in Accounts, NEW b \in Accounts, NEW n \in Names,
                        Leaves(r, a, n), Takes(p, b, n)', a # b, n \notin blurred
                 PROVE  \E q \in NameOps \ {r} : Back(q, a, n)
      BY <1>2, <1>3 DEF Awaited
    <2>1. CASE Takes(p, b, n)
      BY <2>1 DEF NameInv, Awaited
    <2>2. CASE FormerRow(a, n) \notin formers
      BY <2>2 DEF NameInv, Recorded
    <2> QED BY <1>4, <2>1, <2>2
  <1> QED BY <1>5, <1>6, <1>7, <1>8, <1>9, <1>10 DEF NameInv

LEMMA RowFields == \A a, b, n, m : FormerRow(a, n) = FormerRow(b, m) => a = b /\ n = m
  BY DEF FormerRow

LEMMA ReleaseKeeps ==
    ASSUME NameInv, NEW o \in NameOps, releaseOwn(o)
    PROVE  NameInv'
  <1>1. /\ nops[o] \in Renaming /\ nops[o].at = "release"
        /\ nops[o].user \in Accounts /\ nops[o].to \in Names
    BY NameKinds DEF releaseOwn, NDoing, NameInv, NameTypes, NameAts
  <1>2. PICK op : op = [nops[o] EXCEPT !.at = "record"]
    OBVIOUS
  <1>3. /\ op \in Renaming /\ op.at = "record" /\ op.user = nops[o].user /\ op.to = nops[o].to
        /\ op.from = nops[o].from
    BY <1>1, <1>2 DEF Renaming
  <1>4. /\ nops' = [nops EXCEPT ![o] = op] /\ UNCHANGED <<named, had, blurred>>
        /\ formers' = formers \ {FormerRow(nops[o].user, nops[o].to)}
    BY <1>2 DEF releaseOwn, NTo, FormerRow
  <1>5. nops' \in [NameOps -> NameHandler] /\ nops'[o] = op /\ \A p \in NameOps \ {o} : nops'[p] = nops[p]
    BY <1>3, <1>4 DEF NameInv, NameTypes, NameHandler
  <1>6. \A a \in Accounts, n \in Names : FormerRow(a, n)' = FormerRow(a, n)
    BY DEF FormerRow
  <1>7. \A p \in NameOps, a \in Accounts, n \in Names :
           /\ Back(p, a, n)' <=> Back(p, a, n) \/ (p = o /\ a = nops[o].user /\ n = nops[o].to)
           /\ Leaves(p, a, n)' <=> Leaves(p, a, n)
           /\ Takes(p, a, n)' <=> Takes(p, a, n)
    BY <1>1, <1>3, <1>5 DEF Back, Leaves, Takes, Taking
  <1>8. \A a \in Accounts, n \in Names :
           FormerRow(a, n) \in formers => FormerRow(a, n) \in formers' \/ (a = nops[o].user /\ n = nops[o].to)
    BY <1>4, RowFields
  <1>9. formers' \subseteq formers
    BY <1>4
  <1>10. NameTypes'
    BY <1>4, <1>5, <1>9 DEF NameInv, NameTypes
  <1>11. HadKnown'
    BY <1>1, <1>3, <1>4, <1>5, <1>6, <1>9 DEF NameInv, HadKnown, FromIs
  <1>12. Kept'
    BY <1>1, <1>4, <1>6, <1>7, <1>8 DEF NameInv, Kept
  <1>13. OneOwner'
    BY <1>4, <1>7 DEF NameInv, OneOwner
  <1>14. Guarded' /\ NotBoth'
    BY <1>4, <1>6, <1>7, <1>9 DEF NameInv, Guarded, NotBoth
  <1>15. Freed'
    <2> SUFFICES ASSUME NEW r \in NameOps, NEW a \in Accounts, NEW n \in Names, Back(r, a, n)', FormerRow(a, n) \in formers',
                        n \notin blurred
                 PROVE  \E q \in NameOps \ {r} : Leaves(q, a, n)
      BY <1>4, <1>6, <1>7 DEF Freed
    <2>1. ~(a = nops[o].user /\ n = nops[o].to)
      BY <1>4
    <2>2. Back(r, a, n)
      BY <1>7, <2>1
    <2> QED BY <1>9, <2>2 DEF NameInv, Freed
  <1>16. Recorded'
    <2> SUFFICES ASSUME NEW r \in NameOps, NEW a \in Accounts, NEW n \in Names, Leaves(r, a, n), n \notin blurred,
                        FormerRow(a, n) \notin formers'
                 PROVE  \E p \in NameOps \ {r} : Back(p, a, n)'
      BY <1>4, <1>6, <1>7 DEF Recorded
    <2>1. r # o
      BY <1>1 DEF Leaves
    <2>2. CASE FormerRow(a, n) \in formers
      BY <1>7, <1>8, <2>1, <2>2
    <2>3. CASE FormerRow(a, n) \notin formers
      BY <1>7, <2>3 DEF NameInv, Recorded
    <2> QED BY <2>2, <2>3
  <1>17. Awaited'
    BY <1>4, <1>7 DEF NameInv, Awaited
  <1> QED BY <1>10, <1>11, <1>12, <1>13, <1>14, <1>15, <1>16, <1>17 DEF NameInv

LEMMA RecordKeeps ==
    ASSUME NameInv, NEW o \in NameOps, recordFormer(o)
    PROVE  NameInv'
  <1>1. /\ nops[o] \in Renaming /\ nops[o].at = "record"
        /\ nops[o].user \in Accounts /\ nops[o].to \in Names /\ nops[o].from \in SUBSET Names
    BY NameKinds DEF recordFormer, NDoing, NameInv, NameTypes, NameAts, Renaming
  <1>2. PICK op : op = [nops[o] EXCEPT !.at = "rename"]
    OBVIOUS
  <1>3. /\ op \in Renaming /\ op.at = "rename" /\ op.user = nops[o].user /\ op.to = nops[o].to
        /\ op.from = nops[o].from
    BY <1>1, <1>2 DEF Renaming
  <1>4. /\ nops' = [nops EXCEPT ![o] = op] /\ UNCHANGED <<named, had>>
        /\ formers' = formers \cup {FormerRow(nops[o].user, n) : n \in nops[o].from}
        /\ blurred' = blurred \cup {n \in nops[o].from : \E p \in NameOps \ {o} : NDoing(p, Taking) /\ nops[p].to = n}
    BY <1>2 DEF recordFormer, NTo, FormerRow
  <1>5. nops' \in [NameOps -> NameHandler] /\ nops'[o] = op /\ \A p \in NameOps \ {o} : nops'[p] = nops[p]
    BY <1>3, <1>4 DEF NameInv, NameTypes, NameHandler
  <1>6. \A a \in Accounts, n \in Names : FormerRow(a, n)' = FormerRow(a, n)
    BY DEF FormerRow
  <1>7. \A p \in NameOps, a \in Accounts, n \in Names :
           /\ Back(p, a, n)' <=> Back(p, a, n)
           /\ Leaves(p, a, n)' <=> Leaves(p, a, n) \/ (p = o /\ a = nops[o].user /\ n \in nops[o].from)
           /\ Takes(p, a, n)' <=> Takes(p, a, n)
    BY <1>1, <1>3, <1>5 DEF Back, Leaves, Takes, Taking
  <1>8. \A a \in Accounts, n \in Names :
           FormerRow(a, n) \in formers' <=> FormerRow(a, n) \in formers \/ (a = nops[o].user /\ n \in nops[o].from)
    BY <1>4, RowFields
  <1>9. /\ blurred \subseteq blurred'
        /\ \A p \in NameOps \ {o}, a \in Accounts, n \in Names :
              Takes(p, a, n) /\ n \in nops[o].from => n \in blurred'
    BY <1>4 DEF Takes, NDoing
  <1>10. FromIs(o)
    BY <1>1 DEF NameInv, HadKnown
  <1>11. NameTypes'
    <2>1. \A n \in nops[o].from : FormerRow(nops[o].user, n) \in [user : Accounts, from : Names]
      BY <1>1 DEF FormerRow
    <2> QED BY <1>4, <1>5, <2>1 DEF NameInv, NameTypes
  <1>12. HadKnown'
    <2>1. \A a \in Accounts, n \in Names : FormerRow(a, n)' \in formers' => <<a, n>> \in had
      BY <1>6, <1>8, <1>10 DEF NameInv, HadKnown, FromIs
    <2>2. \A p \in NameOps : nops'[p] \in Renaming => FromIs(p)'
      BY <1>3, <1>4, <1>5, <1>10 DEF NameInv, HadKnown, FromIs
    <2> QED BY <1>4, <2>1, <2>2 DEF NameInv, HadKnown
  <1>13. Kept'
    BY <1>4, <1>6, <1>7, <1>8, <1>9 DEF NameInv, Kept
  <1>14. OneOwner'
    BY <1>4, <1>7, <1>9 DEF NameInv, OneOwner
  <1>15. Guarded'
    <2> SUFFICES ASSUME NEW r \in NameOps, NEW a \in Accounts, NEW b \in Accounts, NEW n \in Names,
                        Takes(r, a, n), FormerRow(b, n) \in formers', a # b
                 PROVE  n \in blurred'
      BY <1>6, <1>7 DEF Guarded
    <2>1. CASE FormerRow(b, n) \in formers
      BY <1>9, <2>1 DEF NameInv, Guarded
    <2>2. CASE b = nops[o].user /\ n \in nops[o].from
      <3>1. r # o
        BY <2>2 DEF Takes
      <3> QED BY <1>9, <2>2, <3>1
    <2> QED BY <1>8, <2>1, <2>2
  <1>16. NotBoth'
    BY <1>4, <1>6, <1>7, <1>8, <1>9 DEF NameInv, NotBoth
  <1>17. Freed'
    <2> SUFFICES ASSUME NEW r \in NameOps, NEW a \in Accounts, NEW n \in Names, Back(r, a, n), FormerRow(a, n) \in formers',
                        n \notin blurred'
                 PROVE  \E q \in NameOps \ {r} : Leaves(q, a, n)'
      BY <1>6, <1>7 DEF Freed
    <2>1. CASE FormerRow(a, n) \in formers
      BY <1>7, <1>9, <2>1 DEF NameInv, Freed
    <2>2. CASE a = nops[o].user /\ n \in nops[o].from
      <3>1. r # o
        BY <1>10, <2>2 DEF Back, FromIs
      <3> QED BY <1>7, <2>2, <3>1
    <2> QED BY <1>8, <2>1, <2>2
  <1>18. Recorded'
    BY <1>6, <1>7, <1>8, <1>9 DEF NameInv, Recorded
  <1>19. Awaited'
    <2> SUFFICES ASSUME NEW r \in NameOps, NEW p \in NameOps, NEW a \in Accounts, NEW b \in Accounts, NEW n \in Names,
                        Leaves(r, a, n)', Takes(p, b, n), a # b, n \notin blurred'
                 PROVE  \E q \in NameOps \ {r} : Back(q, a, n)
      BY <1>7 DEF Awaited
    <2>1. CASE Leaves(r, a, n)
      BY <1>9, <2>1 DEF NameInv, Awaited
    <2>2. CASE r = o /\ a = nops[o].user /\ n \in nops[o].from
      <3>1. p # o
        BY <2>2 DEF Takes
      <3> QED BY <1>9, <2>2, <3>1
    <2> QED BY <1>7, <2>1, <2>2
  <1> QED BY <1>11, <1>12, <1>13, <1>14, <1>15, <1>16, <1>17, <1>18, <1>19 DEF NameInv

(* An account takes a name nobody else holds. *)
LEMMA TakeKeeps ==
    ASSUME NameInv, NEW o \in NameOps, NEW a \in Accounts, NEW n \in Names, Takes(o, a, n),
           nops' = [nops EXCEPT ![o] = NoNameOp], named' = [named EXCEPT ![a] = {n}],
           had' = had \cup {<<a, n>>}, UNCHANGED formers, blurred \subseteq blurred',
           \A c \in Accounts \ {a} : n \notin named[c],
           Back(o, a, n) \/ named[a] = {},
           \A m \in named[a] : m \in blurred' \/ Leaves(o, a, m),
           \A p \in NameOps \ {o}, m \in Names : Back(p, a, m) \/ Leaves(p, a, m) =>
               /\ m \in blurred' /\ n \in blurred'
               /\ \A k \in Names : Leaves(o, a, k) => k \in blurred'
    PROVE  NameInv'
  <1>1. NoNameOp \in NameHandler /\ NoNameOp \notin Renaming /\ NoNameOp.at = "idle"
    BY DEF NameHandler, NoNameOp, Renaming
  <1>2. nops' \in [NameOps -> NameHandler] /\ nops'[o] = NoNameOp /\ \A p \in NameOps \ {o} : nops'[p] = nops[p]
    BY <1>1 DEF NameInv, NameTypes
  <1>3. \A b \in Accounts, m \in Names : FormerRow(b, m)' = FormerRow(b, m)
    BY DEF FormerRow
  <1>4. \A p \in NameOps, b \in Accounts, m \in Names :
           /\ Back(p, b, m)' <=> Back(p, b, m) /\ p # o
           /\ Leaves(p, b, m)' <=> Leaves(p, b, m) /\ p # o
           /\ Takes(p, b, m)' <=> Takes(p, b, m) /\ p # o
    BY <1>1, <1>2 DEF Back, Leaves, Takes, Taking
  <1>5. \A b \in Accounts, m \in Names :
           /\ Back(o, b, m) => b = a /\ m = n
           /\ Leaves(o, b, m) => b = a
    BY DEF Takes, Back, Leaves
  <1>6. named'[a] = {n} /\ (\A b \in Accounts \ {a} : named'[b] = named[b]) /\ named' \in [Accounts -> SUBSET Names]
    BY DEF NameInv, NameTypes
  <1>7. NameTypes'
    BY <1>2, <1>6 DEF NameInv, NameTypes
  <1>8. \A b \in Accounts, m \in Names : <<b, m>> \in had' => <<b, m>> \in had \/ (b = a /\ m = n)
    OBVIOUS
  <1>9. HadKnown'
    <2>1. \A b \in Accounts : \A m \in named'[b] : <<b, m>> \in had'
      BY <1>6 DEF NameInv, HadKnown
    <2>2. \A b \in Accounts, m \in Names : FormerRow(b, m)' \in formers' => <<b, m>> \in had'
      BY <1>3 DEF NameInv, HadKnown
    <2>3. \A b \in Accounts, m \in Names : <<b, m>> \in had' => named'[b] # {}
      BY <1>6, <1>8 DEF NameInv, HadKnown
    <2>4. \A p \in NameOps : nops'[p] \in Renaming => FromIs(p)'
      <3> SUFFICES ASSUME NEW p \in NameOps, nops'[p] \in Renaming
                   PROVE  FromIs(p)'
        OBVIOUS
      <3>1. p # o /\ nops'[p] = nops[p] /\ FromIs(p)
        BY <1>1, <1>2 DEF NameInv, HadKnown
      <3>2. nops[p].user \in Accounts
        BY <3>1, <1>2 DEF Renaming
      <3> QED BY <1>6, <3>1, <3>2 DEF FromIs
    <2> QED BY <2>1, <2>2, <2>3, <2>4 DEF HadKnown
  <1>10. Kept'
    <2> SUFFICES ASSUME NEW b \in Accounts, NEW m \in Names, <<b, m>> \in had', m \notin blurred', m \notin named'[b],
                        FormerRow(b, m) \notin formers
                 PROVE  \E p \in NameOps : Back(p, b, m)'
      BY <1>3 DEF Kept
    <2>1. <<b, m>> \in had /\ ~(b = a /\ m = n)
      BY <1>6, <1>8
    <2>2. m \in named[b] \/ \E p \in NameOps : Back(p, b, m)
      BY <2>1 DEF NameInv, Kept
    <2>3. CASE m \in named[b]
      <3>1. b = a /\ Leaves(o, a, m)
        BY <1>6, <2>3
      <3>2. \E p \in NameOps \ {o} : Back(p, a, m)
        BY <3>1 DEF NameInv, Recorded
      <3> QED BY <3>2
    <2>4. CASE \E p \in NameOps : Back(p, b, m)
      BY <1>4, <1>5, <2>1, <2>4
    <2> QED BY <2>2, <2>3, <2>4
  <1>11. OneOwner'
    <2> SUFFICES ASSUME NEW b \in Accounts, NEW c \in Accounts, NEW m \in Names, b # c,
                        <<b, m>> \in had', <<c, m>> \in had', m \notin blurred'
                 PROVE  \E r \in NameOps, e, d \in Accounts : e # d /\ Back(r, d, m)' /\ m \in named'[e]
      BY DEF OneOwner
    <2>1. CASE <<b, m>> \in had /\ <<c, m>> \in had
      <3>1. PICK r \in NameOps, e \in Accounts, d \in Accounts : e # d /\ Back(r, d, m) /\ m \in named[e]
        BY <2>1 DEF NameInv, OneOwner
      <3>2. r # o
        BY <1>5, <3>1
      <3>3. e # a
        <4> SUFFICES ASSUME e = a
                     PROVE  FALSE
          OBVIOUS
        <4>1. Leaves(o, a, m)
          BY <3>1
        <4>2. Takes(r, d, m)
          BY <3>1 DEF Back, Takes, Taking
        <4>3. \E q \in NameOps \ {o} : Back(q, a, m)
          BY <3>1, <4>1, <4>2 DEF NameInv, Awaited
        <4> QED BY <4>3
      <3> QED BY <1>4, <1>6, <3>1, <3>2, <3>3
    <2>2. ASSUME NEW d \in Accounts, d # a, <<d, n>> \in had, m = n
          PROVE  \E r \in NameOps, e \in Accounts : e # d /\ Back(r, d, m)' /\ m \in named'[e]
      <3>1. FormerRow(d, n) \notin formers
        BY <2>2 DEF NameInv, Guarded
      <3>2. PICK r \in NameOps : Back(r, d, n)
        BY <2>2, <3>1 DEF NameInv, Kept
      <3>3. r # o
        BY <1>5, <2>2, <3>2
      <3> QED BY <1>4, <1>6, <2>2, <3>2, <3>3
    <2>3. CASE b = a /\ m = n
      BY <1>8, <2>2, <2>3
    <2>4. CASE c = a /\ m = n
      BY <1>8, <2>2, <2>4
    <2> QED BY <1>8, <2>1, <2>3, <2>4
  <1>12. Guarded'
    BY <1>3, <1>4 DEF NameInv, Guarded
  <1>13. NotBoth'
    <2> SUFFICES ASSUME NEW b \in Accounts, NEW m \in Names, FormerRow(b, m) \in formers, m \in named'[b], m \notin blurred'
                 PROVE  \E r \in NameOps : Leaves(r, b, m)'
      BY <1>3 DEF NotBoth
    <2>1. CASE b = a
      <3>1. m = n /\ named[a] # {}
        BY <1>6, <2>1 DEF NameInv, HadKnown
      <3>2. \E q \in NameOps \ {o} : Leaves(q, a, n)
        BY <2>1, <3>1 DEF NameInv, Freed
      <3> QED BY <3>1, <3>2
    <2>2. CASE b # a
      <3>1. \E r \in NameOps : Leaves(r, b, m)
        BY <1>6, <2>2 DEF NameInv, NotBoth
      <3> QED BY <1>4, <1>5, <2>2, <3>1
    <2> QED BY <2>1, <2>2
  <1>14. Freed'
    <2> SUFFICES ASSUME NEW p \in NameOps \ {o}, NEW b \in Accounts, NEW m \in Names, Back(p, b, m), FormerRow(b, m) \in formers,
                        m \notin blurred'
                 PROVE  \E q \in NameOps \ {p} : Leaves(q, b, m)'
      BY <1>3, <1>4 DEF Freed
    <2>1. PICK q \in NameOps \ {p} : Leaves(q, b, m)
      BY DEF NameInv, Freed
    <2>2. q # o
      BY <1>5, <2>1
    <2> QED BY <1>4, <2>1, <2>2
  <1>15. Recorded'
    <2> SUFFICES ASSUME NEW p \in NameOps \ {o}, NEW b \in Accounts, NEW m \in Names, Leaves(p, b, m), FormerRow(b, m) \notin formers,
                        m \notin blurred'
                 PROVE  \E q \in NameOps \ {p} : Back(q, b, m)'
      BY <1>3, <1>4 DEF Recorded
    <2>1. PICK q \in NameOps \ {p} : Back(q, b, m)
      BY DEF NameInv, Recorded
    <2>2. q # o
      BY <1>5, <2>1
    <2> QED BY <1>4, <2>1, <2>2
  <1>16. Awaited'
    <2> SUFFICES ASSUME NEW r \in NameOps \ {o}, NEW p \in NameOps, NEW b \in Accounts, NEW c \in Accounts, NEW m \in Names,
                        Leaves(r, b, m), Takes(p, c, m), b # c, m \notin blurred'
                 PROVE  \E q \in NameOps \ {r} : Back(q, b, m)'
      BY <1>4 DEF Awaited
    <2>1. PICK q \in NameOps \ {r} : Back(q, b, m)
      BY DEF NameInv, Awaited
    <2>2. q # o
      BY <1>5, <2>1
    <2> QED BY <1>4, <2>1, <2>2
  <1> QED BY <1>7, <1>9, <1>10, <1>11, <1>12, <1>13, <1>14, <1>15, <1>16 DEF NameInv

(* A name is refused at the end: what the handler wrote has blurred it. *)
LEMMA RefusedKeeps ==
    ASSUME NameInv, NEW o \in NameOps,
           nops' = [nops EXCEPT ![o] = NoNameOp], UNCHANGED <<named, had, formers>>, blurred \subseteq blurred',
           \A a \in Accounts, n \in Names : Back(o, a, n) \/ Leaves(o, a, n) => n \in blurred'
    PROVE  NameInv'
  <1>1. NoNameOp \in NameHandler /\ NoNameOp \notin Renaming /\ NoNameOp.at = "idle"
    BY DEF NameHandler, NoNameOp, Renaming
  <1>2. nops' \in [NameOps -> NameHandler] /\ nops'[o] = NoNameOp /\ \A p \in NameOps \ {o} : nops'[p] = nops[p]
    BY <1>1 DEF NameInv, NameTypes
  <1>3. \A b \in Accounts, m \in Names : FormerRow(b, m)' = FormerRow(b, m)
    BY DEF FormerRow
  <1>4. \A p \in NameOps, b \in Accounts, m \in Names :
           /\ Back(p, b, m)' <=> Back(p, b, m) /\ p # o
           /\ Leaves(p, b, m)' <=> Leaves(p, b, m) /\ p # o
           /\ Takes(p, b, m)' <=> Takes(p, b, m) /\ p # o
    BY <1>1, <1>2 DEF Back, Leaves, Takes, Taking
  <1>5. NameTypes'
    BY <1>2 DEF NameInv, NameTypes
  <1>6. HadKnown'
    BY <1>1, <1>2, <1>3 DEF NameInv, HadKnown, FromIs
  <1>7. Kept'
    BY <1>3, <1>4 DEF NameInv, Kept
  <1>8. OneOwner'
    BY <1>4 DEF NameInv, OneOwner
  <1>9. Guarded' /\ NotBoth'
    BY <1>3, <1>4 DEF NameInv, Guarded, NotBoth
  <1>10. Freed' /\ Recorded'
    BY <1>3, <1>4 DEF NameInv, Freed, Recorded
  <1>11. Awaited'
    BY <1>4 DEF NameInv, Awaited
  <1> QED BY <1>5, <1>6, <1>7, <1>8, <1>9, <1>10, <1>11 DEF NameInv

LEMMA NamingKeeps == NameInv /\ Naming => NameInv'
  <1> SUFFICES ASSUME NameInv, NEW o \in NameOps,
                      \/ \E a \in Accounts, n \in Names : register(o, a, n) \/ rename(o, a, n)
                      \/ findRegistered(o) \/ registerAtomically(o)
                      \/ askHistory(o) \/ releaseOwn(o) \/ recordFormer(o) \/ saveName(o)
               PROVE  NameInv'
    BY DEF Naming
  <1>0. nops[o] \in NameHandler
    BY DEF NameInv, NameTypes
  <1>idle. NoNameOp \in NameHandler /\ NoNameOp \notin Renaming /\ NoNameOp.at = "idle"
    BY DEF NameHandler, NoNameOp, Renaming
  <1>1. ASSUME NEW a \in Accounts, NEW n \in Names, register(o, a, n)
        PROVE  NameInv'
    <2>1. PICK op : op = [at |-> "find", user |-> a, to |-> n]
      OBVIOUS
    <2>2. op \in Registering /\ op.at = "find" /\ op.user = a /\ op.to = n
      BY <2>1 DEF Registering
    <2>3. op \in NameHandler /\ op \notin Renaming
      BY <2>2, NameKinds DEF NameHandler
    <2>4. /\ nops' = [nops EXCEPT ![o] = op] /\ UNCHANGED nameVars /\ nops[o].at = "idle"
          /\ ~isAccountNameInHistoryOfOther(op.to, op.user)
      BY <1>1, <2>1, <2>2 DEF register, NGo, NDoing
    <2> QED BY <2>2, <2>3, <2>4, LookKeeps
  <1>2. ASSUME NEW a \in Accounts, NEW n \in Names, rename(o, a, n)
        PROVE  NameInv'
    <2>1. PICK op : op = [at |-> "past", user |-> a, from |-> named[a], to |-> n]
      OBVIOUS
    <2>2. op \in Renaming /\ op.at = "past" /\ op.user = a /\ op.to = n /\ op.from = named[a]
      BY <2>1 DEF Renaming, NameInv, NameTypes
    <2>3. op \in NameHandler
      BY <2>2 DEF NameHandler
    <2>4. /\ nops' = [nops EXCEPT ![o] = op] /\ UNCHANGED nameVars /\ nops[o].at = "idle"
          /\ named[a] # {} /\ n \notin named[a]
      BY <1>2, <2>1 DEF rename, NGo, NDoing, Held
    <2>5. \A m \in op.from : <<op.user, m>> \in had
      BY <2>2 DEF NameInv, HadKnown
    <2> QED BY <2>2, <2>3, <2>4, <2>5, LookKeeps DEF Taking
  <1>3. CASE findRegistered(o)
    <2>1. nops[o] \in Registering /\ nops[o].at = "find" /\ UNCHANGED nameVars
      BY <1>0, <1>3, NameKinds DEF findRegistered, NDoing
    <2>2. CASE nops' = [nops EXCEPT ![o] = NoNameOp]
      BY <1>idle, <2>1, <2>2, LookKeeps DEF Taking
    <2>3. CASE nops' = [nops EXCEPT ![o].at = "create"]
      <3>1. PICK op : op = [nops[o] EXCEPT !.at = "create"]
        OBVIOUS
      <3>2. op \in Registering /\ op.at = "create" /\ op.user = nops[o].user /\ op.to = nops[o].to
        BY <2>1, <3>1 DEF Registering
      <3>3. op \in NameHandler /\ op \notin Renaming
        BY <3>2, NameKinds DEF NameHandler
      <3>4. nops' = [nops EXCEPT ![o] = op]
        BY <2>3, <3>1
      <3> QED BY <2>1, <3>2, <3>3, <3>4, LookKeeps DEF Taking
    <2> QED BY <1>3, <2>2, <2>3 DEF findRegistered, NEnd, NTo
  <1>4. CASE registerAtomically(o)
    <2> DEFINE a == nops[o].user
               n == nops[o].to
    <2>1. a \in Accounts /\ n \in Names /\ nops[o].at = "create" /\ nops' = [nops EXCEPT ![o] = NoNameOp]
      BY <1>0, <1>4, NameKinds DEF registerAtomically, NDoing, NEnd, NameAts
    <2>2. CASE Held(n) \/ named[a] # {}
      <3>1. UNCHANGED nameVars
        BY <1>4, <2>2 DEF registerAtomically, nameVars
      <3> QED BY <1>idle, <2>1, <3>1, LookKeeps DEF Taking
    <2>3. CASE ~Held(n) /\ named[a] = {}
      <3>1. /\ named' = [named EXCEPT ![a] = {n}] /\ had' = had \cup {<<a, n>>}
            /\ UNCHANGED formers /\ blurred' = blurred
        BY <1>4, <2>3 DEF registerAtomically
      <3>2. Takes(o, a, n) /\ \A c \in Accounts \ {a} : n \notin named[c]
        BY <2>1, <2>3 DEF Takes, Taking, Held
      <3>3. \A p \in NameOps : \A m : ~Back(p, a, m) /\ ~Leaves(p, a, m)
        BY <2>3, NameKinds DEF Back, Leaves, NameInv, NameTypes, HadKnown, FromIs
      <3> QED BY <2>1, <2>3, <3>1, <3>2, <3>3, TakeKeeps
    <2> QED BY <2>2, <2>3
  <1>5. CASE askHistory(o)
    <2>1. nops[o] \in Renaming /\ nops[o].at = "past" /\ UNCHANGED nameVars
      BY <1>0, <1>5, NameKinds DEF askHistory, NDoing
    <2>2. CASE nops' = [nops EXCEPT ![o] = NoNameOp]
      BY <1>idle, <2>1, <2>2, LookKeeps DEF Taking
    <2>3. CASE ~Reissued(nops[o]) /\ nops' = [nops EXCEPT ![o].at = "release"]
      <3>1. PICK op : op = [nops[o] EXCEPT !.at = "release"]
        OBVIOUS
      <3>2. /\ op \in Renaming /\ op.at = "release" /\ op.user = nops[o].user /\ op.to = nops[o].to
            /\ op.from = nops[o].from
        BY <2>1, <3>1 DEF Renaming
      <3>3. op \in NameHandler /\ FromIs(o)
        BY <2>1, <3>2 DEF NameHandler, NameInv, HadKnown
      <3>4. nops' = [nops EXCEPT ![o] = op] /\ ~isAccountNameInHistoryOfOther(op.to, op.user)
        BY <2>3, <3>1, <3>2 DEF Reissued
      <3> QED BY <2>1, <3>2, <3>3, <3>4, LookKeeps DEF FromIs
    <2> QED BY <1>5, <2>2, <2>3 DEF askHistory, NEnd, NTo
  <1>6. CASE saveName(o)
    <2> DEFINE a == nops[o].user
               n == nops[o].to
               beside == {p \in NameOps \ {o} : nops[p].at \in {"past", "release", "record", "rename"} /\ nops[p].user = a}
    <2>1. /\ a \in Accounts /\ n \in Names /\ nops[o].at = "rename" /\ nops' = [nops EXCEPT ![o] = NoNameOp]
          /\ UNCHANGED formers /\ blurred \subseteq blurred'
      BY <1>0, <1>6, NameKinds DEF saveName, NDoing, NEnd, NameAts
    <2>2. \A b, m : /\ Back(o, b, m) <=> b = a /\ m = n
                    /\ Leaves(o, b, m) <=> b = a /\ m \in nops[o].from
      BY <2>1 DEF Back, Leaves
    <2>3. CASE \E b \in Accounts \ {a} : n \in named[b]
      <3>1. {n} \cup nops[o].from \subseteq blurred' /\ UNCHANGED <<named, had>>
        BY <1>6, <2>3 DEF saveName
      <3> QED BY <2>1, <2>2, <3>1, RefusedKeeps
    <2>4. CASE ~\E b \in Accounts \ {a} : n \in named[b]
      <3>1. named' = [named EXCEPT ![a] = {n}] /\ had' = had \cup {<<a, n>>}
        BY <1>6, <2>4 DEF saveName
      <3>2. named[a] # nops[o].from => named[a] \subseteq blurred'
        BY <1>6 DEF saveName
      <3>3. \A p \in beside : {n, nops[p].to} \cup nops[o].from \cup nops[p].from \subseteq blurred'
        BY <1>6 DEF saveName
      <3>4. \A p \in NameOps \ {o} : \A m : Back(p, a, m) \/ Leaves(p, a, m) =>
               p \in beside /\ m \in {nops[p].to} \cup nops[p].from
        BY DEF Back, Leaves
      <3>5. \A p \in NameOps \ {o}, m \in Names : Back(p, a, m) \/ Leaves(p, a, m) =>
               /\ m \in blurred' /\ n \in blurred'
               /\ \A k \in Names : Leaves(o, a, k) => k \in blurred'
        BY <2>2, <3>3, <3>4
      <3>6. Takes(o, a, n) /\ Back(o, a, n)
        BY <2>1 DEF Takes, Taking, Back
      <3>7. \A m \in named[a] : m \in blurred' \/ Leaves(o, a, m)
        BY <2>2, <3>2
      <3> HIDE DEF a, n, beside
      <3> QED BY <2>1, <2>4, <3>1, <3>5, <3>6, <3>7, TakeKeeps
    <2> QED BY <2>3, <2>4
  <1> QED BY <1>1, <1>2, <1>3, <1>4, <1>5, <1>6, ReleaseKeeps, RecordKeeps

LEMMA NamesLeadThen == NameInv => NamesLead
  <1> SUFFICES ASSUME NameInv, \A o \in NameOps : nops[o].at = "idle"
               PROVE  /\ \A pair \in had : pair[2] \notin blurred => findUserByAccountName(pair[2]) = {pair[1]}
                      /\ \A row \in formers : row.from \in named[row.user] => row.from \in blurred
    BY DEF NamesLead
  <1>1. \A o \in NameOps, a \in Accounts, n \in Names : ~Back(o, a, n) /\ ~Leaves(o, a, n)
    BY DEF Back, Leaves
  <1>2. \A row \in formers : row = FormerRow(row.user, row.from) /\ row.user \in Accounts /\ row.from \in Names
    BY DEF NameInv, NameTypes, FormerRow
  <1>3. ASSUME NEW pair \in had, pair[2] \notin blurred
        PROVE  findUserByAccountName(pair[2]) = {pair[1]}
    <2>1. PICK a \in Accounts, n \in Names : pair = <<a, n>>
      BY DEF NameInv, NameTypes
    <2>2. \A b \in Accounts : <<b, n>> \in had => b = a
      BY <1>1, <1>3, <2>1 DEF NameInv, OneOwner
    <2>3. \A b \in Accounts : n \in named[b] => b = a
      BY <2>2 DEF NameInv, HadKnown
    <2>4. \A row \in formers : row.from = n => row.user = a
      BY <1>2, <2>2 DEF NameInv, HadKnown
    <2>5. n \in named[a] \/ FormerRow(a, n) \in formers
      BY <1>1, <1>3, <2>1 DEF NameInv, Kept
    <2>6. FormerRow(a, n).user = a /\ FormerRow(a, n).from = n
      BY DEF FormerRow
    <2>7. findUserByAccountName(n) = {a}
      BY <2>3, <2>4, <2>5, <2>6 DEF findUserByAccountName
    <2> QED BY <2>1, <2>7
  <1>4. ASSUME NEW row \in formers, row.from \in named[row.user]
        PROVE  row.from \in blurred
    BY <1>1, <1>2, <1>4 DEF NameInv, NotBoth
  <1> QED BY <1>3, <1>4
-----------------------------------------------------------------------------
(* The addresses of accounts. *)
MailAts == {"mail", "retire", "make", "sent", "claimed", "confirm"}
MailOf(o, a) == nops[o].at \in MailAts /\ nops[o].user = a
Agreed(a) == \A link \in links : link.user = a => pending[a] = {link.email}
OthersLinks(a) == {link \in links : link.user # a}
NoLinks(a) == \A link \in links : link.user # a
InHand(op, a) ==
    /\ op \in Mail =>
        /\ op.saved => pending[a] = {op.mails}
        /\ op.at \in {"mail", "retire"} /\ ~op.saved => Agreed(a)
        /\ op.at = "make" => NoLinks(a)
        /\ op.at = "sent" => ~op.saved /\ \A link \in links : link.user = a => link.email = op.mails
    /\ op.at \in {"claimed", "confirm"} => NoLinks(a) /\ pending[a] = {op.sentTo}
    /\ op.at = "confirm" => op.to = op.sentTo
(* One change of an account's address at a time, and its links agree with
   the address it awaits. *)
Proper(a) ==
    \/ a \in muddled
    \/ /\ \A o, p \in NameOps : MailOf(o, a) /\ MailOf(p, a) => o = p
       /\ \A o \in NameOps : MailOf(o, a) => InHand(nops[o], a)
       /\ (\A o \in NameOps : ~MailOf(o, a)) => Agreed(a)
MailTypes ==
    /\ mail \in [Accounts -> SUBSET Addresses] /\ pending \in [Accounts -> SUBSET Addresses]
    /\ links \in SUBSET [user : Accounts, email : Addresses]
    /\ \A a \in Accounts : pending[a] = {} \/ \E e \in Addresses : pending[a] = {e}
MailInv == MailTypes /\ AddressesProven /\ \A a \in Accounts : Proper(a)

LEMMA MailBegins == NamesInit => MailInv
  <1> SUFFICES ASSUME NamesInit
               PROVE  MailInv
    OBVIOUS
  <1>1. \A o \in NameOps : nops[o].at = "idle"
    BY DEF NamesInit, NoNameOp
  <1>2. MailTypes /\ AddressesProven
    BY NamesAssumption DEF NamesInit, MailTypes, AddressesProven
  <1>3. \A a \in Accounts : Proper(a)
    BY <1>1 DEF NamesInit, Proper, MailOf, MailAts, Agreed
  <1> QED BY <1>2, <1>3 DEF MailInv

(* A step of a handler that changes an account's address. *)
LEMMA ChangeKeeps ==
    ASSUME NameTypes, \A b \in Accounts : Proper(b), NEW o \in NameOps, NEW op \in NameHandler,
           nops' = [nops EXCEPT ![o] = op], NEW a \in Accounts,
           MailOf(o, a) \/ (nops[o].at \notin MailAts /\ (Changing(a) = {} \/ a \in muddled')),
           op.at \in MailAts => op.user = a,
           \A b \in Accounts \ {a} : pending'[b] = pending[b] /\ (b \in muddled' <=> b \in muddled),
           UNCHANGED OthersLinks(a),
           a \in muddled => a \in muddled',
           op.at \in MailAts => a \in muddled' \/ InHand(op, a)',
           op.at \notin MailAts => a \in muddled' \/ Agreed(a)'
    PROVE  \A b \in Accounts : Proper(b)'
  <1>1. nops'[o] = op /\ \A p \in NameOps \ {o} : nops'[p] = nops[p]
    BY DEF NameTypes
  <1>2. ASSUME NEW b \in Accounts \ {a}
        PROVE  Proper(b)'
    <2>1. \A p \in NameOps : MailOf(p, b)' <=> MailOf(p, b)
      BY <1>1 DEF MailOf
    <2>2. Agreed(b)' <=> Agreed(b)
      BY DEF Agreed, OthersLinks
    <2>3. \A p \in NameOps : MailOf(p, b) => nops'[p] = nops[p]
      BY <1>1 DEF MailOf
    <2>4. NoLinks(b)' <=> NoLinks(b)
      BY DEF NoLinks, OthersLinks
    <2>5. ASSUME NEW p \in NameOps, MailOf(p, b), InHand(nops[p], b)
          PROVE  InHand(nops[p], b)' 
      <3>1. nops'[p] = nops[p]
        BY <2>3, <2>5
      <3> QED BY <2>2, <2>4, <2>5, <3>1 DEF InHand, Mail, OthersLinks
    <2> QED BY <2>1, <2>2, <2>3, <2>5 DEF Proper
  <1>3. ASSUME a \notin muddled'
        PROVE  Proper(a)'
    <2>1. \A p \in NameOps \ {o} : ~MailOf(p, a)'
      <3> SUFFICES ASSUME NEW p \in NameOps \ {o}, MailOf(p, a)
                   PROVE  FALSE
        BY <1>1 DEF MailOf
      <3>1. a \notin muddled
        BY <1>3
      <3>2. MailOf(o, a) => p = o
        BY <3>1 DEF Proper
      <3>3. p \in Changing(a)
        BY DEF MailOf, MailAts, Changing
      <3> QED BY <1>3, <3>2, <3>3
    <2>2. MailOf(o, a)' <=> op.at \in MailAts
      BY <1>1 DEF MailOf
    <2>3. MailOf(o, a)' => InHand(nops[o], a)'
      BY <1>1, <1>3, <2>2
    <2>4. ~MailOf(o, a)' => Agreed(a)'
      BY <1>3, <2>2
    <2> QED BY <2>1, <2>3, <2>4 DEF Proper
  <1>4. a \in muddled' => Proper(a)'
    BY DEF Proper
  <1> QED BY <1>2, <1>3, <1>4

LEMMA NamingKeepsMail == NameInv /\ MailInv /\ Naming => MailInv'
  <1> SUFFICES ASSUME NameInv, MailInv, NEW o \in NameOps,
                      \/ \E a \in Accounts, n \in Names : register(o, a, n) \/ rename(o, a, n)
                      \/ findRegistered(o) \/ registerAtomically(o)
                      \/ askHistory(o) \/ releaseOwn(o) \/ recordFormer(o) \/ saveName(o)
               PROVE  MailInv'
    BY DEF Naming
  <1>1. UNCHANGED mailVars
    BY DEF register, rename, findRegistered, registerAtomically, askHistory, releaseOwn, recordFormer, saveName
  <1>2. nops \in [NameOps -> NameHandler]
    BY DEF NameInv, NameTypes
  <1>3. nops[o].at \notin MailAts
    BY DEF register, rename, findRegistered, registerAtomically, askHistory, releaseOwn, recordFormer, saveName,
           NDoing, MailAts
  <1>4. (\A p \in NameOps \ {o} : nops'[p] = nops[p]) /\ nops'[o].at \notin MailAts
    <2>1. NoNameOp.at \notin MailAts
      BY DEF NoNameOp, MailAts
    <2>2. ASSUME NEW at, at \notin MailAts, NTo(o, at), nops[o].at \in NameAts
          PROVE  (\A p \in NameOps \ {o} : nops'[p] = nops[p]) /\ nops'[o].at \notin MailAts
      <3>1. nops' = [nops EXCEPT ![o] = [nops[o] EXCEPT !.at = at]]
        BY <2>2 DEF NTo
      <3>2. nops[o] \in Registering \cup Renaming
        BY <1>2, <2>2, NameKinds DEF NameAts
      <3>3. [nops[o] EXCEPT !.at = at].at = at
        BY <3>2 DEF Registering, Renaming
      <3> QED BY <1>2, <2>2, <3>1, <3>3
    <2>3. ASSUME NEW op, op.at \notin MailAts, nops' = [nops EXCEPT ![o] = op]
          PROVE  (\A p \in NameOps \ {o} : nops'[p] = nops[p]) /\ nops'[o].at \notin MailAts
      BY <1>2, <2>3
    <2>4. ASSUME NEW a \in Accounts, NEW n \in Names, register(o, a, n) \/ rename(o, a, n)
          PROVE  \E op : op.at \notin MailAts /\ nops' = [nops EXCEPT ![o] = op]
      <3>1. [at |-> "find", user |-> a, to |-> n].at \notin MailAts
        BY DEF MailAts
      <3>2. [at |-> "past", user |-> a, from |-> named[a], to |-> n].at \notin MailAts
        BY DEF MailAts
      <3> QED BY <2>4, <3>1, <3>2 DEF register, rename, NGo
    <2>5. CASE findRegistered(o) \/ registerAtomically(o) \/ askHistory(o) \/ releaseOwn(o) \/ recordFormer(o) \/ saveName(o)
      <3>1. \/ nops' = [nops EXCEPT ![o] = NoNameOp]
            \/ nops[o].at \in NameAts /\ \E at \in {"create", "release", "record", "rename"} : NTo(o, at)
        BY <2>5 DEF findRegistered, registerAtomically, askHistory, releaseOwn, recordFormer, saveName, NDoing, NEnd,
                    NameAts
      <3>2. \A at \in {"create", "release", "record", "rename"} : at \notin MailAts
        BY DEF MailAts
      <3> QED BY <2>1, <2>2, <2>3, <3>1, <3>2
    <2> QED BY <2>3, <2>4, <2>5
  <1>5. MailTypes' /\ AddressesProven'
    BY <1>1 DEF MailInv, MailTypes, AddressesProven, mailVars
  <1>6. \A p \in NameOps, a \in Accounts : MailOf(p, a)' <=> MailOf(p, a)
    BY <1>3, <1>4 DEF MailOf
  <1>7. ASSUME NEW a \in Accounts
        PROVE  Proper(a)'
    <2>1. (Agreed(a)' <=> Agreed(a)) /\ (NoLinks(a)' <=> NoLinks(a))
      BY <1>1 DEF Agreed, NoLinks, mailVars
    <2>2. UNCHANGED <<pending, links, muddled>>
      BY <1>1 DEF mailVars
    <2>3. ASSUME NEW p \in NameOps, MailOf(p, a), InHand(nops[p], a)
          PROVE  InHand(nops[p], a)'
      <3>1. nops'[p] = nops[p]
        BY <1>3, <1>4, <2>3 DEF MailOf
      <3> QED BY <2>1, <2>2, <2>3, <3>1 DEF InHand, Mail
    <2>4. Proper(a)
      BY DEF MailInv
    <2> QED BY <1>6, <2>1, <2>2, <2>3, <2>4 DEF Proper
  <1> QED BY <1>5, <1>7 DEF MailInv

LEMMA MailingKeeps == NameInv /\ MailInv /\ Mailing => NameInv' /\ MailInv'
  <1> SUFFICES ASSUME NameInv, MailInv, Mailing
               PROVE  NameInv' /\ MailInv'
    OBVIOUS
  <1>0. CASE hourPasses
    <2>1. UNCHANGED <<nameVars, mail, pending, links, muddled, astray, nops>>
      BY <1>0 DEF hourPasses
    <2>2. NameInv'
      BY <2>1 DEF nameVars, NameInv, NameTypes, HadKnown, Kept, OneOwner, Guarded, NotBoth, Freed, Recorded, Awaited,
                  FromIs, Back, Leaves, Takes, FormerRow
    <2>3. MailInv'
      BY <2>1 DEF MailInv, MailTypes, AddressesProven, Proper, MailOf, Agreed, NoLinks, InHand
    <2> QED BY <2>2, <2>3
  <1>1. ASSUME NEW o \in NameOps, NEW op \in NameHandler, nops' = [nops EXCEPT ![o] = op], UNCHANGED nameVars,
               nops[o].at \notin NameAts, op.at \notin NameAts
        PROVE  NameInv'
    <2>1. op.at \notin Taking /\ op.at \notin {"record", "rename"} /\ nops[o].at \notin {"record", "rename"}
      BY <1>1 DEF Taking, NameAts
    <2>2. op \notin Renaming
      BY <1>1 DEF Renaming, NameAts
    <2> QED BY <1>1, <2>1, <2>2, LookKeeps
  <1>2. ASSUME NEW o \in NameOps, NEW a \in Accounts, resendVerification(o, a)
        PROVE  NameInv' /\ MailInv'
    <2>1. PICK e \in Addresses : pending[a] = {e}
      BY <1>2 DEF resendVerification, MailInv, MailTypes
    <2>2. PICK op : op = [at |-> "mail", mails |-> e, user |-> a, saved |-> TRUE]
      OBVIOUS
    <2>3. op \in Mail /\ op.at = "mail" /\ op.user = a /\ op.mails = e /\ op.saved
      BY <2>2 DEF Mail
    <2>4. op \in NameHandler /\ op.at \in MailAts /\ op.at \notin NameAts
      BY <2>3 DEF NameHandler, MailAts, NameAts
    <2>5. /\ nops[o].at = "idle" /\ nops' = [nops EXCEPT ![o] = op]
          /\ UNCHANGED <<nameVars, mail, pending, links, astray>>
          /\ muddled' = IF Changing(a) # {} THEN muddled \cup {a} ELSE muddled
      BY <1>2, <2>1, <2>2 DEF resendVerification, NDoing, NGo
    <2>6. NameInv'
      BY <1>1, <2>4, <2>5 DEF NameAts
    <2>7. InHand(op, a)'
      BY <2>1, <2>3, <2>5 DEF InHand
    <2>8. \A b \in Accounts : Proper(b)'
      BY <2>3, <2>4, <2>5, <2>7, ChangeKeeps DEF MailInv, NameInv, MailAts, OthersLinks
    <2> QED BY <2>5, <2>6, <2>8 DEF MailInv, MailTypes, AddressesProven
  <1>3. ASSUME NEW o \in NameOps, NEW a \in Accounts, NEW e \in Addresses, changeEmail(o, a, e)
        PROVE  NameInv' /\ MailInv'
    <2>1. PICK op : op = [at |-> "mail", mails |-> e, user |-> a, saved |-> FALSE]
      OBVIOUS
    <2>2. op \in Mail /\ op.at = "mail" /\ op.user = a /\ op.mails = e /\ ~op.saved
      BY <2>1 DEF Mail
    <2>3. op \in NameHandler /\ op.at \in MailAts /\ op.at \notin NameAts
      BY <2>2 DEF NameHandler, MailAts, NameAts
    <2>4. /\ nops[o].at = "idle" /\ nops' = [nops EXCEPT ![o] = op]
          /\ UNCHANGED <<nameVars, mail, pending, links, astray>>
          /\ muddled' = IF Changing(a) # {} THEN muddled \cup {a} ELSE muddled
      BY <1>3, <2>1 DEF changeEmail, NDoing, NGo
    <2>5. NameInv'
      BY <1>1, <2>3, <2>4 DEF NameAts
    <2>6. a \in muddled' \/ Agreed(a)
      <3> SUFFICES ASSUME Changing(a) = {}, a \notin muddled
                   PROVE  Agreed(a)
        BY <2>4
      <3>1. \A p \in NameOps : ~MailOf(p, a)
        BY DEF Changing, MailOf, MailAts
      <3> QED BY <3>1 DEF MailInv, Proper
    <2>7. a \in muddled' \/ InHand(op, a)'
      BY <2>2, <2>4, <2>6 DEF InHand, Agreed
    <2>8. \A b \in Accounts : Proper(b)'
      BY <2>2, <2>3, <2>4, <2>7, ChangeKeeps DEF MailInv, NameInv, MailAts, OthersLinks
    <2> QED BY <2>4, <2>5, <2>8 DEF MailInv, MailTypes, AddressesProven
  <1>4. ASSUME NEW o \in NameOps, nops[o].at \in MailAts, NEW op \in NameHandler, nops' = [nops EXCEPT ![o] = op],
               NEW a \in Accounts, nops[o].user = a, op.at \in MailAts => op.user = a, op.at \notin NameAts,
               UNCHANGED nameVars, UNCHANGED muddled \/ muddled' = muddled \cup {a},
               \A b \in Accounts \ {a} : pending'[b] = pending[b],
               UNCHANGED OthersLinks(a),
               InHand(nops[o], a) => (op.at \in MailAts => a \in muddled' \/ InHand(op, a)'),
               InHand(nops[o], a) => (op.at \notin MailAts => a \in muddled' \/ Agreed(a)')
        PROVE  NameInv' /\ (\A b \in Accounts : Proper(b)')
    <2>1. NameInv'
      BY <1>1, <1>4 DEF NameAts, MailAts
    <2>2. MailOf(o, a)
      BY <1>4 DEF MailOf
    <2>3. a \in muddled' \/ InHand(nops[o], a)
      BY <1>4, <2>2 DEF MailInv, Proper
    <2>4. /\ op.at \in MailAts => a \in muddled' \/ InHand(op, a)'
          /\ op.at \notin MailAts => a \in muddled' \/ Agreed(a)'
      BY <1>4, <2>3
    <2>5. NameTypes /\ \A b \in Accounts : Proper(b)
      BY DEF MailInv, NameInv
    <2>6. /\ \A b \in Accounts \ {a} : pending'[b] = pending[b] /\ (b \in muddled' <=> b \in muddled)
          /\ a \in muddled => a \in muddled'
      BY <1>4
    <2>7. \A b \in Accounts : Proper(b)'
      <3>1. nops' = [nops EXCEPT ![o] = op] /\ UNCHANGED OthersLinks(a) /\ (op.at \in MailAts => op.user = a)
        BY <1>4, Zenon
      <3>2. MailOf(o, a) \/ (nops[o].at \notin MailAts /\ (Changing(a) = {} \/ a \in muddled'))
        BY <2>2, Zenon
      <3> QED BY ONLY <2>4, <2>5, <2>6, <3>1, <3>2, ChangeKeeps
    <2> QED BY <2>1, <2>7
  <1>5. NoNameOp \in NameHandler /\ NoNameOp.at \notin NameAts /\ NoNameOp.at \notin MailAts
    BY DEF NameHandler, NoNameOp, NameAts, MailAts
  <1>6. ASSUME NEW o \in NameOps, nops[o].at \in {"mail", "retire", "make", "sent"}
        PROVE  /\ nops[o] \in Mail /\ nops[o].user \in Accounts /\ nops[o].mails \in Addresses
               /\ nops[o].at \in MailAts /\ nops[o].at \notin NameAts
    BY <1>6, NameKinds DEF NameInv, NameTypes, Mail, MailAts, NameAts
  <1>7. ASSUME NEW o \in NameOps, nops[o].at \in {"mail", "retire", "make", "sent"},
               NEW at \in {"mail", "retire", "make", "sent"}, NTo(o, at)
        PROVE  \E op \in Mail : /\ nops' = [nops EXCEPT ![o] = op] /\ op.at = at
                                /\ op.user = nops[o].user /\ op.mails = nops[o].mails
                                /\ (op.saved <=> nops[o].saved)
    <2>1. PICK op : op = [nops[o] EXCEPT !.at = at]
      OBVIOUS
    <2>2. op \in Mail /\ op.at = at /\ op.user = nops[o].user /\ op.mails = nops[o].mails
      BY <1>6, <1>7, <2>1 DEF Mail
    <2>3. op.saved <=> nops[o].saved
      BY <1>6, <1>7, <2>1 DEF Mail
    <2> QED BY <1>7, <2>1, <2>2, <2>3 DEF NTo
  <1>8. ASSUME NEW op \in Mail
        PROVE  op \in NameHandler /\ op.at \in MailAts /\ op.at \notin NameAts
    BY DEF Mail, NameHandler, MailAts, NameAts
  <1>9. ASSUME NEW o \in NameOps, savePending(o)
        PROVE  NameInv' /\ MailInv'
    <2> PICK a : a = nops[o].user
      OBVIOUS
    <2>1. /\ nops[o].at \in {"mail", "retire", "make", "sent"} /\ ~nops[o].saved
          /\ pending' = [pending EXCEPT ![a] = {nops[o].mails}]
          /\ UNCHANGED <<nameVars, mail, links, muddled, astray>>
      BY <1>9 DEF savePending, NameInv, NameTypes, NameHandler, NoNameOp, Registering, Renaming, Mail, Claimed, Confirming
    <2>2. a \in Accounts /\ nops[o].mails \in Addresses /\ nops[o] \in Mail /\ nops[o].at \in MailAts
      BY <1>6, <2>1
    <2>3. pending'[a] = {nops[o].mails} /\ \A b \in Accounts \ {a} : pending'[b] = pending[b]
      BY <2>1, <2>2 DEF MailInv, MailTypes
    <2>4. CASE nops[o].at = "sent"
      <3>1. nops' = [nops EXCEPT ![o] = NoNameOp]
        BY <1>9, <2>4 DEF savePending, NEnd
      <3>2. InHand(nops[o], a) => Agreed(a)'
        BY <2>1, <2>2, <2>3, <2>4 DEF InHand, Agreed
      <3>3. NameInv' /\ \A b \in Accounts : Proper(b)'
        BY <1>4, <1>5, <1>6, <2>1, <2>2, <2>3, <3>1, <3>2 DEF OthersLinks
      <3> QED BY <2>1, <2>2, <3>3 DEF MailInv, MailTypes, AddressesProven
    <2>5. CASE nops[o].at # "sent"
      <3>1. PICK op : op = [nops[o] EXCEPT !.saved = TRUE]
        OBVIOUS
      <3>2. op \in Mail /\ op.at = nops[o].at /\ op.user = a /\ op.mails = nops[o].mails /\ op.saved
        BY <2>2, <3>1 DEF Mail
      <3>3. nops' = [nops EXCEPT ![o] = op]
        BY <1>9, <2>5, <3>1 DEF savePending
      <3>4. InHand(nops[o], a) => InHand(op, a)'
        BY <2>1, <2>2, <2>3, <2>5, <3>2 DEF InHand, NoLinks, Mail
      <3>5. NameInv' /\ \A b \in Accounts : Proper(b)'
        <4>1. op \in NameHandler /\ op.at \notin NameAts /\ op.at \in MailAts
          BY <1>8, <3>2
        <4>2. UNCHANGED OthersLinks(a)
          BY <2>1 DEF OthersLinks
        <4> QED BY <1>4, <2>1, <2>2, <2>3, <3>2, <3>3, <3>4, <4>1, <4>2
      <3> QED BY <2>1, <2>2, <3>5 DEF MailInv, MailTypes, AddressesProven
    <2> QED BY <2>4, <2>5
  <1>10. ASSUME NEW o \in NameOps, nops[o].at \in {"mail", "make"}, NEW a \in Accounts, a = nops[o].user, MSent(o)
         PROVE  \E op \in NameHandler :
                   /\ nops' = [nops EXCEPT ![o] = op] /\ op.at \notin NameAts /\ (op.at \in MailAts => op.user = a)
                   /\ \/ op = NoNameOp /\ nops[o].saved
                      \/ op \in Mail /\ op.at = "sent" /\ ~op.saved /\ op.mails = nops[o].mails
    <2>1. CASE nops[o].saved
      BY <1>5, <1>10, <2>1 DEF MSent, NEnd
    <2>2. CASE ~nops[o].saved
      BY <1>7, <1>8, <1>10, <2>2 DEF MSent
    <2> QED BY <2>1, <2>2
  <1>11. ASSUME NEW o \in NameOps, countLinks(o)
         PROVE  NameInv' /\ MailInv'
    <2> PICK a : a = nops[o].user
      OBVIOUS
    <2>1. nops[o].at = "mail" /\ UNCHANGED <<nameVars, mail, pending, links, sent, begun, astray>>
      BY <1>11 DEF countLinks, NDoing
    <2>2. a \in Accounts /\ nops[o] \in Mail /\ nops[o].at \in MailAts
      BY <1>6, <2>1
    <2>3. CASE sent[a] < MaxLinks
      <3>1. NTo(o, "retire") /\ UNCHANGED muddled
        BY <1>11, <2>3 DEF countLinks
      <3>2. PICK op \in Mail : /\ nops' = [nops EXCEPT ![o] = op] /\ op.at = "retire"
                              /\ op.user = a /\ op.mails = nops[o].mails
                              /\ (op.saved <=> nops[o].saved)
        BY <1>7, <2>1, <3>1
      <3>3. InHand(nops[o], a) => InHand(op, a)'
        BY <2>1, <2>2, <3>2 DEF InHand, Agreed, Mail
      <3>4. NameInv' /\ \A b \in Accounts : Proper(b)'
        <4>1. op \in NameHandler /\ op.at \notin NameAts /\ op.at \in MailAts
          BY <1>8, <3>2
        <4>2. UNCHANGED OthersLinks(a) /\ UNCHANGED pending
          BY <2>1 DEF OthersLinks
        <4> QED BY <1>4, <2>1, <2>2, <3>1, <3>2, <3>3, <4>1, <4>2
      <3> QED BY <2>1, <3>4 DEF MailInv, MailTypes, AddressesProven
    <2>4. CASE ~(sent[a] < MaxLinks)
      <3>1. MSent(o) /\ muddled' = muddled \cup {a}
        BY <1>11, <2>4 DEF countLinks
      <3>2. PICK op \in NameHandler : /\ nops' = [nops EXCEPT ![o] = op] /\ op.at \notin NameAts
                                     /\ (op.at \in MailAts => op.user = a)
        BY <1>10, <2>1, <2>2, <3>1
      <3>3. a \in muddled'
        BY <3>1
      <3>4. NameInv' /\ \A b \in Accounts : Proper(b)'
        <4>1. UNCHANGED OthersLinks(a) /\ UNCHANGED pending
          BY <2>1 DEF OthersLinks
        <4> QED BY <1>4, <2>1, <2>2, <3>1, <3>2, <3>3, <4>1
      <3> QED BY <2>1, <3>1, <3>4 DEF MailInv, MailTypes, AddressesProven
    <2> QED BY <2>3, <2>4
  <1>12. ASSUME NEW o \in NameOps, retireLinks(o)
         PROVE  NameInv' /\ MailInv'
    <2> PICK a : a = nops[o].user
      OBVIOUS
    <2>1. /\ nops[o].at = "retire" /\ links' = links \ Retired(a) /\ NTo(o, "make")
          /\ UNCHANGED <<nameVars, mail, pending, sent, begun, muddled, astray>>
      BY <1>12 DEF retireLinks, NDoing
    <2>2. a \in Accounts /\ nops[o] \in Mail /\ nops[o].at \in MailAts
      BY <1>6, <2>1
    <2>3. PICK op \in Mail : /\ nops' = [nops EXCEPT ![o] = op] /\ op.at = "make"
                            /\ op.user = a /\ op.mails = nops[o].mails
                            /\ (op.saved <=> nops[o].saved)
      BY <1>7, <2>1
    <2>4. NoLinks(a)' /\ OthersLinks(a)' = OthersLinks(a)
      BY <2>1 DEF NoLinks, OthersLinks, Retired
    <2>5. InHand(nops[o], a) => InHand(op, a)'
      BY <2>1, <2>2, <2>3, <2>4 DEF InHand, Mail
    <2>6. NameInv' /\ \A b \in Accounts : Proper(b)'
      <3>1. op \in NameHandler /\ op.at \notin NameAts /\ op.at \in MailAts
        BY <1>8, <2>3
      <3> QED BY <1>4, <2>1, <2>2, <2>3, <2>4, <2>5, <3>1
    <2> QED BY <2>1, <2>6 DEF MailInv, MailTypes, AddressesProven
  <1>13. ASSUME NEW o \in NameOps, makeLink(o)
         PROVE  NameInv' /\ MailInv'
    <2> PICK a : a = nops[o].user
      OBVIOUS
    <2>1. /\ nops[o].at = "make" /\ links' = links \cup {[user |-> a, email |-> nops[o].mails]} /\ MSent(o)
          /\ UNCHANGED <<nameVars, mail, pending, begun, muddled, astray>>
      BY <1>13 DEF makeLink, NDoing
    <2>2. a \in Accounts /\ nops[o] \in Mail /\ nops[o].mails \in Addresses
      BY <1>6, <2>1
    <2>3. PICK op \in NameHandler :
                   /\ nops' = [nops EXCEPT ![o] = op] /\ op.at \notin NameAts /\ (op.at \in MailAts => op.user = a)
                   /\ \/ op = NoNameOp /\ nops[o].saved
                      \/ op \in Mail /\ op.at = "sent" /\ ~op.saved /\ op.mails = nops[o].mails
      BY <1>10, <2>1, <2>2
    <2>4. OthersLinks(a)' = OthersLinks(a)
      BY <2>1 DEF OthersLinks
    <2>5. NoLinks(a) => \A link \in links' : link.user = a => link.email = nops[o].mails
      BY <2>1 DEF NoLinks
    <2>6. InHand(nops[o], a) => NoLinks(a) /\ (nops[o].saved => pending[a] = {nops[o].mails})
      BY <2>1, <2>2 DEF InHand
    <2>7. InHand(nops[o], a) /\ op.at \in MailAts => InHand(op, a)'
      BY <1>5, <2>3, <2>5, <2>6 DEF InHand
    <2>8. InHand(nops[o], a) /\ op.at \notin MailAts => Agreed(a)'
      BY <1>8, <2>1, <2>3, <2>5, <2>6 DEF Agreed
    <2>9. NameInv' /\ \A b \in Accounts : Proper(b)'
      BY <1>4, <1>6, <2>1, <2>2, <2>3, <2>4, <2>7, <2>8
    <2>10. links' \in SUBSET [user : Accounts, email : Addresses]
      BY <2>1, <2>2 DEF MailInv, MailTypes
    <2> QED BY <2>1, <2>9, <2>10 DEF MailInv, MailTypes, AddressesProven
  <1>14. ASSUME NEW o \in NameOps, NEW link \in links, verifyEmailToken(o, link)
         PROVE  NameInv' /\ MailInv'
    <2> PICK a : a = link.user
      OBVIOUS
    <2>1. PICK op : op = [at |-> "claimed", user |-> a, sentTo |-> link.email]
      OBVIOUS
    <2>2. a \in Accounts /\ link.email \in Addresses /\ link = [user |-> a, email |-> link.email]
      BY DEF MailInv, MailTypes
    <2>3. op \in Claimed /\ op.at = "claimed" /\ op.user = a /\ op.sentTo = link.email
      BY <2>1, <2>2 DEF Claimed
    <2>4. op \in NameHandler /\ op.at \in MailAts /\ op.at \notin NameAts /\ op \notin Mail
      BY <2>3 DEF NameHandler, MailAts, NameAts, Mail
    <2>5. /\ nops[o].at = "idle" /\ links' = links \ {link} /\ nops' = [nops EXCEPT ![o] = op]
          /\ muddled' = IF Changing(a) # {} THEN muddled \cup {a} ELSE muddled
          /\ UNCHANGED <<nameVars, mail, pending, sent, begun, astray>>
      BY <1>14, <2>1 DEF verifyEmailToken, NDoing, NGo
    <2>6. NameInv'
      BY <1>1, <2>4, <2>5 DEF NameAts
    <2>7. a \in muddled' \/ Agreed(a)
      <3> SUFFICES ASSUME Changing(a) = {}, a \notin muddled
                   PROVE  Agreed(a)
        BY <2>5
      <3>1. \A p \in NameOps : ~MailOf(p, a)
        BY DEF Changing, MailOf, MailAts
      <3> QED BY <2>2, <3>1 DEF MailInv, Proper
    <2>8. Agreed(a) => pending[a] = {link.email} /\ NoLinks(a)'
      <3> SUFFICES ASSUME Agreed(a)
                   PROVE  pending[a] = {link.email} /\ NoLinks(a)'
        OBVIOUS
      <3>1. pending[a] = {link.email}
        BY DEF Agreed
      <3>2. ASSUME NEW l \in links, l.user = a
            PROVE  l = link
        <4>1. {l.email} = {link.email}
          BY <3>1, <3>2 DEF Agreed
        <4>2. l.email = link.email
          BY <4>1
        <4>3. l \in [user : Accounts, email : Addresses]
          BY DEF MailInv, MailTypes
        <4> QED BY <2>2, <3>2, <4>2, <4>3
      <3> QED BY <2>5, <3>1, <3>2 DEF NoLinks
    <2>9. a \in muddled' \/ InHand(op, a)'
      BY <2>3, <2>4, <2>5, <2>7, <2>8 DEF InHand
    <2>10. OthersLinks(a)' = OthersLinks(a)
      BY <2>5 DEF OthersLinks
    <2>11. \A b \in Accounts : Proper(b)'
      BY <2>2, <2>3, <2>4, <2>5, <2>9, <2>10, ChangeKeeps DEF MailInv, NameInv, MailAts
    <2> QED BY <2>5, <2>6, <2>11 DEF MailInv, MailTypes, AddressesProven
  <1>15. ASSUME NEW o \in NameOps, readVerified(o)
         PROVE  NameInv' /\ MailInv'
    <2> PICK a : a = nops[o].user
      OBVIOUS
    <2>1. nops[o].at = "claimed" /\ UNCHANGED <<nameVars, mailVars>>
      BY <1>15 DEF readVerified, NDoing
    <2>2. nops[o] \in Claimed /\ a \in Accounts /\ nops[o].at \in MailAts
      BY <2>1, NameKinds DEF NameInv, NameTypes, Claimed, MailAts
    <2>3. UNCHANGED <<mail, pending, links, muddled, astray>>
      BY <2>1 DEF mailVars
    <2>4. InHand(nops[o], a) => NoLinks(a) /\ pending[a] = {nops[o].sentTo}
      BY <2>1 DEF InHand
    <2>5. CASE nops' = [nops EXCEPT ![o] = NoNameOp]
      <3>1. InHand(nops[o], a) => Agreed(a)'
        BY <2>3, <2>4 DEF Agreed, NoLinks
      <3>2. NameInv' /\ \A b \in Accounts : Proper(b)'
        BY <1>4, <1>5, <2>1, <2>2, <2>3, <2>5, <3>1 DEF OthersLinks
      <3> QED BY <2>3, <3>2 DEF MailInv, MailTypes, AddressesProven
    <2>6. CASE pending[a] # {} /\ NGo(o, [at |-> "confirm", user |-> a, sentTo |-> nops[o].sentTo,
                                         to |-> CHOOSE e \in pending[a] : TRUE])
      <3>1. PICK e \in Addresses : pending[a] = {e}
        BY <2>2, <2>6 DEF MailInv, MailTypes
      <3>2. PICK op : op = [at |-> "confirm", user |-> a, sentTo |-> nops[o].sentTo, to |-> e]
        OBVIOUS
      <3>3. op \in Confirming /\ op.at = "confirm" /\ op.user = a /\ op.sentTo = nops[o].sentTo /\ op.to = e
        BY <2>2, <3>2 DEF Confirming, Claimed
      <3>4. op \in NameHandler /\ op.at \in MailAts /\ op.at \notin NameAts /\ op \notin Mail
        BY <3>3 DEF NameHandler, MailAts, NameAts, Mail
      <3>5. nops' = [nops EXCEPT ![o] = op]
        BY <2>6, <3>1, <3>2 DEF NGo
      <3>6. InHand(nops[o], a) => InHand(op, a)'
        BY <2>3, <2>4, <3>1, <3>3, <3>4 DEF InHand, NoLinks
      <3>7. NameInv' /\ \A b \in Accounts : Proper(b)'
        BY <1>4, <2>1, <2>2, <2>3, <3>3, <3>4, <3>5, <3>6 DEF OthersLinks
      <3> QED BY <2>3, <3>7 DEF MailInv, MailTypes, AddressesProven
    <2> QED BY <1>15, <2>5, <2>6 DEF readVerified, NEnd
  <1>16. ASSUME NEW o \in NameOps, saveVerified(o)
         PROVE  NameInv' /\ MailInv'
    <2> PICK a : a = nops[o].user
      OBVIOUS
    <2> PICK e : e = nops[o].to
      OBVIOUS
    <2>1. nops[o].at = "confirm" /\ nops' = [nops EXCEPT ![o] = NoNameOp] /\ UNCHANGED <<nameVars, links, sent, begun, muddled>>
      BY <1>16 DEF saveVerified, NDoing, NEnd
    <2>2. nops[o] \in Confirming /\ a \in Accounts /\ e \in Addresses /\ nops[o].at \in MailAts
      BY <2>1, NameKinds DEF NameInv, NameTypes, Confirming, MailAts
    <2>3. InHand(nops[o], a) => NoLinks(a) /\ nops[o].to = nops[o].sentTo
      BY <2>1 DEF InHand
    <2>4. InHand(nops[o], a) => Agreed(a)'
      BY <2>1, <2>3 DEF Agreed, NoLinks
    <2>5. \A b \in Accounts \ {a} : pending'[b] = pending[b]
      BY <1>16 DEF saveVerified, MailInv, MailTypes
    <2>6. NameInv' /\ \A b \in Accounts : Proper(b)'
      BY <1>4, <1>5, <2>1, <2>2, <2>4, <2>5 DEF OthersLinks
    <2>7. CASE \E b \in Accounts \ {a} : e \in mail[b]
      <3>1. UNCHANGED <<mail, pending, astray>>
        BY <1>16, <2>7 DEF saveVerified
      <3> QED BY <2>1, <2>6, <3>1 DEF MailInv, MailTypes, AddressesProven
    <2>8. CASE ~\E b \in Accounts \ {a} : e \in mail[b]
      <3>1. /\ mail' = [mail EXCEPT ![a] = {e}] /\ pending' = [pending EXCEPT ![a] = {}]
            /\ astray' = (astray \/ (e # nops[o].sentTo /\ a \notin muddled))
        BY <1>16, <2>8 DEF saveVerified
      <3>2. MailTypes'
        BY <2>1, <2>2, <3>1 DEF MailInv, MailTypes
      <3>3. \A b \in Accounts : mail'[b] = IF b = a THEN {e} ELSE mail[b]
        BY <3>1 DEF MailInv, MailTypes
      <3>4. a \in muddled \/ e = nops[o].sentTo
        <4>1. MailOf(o, a)
          BY <2>2 DEF MailOf
        <4>2. a \in muddled \/ InHand(nops[o], a)
          BY <2>2, <4>1 DEF MailInv, Proper
        <4> QED BY <2>3, <4>2
      <3>5. ~astray'
        BY <3>1, <3>4 DEF MailInv, AddressesProven
      <3>6. AddressesProven'
        BY <2>8, <3>3, <3>5 DEF MailInv, AddressesProven
      <3> QED BY <2>6, <3>2, <3>6 DEF MailInv
    <2> QED BY <2>7, <2>8
  <1> QED BY <1>0, <1>2, <1>3, <1>9, <1>11, <1>12, <1>13, <1>14, <1>15, <1>16 DEF Mailing

(* With nobody at work a name an account has ever had leads to it and to
   nobody else, and no two accounts hold an address, however the handlers
   of any number of accounts interleave (account-name.service.ts). *)
THEOREM NamesAreKept == NamesSpec => []NamesHold
  <1>1. NamesInit => NameInv /\ MailInv
    BY NamesBegin, MailBegins
  <1>2. NameInv /\ MailInv /\ [NamesNext]_identityVars => NameInv' /\ MailInv'
    <2>1. NameInv /\ MailInv /\ NamesNext => NameInv' /\ MailInv'
      BY NamingKeeps, NamingKeepsMail, MailingKeeps DEF NamesNext
    <2>2. NameInv /\ MailInv /\ UNCHANGED identityVars => NameInv' /\ MailInv'
      <3>1. NameInv /\ UNCHANGED identityVars => NameInv'
        BY DEF identityVars, nameVars, NameInv, NameTypes, HadKnown, Kept, OneOwner, Guarded, NotBoth, Freed,
               Recorded, Awaited, FromIs, Back, Leaves, Takes, FormerRow
      <3>2. MailInv /\ UNCHANGED identityVars => MailInv'
        BY DEF identityVars, mailVars, MailInv, MailTypes, AddressesProven, Proper, MailOf, Agreed, NoLinks, InHand
      <3> QED BY <3>1, <3>2
    <2> QED BY <2>1, <2>2
  <1>3. NameInv /\ MailInv => NamesHold
    BY NamesLeadThen DEF NamesHold, MailInv
  <1> QED BY <1>1, <1>2, <1>3, PTL DEF NamesSpec

-----------------------------------------------------------------------------
(* The projects of the accounts: what the handlers know, the rows of the
   forks, and every count with the handlers that will still move it. *)
Doc == [owner : Owners, from : SUBSET Ids, fromOwner : Owners, sourceDeleted : BOOLEAN, forkCount : Nat]
ForkRow == [source : Ids, fork : Ids, user : Owners]
LibraryOp ==
    {NoLibraryOp} \cup [at : {"create", "count", "credit"}, user : Owners]
    \cup [at : {"clone"}, user : Owners, source : Ids, owner : Owners]
    \cup [at : {"remove"}, id : Ids, doc : Doc] \cup [at : {"upsert"}, id : Ids]
    \cup [at : {"ranking"}, late : BOOLEAN, counts : [Owners -> Nat]]
Ever == {p \in Ids : docs[p] # NotYet}

LibraryTypes ==
    /\ docs \in [Ids -> {NotYet, Gone} \cup Doc]
    /\ texts \in SUBSET Ids
    /\ forks \in SUBSET ForkRow
    /\ owned \in [Owners -> Nat] /\ received \in [Owners -> Nat]
    /\ lops \in [LibraryOps -> LibraryOp]
    /\ IsFiniteSet(Ever) /\ IsFiniteSet(forks)

(* What a handler read of a project still holds of it, if it is there. *)
SameProject(d, e) == d.owner = e.owner /\ d.from = e.from /\ d.fromOwner = e.fromOwner
OpKnows(op) ==
    /\ op.at = "clone" => docs[op.source] # NotYet /\ (Live(op.source) => docs[op.source].owner = op.owner)
    /\ op.at = "remove" => docs[op.id] # NotYet /\ (Live(op.id) => SameProject(docs[op.id], op.doc))
    /\ op.at = "upsert" => docs[op.id] # NotYet
    /\ op.at = "ranking" /\ ~op.late => \A u \in Owners : op.counts[u] = Cardinality(Shelf(u))
OpsKnow == \A o \in LibraryOps : OpKnows(lops[o])

(* A row is of a fork that is there, and a fork that is there has its row. *)
RowsOfForks ==
    /\ \A r \in forks : /\ Live(r.fork) /\ docs[r.fork].from = {r.source} /\ docs[r.fork].owner = r.user
                        /\ docs[r.source] # NotYet /\ r.source < r.fork
    /\ \A p, q \in Ids : q < p /\ docs[p] # NotYet => docs[q] # NotYet
    /\ \A p \in Ids : Live(p) /\ docs[p].from # {} =>
         \E s \in Ids : /\ docs[p].from = {s} /\ s # p /\ docs[s] # NotYet
                        /\ [source |-> s, fork |-> p, user |-> docs[p].owner] \in forks
                        /\ Live(s) => docs[s].owner = docs[p].fromOwner

Doing(ats, u) == {o \in LibraryOps : lops[o].at \in ats /\ lops[o].user = u}
ForksOf(p) == {r \in forks : r.source = p /\ r.user # docs[p].owner}
Earned(u) == {p \in Ids : Live(p) /\ Credited(docs[p]) /\ docs[p].fromOwner = u}

TextsRight == \A p \in Ids : <<"texts", p>> \notin off => (p \in texts <=> Live(p))
ForksRight == \A p \in Ids : Live(p) /\ <<"forks", p>> \notin off => docs[p].forkCount = Cardinality(ForksOf(p))
SourcesRight == \A p \in Ids : Live(p) /\ <<"source", p>> \notin off =>
    (docs[p].sourceDeleted <=> \E s \in docs[p].from : ~Live(s))
(* What is not counted yet has a handler that will. *)
OwnedRight == \A u \in Owners : <<"owned", u>> \notin off =>
    owned[u] + Cardinality(Doing({"count"}, u)) = Cardinality(Shelf(u))
ReceivedRight == \A u \in Owners : <<"received", u>> \notin off =>
    received[u] + Cardinality(Doing({"credit"}, u)) = Cardinality(Earned(u))
LimitHeld == \A u \in Owners :
    Cardinality(Shelf(u)) + Cardinality(Doing({"create", "clone"}, u)) < MaxProjects + Cardinality(LibraryOps)

LibraryInv ==
    LibraryTypes /\ OpsKnow /\ RowsOfForks /\ TextsRight /\ ForksRight /\ SourcesRight
    /\ OwnedRight /\ ReceivedRight /\ LimitHeld

LEMMA DocKinds == NotYet # Gone /\ \A d \in Doc : d # NotYet /\ d # Gone
<1>1. NotYet.state # Gone.state
  BY DEF NotYet, Gone
<1>2. ASSUME NEW d \in Doc
      PROVE  DOMAIN d # DOMAIN NotYet /\ DOMAIN d # DOMAIN Gone
  <2>1. "owner" \in DOMAIN d
    BY DEF Doc
  <2>2. "owner" \notin DOMAIN NotYet /\ "owner" \notin DOMAIN Gone
    BY DEF NotYet, Gone
  <2> QED BY <2>1, <2>2
<1> QED BY <1>1, <1>2

LEMMA LiveIsDoc == ASSUME LibraryTypes, NEW p \in Ids PROVE Live(p) <=> docs[p] \in Doc
  BY DocKinds DEF LibraryTypes, Live

LEMMA SetsFinite ==
  ASSUME LibraryTypes
  PROVE  /\ \A u : IsFiniteSet(Shelf(u)) /\ Cardinality(Shelf(u)) \in Nat
         /\ \A u : IsFiniteSet(Earned(u)) /\ Cardinality(Earned(u)) \in Nat
         /\ \A p : IsFiniteSet(ForksOf(p)) /\ Cardinality(ForksOf(p)) \in Nat
         /\ \A ats, u : IsFiniteSet(Doing(ats, u)) /\ Cardinality(Doing(ats, u)) \in Nat
<1>1. \A u : Shelf(u) \in SUBSET Ever /\ Earned(u) \in SUBSET Ever
  BY DEF Shelf, Earned, Ever, Live
<1>2. \A p : ForksOf(p) \in SUBSET forks
  BY DEF ForksOf
<1>3. \A ats, u : Doing(ats, u) \in SUBSET LibraryOps
  BY DEF Doing
<1>4. IsFiniteSet(Ever) /\ IsFiniteSet(forks) /\ IsFiniteSet(LibraryOps)
  BY LibraryAssumption DEF LibraryTypes
<1>5. \A u : IsFiniteSet(Shelf(u)) /\ IsFiniteSet(Earned(u))
  BY <1>1, <1>4, FS_Subset
<1>6. \A p : IsFiniteSet(ForksOf(p))
  BY <1>2, <1>4, FS_Subset
<1>7. \A ats, u : IsFiniteSet(Doing(ats, u))
  BY <1>3, <1>4, FS_Subset
<1> QED BY <1>5, <1>6, <1>7, FS_CardinalityType

(* The handlers beside the one that steps: only the job's count turns late. *)
OthersGoAlong(o) == \A q \in LibraryOps \ {o} :
    lops'[q] = lops[q] \/ (lops[q].at = "ranking" /\ lops'[q].at = "ranking" /\ lops'[q].late)
RankingsLate(o) == \A q \in LibraryOps \ {o} : lops[q].at = "ranking" => lops'[q].at = "ranking" /\ lops'[q].late

LEMMA OpGoes ==
  ASSUME LibraryTypes, NEW o \in LibraryOps, NEW op \in LibraryOp, lops' = [lops EXCEPT ![o] = op]
  PROVE  /\ lops' \in [LibraryOps -> LibraryOp] /\ lops'[o] = op /\ OthersGoAlong(o)
         /\ \A q \in LibraryOps \ {o} : lops'[q] = lops[q]
  BY DEF LibraryTypes, OthersGoAlong

LEMMA OpGoesLate ==
  ASSUME LibraryTypes, NEW o \in LibraryOps, NEW op \in LibraryOp, TurnsLate(o, op)
  PROVE  lops' \in [LibraryOps -> LibraryOp] /\ lops'[o] = op /\ OthersGoAlong(o) /\ RankingsLate(o)
<1>1. lops'[o] = op
  BY DEF TurnsLate
<1>2. ASSUME NEW q \in LibraryOps \ {o}
      PROVE  /\ lops'[q] \in LibraryOp
             /\ lops'[q] = lops[q] \/ (lops[q].at = "ranking" /\ lops'[q].at = "ranking" /\ lops'[q].late)
             /\ lops[q].at = "ranking" => lops'[q].at = "ranking" /\ lops'[q].late
  <2>1. lops[q] \in LibraryOp
    BY DEF LibraryTypes
  <2>2. CASE lops[q].at = "ranking"
    <3>1. lops'[q] = [lops[q] EXCEPT !.late = TRUE]
      BY <2>2 DEF TurnsLate
    <3>2. lops[q] \in [at : {"ranking"}, late : BOOLEAN, counts : [Owners -> Nat]]
      BY <2>1, <2>2 DEF LibraryOp, NoLibraryOp
    <3>3. lops'[q] \in [at : {"ranking"}, late : BOOLEAN, counts : [Owners -> Nat]] /\ lops'[q].late
      BY <3>1, <3>2
    <3> QED BY <2>2, <3>3 DEF LibraryOp
  <2>3. CASE lops[q].at # "ranking"
    BY <2>1, <2>3 DEF TurnsLate
  <2> QED BY <2>2, <2>3
<1>3. lops' = [q \in LibraryOps |-> lops'[q]]
  BY DEF TurnsLate
<1> QED BY <1>1, <1>2, <1>3 DEF OthersGoAlong, RankingsLate

LEMMA DoingCount ==
  ASSUME LibraryTypes, NEW o \in LibraryOps, OthersGoAlong(o), NEW u,
         NEW ats \in SUBSET {"create", "clone", "count", "credit"}
  PROVE  Cardinality(Doing(ats, u)') = Cardinality(Doing(ats, u))
           + (IF o \in Doing(ats, u)' THEN 1 ELSE 0) - (IF o \in Doing(ats, u) THEN 1 ELSE 0)
<1>1. \A q \in LibraryOps \ {o} : q \in Doing(ats, u)' <=> q \in Doing(ats, u)
  BY DEF OthersGoAlong, Doing
<1>2. IsFiniteSet(Doing(ats, u)) /\ Cardinality(Doing(ats, u)) \in Nat
  BY SetsFinite
<1>3. Doing(ats, u) \subseteq LibraryOps /\ Doing(ats, u)' \subseteq LibraryOps
  BY DEF Doing
<1>4. CASE o \in Doing(ats, u)'
  <2>1. Doing(ats, u)' = Doing(ats, u) \cup {o}
    BY <1>1, <1>3, <1>4
  <2> HIDE DEF Doing
  <2>2. Cardinality(Doing(ats, u) \cup {o}) = IF o \in Doing(ats, u) THEN Cardinality(Doing(ats, u)) ELSE Cardinality(Doing(ats, u)) + 1
    BY <1>2, FS_AddElement
  <2> QED BY <1>2, <1>4, <2>1, <2>2
<1>5. CASE o \notin Doing(ats, u)'
  <2>1. Doing(ats, u)' = Doing(ats, u) \ {o}
    BY <1>1, <1>3, <1>5
  <2>2. Cardinality(Doing(ats, u) \ {o}) = IF o \in Doing(ats, u) THEN Cardinality(Doing(ats, u)) - 1 ELSE Cardinality(Doing(ats, u))
    BY <1>2, FS_RemoveElement
  <2> QED BY <1>2, <1>5, <2>1, <2>2
<1> QED BY <1>4, <1>5

LEMMA LibraryBegins == LibraryInit => LibraryInv
<1> SUFFICES ASSUME LibraryInit PROVE LibraryInv
  OBVIOUS
<1>1. \A p \in Ids : ~Live(p)
  BY DEF LibraryInit, Live
<1>2. \A u : Shelf(u) = {} /\ Earned(u) = {}
  BY <1>1 DEF Shelf, Earned
<1>3. \A u : \A ats \in SUBSET {"create", "clone", "count", "credit"} : Doing(ats, u) = {}
  BY DEF Doing, LibraryInit, NoLibraryOp
<1>4. Ever = {} /\ forks = {}
  BY DEF Ever, LibraryInit
<1>5. IsFiniteSet({}) /\ Cardinality({}) = 0
  BY FS_EmptySet
<1>6. LibraryTypes
  BY <1>4, <1>5 DEF LibraryTypes, LibraryInit, LibraryOp
<1>7. OpsKnow
  BY DEF OpsKnow, OpKnows, LibraryInit, NoLibraryOp
<1>8. RowsOfForks /\ TextsRight /\ ForksRight /\ SourcesRight
  BY <1>1, <1>4 DEF RowsOfForks, TextsRight, ForksRight, SourcesRight, LibraryInit
<1>9. OwnedRight
  <2>1. \A u : Doing({"count"}, u) = {}
    BY <1>3
  <2> QED BY <1>2, <1>5, <2>1 DEF OwnedRight, LibraryInit
<1>10. ReceivedRight
  <2>1. \A u : Doing({"credit"}, u) = {}
    BY <1>3
  <2> QED BY <1>2, <1>5, <2>1 DEF ReceivedRight, LibraryInit
<1>11. LimitHeld
  <2>1. \A u : Doing({"create", "clone"}, u) = {}
    BY <1>3
  <2>2. Cardinality(LibraryOps) \in Nat /\ MaxProjects \in Nat \ {0}
    BY LibraryAssumption, FS_CardinalityType
  <2> QED BY <1>2, <1>5, <2>1, <2>2 DEF LimitHeld
<1> QED BY <1>6, <1>7, <1>8, <1>9, <1>10, <1>11 DEF LibraryInv

(* A handler that changes nothing but where it stands. *)
LEMMA OnlyTheOp ==
  ASSUME LibraryInv, NEW o \in LibraryOps, NEW op \in LibraryOp, lops' = [lops EXCEPT ![o] = op],
         OpKnows(op), UNCHANGED <<docs, texts, forks, owned, received, off>>,
         lops[o].at \notin {"count", "credit"}, op.at \notin {"count", "credit"},
         op.at \in {"create", "clone"} => Cardinality(Shelf(op.user)) < MaxProjects
  PROVE  LibraryInv'
<1>0. LibraryTypes
  BY DEF LibraryInv
<1>1. /\ lops' \in [LibraryOps -> LibraryOp] /\ lops'[o] = op /\ OthersGoAlong(o)
      /\ \A q \in LibraryOps \ {o} : lops'[q] = lops[q]
  BY <1>0, OpGoes
<1>2. LibraryTypes'
  BY <1>0, <1>1 DEF LibraryTypes, Ever
<1>3. \A u : Shelf(u)' = Shelf(u) /\ Earned(u)' = Earned(u)
  BY DEF Shelf, Earned, Live
<1>4. \A p : ForksOf(p)' = ForksOf(p) /\ (Live(p)' <=> Live(p))
  BY DEF ForksOf, Live
<1>5. OpsKnow'
  <2>1. ASSUME NEW q \in LibraryOps PROVE OpKnows(lops[q])'
    <3>1. CASE q = o
      BY <1>1, <1>3, <1>4, <3>1 DEF OpKnows
    <3>2. CASE q # o
      <4>1. OpKnows(lops[q])
        BY DEF LibraryInv, OpsKnow
      <4> QED BY <1>1, <1>3, <1>4, <3>2, <4>1 DEF OpKnows
    <3> QED BY <3>1, <3>2
  <2> QED BY <2>1 DEF OpsKnow
<1>6. RowsOfForks' /\ TextsRight' /\ ForksRight' /\ SourcesRight'
  BY <1>4 DEF LibraryInv, RowsOfForks, TextsRight, ForksRight, SourcesRight
<1>7. \A u : /\ Cardinality(Doing({"count"}, u)') = Cardinality(Doing({"count"}, u))
             /\ Cardinality(Doing({"credit"}, u)') = Cardinality(Doing({"credit"}, u))
  <2>1. \A u : Doing({"count"}, u)' = Doing({"count"}, u) /\ Doing({"credit"}, u)' = Doing({"credit"}, u)
    BY <1>1 DEF Doing
  <2> QED BY <2>1
<1>8. OwnedRight' /\ ReceivedRight'
  BY <1>3, <1>7 DEF LibraryInv, OwnedRight, ReceivedRight
<1>9. LimitHeld'
  <2> SUFFICES ASSUME NEW u \in Owners
               PROVE  Cardinality(Shelf(u)) + Cardinality(Doing({"create", "clone"}, u)') < MaxProjects + Cardinality(LibraryOps)
    BY <1>3 DEF LimitHeld
  <2>1. Cardinality(Shelf(u)) \in Nat /\ Cardinality(Doing({"create", "clone"}, u)) \in Nat
    BY <1>0, SetsFinite
  <2>2. Cardinality(LibraryOps) \in Nat /\ MaxProjects \in Nat \ {0} /\ IsFiniteSet(LibraryOps)
    BY LibraryAssumption, FS_CardinalityType
  <2>3. Cardinality(Shelf(u)) + Cardinality(Doing({"create", "clone"}, u)) < MaxProjects + Cardinality(LibraryOps)
    BY DEF LibraryInv, LimitHeld
  <2>4. CASE o \in Doing({"create", "clone"}, u)'
    <3>1. Cardinality(Shelf(u)) < MaxProjects
      BY <1>1, <2>4 DEF Doing
    <3>2. Doing({"create", "clone"}, u)' \in SUBSET LibraryOps
      BY DEF Doing
    <3>3. IsFiniteSet(Doing({"create", "clone"}, u)') /\ Cardinality(Doing({"create", "clone"}, u)') <= Cardinality(LibraryOps)
      BY <2>2, <3>2, FS_Subset
    <3>4. Cardinality(Doing({"create", "clone"}, u)') \in Nat
      BY <3>3, FS_CardinalityType
    <3> QED BY <2>1, <2>2, <3>1, <3>3, <3>4
  <2>5. CASE o \notin Doing({"create", "clone"}, u)'
    <3>1. Cardinality(Doing({"create", "clone"}, u)') = Cardinality(Doing({"create", "clone"}, u))
            + (IF o \in Doing({"create", "clone"}, u)' THEN 1 ELSE 0) - (IF o \in Doing({"create", "clone"}, u) THEN 1 ELSE 0)
      BY <1>0, <1>1, DoingCount
    <3> QED BY <2>1, <2>2, <2>3, <2>5, <3>1
  <2> QED BY <2>4, <2>5
<1> QED BY <1>2, <1>5, <1>6, <1>8, <1>9 DEF LibraryInv

LEMMA HandlersBegin ==
  ASSUME LibraryInv, NEW o \in LibraryOps,
         \/ \E u \in Owners : createProject(o, u) \/ \E s \in Ids : cloneProject(o, u, s)
         \/ \E p \in Ids : deleteProject(o, p) \/ updateProject(o, p)
         \/ cloneRefused(o) \/ countProjects(o)
  PROVE  LibraryInv'
<1>0. LibraryTypes
  BY DEF LibraryInv
<1>1. ASSUME NEW u \in Owners, createProject(o, u) PROVE LibraryInv'
  <2>1. [at |-> "create", user |-> u] \in LibraryOp /\ OpKnows([at |-> "create", user |-> u])
    BY DEF LibraryOp, OpKnows
  <2> QED BY <1>1, <2>1, OnlyTheOp DEF createProject, Take
<1>2. ASSUME NEW u \in Owners, NEW s \in Ids, cloneProject(o, u, s) PROVE LibraryInv'
  <2> DEFINE op == [at |-> "clone", user |-> u, source |-> s, owner |-> docs[s].owner]
  <2>1. docs[s] \in Doc /\ Live(s)
    BY <1>0, <1>2, LiveIsDoc DEF cloneProject
  <2>2. docs[s].owner \in Owners
    BY <2>1 DEF Doc
  <2>3. op \in LibraryOp /\ op.at = "clone" /\ op.user = u
    BY <2>2 DEF LibraryOp
  <2>4. OpKnows(op)
    BY <2>1 DEF OpKnows, Live
  <2>5. lops[o].at = "idle" /\ lops' = [lops EXCEPT ![o] = op] /\ Cardinality(Shelf(op.user)) < MaxProjects
    BY <1>2, <2>3 DEF cloneProject, Take
  <2>6. UNCHANGED <<docs, texts, forks, owned, received, off>>
    BY <1>2 DEF cloneProject
  <2> HIDE DEF op
  <2> QED BY <2>3, <2>4, <2>5, <2>6, OnlyTheOp
<1>3. ASSUME NEW p \in Ids, deleteProject(o, p) PROVE LibraryInv'
  <2> DEFINE op == [at |-> "remove", id |-> p, doc |-> docs[p]]
  <2>1. docs[p] \in Doc /\ Live(p)
    BY <1>0, <1>3, LiveIsDoc DEF deleteProject
  <2>2. op \in LibraryOp /\ op.at = "remove"
    BY <2>1 DEF LibraryOp
  <2>3. OpKnows(op)
    BY <2>1 DEF OpKnows, SameProject, Live
  <2>4. lops[o].at = "idle" /\ lops' = [lops EXCEPT ![o] = op] /\ UNCHANGED <<docs, texts, forks, owned, received, off>>
    BY <1>3 DEF deleteProject, Take
  <2> HIDE DEF op
  <2> QED BY <2>2, <2>3, <2>4, OnlyTheOp
<1>4. ASSUME NEW p \in Ids, updateProject(o, p) PROVE LibraryInv'
  <2> DEFINE op == [at |-> "upsert", id |-> p]
  <2>1. op \in LibraryOp /\ op.at = "upsert" /\ OpKnows(op)
    BY <1>4 DEF LibraryOp, OpKnows, Live, updateProject
  <2>2. lops[o].at = "idle" /\ lops' = [lops EXCEPT ![o] = op] /\ UNCHANGED <<docs, texts, forks, owned, received, off>>
    BY <1>4 DEF updateProject, Take
  <2> HIDE DEF op
  <2> QED BY <2>1, <2>2, OnlyTheOp
<1>5. ASSUME cloneRefused(o) PROVE LibraryInv'
  <2>1. NoLibraryOp \in LibraryOp /\ NoLibraryOp.at = "idle" /\ OpKnows(NoLibraryOp)
    BY DEF LibraryOp, NoLibraryOp, OpKnows
  <2> QED BY <1>5, <2>1, OnlyTheOp DEF cloneRefused, Ends
<1>6. ASSUME countProjects(o) PROVE LibraryInv'
  <2> DEFINE op == [at |-> "ranking", late |-> FALSE, counts |-> [u \in Owners |-> Cardinality(Shelf(u))]]
  <2>1. \A u : Cardinality(Shelf(u)) \in Nat
    BY <1>0, SetsFinite
  <2>2. op \in LibraryOp /\ op.at = "ranking"
    BY <2>1 DEF LibraryOp
  <2>3. OpKnows(op)
    BY DEF OpKnows
  <2>4. lops[o].at = "idle" /\ lops' = [lops EXCEPT ![o] = op] /\ UNCHANGED <<docs, texts, forks, owned, received, off>>
    BY <1>6 DEF countProjects, Take
  <2> HIDE DEF op
  <2> QED BY <2>2, <2>3, <2>4, OnlyTheOp
<1> QED BY <1>1, <1>2, <1>3, <1>4, <1>5, <1>6

(* What leaves the projects and the rows alone. *)
LEMMA ProjectsAlone ==
  ASSUME LibraryInv, NEW o \in LibraryOps, OthersGoAlong(o), UNCHANGED <<docs, forks>>,
         lops' \in [LibraryOps -> LibraryOp], OpKnows(lops[o])',
         \A p : (<<"forks", p>> \in off' <=> <<"forks", p>> \in off) /\ (<<"source", p>> \in off' <=> <<"source", p>> \in off)
  PROVE  OpsKnow' /\ RowsOfForks' /\ ForksRight' /\ SourcesRight'
<1>1. \A u : Shelf(u)' = Shelf(u)
  BY DEF Shelf, Live
<1>2. \A p : ForksOf(p)' = ForksOf(p) /\ (Live(p)' <=> Live(p))
  BY DEF ForksOf, Live
<1>3. ASSUME NEW q \in LibraryOps PROVE OpKnows(lops[q])'
  <2>1. OpKnows(lops[q])
    BY DEF LibraryInv, OpsKnow
  <2>2. CASE q # o
    BY <1>1, <1>2, <2>1, <2>2 DEF OpKnows, OthersGoAlong
  <2> QED BY <2>2
<1> QED BY <1>2, <1>3 DEF LibraryInv, OpsKnow, RowsOfForks, ForksRight, SourcesRight

LEMMA CountsKeep ==
  ASSUME LibraryInv, NEW o \in LibraryOps, countCreated(o) \/ creditFork(o)
  PROVE  LibraryInv'
<1>0. LibraryTypes
  BY DEF LibraryInv
<1>1. NoLibraryOp \in LibraryOp /\ NoLibraryOp.at = "idle"
  BY DEF LibraryOp, NoLibraryOp
<1>2. lops' \in [LibraryOps -> LibraryOp] /\ lops'[o] = NoLibraryOp /\ OthersGoAlong(o)
  <2>1. CASE countCreated(o)
    BY <1>0, <1>1, <2>1, OpGoesLate DEF countCreated
  <2>2. CASE creditFork(o)
    BY <1>0, <1>1, <2>2, OpGoes DEF creditFork, Ends
  <2> QED BY <2>1, <2>2
<1> DEFINE u == lops[o].user
<1>3. lops[o].at \in {"count", "credit"} /\ u \in Owners
  <2>1. lops[o] \in LibraryOp /\ lops[o].at \in {"count", "credit"}
    BY <1>0 DEF LibraryTypes, countCreated, creditFork
  <2> QED BY <2>1 DEF LibraryOp, NoLibraryOp
<1>4. UNCHANGED <<docs, texts, forks>>
  BY DEF countCreated, creditFork
<1>5. /\ \A p : \A k \in {"forks", "source", "texts"} : <<k, p>> \in off' <=> <<k, p>> \in off
      /\ off \subseteq off'
  BY DEF countCreated, creditFork
<1>6. OpKnows(lops[o])'
  BY <1>1, <1>2 DEF OpKnows
<1>7. OpsKnow' /\ RowsOfForks' /\ ForksRight' /\ SourcesRight'
  BY <1>2, <1>4, <1>5, <1>6, ProjectsAlone
<1>8. TextsRight'
  BY <1>4, <1>5 DEF LibraryInv, TextsRight, Live
<1>9. \A w : Shelf(w)' = Shelf(w) /\ Earned(w)' = Earned(w)
  BY <1>4 DEF Shelf, Earned, Live
<1>10. owned' \in [Owners -> Nat] /\ received' \in [Owners -> Nat]
  BY <1>0, <1>3 DEF countCreated, creditFork, LibraryTypes
<1>11. LibraryTypes'
  BY <1>0, <1>2, <1>4, <1>10 DEF LibraryTypes, Ever
<1>12. \A w : /\ Cardinality(Shelf(w)) \in Nat /\ Cardinality(Earned(w)) \in Nat
              /\ \A ats : Cardinality(Doing(ats, w)) \in Nat
  BY <1>0, SetsFinite
<1>13. \A w : \A ats \in SUBSET {"create", "clone", "count", "credit"} :
          Cardinality(Doing(ats, w)') = Cardinality(Doing(ats, w)) - (IF o \in Doing(ats, w) THEN 1 ELSE 0)
  <2> SUFFICES ASSUME NEW w, NEW ats \in SUBSET {"create", "clone", "count", "credit"}
               PROVE  Cardinality(Doing(ats, w)') = Cardinality(Doing(ats, w)) - (IF o \in Doing(ats, w) THEN 1 ELSE 0)
    OBVIOUS
  <2>1. o \notin Doing(ats, w)'
    BY <1>1, <1>2 DEF Doing
  <2>2. Cardinality(Doing(ats, w)') = Cardinality(Doing(ats, w))
           + (IF o \in Doing(ats, w)' THEN 1 ELSE 0) - (IF o \in Doing(ats, w) THEN 1 ELSE 0)
    BY <1>0, <1>2, DoingCount
  <2> QED BY <1>12, <2>1, <2>2
<1>14. LimitHeld'
  <2> SUFFICES ASSUME NEW w \in Owners
               PROVE  Cardinality(Shelf(w)) + Cardinality(Doing({"create", "clone"}, w)') < MaxProjects + Cardinality(LibraryOps)
    BY <1>9 DEF LimitHeld
  <2>1. o \notin Doing({"create", "clone"}, w)
    BY <1>3 DEF Doing
  <2>2. Cardinality(Doing({"create", "clone"}, w)') = Cardinality(Doing({"create", "clone"}, w))
    BY <1>12, <1>13, <2>1
  <2> QED BY <2>2 DEF LibraryInv, LimitHeld
<1>15. OwnedRight'
  <2> SUFFICES ASSUME NEW w \in Owners, <<"owned", w>> \notin off'
               PROVE  owned'[w] + Cardinality(Doing({"count"}, w)') = Cardinality(Shelf(w))
    BY <1>9 DEF OwnedRight
  <2>1. owned[w] + Cardinality(Doing({"count"}, w)) = Cardinality(Shelf(w)) /\ owned[w] \in Nat
    BY <1>0, <1>5 DEF LibraryInv, OwnedRight, LibraryTypes
  <2>2. Cardinality(Doing({"count"}, w)') = Cardinality(Doing({"count"}, w)) - (IF o \in Doing({"count"}, w) THEN 1 ELSE 0)
    BY <1>13
  <2>3. o \in Doing({"count"}, w) <=> lops[o].at = "count" /\ u = w
    BY DEF Doing
  <2>4. owned'[w] = owned[w] + (IF lops[o].at = "count" /\ u = w THEN 1 ELSE 0)
    BY <1>0, <1>3, <2>1 DEF countCreated, creditFork, LibraryTypes
  <2> QED BY <1>12, <2>1, <2>2, <2>3, <2>4
<1>16. ReceivedRight'
  <2> SUFFICES ASSUME NEW w \in Owners, <<"received", w>> \notin off'
               PROVE  received'[w] + Cardinality(Doing({"credit"}, w)') = Cardinality(Earned(w))
    BY <1>9 DEF ReceivedRight
  <2>1. received[w] + Cardinality(Doing({"credit"}, w)) = Cardinality(Earned(w)) /\ received[w] \in Nat
    BY <1>0, <1>5 DEF LibraryInv, ReceivedRight, LibraryTypes
  <2>2. Cardinality(Doing({"credit"}, w)') = Cardinality(Doing({"credit"}, w)) - (IF o \in Doing({"credit"}, w) THEN 1 ELSE 0)
    BY <1>13
  <2>3. o \in Doing({"credit"}, w) <=> lops[o].at = "credit" /\ u = w
    BY DEF Doing
  <2>4. received'[w] = received[w] + (IF lops[o].at = "credit" /\ u = w THEN 1 ELSE 0)
    BY <1>0, <1>3, <2>1 DEF countCreated, creditFork, LibraryTypes
  <2> QED BY <1>12, <2>1, <2>2, <2>3, <2>4
<1> QED BY <1>7, <1>8, <1>11, <1>14, <1>15, <1>16 DEF LibraryInv

LEMMA UpsertKeeps == ASSUME LibraryInv, NEW o \in LibraryOps, upsertLyrics(o) PROVE LibraryInv'
<1>0. LibraryTypes
  BY DEF LibraryInv
<1>1. NoLibraryOp \in LibraryOp /\ NoLibraryOp.at = "idle"
  BY DEF LibraryOp, NoLibraryOp
<1>2. lops' \in [LibraryOps -> LibraryOp] /\ lops'[o] = NoLibraryOp /\ OthersGoAlong(o)
  BY <1>0, <1>1, OpGoes DEF upsertLyrics, Ends
<1> DEFINE p == lops[o].id
<1>3. lops[o].at = "upsert" /\ p \in Ids
  <2>1. lops[o] \in LibraryOp /\ lops[o].at = "upsert"
    BY <1>0 DEF LibraryTypes, upsertLyrics
  <2> QED BY <2>1 DEF LibraryOp, NoLibraryOp
<1>4. UNCHANGED <<docs, forks, owned, received>> /\ texts' = texts \cup {p}
  BY DEF upsertLyrics
<1>5. /\ \A q : \A k \in {"forks", "source", "owned", "received"} : <<k, q>> \in off' <=> <<k, q>> \in off
      /\ off' = IF Live(p) THEN off ELSE off \cup {<<"texts", p>>}
  BY DEF upsertLyrics
<1>6. OpKnows(lops[o])'
  BY <1>1, <1>2 DEF OpKnows
<1>7. OpsKnow' /\ RowsOfForks' /\ ForksRight' /\ SourcesRight'
  BY <1>2, <1>4, <1>5, <1>6, ProjectsAlone
<1>8. TextsRight'
  BY <1>4, <1>5 DEF LibraryInv, TextsRight, Live
<1>9. \A w : Shelf(w)' = Shelf(w) /\ Earned(w)' = Earned(w)
  BY <1>4 DEF Shelf, Earned, Live
<1>10. LibraryTypes'
  BY <1>0, <1>2, <1>3, <1>4 DEF LibraryTypes, Ever
<1>11. \A w : \A ats \in SUBSET {"create", "clone", "count", "credit"} : Doing(ats, w)' = Doing(ats, w)
  BY <1>1, <1>2, <1>3 DEF Doing, OthersGoAlong
<1>12. OwnedRight' /\ ReceivedRight' /\ LimitHeld'
  <2>1. \A w : /\ Doing({"count"}, w)' = Doing({"count"}, w) /\ Doing({"credit"}, w)' = Doing({"credit"}, w)
               /\ Doing({"create", "clone"}, w)' = Doing({"create", "clone"}, w)
    BY <1>11
  <2> QED BY <1>4, <1>5, <1>9, <2>1 DEF LibraryInv, OwnedRight, ReceivedRight, LimitHeld
<1> QED BY <1>7, <1>8, <1>10, <1>12 DEF LibraryInv

(* A project is stored; of the others at most a count of forks goes up. *)
AddsDoc(p, d) ==
    /\ Fresh(p) /\ d \in Doc /\ docs'[p] = d
    /\ DOMAIN docs' = Ids
    /\ \A q \in Ids \ {p} : docs'[q] = docs[q] \/
         (/\ docs[q] \in Doc /\ docs'[q] \in Doc /\ SameProject(docs'[q], docs[q])
          /\ docs'[q].sourceDeleted = docs[q].sourceDeleted)

LEMMA DocAdded ==
  ASSUME LibraryInv, NEW o \in LibraryOps, NEW p \in Ids, NEW d, AddsDoc(p, d),
         OthersGoAlong(o), RankingsLate(o), lops' \in [LibraryOps -> LibraryOp], docs' = [q \in Ids |-> docs'[q]],
         lops'[o].at \in {"idle", "count", "credit"}
  PROVE  /\ Live(p)' /\ ~Live(p) /\ \A q \in Ids \ {p} : (Live(q)' <=> Live(q)) /\ (docs'[q] = NotYet <=> docs[q] = NotYet)
         /\ docs' \in [Ids -> {NotYet, Gone} \cup Doc] /\ IsFiniteSet(Ever')
         /\ \A q \in Ids \ {p} : Live(q) => SameProject(docs'[q], docs[q]) /\ docs'[q].sourceDeleted = docs[q].sourceDeleted
         /\ OpsKnow'
<1>0. LibraryTypes
  BY DEF LibraryInv
<1>1. docs' \in [Ids -> {NotYet, Gone} \cup Doc]
  <2>1. \A q \in Ids : docs'[q] \in {NotYet, Gone} \cup Doc
    BY <1>0 DEF AddsDoc, LibraryTypes
  <2> QED BY <2>1
<1>2. Live(p)' /\ ~Live(p)
  BY DocKinds DEF AddsDoc, Live, Fresh
<1>3. \A q \in Ids \ {p} : (Live(q)' <=> Live(q)) /\ (docs'[q] = NotYet <=> docs[q] = NotYet)
  BY DocKinds DEF AddsDoc, Live, Fresh
<1>4. Ever' = Ever \cup {p}
  BY <1>2, <1>3 DEF Ever, Live
<1>5. IsFiniteSet(Ever')
  BY <1>0, <1>4, FS_AddElement DEF LibraryTypes
<1>6. \A q \in Ids \ {p} : Live(q) => SameProject(docs'[q], docs[q]) /\ docs'[q].sourceDeleted = docs[q].sourceDeleted
  BY DEF AddsDoc, SameProject
<1>7. ASSUME NEW q \in LibraryOps PROVE OpKnows(lops[q])'
  <2>1. CASE q = o
    BY <2>1 DEF OpKnows
  <2>2. CASE q # o /\ lops[q].at # "ranking"
    <3>1. lops'[q] = lops[q] /\ OpKnows(lops[q]) /\ lops[q] \in LibraryOp
      BY <1>0, <2>2 DEF LibraryInv, OpsKnow, OthersGoAlong, LibraryTypes
    <3>2. ASSUME lops[q].at = "clone"
          PROVE  docs'[lops[q].source] # NotYet /\ (Live(lops[q].source)' => docs'[lops[q].source].owner = lops[q].owner)
      <4>1. lops[q].source \in Ids /\ docs[lops[q].source] # NotYet
        BY <3>1, <3>2 DEF LibraryOp, NoLibraryOp, OpKnows
      <4>2. lops[q].source # p
        BY <4>1 DEF AddsDoc, Fresh
      <4> QED BY <1>3, <1>6, <3>1, <3>2, <4>1, <4>2 DEF OpKnows, SameProject
    <3>3. ASSUME lops[q].at = "remove"
          PROVE  docs'[lops[q].id] # NotYet /\ (Live(lops[q].id)' => SameProject(docs'[lops[q].id], lops[q].doc))
      <4>1. lops[q].id \in Ids /\ docs[lops[q].id] # NotYet
        BY <3>1, <3>3 DEF LibraryOp, NoLibraryOp, OpKnows
      <4>2. lops[q].id # p
        BY <4>1 DEF AddsDoc, Fresh
      <4> QED BY <1>3, <1>6, <3>1, <3>3, <4>1, <4>2 DEF OpKnows, SameProject
    <3>4. ASSUME lops[q].at = "upsert"
          PROVE  docs'[lops[q].id] # NotYet
      <4>1. lops[q].id \in Ids /\ docs[lops[q].id] # NotYet
        BY <3>1, <3>4 DEF LibraryOp, NoLibraryOp, OpKnows
      <4>2. lops[q].id # p
        BY <4>1 DEF AddsDoc, Fresh
      <4> QED BY <1>3, <4>1, <4>2
    <3> QED BY <2>2, <3>1, <3>2, <3>3, <3>4 DEF OpKnows
  <2>3. CASE q # o /\ lops[q].at = "ranking"
    BY <2>3 DEF OpKnows, RankingsLate
  <2> QED BY <2>1, <2>2, <2>3
<1> QED BY <1>1, <1>2, <1>3, <1>5, <1>6, <1>7 DEF OpsKnow

(* Projects are numbered as they come. *)
LEMMA SourceBefore ==
  ASSUME LibraryInv, NEW p \in Ids, NEW d, AddsDoc(p, d), NEW s \in Ids, docs[s] # NotYet
  PROVE  s < p
<1>1. \A a, b \in Ids : b < a /\ docs[a] # NotYet => docs[b] # NotYet
  BY DEF LibraryInv, RowsOfForks
<1>2. docs[p] = NotYet /\ s \in Nat /\ p \in Nat
  BY LibraryAssumption DEF AddsDoc, Fresh
<1>3. ~(p < s) /\ p # s
  BY <1>1, <1>2
<1> QED BY <1>2, <1>3

LEMMA OrderKept ==
  ASSUME LibraryInv, NEW p \in Ids, NEW d, AddsDoc(p, d)
  PROVE  \A a, b \in Ids : b < a /\ docs'[a] # NotYet => docs'[b] # NotYet
<1> SUFFICES ASSUME NEW a \in Ids, NEW b \in Ids, b < a, docs'[a] # NotYet, docs'[b] = NotYet
             PROVE  FALSE
  OBVIOUS
<1>1. \A q \in Ids \ {p} : docs'[q] = NotYet <=> docs[q] = NotYet
  BY DocKinds DEF AddsDoc
<1>2. docs[p] = NotYet /\ docs'[p] # NotYet /\ \A q \in Ids : q < p => docs[q] # NotYet
  BY DocKinds DEF AddsDoc, Fresh
<1>3. b # p /\ docs[b] = NotYet
  BY <1>1, <1>2
<1>4. CASE a = p
  BY <1>2, <1>3, <1>4
<1>5. CASE a # p
  BY <1>1, <1>3, <1>5 DEF LibraryInv, RowsOfForks
<1> QED BY <1>4, <1>5

LEMMA SumsAdded ==
  ASSUME LibraryInv, NEW p \in Ids, NEW d, AddsDoc(p, d), Live(p)', ~Live(p),
         \A q \in Ids \ {p} : Live(q)' <=> Live(q)
  PROVE  \A w : /\ Cardinality(Shelf(w)') = Cardinality(Shelf(w)) + (IF w = d.owner THEN 1 ELSE 0)
                /\ Cardinality(Earned(w)') = Cardinality(Earned(w)) + (IF Credited(d) /\ d.fromOwner = w THEN 1 ELSE 0)
<1>0. LibraryTypes
  BY DEF LibraryInv
<1> SUFFICES ASSUME NEW w
             PROVE  /\ Cardinality(Shelf(w)') = Cardinality(Shelf(w)) + (IF w = d.owner THEN 1 ELSE 0)
                    /\ Cardinality(Earned(w)') = Cardinality(Earned(w)) + (IF Credited(d) /\ d.fromOwner = w THEN 1 ELSE 0)
  OBVIOUS
<1>1. \A q \in Ids \ {p} : Live(q) => /\ docs'[q].owner = docs[q].owner /\ docs'[q].fromOwner = docs[q].fromOwner
                                      /\ (Credited(docs[q])' <=> Credited(docs[q]))
  BY DEF AddsDoc, SameProject, Credited
<1>2. docs'[p] = d
  BY DEF AddsDoc
<1>3. Shelf(w)' = IF w = d.owner THEN Shelf(w) \cup {p} ELSE Shelf(w)
  BY <1>1, <1>2 DEF Shelf
<1>4. Credited(docs[p])' <=> Credited(d)
  BY <1>2 DEF Credited
<1>5. Earned(w)' = IF Credited(d) /\ d.fromOwner = w THEN Earned(w) \cup {p} ELSE Earned(w)
  BY <1>1, <1>2, <1>4 DEF Earned
<1>6. p \notin Shelf(w) /\ p \notin Earned(w)
  BY DEF Shelf, Earned
<1>7. IsFiniteSet(Shelf(w)) /\ IsFiniteSet(Earned(w)) /\ Cardinality(Shelf(w)) \in Nat /\ Cardinality(Earned(w)) \in Nat
  BY <1>0, SetsFinite
<1>8. Cardinality(Shelf(w) \cup {p}) = Cardinality(Shelf(w)) + 1 /\ Cardinality(Earned(w) \cup {p}) = Cardinality(Earned(w)) + 1
  BY <1>6, <1>7, FS_AddElement
<1>9. Cardinality(Shelf(w)') = Cardinality(Shelf(w)) + (IF w = d.owner THEN 1 ELSE 0)
  BY <1>3, <1>7, <1>8
<1>10. Cardinality(Earned(w)') = Cardinality(Earned(w)) + (IF Credited(d) /\ d.fromOwner = w THEN 1 ELSE 0)
  BY <1>5, <1>7, <1>8
<1> QED BY <1>9, <1>10

LEMMA NoRowYet ==
  ASSUME LibraryInv, NEW p \in Ids, docs[p] = NotYet
  PROVE  /\ \A r \in forks : r.source # p /\ r.fork # p /\ Live(r.fork) /\ r \in ForkRow
         /\ \A q \in Ids : Live(q) => p \notin docs[q].from
<1>1. \A r \in forks : Live(r.fork) /\ docs[r.source] # NotYet /\ r \in ForkRow
  BY DEF LibraryInv, RowsOfForks, LibraryTypes
<1>2. ~Live(p)
  BY DEF Live
<1>3. ASSUME NEW q \in Ids, Live(q), p \in docs[q].from PROVE FALSE
  <2>1. PICK s \in Ids : docs[q].from = {s} /\ docs[s] # NotYet
    BY <1>3 DEF LibraryInv, RowsOfForks
  <2> QED BY <1>3, <2>1
<1> QED BY <1>1, <1>2, <1>3

LEMMA CreatedKeeps ==
  ASSUME LibraryInv, NEW o \in LibraryOps, NEW p \in Ids, storeCreated(o, p)
  PROVE  LibraryInv'
<1>0. LibraryTypes
  BY DEF LibraryInv
<1> DEFINE u == lops[o].user
           d == [owner |-> u, from |-> {}, fromOwner |-> u, sourceDeleted |-> FALSE, forkCount |-> 0]
           op == [at |-> "count", user |-> u]
<1>1. lops[o].at = "create" /\ u \in Owners
  <2>1. lops[o] \in LibraryOp /\ lops[o].at = "create"
    BY <1>0 DEF LibraryTypes, storeCreated
  <2> QED BY <2>1 DEF LibraryOp, NoLibraryOp
<1>2. d \in Doc /\ d.owner = u /\ d.from = {} /\ d.sourceDeleted = FALSE /\ d.forkCount = 0 /\ ~Credited(d)
  BY <1>1 DEF Doc, Credited
<1>3. op \in LibraryOp /\ op.at = "count" /\ op.user = u
  BY <1>1 DEF LibraryOp
<1>4. docs' = [docs EXCEPT ![p] = d] /\ docs[p] = NotYet /\ TurnsLate(o, op)
  BY DEF storeCreated, Fresh
<1>4a. Fresh(p)
  BY DEF storeCreated
<1>5. texts' = texts \cup {p} /\ UNCHANGED <<forks, owned, received, off>>
  BY DEF storeCreated
<1> HIDE DEF d, op
<1>6. lops' \in [LibraryOps -> LibraryOp] /\ lops'[o] = op /\ OthersGoAlong(o) /\ RankingsLate(o)
  BY <1>0, <1>3, <1>4, OpGoesLate
<1>7. AddsDoc(p, d) /\ docs' = [q \in Ids |-> docs'[q]] /\ docs'[p] = d /\ \A q \in Ids \ {p} : docs'[q] = docs[q]
  BY <1>0, <1>2, <1>4, <1>4a DEF AddsDoc, LibraryTypes
<1>8. lops'[o].at \in {"idle", "count", "credit"}
  BY <1>3, <1>6
<1>9. /\ Live(p)' /\ ~Live(p) /\ \A q \in Ids \ {p} : (Live(q)' <=> Live(q)) /\ (docs'[q] = NotYet <=> docs[q] = NotYet)
      /\ docs' \in [Ids -> {NotYet, Gone} \cup Doc] /\ IsFiniteSet(Ever') /\ OpsKnow'
  BY <1>6, <1>7, <1>8, DocAdded
<1>10. LibraryTypes'
  BY <1>0, <1>5, <1>6, <1>9 DEF LibraryTypes
<1>11. /\ \A r \in forks : r.source # p /\ r.fork # p /\ Live(r.fork) /\ r \in ForkRow
       /\ \A q \in Ids : Live(q) => p \notin docs[q].from
  BY <1>4, NoRowYet
<1>12. RowsOfForks'
  <2>1. ASSUME NEW r \in forks
        PROVE  Live(r.fork)' /\ docs'[r.fork].from = {r.source} /\ docs'[r.fork].owner = r.user
               /\ docs'[r.source] # NotYet /\ r.source < r.fork
    <3>1. Live(r.fork) /\ docs[r.fork].from = {r.source} /\ docs[r.fork].owner = r.user
          /\ docs[r.source] # NotYet /\ r.source < r.fork
      BY DEF LibraryInv, RowsOfForks
    <3>2. r.fork \in Ids \ {p} /\ r.source \in Ids \ {p}
      BY <1>11 DEF ForkRow
    <3> QED BY <1>7, <1>9, <3>1, <3>2
  <2>2. ASSUME NEW q \in Ids, Live(q)', docs'[q].from # {}
        PROVE  \E s \in Ids : /\ docs'[q].from = {s} /\ s # q /\ docs'[s] # NotYet
                              /\ [source |-> s, fork |-> q, user |-> docs'[q].owner] \in forks
                              /\ Live(s)' => docs'[s].owner = docs'[q].fromOwner
    <3>1. q # p
      BY <1>2, <1>7, <2>2
    <3>2. docs'[q] = docs[q] /\ Live(q)
      BY <1>7, <1>9, <2>2, <3>1
    <3>3. PICK s \in Ids : /\ docs[q].from = {s} /\ s # q /\ docs[s] # NotYet
                           /\ [source |-> s, fork |-> q, user |-> docs[q].owner] \in forks
                           /\ Live(s) => docs[s].owner = docs[q].fromOwner
      BY <2>2, <3>2 DEF LibraryInv, RowsOfForks
    <3>4. s # p
      BY <1>4, <3>3
    <3> QED BY <1>7, <1>9, <3>2, <3>3, <3>4
  <2>3. \A a, b \in Ids : b < a /\ docs'[a] # NotYet => docs'[b] # NotYet
    BY <1>7, OrderKept
  <2> QED BY <1>5, <2>1, <2>2, <2>3 DEF RowsOfForks
<1>13. TextsRight'
  BY <1>5, <1>9 DEF LibraryInv, TextsRight
<1>14. ForksRight'
  <2> SUFFICES ASSUME NEW q \in Ids, Live(q)', <<"forks", q>> \notin off
               PROVE  docs'[q].forkCount = Cardinality(ForksOf(q)')
    BY <1>5 DEF ForksRight
  <2>1. CASE q = p
    <3>1. ForksOf(q)' = {}
      BY <1>5, <1>11, <2>1 DEF ForksOf
    <3> QED BY <1>2, <1>7, <2>1, <3>1, FS_EmptySet
  <2>2. CASE q # p
    <3>1. ForksOf(q)' = ForksOf(q)
      BY <1>5, <1>7, <2>2 DEF ForksOf
    <3> QED BY <1>7, <1>9, <2>2, <3>1 DEF LibraryInv, ForksRight
  <2> QED BY <2>1, <2>2
<1>15. SourcesRight'
  <2> SUFFICES ASSUME NEW q \in Ids, Live(q)', <<"source", q>> \notin off
               PROVE  docs'[q].sourceDeleted <=> \E s \in docs'[q].from : ~Live(s)'
    BY <1>5 DEF SourcesRight
  <2>1. CASE q = p
    BY <1>2, <1>7, <2>1
  <2>2. CASE q # p
    <3>1. docs'[q] = docs[q] /\ Live(q) /\ p \notin docs[q].from /\ docs[q] \in Doc
      BY <1>0, <1>7, <1>9, <1>11, <2>2, LiveIsDoc
    <3>2. docs[q].from \subseteq Ids \ {p}
      BY <3>1 DEF Doc
    <3>3. docs[q].sourceDeleted <=> \E s \in docs[q].from : ~Live(s)
      BY <3>1 DEF LibraryInv, SourcesRight
    <3> QED BY <1>9, <3>1, <3>2, <3>3
  <2> QED BY <2>1, <2>2
<1>16. \A w : /\ Cardinality(Shelf(w)') = Cardinality(Shelf(w)) + (IF w = u THEN 1 ELSE 0)
              /\ Cardinality(Earned(w)') = Cardinality(Earned(w))
  <2>1. \A w : /\ Cardinality(Shelf(w)') = Cardinality(Shelf(w)) + (IF w = d.owner THEN 1 ELSE 0)
               /\ Cardinality(Earned(w)') = Cardinality(Earned(w)) + (IF Credited(d) /\ d.fromOwner = w THEN 1 ELSE 0)
    BY <1>7, <1>9, SumsAdded
  <2>2. \A w : Cardinality(Earned(w)) \in Nat
    BY <1>0, SetsFinite
  <2> QED BY <1>2, <2>1, <2>2
<1>17. \A w : /\ Cardinality(Shelf(w)) \in Nat /\ Cardinality(Earned(w)) \in Nat
              /\ \A ats : Cardinality(Doing(ats, w)) \in Nat
  BY <1>0, SetsFinite
<1>18. \A w : \A ats \in SUBSET {"create", "clone", "count", "credit"} :
         Cardinality(Doing(ats, w)') = Cardinality(Doing(ats, w)) + (IF o \in Doing(ats, w)' THEN 1 ELSE 0)
                                         - (IF o \in Doing(ats, w) THEN 1 ELSE 0)
  BY <1>0, <1>6, DoingCount
<1>19. \A w : /\ o \in Doing({"count"}, w)' <=> w = u
              /\ o \notin Doing({"count"}, w) /\ o \notin Doing({"credit"}, w) /\ o \notin Doing({"credit"}, w)'
              /\ o \in Doing({"create", "clone"}, w) <=> w = u
              /\ o \notin Doing({"create", "clone"}, w)'
  BY <1>1, <1>3, <1>6 DEF Doing
<1>20. {"count"} \in SUBSET {"create", "clone", "count", "credit"} /\ {"credit"} \in SUBSET {"create", "clone", "count", "credit"}
       /\ {"create", "clone"} \in SUBSET {"create", "clone", "count", "credit"}
  OBVIOUS
<1>21. OwnedRight'
  <2> SUFFICES ASSUME NEW w \in Owners, <<"owned", w>> \notin off
               PROVE  owned[w] + Cardinality(Doing({"count"}, w)') = Cardinality(Shelf(w)')
    BY <1>5 DEF OwnedRight
  <2>1. owned[w] + Cardinality(Doing({"count"}, w)) = Cardinality(Shelf(w)) /\ owned[w] \in Nat
    BY <1>0 DEF LibraryInv, OwnedRight, LibraryTypes
  <2>2. Cardinality(Doing({"count"}, w)') = Cardinality(Doing({"count"}, w)) + (IF w = u THEN 1 ELSE 0)
    BY <1>17, <1>18, <1>19, <1>20
  <2> QED BY <1>16, <1>17, <2>1, <2>2
<1>22. ReceivedRight'
  <2> SUFFICES ASSUME NEW w \in Owners, <<"received", w>> \notin off
               PROVE  received[w] + Cardinality(Doing({"credit"}, w)') = Cardinality(Earned(w)')
    BY <1>5 DEF ReceivedRight
  <2>0. Cardinality(Doing({"credit"}, w)') = Cardinality(Doing({"credit"}, w)) + (IF o \in Doing({"credit"}, w)' THEN 1 ELSE 0)
           - (IF o \in Doing({"credit"}, w) THEN 1 ELSE 0)
    BY <1>18, <1>20
  <2>3. o \notin Doing({"credit"}, w)' /\ o \notin Doing({"credit"}, w) /\ Cardinality(Doing({"credit"}, w)) \in Nat
    BY <1>17, <1>19
  <2>1. Cardinality(Doing({"credit"}, w)') = Cardinality(Doing({"credit"}, w))
    BY <2>0, <2>3
  <2> QED BY <1>16, <2>1 DEF LibraryInv, ReceivedRight
<1>23. LimitHeld'
  <2> SUFFICES ASSUME NEW w \in Owners
               PROVE  Cardinality(Shelf(w)') + Cardinality(Doing({"create", "clone"}, w)') < MaxProjects + Cardinality(LibraryOps)
    BY DEF LimitHeld
  <2>0. Cardinality(Doing({"create", "clone"}, w)') = Cardinality(Doing({"create", "clone"}, w)) + (IF o \in Doing({"create", "clone"}, w)' THEN 1 ELSE 0)
           - (IF o \in Doing({"create", "clone"}, w) THEN 1 ELSE 0)
    BY <1>18, <1>20
  <2>3. /\ o \notin Doing({"create", "clone"}, w)' /\ (o \in Doing({"create", "clone"}, w) <=> w = u)
        /\ Cardinality(Doing({"create", "clone"}, w)) \in Nat
    BY <1>17, <1>19
  <2>1. Cardinality(Doing({"create", "clone"}, w)') = Cardinality(Doing({"create", "clone"}, w)) - (IF w = u THEN 1 ELSE 0)
    BY <2>0, <2>3
  <2>2. Cardinality(Shelf(w)) + Cardinality(Doing({"create", "clone"}, w)) < MaxProjects + Cardinality(LibraryOps)
    BY DEF LibraryInv, LimitHeld
  <2> QED BY <1>16, <1>17, <2>1, <2>2
<1> QED BY <1>9, <1>10, <1>12, <1>13, <1>14, <1>15, <1>21, <1>22, <1>23 DEF LibraryInv

LEMMA CloneKeeps ==
  ASSUME LibraryInv, NEW o \in LibraryOps, NEW p \in Ids, storeClone(o, p)
  PROVE  LibraryInv'
<1>0. LibraryTypes
  BY DEF LibraryInv
<1>1. PICK u \in Owners, s \in Ids, w0 \in Owners :
         lops[o].at = "clone" /\ lops[o].user = u /\ lops[o].source = s /\ lops[o].owner = w0
  <2>1. lops[o] \in LibraryOp /\ lops[o].at = "clone"
    BY <1>0 DEF LibraryTypes, storeClone
  <2>2. lops[o].user \in Owners /\ lops[o].source \in Ids /\ lops[o].owner \in Owners
    BY <2>1 DEF LibraryOp, NoLibraryOp
  <2> QED BY <2>1, <2>2
<1> DEFINE d == [owner |-> u, from |-> {s}, fromOwner |-> w0, sourceDeleted |-> FALSE, forkCount |-> 0]
           op == IF Credited(d) THEN [at |-> "credit", user |-> w0] ELSE NoLibraryOp
           row == [source |-> s, fork |-> p, user |-> u]
<1>2. /\ d \in Doc /\ d.owner = u /\ d.from = {s} /\ d.fromOwner = w0 /\ d.sourceDeleted = FALSE /\ d.forkCount = 0
      /\ Credited(d) <=> w0 # u
  BY <1>1 DEF Doc, Credited
<1>3. /\ op \in LibraryOp /\ op.at \in {"credit", "idle"} /\ (op.at = "credit" <=> w0 # u)
      /\ op.at = "credit" => op.user = w0
  BY <1>1, <1>2 DEF LibraryOp, NoLibraryOp
<1>4. /\ docs' = [q \in Ids |-> IF q = p THEN d
                    ELSE IF q = s /\ Live(s) /\ Credited(d) THEN [docs[s] EXCEPT !.forkCount = @ + 1]
                    ELSE docs[q]]
      /\ docs[p] = NotYet /\ TurnsLate(o, op)
  BY <1>1, <1>2 DEF storeClone, Fresh
<1>4a. Fresh(p)
  BY DEF storeClone
<1>5. /\ texts' = texts \cup {p} /\ forks' = forks \cup {row} /\ owned' = [owned EXCEPT ![u] = @ + 1]
      /\ received' = received /\ off' = IF Live(s) THEN off ELSE off \cup {<<"source", p>>}
  BY <1>1 DEF storeClone
<1>6. row \in ForkRow /\ row.source = s /\ row.fork = p /\ row.user = u
  BY <1>1 DEF ForkRow
<1>7. docs[s] # NotYet /\ (Live(s) => docs[s].owner = w0) /\ s # p
  BY <1>1, <1>4 DEF LibraryInv, OpsKnow, OpKnows
<1> HIDE DEF d, op, row
<1>8. lops' \in [LibraryOps -> LibraryOp] /\ lops'[o] = op /\ OthersGoAlong(o) /\ RankingsLate(o)
  BY <1>0, <1>3, <1>4, OpGoesLate
<1>9. /\ docs'[p] = d /\ \A q \in Ids \ {p, s} : docs'[q] = docs[q]
      /\ docs'[s] = docs[s] \/ (/\ docs[s] \in Doc /\ docs'[s] \in Doc /\ SameProject(docs'[s], docs[s])
                                /\ docs'[s].sourceDeleted = docs[s].sourceDeleted)
      /\ Live(s) => docs'[s].forkCount = docs[s].forkCount + (IF w0 # u THEN 1 ELSE 0) /\ docs[s].forkCount \in Nat
  <2>1. docs'[p] = d /\ \A q \in Ids \ {p, s} : docs'[q] = docs[q]
    BY <1>4
  <2>2. CASE Live(s)
    <3>1. docs[s] \in Doc
      BY <1>0, <1>1, <2>2, LiveIsDoc
    <3>2. docs'[s] = IF w0 # u THEN [docs[s] EXCEPT !.forkCount = @ + 1] ELSE docs[s]
      BY <1>1, <1>2, <1>4, <1>7, <2>2
    <3>3. /\ [docs[s] EXCEPT !.forkCount = @ + 1] \in Doc
          /\ [docs[s] EXCEPT !.forkCount = @ + 1].forkCount = docs[s].forkCount + 1
          /\ SameProject([docs[s] EXCEPT !.forkCount = @ + 1], docs[s])
          /\ [docs[s] EXCEPT !.forkCount = @ + 1].sourceDeleted = docs[s].sourceDeleted
          /\ docs[s].forkCount \in Nat
      BY <3>1 DEF Doc, SameProject
    <3> QED BY <2>1, <3>1, <3>2, <3>3
  <2>3. CASE ~Live(s)
    BY <1>1, <1>4, <1>7, <2>1, <2>3
  <2> QED BY <2>2, <2>3
<1>10. AddsDoc(p, d) /\ docs' = [q \in Ids |-> docs'[q]]
  <2>1. docs' = [q \in Ids |-> docs'[q]] /\ DOMAIN docs' = Ids
    BY <1>4
  <2> QED BY <1>1, <1>2, <1>4a, <1>9, <2>1 DEF AddsDoc
<1>11. lops'[o].at \in {"idle", "count", "credit"}
  BY <1>3, <1>8
<1>12. /\ Live(p)' /\ ~Live(p) /\ \A q \in Ids \ {p} : (Live(q)' <=> Live(q)) /\ (docs'[q] = NotYet <=> docs[q] = NotYet)
       /\ docs' \in [Ids -> {NotYet, Gone} \cup Doc] /\ IsFiniteSet(Ever')
       /\ \A q \in Ids \ {p} : Live(q) => SameProject(docs'[q], docs[q]) /\ docs'[q].sourceDeleted = docs[q].sourceDeleted
       /\ OpsKnow'
  BY <1>8, <1>10, <1>11, DocAdded
<1>13. LibraryTypes'
  <2>1. IsFiniteSet(forks')
    BY <1>0, <1>5, FS_AddElement DEF LibraryTypes
  <2>2. owned' \in [Owners -> Nat]
    BY <1>0, <1>1, <1>5 DEF LibraryTypes
  <2> QED BY <1>0, <1>5, <1>6, <1>8, <1>12, <2>1, <2>2 DEF LibraryTypes
<1>14. /\ \A r \in forks : r.source # p /\ r.fork # p /\ Live(r.fork) /\ r \in ForkRow
       /\ \A q \in Ids : Live(q) => p \notin docs[q].from
  BY <1>4, NoRowYet
<1>15. RowsOfForks'
  <2>1. ASSUME NEW r \in forks'
        PROVE  Live(r.fork)' /\ docs'[r.fork].from = {r.source} /\ docs'[r.fork].owner = r.user
               /\ docs'[r.source] # NotYet /\ r.source < r.fork
    <3>1. CASE r \in forks
      <4>1. Live(r.fork) /\ docs[r.fork].from = {r.source} /\ docs[r.fork].owner = r.user
          /\ docs[r.source] # NotYet /\ r.source < r.fork
        BY <3>1 DEF LibraryInv, RowsOfForks
      <4>2. r.fork \in Ids \ {p} /\ r.source \in Ids \ {p}
        BY <1>14, <3>1 DEF ForkRow
      <4> QED BY <1>12, <4>1, <4>2 DEF SameProject
    <3>2. CASE r = row
      <4>1. s < p
        BY <1>1, <1>7, <1>10, SourceBefore
      <4> QED BY <1>1, <1>2, <1>6, <1>7, <1>9, <1>12, <3>2, <4>1
    <3> QED BY <1>5, <3>1, <3>2
  <2>2. ASSUME NEW q \in Ids, Live(q)', docs'[q].from # {}
        PROVE  \E t \in Ids : /\ docs'[q].from = {t} /\ t # q /\ docs'[t] # NotYet
                              /\ [source |-> t, fork |-> q, user |-> docs'[q].owner] \in forks'
                              /\ Live(t)' => docs'[t].owner = docs'[q].fromOwner
    <3>1. CASE q = p
      <4>1. docs'[q].from = {s} /\ docs'[q].owner = u /\ docs'[q].fromOwner = w0 /\ docs'[s] # NotYet
        BY <1>1, <1>2, <1>7, <1>9, <1>12, <3>1
      <4>2. Live(s)' => docs'[s].owner = w0
        BY <1>1, <1>7, <1>12 DEF SameProject
      <4>3. [source |-> s, fork |-> q, user |-> docs'[q].owner] \in forks'
        BY <1>5, <3>1, <4>1 DEF row
      <4> QED BY <1>1, <1>7, <3>1, <4>1, <4>2, <4>3
    <3>2. CASE q # p
      <4>1. Live(q) /\ SameProject(docs'[q], docs[q])
        BY <1>12, <2>2, <3>2
      <4>2. PICK t \in Ids : /\ docs[q].from = {t} /\ t # q /\ docs[t] # NotYet
                             /\ [source |-> t, fork |-> q, user |-> docs[q].owner] \in forks
                             /\ Live(t) => docs[t].owner = docs[q].fromOwner
        BY <2>2, <4>1 DEF LibraryInv, RowsOfForks, SameProject
      <4>3. t # p
        BY <1>4, <4>2
      <4>4. docs'[t] # NotYet /\ (Live(t)' => docs'[t].owner = docs[t].owner /\ Live(t))
        BY <1>12, <4>2, <4>3 DEF SameProject
      <4>5. [source |-> t, fork |-> q, user |-> docs'[q].owner] \in forks'
        BY <1>5, <4>1, <4>2 DEF SameProject
      <4> QED BY <4>1, <4>2, <4>4, <4>5 DEF SameProject
    <3> QED BY <3>1, <3>2
  <2>3. \A a, b \in Ids : b < a /\ docs'[a] # NotYet => docs'[b] # NotYet
    BY <1>10, OrderKept
  <2> QED BY <2>1, <2>2, <2>3 DEF RowsOfForks
<1>16. TextsRight'
  <2>1. \A q : <<"texts", q>> \in off' <=> <<"texts", q>> \in off
    BY <1>5
  <2> QED BY <1>5, <1>12, <2>1 DEF LibraryInv, TextsRight
<1>17. ForksRight'
  <2> SUFFICES ASSUME NEW q \in Ids, Live(q)', <<"forks", q>> \notin off'
               PROVE  docs'[q].forkCount = Cardinality(ForksOf(q)')
    BY DEF ForksRight
  <2>0. <<"forks", q>> \notin off
    BY <1>5
  <2>1. CASE q = p
    <3>1. \A r \in forks' : r.source # p
      BY <1>5, <1>6, <1>7, <1>14
    <3>2. ForksOf(q)' = {}
      BY <2>1, <3>1 DEF ForksOf
    <3> QED BY <1>2, <1>9, <2>1, <3>2, FS_EmptySet
  <2>2. CASE q = s
    <3>1. Live(s) /\ docs'[s].owner = docs[s].owner /\ docs[s].owner = w0
      BY <1>7, <1>12, <2>2 DEF SameProject
    <3>2. docs[s].forkCount = Cardinality(ForksOf(s))
      BY <2>0, <2>2, <3>1 DEF LibraryInv, ForksRight
    <3>3. ForksOf(s)' = IF w0 # u THEN ForksOf(s) \cup {row} ELSE ForksOf(s)
      BY <1>5, <1>6, <3>1 DEF ForksOf
    <3>4. row \notin ForksOf(s)
      BY <1>6, <1>14 DEF ForksOf
    <3>5. IsFiniteSet(ForksOf(s))
      BY <1>0, SetsFinite
    <3>6. Cardinality(ForksOf(s) \cup {row}) = Cardinality(ForksOf(s)) + 1
      BY <3>4, <3>5, FS_AddElement
    <3>7. docs'[s].forkCount = docs[s].forkCount + (IF w0 # u THEN 1 ELSE 0) /\ docs[s].forkCount \in Nat
      BY <1>9, <3>1
    <3>8. Cardinality(ForksOf(s)') = Cardinality(ForksOf(s)) + (IF w0 # u THEN 1 ELSE 0)
      BY <3>2, <3>3, <3>6, <3>7
    <3> QED BY <2>2, <3>2, <3>7, <3>8
  <2>3. CASE q # p /\ q # s
    <3>1. docs'[q] = docs[q]
      BY <1>9, <2>3
    <3>2. ForksOf(q)' = ForksOf(q)
      BY <1>5, <1>6, <2>3, <3>1 DEF ForksOf
    <3> QED BY <1>12, <2>0, <2>3, <3>1, <3>2 DEF LibraryInv, ForksRight
  <2> QED BY <2>1, <2>2, <2>3
<1>18. SourcesRight'
  <2> SUFFICES ASSUME NEW q \in Ids, Live(q)', <<"source", q>> \notin off'
               PROVE  docs'[q].sourceDeleted <=> \E t \in docs'[q].from : ~Live(t)'
    BY DEF SourcesRight
  <2>1. CASE q = p
    <3>1. Live(s)
      BY <1>5, <2>1
    <3>2. Live(s)'
      BY <1>1, <1>7, <1>12, <3>1
    <3> QED BY <1>2, <1>9, <2>1, <3>2
  <2>2. CASE q # p
    <3>1. SameProject(docs'[q], docs[q]) /\ docs'[q].sourceDeleted = docs[q].sourceDeleted
          /\ Live(q) /\ p \notin docs[q].from /\ docs[q] \in Doc
      BY <1>0, <1>12, <1>14, <2>2, LiveIsDoc
    <3>2. docs[q].from \subseteq Ids \ {p}
      BY <3>1 DEF Doc
    <3>3. <<"source", q>> \notin off
      BY <1>5
    <3>4. docs[q].sourceDeleted <=> \E t \in docs[q].from : ~Live(t)
      BY <3>1, <3>3 DEF LibraryInv, SourcesRight
    <3>5. \A t \in docs[q].from : Live(t)' <=> Live(t)
      BY <1>12, <3>2
    <3> QED BY <3>1, <3>4, <3>5 DEF SameProject
  <2> QED BY <2>1, <2>2
<1>19. \A w : /\ Cardinality(Shelf(w)') = Cardinality(Shelf(w)) + (IF w = u THEN 1 ELSE 0)
              /\ Cardinality(Earned(w)') = Cardinality(Earned(w)) + (IF w0 # u /\ w0 = w THEN 1 ELSE 0)
  <2>1. \A w : /\ Cardinality(Shelf(w)') = Cardinality(Shelf(w)) + (IF w = d.owner THEN 1 ELSE 0)
               /\ Cardinality(Earned(w)') = Cardinality(Earned(w)) + (IF Credited(d) /\ d.fromOwner = w THEN 1 ELSE 0)
    BY <1>10, <1>12, SumsAdded
  <2> QED BY <1>2, <2>1
<1>20. \A w : /\ Cardinality(Shelf(w)) \in Nat /\ Cardinality(Earned(w)) \in Nat
              /\ \A ats : Cardinality(Doing(ats, w)) \in Nat
  BY <1>0, SetsFinite
<1>21. \A w : \A ats \in SUBSET {"create", "clone", "count", "credit"} :
         Cardinality(Doing(ats, w)') = Cardinality(Doing(ats, w)) + (IF o \in Doing(ats, w)' THEN 1 ELSE 0)
                                         - (IF o \in Doing(ats, w) THEN 1 ELSE 0)
  BY <1>0, <1>8, DoingCount
<1>22. {"count"} \in SUBSET {"create", "clone", "count", "credit"} /\ {"credit"} \in SUBSET {"create", "clone", "count", "credit"}
       /\ {"create", "clone"} \in SUBSET {"create", "clone", "count", "credit"}
  OBVIOUS
<1>23. OwnedRight'
  <2> SUFFICES ASSUME NEW w \in Owners, <<"owned", w>> \notin off'
               PROVE  owned'[w] + Cardinality(Doing({"count"}, w)') = Cardinality(Shelf(w)')
    BY DEF OwnedRight
  <2>0. <<"owned", w>> \notin off
    BY <1>5
  <2>1. owned[w] + Cardinality(Doing({"count"}, w)) = Cardinality(Shelf(w)) /\ owned[w] \in Nat
    BY <1>0, <2>0 DEF LibraryInv, OwnedRight, LibraryTypes
  <2>2. Cardinality(Doing({"count"}, w)') = Cardinality(Doing({"count"}, w)) + (IF o \in Doing({"count"}, w)' THEN 1 ELSE 0)
           - (IF o \in Doing({"count"}, w) THEN 1 ELSE 0)
    BY <1>21, <1>22
  <2>3. o \notin Doing({"count"}, w)' /\ o \notin Doing({"count"}, w) /\ Cardinality(Doing({"count"}, w)) \in Nat
    BY <1>1, <1>3, <1>8, <1>20 DEF Doing
  <2>4. Cardinality(Doing({"count"}, w)') = Cardinality(Doing({"count"}, w))
    BY <2>2, <2>3
  <2>5. owned'[w] = owned[w] + (IF w = u THEN 1 ELSE 0)
    BY <1>0, <1>1, <1>5, <2>1 DEF LibraryTypes
  <2>6. Cardinality(Shelf(w)') = Cardinality(Shelf(w)) + (IF w = u THEN 1 ELSE 0)
    BY <1>19
  <2> QED BY <2>1, <2>3, <2>4, <2>5, <2>6
<1>24. ReceivedRight'
  <2> SUFFICES ASSUME NEW w \in Owners, <<"received", w>> \notin off'
               PROVE  received[w] + Cardinality(Doing({"credit"}, w)') = Cardinality(Earned(w)')
    BY <1>5 DEF ReceivedRight
  <2>0. <<"received", w>> \notin off
    BY <1>5
  <2>1. received[w] + Cardinality(Doing({"credit"}, w)) = Cardinality(Earned(w)) /\ received[w] \in Nat
    BY <1>0, <2>0 DEF LibraryInv, ReceivedRight, LibraryTypes
  <2>2. Cardinality(Doing({"credit"}, w)') = Cardinality(Doing({"credit"}, w)) + (IF o \in Doing({"credit"}, w)' THEN 1 ELSE 0)
           - (IF o \in Doing({"credit"}, w) THEN 1 ELSE 0)
    BY <1>21, <1>22
  <2>3. /\ o \in Doing({"credit"}, w)' <=> (w0 # u /\ w0 = w)
        /\ o \notin Doing({"credit"}, w) /\ Cardinality(Doing({"credit"}, w)) \in Nat
    BY <1>1, <1>3, <1>8, <1>20 DEF Doing
  <2>4. Cardinality(Doing({"credit"}, w)') = Cardinality(Doing({"credit"}, w)) + (IF w0 # u /\ w0 = w THEN 1 ELSE 0)
    BY <2>2, <2>3
  <2>5. Cardinality(Earned(w)') = Cardinality(Earned(w)) + (IF w0 # u /\ w0 = w THEN 1 ELSE 0)
    BY <1>19
  <2> QED BY <2>1, <2>3, <2>4, <2>5
<1>25. LimitHeld'
  <2> SUFFICES ASSUME NEW w \in Owners
               PROVE  Cardinality(Shelf(w)') + Cardinality(Doing({"create", "clone"}, w)') < MaxProjects + Cardinality(LibraryOps)
    BY DEF LimitHeld
  <2>0. Cardinality(Doing({"create", "clone"}, w)') = Cardinality(Doing({"create", "clone"}, w)) + (IF o \in Doing({"create", "clone"}, w)' THEN 1 ELSE 0)
           - (IF o \in Doing({"create", "clone"}, w) THEN 1 ELSE 0)
    BY <1>21, <1>22
  <2>1. /\ o \notin Doing({"create", "clone"}, w)' /\ (o \in Doing({"create", "clone"}, w) <=> w = u)
        /\ Cardinality(Doing({"create", "clone"}, w)) \in Nat
    BY <1>1, <1>3, <1>8, <1>20 DEF Doing
  <2>2. Cardinality(Doing({"create", "clone"}, w)') = Cardinality(Doing({"create", "clone"}, w)) - (IF w = u THEN 1 ELSE 0)
    BY <2>0, <2>1
  <2>3. Cardinality(Shelf(w)) + Cardinality(Doing({"create", "clone"}, w)) < MaxProjects + Cardinality(LibraryOps)
    BY DEF LibraryInv, LimitHeld
  <2>4. Cardinality(Shelf(w)') = Cardinality(Shelf(w)) + (IF w = u THEN 1 ELSE 0) /\ Cardinality(Shelf(w)) \in Nat
    BY <1>19, <1>20
  <2> QED BY <2>1, <2>2, <2>3, <2>4
<1> QED BY <1>12, <1>13, <1>15, <1>16, <1>17, <1>18, <1>23, <1>24, <1>25 DEF LibraryInv

(* A removal: the project goes, its source counts down, its forks are told. *)
RemovesDoc(p, doc) ==
    /\ docs'[p] = Gone
    /\ \A q \in Ids \ {p} :
         /\ docs'[q] = NotYet <=> docs[q] = NotYet
         /\ Live(q)' <=> Live(q)
         /\ Live(q) => /\ SameProject(docs'[q], docs[q])
                       /\ docs'[q].forkCount = IF q \in doc.from THEN Less(docs[q].forkCount) ELSE docs[q].forkCount
                       /\ docs'[q].sourceDeleted = IF q \notin doc.from /\ \E r \in forks : r.source = p /\ r.fork = q
                                                   THEN TRUE ELSE docs[q].sourceDeleted

LEMMA LessIs == \A n \in Nat : Less(n) \in Nat /\ (n # 0 => Less(n) = n - 1)
  BY DEF Less

LEMMA DocRemoved ==
  ASSUME LibraryInv, NEW o \in LibraryOps, removeProject(o), NEW p \in Ids, NEW doc \in Doc,
         lops[o].id = p, lops[o].doc = doc
  PROVE  docs' \in [Ids -> {NotYet, Gone} \cup Doc] /\ RemovesDoc(p, doc)
<1>0. LibraryTypes
  BY DEF LibraryInv
<1> DEFINE children == {r.fork : r \in {r \in forks : r.source = p}}
<1>1. docs' = [q \in Ids |->
         IF q = p THEN Gone
         ELSE IF q \in doc.from /\ Live(q) THEN [docs[q] EXCEPT !.forkCount = Less(@)]
         ELSE IF q \in children /\ Live(q) THEN [docs[q] EXCEPT !.sourceDeleted = TRUE]
         ELSE docs[q]]
  BY DEF removeProject
<1>2. \A q : q \in children <=> \E r \in forks : r.source = p /\ r.fork = q
  OBVIOUS
<1> HIDE DEF children
<1>3. docs'[p] = Gone
  BY <1>1
<1>4. ASSUME NEW q \in Ids \ {p}
      PROVE  /\ docs'[q] \in {NotYet, Gone} \cup Doc
             /\ docs'[q] = NotYet <=> docs[q] = NotYet
             /\ Live(q)' <=> Live(q)
             /\ Live(q) => /\ SameProject(docs'[q], docs[q])
                           /\ docs'[q].forkCount = IF q \in doc.from THEN Less(docs[q].forkCount) ELSE docs[q].forkCount
                           /\ docs'[q].sourceDeleted = IF q \notin doc.from /\ q \in children
                                                       THEN TRUE ELSE docs[q].sourceDeleted
  <2>1. CASE ~Live(q)
    <3>1. docs'[q] = docs[q]
      BY <1>1, <2>1
    <3> QED BY <1>0, <2>1, <3>1 DEF Live, LibraryTypes
  <2>2. CASE Live(q)
    <3>1. docs[q] \in Doc
      BY <1>0, <2>2, LiveIsDoc
    <3>2. /\ q \in doc.from => docs'[q] = [docs[q] EXCEPT !.forkCount = Less(@)]
          /\ q \notin doc.from /\ q \in children => docs'[q] = [docs[q] EXCEPT !.sourceDeleted = TRUE]
          /\ q \notin doc.from /\ q \notin children => docs'[q] = docs[q]
      BY <1>1, <2>2
    <3>3. docs[q].forkCount \in Nat /\ Less(docs[q].forkCount) \in Nat
      BY <3>1, LessIs DEF Doc
    <3>4. /\ docs'[q] \in Doc /\ SameProject(docs'[q], docs[q])
          /\ docs'[q].forkCount = IF q \in doc.from THEN Less(docs[q].forkCount) ELSE docs[q].forkCount
          /\ docs'[q].sourceDeleted = IF q \notin doc.from /\ q \in children THEN TRUE ELSE docs[q].sourceDeleted
      <4>1. CASE q \in doc.from
        BY <3>1, <3>2, <3>3, <4>1 DEF Doc, SameProject
      <4>2. CASE q \notin doc.from /\ q \in children
        BY <3>1, <3>2, <4>2 DEF Doc, SameProject
      <4>3. CASE q \notin doc.from /\ q \notin children
        BY <3>1, <3>2, <4>3 DEF SameProject
      <4> QED BY <4>1, <4>2, <4>3
    <3>5. docs'[q] # NotYet /\ docs'[q] # Gone
      BY <3>4, DocKinds
    <3> QED BY <2>2, <3>4, <3>5 DEF Live
  <2> QED BY <2>1, <2>2
<1>5. docs' \in [Ids -> {NotYet, Gone} \cup Doc]
  <2>1. \A q \in Ids : docs'[q] \in {NotYet, Gone} \cup Doc
    BY <1>3, <1>4
  <2>2. docs' = [q \in Ids |-> docs'[q]]
    BY <1>1
  <2> QED BY <2>1, <2>2
<1> QED BY <1>2, <1>3, <1>4, <1>5 DEF RemovesDoc

LEMMA RemovalKeeps == ASSUME LibraryInv, NEW o \in LibraryOps, removeProject(o) PROVE LibraryInv'
<1>0. LibraryTypes
  BY DEF LibraryInv
<1>1. PICK p \in Ids, doc \in Doc : lops[o].at = "remove" /\ lops[o].id = p /\ lops[o].doc = doc
  <2>1. lops[o] \in LibraryOp /\ lops[o].at = "remove"
    BY <1>0 DEF LibraryTypes, removeProject
  <2>2. lops[o].id \in Ids /\ lops[o].doc \in Doc
    BY <2>1 DEF LibraryOp, NoLibraryOp
  <2> QED BY <2>1, <2>2
<1>2. PICK u \in Owners, fo \in Owners : doc.owner = u /\ doc.fromOwner = fo /\ doc.from \in SUBSET Ids
  BY DEF Doc
<1>3. NoLibraryOp \in LibraryOp /\ NoLibraryOp.at = "idle"
  BY DEF LibraryOp, NoLibraryOp
<1>4. lops' \in [LibraryOps -> LibraryOp] /\ lops'[o] = NoLibraryOp /\ OthersGoAlong(o) /\ RankingsLate(o)
  BY <1>0, <1>3, OpGoesLate DEF removeProject
<1>5. docs' \in [Ids -> {NotYet, Gone} \cup Doc] /\ RemovesDoc(p, doc)
  BY <1>1, DocRemoved
<1>6. /\ texts' = texts \ {p} /\ forks' = {r \in forks : doc.from = {} \/ r.fork # p}
      /\ owned' = [owned EXCEPT ![u] = Less(@)]
      /\ received' = IF Credited(doc) THEN [received EXCEPT ![fo] = Less(@)] ELSE received
      /\ off' = off \cup (IF ~Live(p) \/ owned[u] = 0 THEN {<<"owned", u>>} ELSE {})
                    \cup (IF Credited(doc) /\ (~Live(p) \/ received[fo] = 0) THEN {<<"received", fo>>} ELSE {})
                    \cup {<<"forks", q>> : q \in IF ~Live(p) \/ ~Credited(doc) THEN doc.from ELSE {}}
  BY <1>1, <1>2 DEF removeProject, TakesBack
<1>7. docs[p] # NotYet /\ (Live(p) => SameProject(docs[p], doc))
  BY <1>1 DEF LibraryInv, OpsKnow, OpKnows
<1>8. docs'[p] = Gone /\ ~Live(p)' /\ docs'[p] # NotYet
  BY <1>5, DocKinds DEF RemovesDoc, Live
<1>9. \A q \in Ids \ {p} : (docs'[q] = NotYet <=> docs[q] = NotYet) /\ (Live(q)' <=> Live(q))
                           /\ (Live(q) => SameProject(docs'[q], docs[q]))
  BY <1>5 DEF RemovesDoc
<1>10. \A q \in Ids : /\ docs'[q] = NotYet <=> docs[q] = NotYet
                      /\ Live(q)' => Live(q) /\ q # p /\ SameProject(docs'[q], docs[q])
  BY <1>7, <1>8, <1>9
<1>11. off \subseteq off' /\ \A q : (<<"texts", q>> \in off' <=> <<"texts", q>> \in off) /\ (<<"source", q>> \in off' <=> <<"source", q>> \in off)
  BY <1>6
<1>12. forks' = {r \in forks : r.fork # p}
  <2>1. ASSUME NEW r \in forks, r.fork = p PROVE doc.from # {}
    BY <1>7, <2>1 DEF LibraryInv, RowsOfForks, SameProject
  <2> QED BY <1>6, <2>1
<1>13. LibraryTypes'
  <2>1. Ever' = Ever
    BY <1>10 DEF Ever
  <2>2. IsFiniteSet(forks')
    <3>1. forks' \in SUBSET forks
      BY <1>6
    <3> QED BY <1>0, <3>1, FS_Subset DEF LibraryTypes
  <2>3. owned' \in [Owners -> Nat] /\ received' \in [Owners -> Nat]
    BY <1>0, <1>2, <1>6, LessIs DEF LibraryTypes
  <2>4. texts' \in SUBSET Ids /\ forks' \in SUBSET ForkRow
    BY <1>0, <1>6 DEF LibraryTypes
  <2> QED BY <1>0, <1>4, <1>5, <2>1, <2>2, <2>3, <2>4 DEF LibraryTypes
<1>14. OpsKnow'
  <2>1. ASSUME NEW q \in LibraryOps PROVE OpKnows(lops[q])'
    <3>1. CASE q = o
      BY <1>3, <1>4, <3>1 DEF OpKnows
    <3>2. CASE q # o /\ lops[q].at # "ranking"
      <4>1. lops'[q] = lops[q] /\ OpKnows(lops[q]) /\ lops[q] \in LibraryOp
        BY <1>0, <1>4, <3>2 DEF LibraryInv, OpsKnow, OthersGoAlong, LibraryTypes
      <4>2. ASSUME lops[q].at = "clone"
            PROVE  docs'[lops[q].source] # NotYet /\ (Live(lops[q].source)' => docs'[lops[q].source].owner = lops[q].owner)
        <5>1. lops[q].source \in Ids
          BY <4>1, <4>2 DEF LibraryOp, NoLibraryOp
        <5> QED BY <1>10, <4>1, <4>2, <5>1 DEF OpKnows, SameProject
      <4>3. ASSUME lops[q].at = "remove"
            PROVE  docs'[lops[q].id] # NotYet /\ (Live(lops[q].id)' => SameProject(docs'[lops[q].id], lops[q].doc))
        <5>1. lops[q].id \in Ids
          BY <4>1, <4>3 DEF LibraryOp, NoLibraryOp
        <5> QED BY <1>10, <4>1, <4>3, <5>1 DEF OpKnows, SameProject
      <4>4. ASSUME lops[q].at = "upsert"
            PROVE  docs'[lops[q].id] # NotYet
        <5>1. lops[q].id \in Ids
          BY <4>1, <4>4 DEF LibraryOp, NoLibraryOp
        <5> QED BY <1>10, <4>1, <4>4, <5>1 DEF OpKnows
      <4> QED BY <3>2, <4>1, <4>2, <4>3, <4>4 DEF OpKnows
    <3>3. CASE q # o /\ lops[q].at = "ranking"
      BY <1>4, <3>3 DEF OpKnows, RankingsLate
    <3> QED BY <3>1, <3>2, <3>3
  <2> QED BY <2>1 DEF OpsKnow
<1>15. \A r \in forks : r \in ForkRow /\ Live(r.fork) /\ docs[r.fork].from = {r.source} /\ docs[r.fork].owner = r.user
                        /\ docs[r.source] # NotYet /\ r.source < r.fork
  BY <1>0 DEF LibraryInv, RowsOfForks, LibraryTypes
<1>16. ASSUME NEW q \in Ids, Live(q), docs[q].from # {}
       PROVE  \E s \in Ids : /\ docs[q].from = {s} /\ s # q /\ docs[s] # NotYet
                             /\ [source |-> s, fork |-> q, user |-> docs[q].owner] \in forks
                             /\ Live(s) => docs[s].owner = docs[q].fromOwner
  BY <1>16 DEF LibraryInv, RowsOfForks
<1>17. RowsOfForks'
  <2>1. ASSUME NEW r \in forks'
        PROVE  Live(r.fork)' /\ docs'[r.fork].from = {r.source} /\ docs'[r.fork].owner = r.user
               /\ docs'[r.source] # NotYet /\ r.source < r.fork
    <3>1. r \in forks /\ r.fork # p
      BY <1>12
    <3>2. r.fork \in Ids /\ r.source \in Ids
      BY <1>15, <3>1 DEF ForkRow
    <3> QED BY <1>9, <1>10, <1>15, <3>1, <3>2 DEF SameProject
  <2>2. ASSUME NEW q \in Ids, Live(q)', docs'[q].from # {}
        PROVE  \E t \in Ids : /\ docs'[q].from = {t} /\ t # q /\ docs'[t] # NotYet
                              /\ [source |-> t, fork |-> q, user |-> docs'[q].owner] \in forks'
                              /\ Live(t)' => docs'[t].owner = docs'[q].fromOwner
    <3>1. Live(q) /\ q # p /\ SameProject(docs'[q], docs[q])
      BY <1>10, <2>2
    <3>2. PICK t \in Ids : /\ docs[q].from = {t} /\ t # q /\ docs[t] # NotYet
                           /\ [source |-> t, fork |-> q, user |-> docs[q].owner] \in forks
                           /\ Live(t) => docs[t].owner = docs[q].fromOwner
      BY <1>16, <2>2, <3>1 DEF SameProject
    <3>3. docs'[t] # NotYet /\ (Live(t)' => docs'[t].owner = docs[t].owner /\ Live(t))
      BY <1>10, <3>2 DEF SameProject
    <3>4. [source |-> t, fork |-> q, user |-> docs'[q].owner] \in forks'
      BY <1>12, <3>1, <3>2 DEF SameProject
    <3> QED BY <3>1, <3>2, <3>3, <3>4 DEF SameProject
  <2>3. \A a, b \in Ids : b < a /\ docs'[a] # NotYet => docs'[b] # NotYet
    BY <1>10 DEF LibraryInv, RowsOfForks
  <2> QED BY <2>1, <2>2, <2>3 DEF RowsOfForks
<1>18. TextsRight'
  BY <1>6, <1>8, <1>9, <1>11 DEF LibraryInv, TextsRight
<1>19. ForksRight'
  <2> SUFFICES ASSUME NEW q \in Ids, Live(q)', <<"forks", q>> \notin off'
               PROVE  docs'[q].forkCount = Cardinality(ForksOf(q)')
    BY DEF ForksRight
  <2>1. Live(q) /\ q # p /\ SameProject(docs'[q], docs[q]) /\ <<"forks", q>> \notin off
    BY <1>10, <1>11
  <2>2. docs[q].forkCount = Cardinality(ForksOf(q)) /\ docs[q] \in Doc
    BY <1>0, <2>1, LiveIsDoc DEF LibraryInv, ForksRight
  <2>3. docs'[q].forkCount = IF q \in doc.from THEN Less(docs[q].forkCount) ELSE docs[q].forkCount
    BY <1>5, <2>1 DEF RemovesDoc
  <2>4. IsFiniteSet(ForksOf(q)) /\ Cardinality(ForksOf(q)) \in Nat
    BY <1>0, SetsFinite
  <2>5. CASE q \in doc.from
    <3>1. Live(p) /\ Credited(doc)
      BY <1>6, <2>5
    <3>2. docs[p].from = doc.from /\ docs[p].owner = u /\ docs[p].fromOwner = fo /\ fo # u
      BY <1>2, <1>7, <3>1 DEF SameProject, Credited
    <3>3. PICK s \in Ids : /\ docs[p].from = {s} /\ [source |-> s, fork |-> p, user |-> docs[p].owner] \in forks
                           /\ Live(s) => docs[s].owner = docs[p].fromOwner
      BY <1>16, <2>5, <3>1, <3>2
    <3>4. s = q
      BY <2>5, <3>2, <3>3
    <3> DEFINE row == [source |-> q, fork |-> p, user |-> u]
    <3>5. row \in forks /\ docs[q].owner = fo /\ row.source = q /\ row.fork = p /\ row.user = u
      BY <2>1, <3>2, <3>3, <3>4
    <3>6. \A r \in forks : r.fork = p => r = row
      BY <1>15, <3>2, <3>3, <3>4 DEF ForkRow
    <3> HIDE DEF row
    <3>7. row \in ForksOf(q)
      BY <3>2, <3>5 DEF ForksOf
    <3>8. docs'[q].owner = docs[q].owner
      BY <2>1 DEF SameProject
    <3>9. ForksOf(q)' = ForksOf(q) \ {row}
      BY <1>12, <3>5, <3>6, <3>8 DEF ForksOf
    <3>10. Cardinality(ForksOf(q) \ {row}) = Cardinality(ForksOf(q)) - 1
      BY <2>4, <3>7, FS_RemoveElement
    <3>11. Cardinality(ForksOf(q)) # 0
      BY <2>4, <3>7, FS_EmptySet
    <3>12. Less(docs[q].forkCount) = docs[q].forkCount - 1
      BY <2>2, <2>4, <3>11, LessIs
    <3> QED BY <2>2, <2>3, <2>5, <3>9, <3>10, <3>12
  <2>6. CASE q \notin doc.from
    <3>1. \A r \in forks : r.fork = p => r.source # q
      BY <1>7, <1>15, <2>6 DEF SameProject
    <3>2. docs'[q].owner = docs[q].owner
      BY <2>1 DEF SameProject
    <3>3. ForksOf(q)' = ForksOf(q)
      BY <1>12, <3>1, <3>2 DEF ForksOf
    <3> QED BY <2>2, <2>3, <2>6, <3>3
  <2> QED BY <2>5, <2>6
<1>20. SourcesRight'
  <2> SUFFICES ASSUME NEW q \in Ids, Live(q)', <<"source", q>> \notin off'
               PROVE  docs'[q].sourceDeleted <=> \E t \in docs'[q].from : ~Live(t)'
    BY DEF SourcesRight
  <2>1. Live(q) /\ q # p /\ SameProject(docs'[q], docs[q]) /\ <<"source", q>> \notin off /\ docs[q] \in Doc
    BY <1>0, <1>10, <1>11, LiveIsDoc
  <2>2. docs[q].sourceDeleted <=> \E t \in docs[q].from : ~Live(t)
    BY <2>1 DEF LibraryInv, SourcesRight
  <2>3. docs'[q].sourceDeleted = IF q \notin doc.from /\ \E r \in forks : r.source = p /\ r.fork = q
                                 THEN TRUE ELSE docs[q].sourceDeleted
    BY <1>5, <2>1 DEF RemovesDoc
  <2>4. docs'[q].from = docs[q].from /\ docs[q].from \subseteq Ids
    BY <2>1 DEF SameProject, Doc
  <2>5. CASE p \in docs[q].from
    <3>1. PICK s \in Ids : docs[q].from = {s} /\ [source |-> s, fork |-> q, user |-> docs[q].owner] \in forks
      BY <1>16, <2>1, <2>5
    <3>2. [source |-> p, fork |-> q, user |-> docs[q].owner] \in forks
      BY <2>5, <3>1
    <3>3. \E r \in forks : r.source = p /\ r.fork = q
      BY <3>2
    <3>4. CASE q \notin doc.from
      BY <1>8, <2>3, <2>4, <2>5, <3>3, <3>4
    <3>5. CASE q \in doc.from
      <4>1. ~Live(p)
        <5> SUFFICES ASSUME Live(p) PROVE FALSE
          OBVIOUS
        <5>1. docs[p].from = doc.from
          BY <1>7 DEF SameProject
        <5>2. PICK t \in Ids : docs[p].from = {t} /\ [source |-> t, fork |-> p, user |-> docs[p].owner] \in forks
          BY <1>16, <3>5, <5>1
        <5>3. t = q
          BY <3>5, <5>1, <5>2
        <5>4. q < p /\ p < q
          BY <1>15, <3>2, <5>2, <5>3
        <5> QED BY <5>4, LibraryAssumption
      <4> QED BY <1>8, <2>2, <2>3, <2>4, <2>5, <3>5, <4>1
    <3> QED BY <3>4, <3>5
  <2>6. CASE p \notin docs[q].from
    <3>1. ~\E r \in forks : r.source = p /\ r.fork = q
      BY <1>15, <2>6
    <3>2. \A t \in docs[q].from : Live(t)' <=> Live(t)
      BY <1>9, <2>4, <2>6
    <3> QED BY <2>2, <2>3, <2>4, <3>1, <3>2
  <2> QED BY <2>5, <2>6
<1>21. \A w, ats : ats \in SUBSET {"create", "clone", "count", "credit"} => Doing(ats, w)' = Doing(ats, w)
  BY <1>1, <1>3, <1>4 DEF Doing, OthersGoAlong
<1>22. \A w : /\ Doing({"count"}, w)' = Doing({"count"}, w) /\ Doing({"credit"}, w)' = Doing({"credit"}, w)
              /\ Doing({"create", "clone"}, w)' = Doing({"create", "clone"}, w)
  BY <1>21
<1>23. \A w : /\ Shelf(w)' = IF Live(p) /\ u = w THEN Shelf(w) \ {p} ELSE Shelf(w)
              /\ p \in Shelf(w) <=> Live(p) /\ u = w
  BY <1>2, <1>7, <1>8, <1>9 DEF Shelf, SameProject
<1>24. \A w : /\ Earned(w)' = IF Live(p) /\ Credited(doc) /\ fo = w THEN Earned(w) \ {p} ELSE Earned(w)
              /\ p \in Earned(w) <=> Live(p) /\ Credited(doc) /\ fo = w
  <2>1. Live(p) => (Credited(docs[p]) <=> Credited(doc)) /\ docs[p].fromOwner = fo
    BY <1>2, <1>7 DEF SameProject, Credited
  <2>2. \A q \in Ids \ {p} : Live(q) => (Credited(docs[q])' <=> Credited(docs[q])) /\ docs'[q].fromOwner = docs[q].fromOwner
    BY <1>9 DEF SameProject, Credited
  <2> QED BY <1>8, <1>9, <2>1, <2>2 DEF Earned
<1>25. \A w : /\ IsFiniteSet(Shelf(w)) /\ Cardinality(Shelf(w)) \in Nat
              /\ IsFiniteSet(Earned(w)) /\ Cardinality(Earned(w)) \in Nat
              /\ \A ats : Cardinality(Doing(ats, w)) \in Nat
  BY <1>0, SetsFinite
<1>26. \A w : /\ Cardinality(Shelf(w) \ {p}) = IF p \in Shelf(w) THEN Cardinality(Shelf(w)) - 1 ELSE Cardinality(Shelf(w))
              /\ Cardinality(Earned(w) \ {p}) = IF p \in Earned(w) THEN Cardinality(Earned(w)) - 1 ELSE Cardinality(Earned(w))
  BY <1>25, FS_RemoveElement
<1>27. OwnedRight'
  <2> SUFFICES ASSUME NEW w \in Owners, <<"owned", w>> \notin off'
               PROVE  owned'[w] + Cardinality(Doing({"count"}, w)) = Cardinality(Shelf(w)')
    BY <1>22 DEF OwnedRight
  <2>1. owned[w] + Cardinality(Doing({"count"}, w)) = Cardinality(Shelf(w)) /\ owned[w] \in Nat
    BY <1>0, <1>11 DEF LibraryInv, OwnedRight, LibraryTypes
  <2>2. CASE w = u
    <3>1. Live(p) /\ owned[u] # 0
      BY <1>6, <2>2
    <3>2. owned'[w] = owned[w] - 1
      BY <1>0, <1>6, <2>1, <2>2, <3>1, LessIs DEF LibraryTypes
    <3>3. Cardinality(Shelf(w)') = Cardinality(Shelf(w)) - 1
      BY <1>23, <1>26, <2>2, <3>1
    <3> QED BY <1>25, <2>1, <3>2, <3>3
  <2>3. CASE w # u
    BY <1>0, <1>6, <1>23, <2>1, <2>3 DEF LibraryTypes
  <2> QED BY <2>2, <2>3
<1>28. ReceivedRight'
  <2> SUFFICES ASSUME NEW w \in Owners, <<"received", w>> \notin off'
               PROVE  received'[w] + Cardinality(Doing({"credit"}, w)) = Cardinality(Earned(w)')
    BY <1>22 DEF ReceivedRight
  <2>1. received[w] + Cardinality(Doing({"credit"}, w)) = Cardinality(Earned(w)) /\ received[w] \in Nat
    BY <1>0, <1>11 DEF LibraryInv, ReceivedRight, LibraryTypes
  <2>2. CASE w = fo /\ Credited(doc)
    <3>1. Live(p) /\ received[fo] # 0
      BY <1>6, <2>2
    <3>2. received'[w] = received[w] - 1
      BY <1>0, <1>6, <2>1, <2>2, <3>1, LessIs DEF LibraryTypes
    <3>3. Cardinality(Earned(w)') = Cardinality(Earned(w)) - 1
      BY <1>24, <1>26, <2>2, <3>1
    <3> QED BY <1>25, <2>1, <3>2, <3>3
  <2>3. CASE ~(w = fo /\ Credited(doc))
    BY <1>0, <1>6, <1>24, <2>1, <2>3 DEF LibraryTypes
  <2> QED BY <2>2, <2>3
<1>29. LimitHeld'
  <2> SUFFICES ASSUME NEW w \in Owners
               PROVE  Cardinality(Shelf(w)') + Cardinality(Doing({"create", "clone"}, w)) < MaxProjects + Cardinality(LibraryOps)
    BY <1>22 DEF LimitHeld
  <2>1. Cardinality(Shelf(w)) + Cardinality(Doing({"create", "clone"}, w)) < MaxProjects + Cardinality(LibraryOps)
    BY DEF LibraryInv, LimitHeld
  <2>2. Cardinality(Shelf(w)') = Cardinality(Shelf(w)) \/ Cardinality(Shelf(w)') = Cardinality(Shelf(w)) - 1
    BY <1>23, <1>26
  <2>3. Cardinality(LibraryOps) \in Nat /\ MaxProjects \in Nat
    BY LibraryAssumption, FS_CardinalityType
  <2> QED BY <1>25, <2>1, <2>2, <2>3
<1> QED BY <1>13, <1>14, <1>17, <1>18, <1>19, <1>20, <1>27, <1>28, <1>29 DEF LibraryInv

LEMMA WritingKeeps == ASSUME LibraryInv, NEW o \in LibraryOps, writeCounts(o) PROVE LibraryInv'
<1>0. LibraryTypes
  BY DEF LibraryInv
<1>1. NoLibraryOp \in LibraryOp /\ NoLibraryOp.at = "idle"
  BY DEF LibraryOp, NoLibraryOp
<1>2. lops' \in [LibraryOps -> LibraryOp] /\ lops'[o] = NoLibraryOp /\ OthersGoAlong(o)
  BY <1>0, <1>1, OpGoesLate DEF writeCounts
<1>3. lops[o].at = "ranking" /\ lops[o].counts \in [Owners -> Nat]
  <2>1. lops[o] \in LibraryOp /\ lops[o].at = "ranking"
    BY <1>0 DEF LibraryTypes, writeCounts
  <2> QED BY <2>1 DEF LibraryOp, NoLibraryOp
<1>4. UNCHANGED <<docs, texts, forks, received>> /\ owned' = lops[o].counts
  BY DEF writeCounts
<1> DEFINE wrong == {u \in Owners : lops[o].late \/ \E q \in LibraryOps : lops[q].at = "count" /\ lops[q].user = u}
<1>5. off' = {m \in off : m[1] # "owned"} \cup {<<"owned", u>> : u \in wrong}
  BY DEF writeCounts
<1>6. \A q : \A k \in {"forks", "source", "texts", "received"} : <<k, q>> \in off' <=> <<k, q>> \in off
  BY <1>5
<1>7. OpKnows(lops[o])'
  BY <1>1, <1>2 DEF OpKnows
<1>8. OpsKnow' /\ RowsOfForks' /\ ForksRight' /\ SourcesRight'
  BY <1>2, <1>4, <1>6, <1>7, ProjectsAlone
<1>9. TextsRight'
  BY <1>4, <1>6 DEF LibraryInv, TextsRight, Live
<1>10. \A w : Shelf(w)' = Shelf(w) /\ Earned(w)' = Earned(w)
  BY <1>4 DEF Shelf, Earned, Live
<1>11. LibraryTypes'
  BY <1>0, <1>2, <1>3, <1>4 DEF LibraryTypes, Ever
<1>12. \A w, ats : ats \in SUBSET {"create", "clone", "count", "credit"} => Doing(ats, w)' = Doing(ats, w)
  BY <1>1, <1>2, <1>3 DEF Doing, OthersGoAlong
<1>13. \A w : /\ Doing({"count"}, w)' = Doing({"count"}, w) /\ Doing({"credit"}, w)' = Doing({"credit"}, w)
              /\ Doing({"create", "clone"}, w)' = Doing({"create", "clone"}, w)
  BY <1>12
<1>14. ReceivedRight' /\ LimitHeld'
  BY <1>4, <1>6, <1>10, <1>13 DEF LibraryInv, ReceivedRight, LimitHeld
<1>15. OwnedRight'
  <2> SUFFICES ASSUME NEW w \in Owners, <<"owned", w>> \notin off'
               PROVE  owned'[w] + Cardinality(Doing({"count"}, w)) = Cardinality(Shelf(w))
    BY <1>10, <1>13 DEF OwnedRight
  <2>1. w \notin wrong
    BY <1>5
  <2>2. ~lops[o].late /\ Doing({"count"}, w) = {}
    BY <2>1 DEF Doing
  <2>3. owned'[w] = Cardinality(Shelf(w))
    BY <1>3, <1>4, <2>2 DEF LibraryInv, OpsKnow, OpKnows
  <2>4. Cardinality(Doing({"count"}, w)) = 0
    BY <2>2, FS_EmptySet
  <2>5. Cardinality(Shelf(w)) \in Nat
    BY <1>0, SetsFinite
  <2> QED BY <2>3, <2>4, <2>5
<1> QED BY <1>8, <1>9, <1>11, <1>14, <1>15 DEF LibraryInv

LEMMA LibraryStep == LibraryInv /\ [LibraryNext]_libraryVars => LibraryInv'
<1> SUFFICES ASSUME LibraryInv, [LibraryNext]_libraryVars PROVE LibraryInv'
  OBVIOUS
<1>1. ASSUME NEW o \in LibraryOps, Forking(o) PROVE LibraryInv'
  <2>1. CASE \E u \in Owners, s \in Ids : cloneProject(o, u, s)
    BY <2>1, HandlersBegin
  <2>2. CASE \E p \in Ids : storeClone(o, p)
    BY <2>2, CloneKeeps
  <2>3. CASE cloneRefused(o)
    BY <2>3, HandlersBegin
  <2>4. CASE creditFork(o)
    BY <2>4, CountsKeep
  <2> QED BY <1>1, <2>1, <2>2, <2>3, <2>4 DEF Forking
<1>2. ASSUME NEW o \in LibraryOps, Keeping(o) PROVE LibraryInv'
  <2>1. CASE \E u \in Owners : createProject(o, u)
    BY <2>1, HandlersBegin
  <2>2. CASE \E p \in Ids : storeCreated(o, p)
    BY <2>2, CreatedKeeps
  <2>3. CASE \E p \in Ids : deleteProject(o, p)
    BY <2>3, HandlersBegin
  <2>4. CASE countCreated(o)
    BY <2>4, CountsKeep
  <2>5. CASE removeProject(o)
    BY <2>5, RemovalKeeps
  <2> QED BY <1>2, <2>1, <2>2, <2>3, <2>4, <2>5 DEF Keeping
<1>3. ASSUME NEW o \in LibraryOps, Updating(o) \/ Ranking(o) PROVE LibraryInv'
  BY <1>3, HandlersBegin, UpsertKeeps, WritingKeeps DEF Updating, Ranking
<1>4. CASE UNCHANGED libraryVars
  <2>1. UNCHANGED <<docs, texts, forks, owned, received, off, lops>>
    BY <1>4 DEF libraryVars
  <2>2. \A w : Shelf(w)' = Shelf(w) /\ Earned(w)' = Earned(w)
    BY <2>1 DEF Shelf, Earned, Live
  <2>3. \A p : ForksOf(p)' = ForksOf(p) /\ (Live(p)' <=> Live(p))
    BY <2>1 DEF ForksOf, Live
  <2>4. \A ats, w : Doing(ats, w)' = Doing(ats, w)
    BY <2>1 DEF Doing
  <2>5. LibraryTypes' /\ RowsOfForks' /\ TextsRight' /\ ForksRight' /\ SourcesRight'
    BY <2>1, <2>3 DEF LibraryInv, LibraryTypes, Ever, RowsOfForks, TextsRight, ForksRight, SourcesRight
  <2>6. OpsKnow'
    BY <2>1, <2>2, <2>3 DEF LibraryInv, OpsKnow, OpKnows
  <2>7. OwnedRight' /\ ReceivedRight' /\ LimitHeld'
    BY <2>1, <2>2, <2>4 DEF LibraryInv, OwnedRight, ReceivedRight, LimitHeld
  <2> QED BY <2>5, <2>6, <2>7 DEF LibraryInv
<1> QED BY <1>1, <1>2, <1>3, <1>4 DEF LibraryNext

LEMMA LibraryShows == LibraryInv => LibraryAgrees
<1> SUFFICES ASSUME LibraryInv PROVE LibraryAgrees
  OBVIOUS
<1>0. LibraryTypes
  BY DEF LibraryInv
<1>1. \A w : /\ Cardinality(Shelf(w)) \in Nat /\ Cardinality(Earned(w)) \in Nat
             /\ \A ats : Cardinality(Doing(ats, w)) \in Nat
  BY <1>0, SetsFinite
<1>2. ASSUME NEW w, Calm PROVE Cardinality(Doing({"count"}, w)) = 0 /\ Cardinality(Doing({"credit"}, w)) = 0
  <2>1. Doing({"count"}, w) = {} /\ Doing({"credit"}, w) = {}
    BY <1>2 DEF Calm, Doing
  <2> QED BY <2>1, FS_EmptySet
<1>3. ASSUME NEW p \in Ids
      PROVE  /\ Sound("texts", p) => (p \in texts <=> Live(p))
             /\ Live(p) /\ Sound("forks", p) => docs[p].forkCount = Cardinality(ForksOf(p))
             /\ Live(p) /\ Sound("source", p) => (docs[p].sourceDeleted <=> \E s \in docs[p].from : ~Live(s))
  BY DEF LibraryInv, TextsRight, ForksRight, SourcesRight, Sound
<1>4. ASSUME NEW u \in Owners
      PROVE  /\ Sound("owned", u) => owned[u] = Cardinality(Shelf(u))
             /\ Sound("received", u) => received[u] = Cardinality(Earned(u))
             /\ Cardinality(Shelf(u)) < MaxProjects + Cardinality(LibraryOps)
  <2>1. ASSUME Sound("owned", u) PROVE owned[u] = Cardinality(Shelf(u))
    <3>1. owned[u] + Cardinality(Doing({"count"}, u)) = Cardinality(Shelf(u)) /\ owned[u] \in Nat
      BY <1>0, <2>1 DEF LibraryInv, OwnedRight, LibraryTypes, Sound
    <3> QED BY <1>2, <2>1, <3>1 DEF Sound
  <2>2. ASSUME Sound("received", u) PROVE received[u] = Cardinality(Earned(u))
    <3>1. received[u] + Cardinality(Doing({"credit"}, u)) = Cardinality(Earned(u)) /\ received[u] \in Nat
      BY <1>0, <2>2 DEF LibraryInv, ReceivedRight, LibraryTypes, Sound
    <3> QED BY <1>2, <2>2, <3>1 DEF Sound
  <2>3. Cardinality(Shelf(u)) + Cardinality(Doing({"create", "clone"}, u)) < MaxProjects + Cardinality(LibraryOps)
    BY DEF LibraryInv, LimitHeld
  <2>4. Cardinality(LibraryOps) \in Nat /\ MaxProjects \in Nat
    BY LibraryAssumption, FS_CardinalityType
  <2> QED BY <1>1, <2>1, <2>2, <2>3, <2>4
<1> QED BY <1>3, <1>4 DEF LibraryAgrees, ForksOf, Earned

(* With no handler under way a project has its lyrics and the forks it
   counts, a fork says so when its source is gone, an account's counts are
   of what it has and of what others made of it, but for what a lost write,
   a second removal or the hourly job put out, and the limit of projects
   is passed by no more than the calls that ran at once: for any accounts,
   projects and calls (createProject, cloneProject, removeProject,
   upsertLyrics, recomputeLeaderboardRanking). *)
THEOREM LibraryAlwaysAgrees == LibrarySpec => []LibraryAgrees
<1>1. LibraryInit => LibraryInv
  BY LibraryBegins
<1>2. LibraryInv /\ [LibraryNext]_libraryVars => LibraryInv'
  BY LibraryStep
<1>3. LibraryInv => LibraryAgrees
  BY LibraryShows
<1> QED BY <1>1, <1>2, <1>3, PTL DEF LibrarySpec

-----------------------------------------------------------------------------
(* Stars, shares and views of one project. *)
StarAts == {"star", "count", "credit", "uncredit", "uncount"}
FeedAts == {"clear", "entry", "unfeed"}
StarOp == {NoStarOp} \cup [at : StarAts \cup Sharing \cup {"view", "countView"}, user : Fans]
StarTypes ==
    /\ there \in BOOLEAN
    /\ stars \in SUBSET Fans /\ shares \in SUBSET Fans
    /\ IsFiniteSet(stars) /\ IsFiniteSet(viewed)
    /\ starCount \in Nat /\ credit \in Nat /\ viewCount \in Nat
    /\ viewed \in SUBSET ((Fans \ {Owner}) \X Nat)
    /\ today \in Nat
    /\ feed \in [Fans -> Nat]
    /\ stops \in [StarOps -> StarOp]

Others == Fans \ {Owner}
Busy(ats, S) == {o \in StarOps : stops[o].at \in ats /\ stops[o].user \in S}
(* Views and credits are of others than the owner; what is not counted yet
   has a handler that will, and what is counted and gone one that takes it
   back. *)
ViewersApart == \A o \in StarOps : stops[o].at \in {"view", "countView", "credit"} => stops[o].user # Owner
ViewsCounted ==
    /\ viewCount + Cardinality(Busy({"countView"}, Fans)) <= Cardinality(viewed)
    /\ there /\ <<"views", Owner>> \notin amiss =>
         viewCount + Cardinality(Busy({"countView"}, Fans)) = Cardinality(viewed)
StarsCounted == there /\ <<"count", Owner>> \notin amiss =>
    starCount + Cardinality(Busy({"count"}, Fans)) = Cardinality(stars) + Cardinality(Busy({"uncredit", "uncount"}, Fans))
StarsCredited == <<"credit", Owner>> \notin amiss =>
    credit + Cardinality(Busy({"count", "credit"}, Others)) =
        Cardinality(stars \ {Owner}) + Cardinality(Busy({"uncredit"}, Others))

(* A handler that is alone with a share's entries finds them as it expects. *)
Feeding(u) == {o \in StarOps : stops[o].at \in FeedAts /\ stops[o].user = u}
FeedOf(u) ==
    /\ Feeding(u) = {} => feed[u] = IF u \in shares THEN 1 ELSE 0
    /\ \A o \in StarOps : Feeding(u) = {o} =>
         /\ stops[o].at = "unfeed" <=> u \notin shares
         /\ stops[o].at = "entry" => feed[u] = 0
FeedsAgree == \A u \in Fans : <<"feed", u>> \notin amiss => FeedOf(u)

StarInv == StarTypes /\ ViewersApart /\ ViewsCounted /\ StarsCounted /\ StarsCredited /\ FeedsAgree

CountAts == {"count", "credit", "uncredit", "uncount"}
(* A step of one handler, and what it says is amiss stays so. *)
Goes(o, op) == op \in StarOp /\ stops' = [stops EXCEPT ![o] = op]
Stays(kind) == \A x : <<kind, x>> \in amiss => <<kind, x>> \in amiss'

LEMMA StarOpIs ==
  /\ NoStarOp \in StarOp /\ NoStarOp.at = "idle"
  /\ \A op \in StarOp : op.at # "idle" => op.user \in Fans
  BY DEF StarOp, NoStarOp, StarAts, Sharing

LEMMA OpOf ==
  ASSUME NEW at \in StarAts \cup Sharing \cup {"view", "countView"}, NEW u \in Fans, NEW o \in StarOps, StarGo(o, u, at)
  PROVE  \E op \in StarOp : Goes(o, op) /\ op.at = at /\ op.user = u
<1> DEFINE op == [at |-> at, user |-> u]
<1>1. op \in StarOp /\ op.at = at /\ op.user = u
  BY DEF StarOp
<1>2. stops' = [stops EXCEPT ![o] = op]
  BY DEF StarGo
<1> HIDE DEF op
<1> QED BY <1>1, <1>2 DEF Goes

LEMMA OpEnds ==
  ASSUME NEW o \in StarOps, StarEnd(o)
  PROVE  \E op \in StarOp : Goes(o, op) /\ op.at = "idle"
  BY StarOpIs DEF Goes, StarEnd

LEMMA BusyFinite == ASSUME StarTypes, NEW ats, NEW S PROVE IsFiniteSet(Busy(ats, S)) /\ Cardinality(Busy(ats, S)) \in Nat
<1>1. Busy(ats, S) \in SUBSET StarOps
  BY DEF Busy
<1>2. IsFiniteSet(Busy(ats, S))
  BY <1>1, StarAssumption, FS_Subset
<1> QED BY <1>2, FS_CardinalityType

LEMMA GoesTo ==
  ASSUME StarTypes, NEW o \in StarOps, NEW op, Goes(o, op)
  PROVE  stops' \in [StarOps -> StarOp] /\ stops'[o] = op /\ \A q \in StarOps \ {o} : stops'[q] = stops[q]
  BY DEF StarTypes, Goes

LEMMA BusyGoes ==
  ASSUME StarTypes, NEW o \in StarOps, NEW op, Goes(o, op), NEW ats, NEW S
  PROVE  Cardinality(Busy(ats, S)') = Cardinality(Busy(ats, S))
           + (IF op.at \in ats /\ op.user \in S THEN 1 ELSE 0)
           - (IF stops[o].at \in ats /\ stops[o].user \in S THEN 1 ELSE 0)
<1>1. \A q \in StarOps \ {o} : q \in Busy(ats, S)' <=> q \in Busy(ats, S)
  BY GoesTo DEF Busy
<1>2. IsFiniteSet(Busy(ats, S)) /\ Cardinality(Busy(ats, S)) \in Nat
  BY BusyFinite
<1>3. Busy(ats, S) \subseteq StarOps /\ Busy(ats, S)' \subseteq StarOps
  BY DEF Busy
<1>4. /\ o \in Busy(ats, S)' <=> op.at \in ats /\ op.user \in S
      /\ o \in Busy(ats, S) <=> stops[o].at \in ats /\ stops[o].user \in S
  BY GoesTo DEF Busy
<1>5. CASE o \in Busy(ats, S)'
  <2>1. Busy(ats, S)' = Busy(ats, S) \cup {o}
    BY <1>1, <1>3, <1>5
  <2>2. Cardinality(Busy(ats, S) \cup {o}) = IF o \in Busy(ats, S) THEN Cardinality(Busy(ats, S)) ELSE Cardinality(Busy(ats, S)) + 1
    BY <1>2, FS_AddElement
  <2> QED BY <1>2, <1>4, <1>5, <2>1, <2>2
<1>6. CASE o \notin Busy(ats, S)'
  <2>1. Busy(ats, S)' = Busy(ats, S) \ {o}
    BY <1>1, <1>3, <1>6
  <2>2. Cardinality(Busy(ats, S) \ {o}) = IF o \in Busy(ats, S) THEN Cardinality(Busy(ats, S)) - 1 ELSE Cardinality(Busy(ats, S))
    BY <1>2, FS_RemoveElement
  <2> QED BY <1>2, <1>4, <1>6, <2>1, <2>2
<1> QED BY <1>5, <1>6

-----------------------------------------------------------------------------
(* What leaves the views, the stars, or the entries of the feed alone. *)
LEMMA ViewsAlone ==
  ASSUME StarInv, NEW o \in StarOps, NEW op, Goes(o, op),
         UNCHANGED <<viewed, viewCount>>, there' => there, Stays("views"),
         op.at # "countView" /\ stops[o].at # "countView", op.at \in {"view", "credit"} => op.user # Owner
  PROVE  ViewersApart' /\ ViewsCounted'
<1>0. StarTypes
  BY DEF StarInv
<1>1. ViewersApart'
  BY <1>0, GoesTo DEF StarInv, ViewersApart
<1>2. Cardinality(Busy({"countView"}, Fans)') = Cardinality(Busy({"countView"}, Fans))
  <2>1. Cardinality(Busy({"countView"}, Fans)') = Cardinality(Busy({"countView"}, Fans))
           + (IF op.at \in {"countView"} /\ op.user \in Fans THEN 1 ELSE 0)
           - (IF stops[o].at \in {"countView"} /\ stops[o].user \in Fans THEN 1 ELSE 0)
    BY <1>0, BusyGoes
  <2>2. Cardinality(Busy({"countView"}, Fans)) \in Nat
    BY <1>0, BusyFinite
  <2> QED BY <2>1, <2>2
<1>3. ViewsCounted'
  BY <1>2 DEF StarInv, ViewsCounted, Stays
<1> QED BY <1>1, <1>3

LEMMA StarsAlone ==
  ASSUME StarInv, NEW o \in StarOps, NEW op, Goes(o, op),
         UNCHANGED <<stars, starCount, credit>>, there' => there, Stays("count"), Stays("credit"),
         op.at \notin CountAts /\ stops[o].at \notin CountAts
  PROVE  StarsCounted' /\ StarsCredited'
<1>0. StarTypes
  BY DEF StarInv
<1>1. ASSUME NEW ats \in SUBSET CountAts, NEW S PROVE Cardinality(Busy(ats, S)') = Cardinality(Busy(ats, S))
  <2>1. Cardinality(Busy(ats, S)') = Cardinality(Busy(ats, S))
           + (IF op.at \in ats /\ op.user \in S THEN 1 ELSE 0)
           - (IF stops[o].at \in ats /\ stops[o].user \in S THEN 1 ELSE 0)
    BY <1>0, BusyGoes
  <2>2. Cardinality(Busy(ats, S)) \in Nat
    BY <1>0, BusyFinite
  <2>3. op.at \notin ats /\ stops[o].at \notin ats
    OBVIOUS
  <2> QED BY <2>1, <2>2, <2>3
<1>2. \A ats : ats \in SUBSET CountAts => \A S : Cardinality(Busy(ats, S)') = Cardinality(Busy(ats, S))
  BY <1>1
<1>3. /\ {"count"} \in SUBSET CountAts /\ {"uncredit", "uncount"} \in SUBSET CountAts
      /\ {"count", "credit"} \in SUBSET CountAts /\ {"uncredit"} \in SUBSET CountAts
  BY DEF CountAts
<1>4. \A S : /\ Cardinality(Busy({"count"}, S)') = Cardinality(Busy({"count"}, S))
             /\ Cardinality(Busy({"uncredit", "uncount"}, S)') = Cardinality(Busy({"uncredit", "uncount"}, S))
             /\ Cardinality(Busy({"count", "credit"}, S)') = Cardinality(Busy({"count", "credit"}, S))
             /\ Cardinality(Busy({"uncredit"}, S)') = Cardinality(Busy({"uncredit"}, S))
  BY <1>2, <1>3
<1>5. /\ Cardinality(Busy({"count"}, Fans)') = Cardinality(Busy({"count"}, Fans))
      /\ Cardinality(Busy({"uncredit", "uncount"}, Fans)') = Cardinality(Busy({"uncredit", "uncount"}, Fans))
      /\ Cardinality(Busy({"count", "credit"}, Others)') = Cardinality(Busy({"count", "credit"}, Others))
      /\ Cardinality(Busy({"uncredit"}, Others)') = Cardinality(Busy({"uncredit"}, Others))
  BY <1>4
<1>7. StarsCounted'
  BY <1>5 DEF StarInv, StarsCounted, Stays
<1>8. StarsCredited'
  BY <1>5 DEF StarInv, StarsCredited, Stays
<1> QED BY <1>7, <1>8

LEMMA FeedsAlone ==
  ASSUME StarInv, NEW o \in StarOps, NEW op, Goes(o, op), UNCHANGED <<feed, shares>>, Stays("feed"),
         op.at \notin FeedAts /\ stops[o].at \notin FeedAts
  PROVE  FeedsAgree'
<1>0. StarTypes
  BY DEF StarInv
<1>1. \A u : Feeding(u)' = Feeding(u)
  BY <1>0, GoesTo DEF Feeding
<1>2. \A u : \A q \in StarOps : Feeding(u) = {q} => q # o
  BY DEF Feeding
<1>3. ASSUME NEW u \in Fans, <<"feed", u>> \notin amiss' PROVE FeedOf(u)'
  <2>1. FeedOf(u)
    BY <1>3 DEF StarInv, FeedsAgree, Stays
  <2> QED BY <1>0, <1>1, <1>2, <2>1, GoesTo DEF FeedOf
<1> QED BY <1>3 DEF FeedsAgree

(* A step about the entries of one share. *)
LEMMA FeedsOfOne ==
  ASSUME StarInv, NEW o \in StarOps, NEW op, Goes(o, op), NEW u \in Fans,
         stops[o].at \in FeedAts => stops[o].user = u, op.at \in FeedAts => op.user = u,
         \A w \in Fans : w # u => /\ feed'[w] = feed[w] /\ (w \in shares' <=> w \in shares)
                                  /\ <<"feed", w>> \in amiss => <<"feed", w>> \in amiss',
         <<"feed", u>> \notin amiss' => FeedOf(u)'
  PROVE  FeedsAgree'
<1>0. StarTypes
  BY DEF StarInv
<1>1. ASSUME NEW w \in Fans, w # u, <<"feed", w>> \notin amiss' PROVE FeedOf(w)'
  <2>1. FeedOf(w)
    BY <1>1 DEF StarInv, FeedsAgree
  <2>2. Feeding(w)' = Feeding(w)
    BY <1>0, <1>1, GoesTo DEF Feeding
  <2>3. o \notin Feeding(w)
    BY <1>1 DEF Feeding
  <2>4. \A q \in StarOps : Feeding(w) = {q} => q # o
    BY <2>3
  <2> QED BY <1>0, <1>1, <2>1, <2>2, <2>4, GoesTo DEF FeedOf
<1> QED BY <1>1 DEF FeedsAgree

-----------------------------------------------------------------------------
(* The steps. *)
LEMMA StarsBegin == StarInit => StarInv
<1> SUFFICES ASSUME StarInit PROVE StarInv
  OBVIOUS
<1>1. IsFiniteSet({}) /\ Cardinality({}) = 0
  BY FS_EmptySet
<1>2. \A o \in StarOps : stops[o].at = "idle"
  BY StarOpIs DEF StarInit
<1>3. \A S : /\ Busy({"countView"}, S) = {} /\ Busy({"count"}, S) = {} /\ Busy({"uncredit", "uncount"}, S) = {}
             /\ Busy({"count", "credit"}, S) = {} /\ Busy({"uncredit"}, S) = {}
  BY <1>2 DEF Busy
<1>4. \A u : Feeding(u) = {}
  BY <1>2 DEF Feeding, FeedAts
<1>5. StarTypes
  BY <1>1, StarOpIs DEF StarTypes, StarInit
<1>6. ViewersApart
  BY <1>2 DEF ViewersApart
<1>7. ViewsCounted
  <2>1. Busy({"countView"}, Fans) = {}
    BY <1>3
  <2> QED BY <1>1, <2>1 DEF ViewsCounted, StarInit
<1>8. StarsCounted
  <2>1. Busy({"count"}, Fans) = {} /\ Busy({"uncredit", "uncount"}, Fans) = {}
    BY <1>3
  <2> QED BY <1>1, <2>1 DEF StarsCounted, StarInit
<1>9. StarsCredited
  <2>1. Busy({"count", "credit"}, Others) = {} /\ Busy({"uncredit"}, Others) = {} /\ stars \ {Owner} = {}
    BY <1>3 DEF StarInit
  <2> QED BY <1>1, <2>1 DEF StarsCredited, StarInit
<1>10. FeedsAgree
  BY <1>4 DEF FeedsAgree, FeedOf, StarInit
<1> QED BY <1>5, <1>6, <1>7, <1>8, <1>9, <1>10 DEF StarInv

LEMMA CallsBegin ==
  ASSUME StarInv, NEW o \in StarOps, NEW u \in Fans,
         \/ starProject(o, u) \/ registerProjectView(o, u)
         \/ \E at \in {"share", "reshare"} : shareToProfile(o, u, at)
  PROVE  StarInv'
<1>0. StarTypes
  BY DEF StarInv
<1>1. UNCHANGED <<there, stars, shares, starCount, credit, feed, amiss, viewed, viewCount, today>> /\ stops[o].at = "idle"
  BY DEF starProject, registerProjectView, shareToProfile, viewCounts, Free
<1>2. PICK at \in {"star", "share", "reshare", "view"} : StarGo(o, u, at) /\ (at = "view" => u # Owner)
  BY DEF starProject, registerProjectView, shareToProfile
<1>3. PICK op \in StarOp : Goes(o, op) /\ op.at = at /\ op.user = u
  <2>1. at \in StarAts \cup Sharing \cup {"view", "countView"}
    BY DEF StarAts, Sharing
  <2> QED BY <1>2, <2>1, OpOf
<1>4. \A kind : Stays(kind)
  BY <1>1 DEF Stays
<1>5. op.at \notin CountAts \cup FeedAts \cup {"countView"} /\ stops[o].at \notin CountAts \cup FeedAts \cup {"countView"}
  BY <1>1, <1>3 DEF CountAts, FeedAts
<1>6. ViewersApart' /\ ViewsCounted'
  BY <1>1, <1>2, <1>3, <1>4, <1>5, ViewsAlone
<1>7. StarsCounted' /\ StarsCredited'
  BY <1>1, <1>3, <1>4, <1>5, StarsAlone
<1>8. FeedsAgree'
  BY <1>1, <1>3, <1>4, <1>5, FeedsAlone
<1>9. StarTypes'
  BY <1>0, <1>1, <1>3, GoesTo DEF StarTypes
<1> QED BY <1>6, <1>7, <1>8, <1>9 DEF StarInv

LEMMA NoCallKeeps ==
  ASSUME StarInv, projectDeleted \/ midnight \/ UNCHANGED starVars
  PROVE  StarInv'
<1>1. /\ UNCHANGED <<stars, shares, starCount, credit, feed, amiss, viewed, viewCount, stops>>
      /\ there' => there
      /\ there' \in BOOLEAN
  <2>1. CASE projectDeleted
    BY <2>1 DEF projectDeleted, viewCounts
  <2>2. CASE midnight
    BY <2>2 DEF midnight, StarInv, StarTypes
  <2>3. CASE UNCHANGED starVars
    BY <2>3 DEF starVars, viewCounts, StarInv, StarTypes
  <2> QED BY <2>1, <2>2, <2>3
<1>2. today' \in Nat
  <2>1. today \in Nat
    BY DEF StarInv, StarTypes
  <2>2. today' = today \/ today' = today + 1
    BY DEF projectDeleted, midnight, starVars, viewCounts
  <2> QED BY <2>1, <2>2
<1>3. \A ats, S : Busy(ats, S)' = Busy(ats, S)
  BY <1>1 DEF Busy
<1>4. \A u : Feeding(u)' = Feeding(u)
  BY <1>1 DEF Feeding
<1>5. /\ Busy({"countView"}, Fans)' = Busy({"countView"}, Fans)
      /\ Busy({"count"}, Fans)' = Busy({"count"}, Fans)
      /\ Busy({"uncredit", "uncount"}, Fans)' = Busy({"uncredit", "uncount"}, Fans)
      /\ Busy({"count", "credit"}, Others)' = Busy({"count", "credit"}, Others)
      /\ Busy({"uncredit"}, Others)' = Busy({"uncredit"}, Others)
  BY <1>3
<1>6. StarTypes' /\ ViewersApart'
  BY <1>1, <1>2 DEF StarInv, StarTypes, ViewersApart
<1>7. ViewsCounted' /\ StarsCounted' /\ StarsCredited'
  BY <1>1, <1>5 DEF StarInv, ViewsCounted, StarsCounted, StarsCredited
<1>8. FeedsAgree'
  BY <1>1, <1>4 DEF StarInv, FeedsAgree, FeedOf
<1> QED BY <1>6, <1>7, <1>8 DEF StarInv

(* What the steps of the stars have in common. *)
LEMMA StarStep ==
  ASSUME StarInv, NEW o \in StarOps, NEW op, Goes(o, op),
         UNCHANGED <<there, shares, feed, viewed, viewCount, today>>, Stays("views"), Stays("feed"),
         op.at \in StarAts \cup {"idle"} /\ stops[o].at \in StarAts \cup {"idle"},
         op.at = "credit" => op.user # Owner,
         stars' \in SUBSET Fans, IsFiniteSet(stars'), starCount' \in Nat, credit' \in Nat
  PROVE  StarTypes' /\ ViewersApart' /\ ViewsCounted' /\ FeedsAgree'
<1>0. StarTypes
  BY DEF StarInv
<1>1. /\ op.at \notin FeedAts \cup {"countView", "view"}
      /\ stops[o].at \notin FeedAts \cup {"countView", "view"}
  BY DEF StarAts, FeedAts
<1>2. ViewersApart' /\ ViewsCounted'
  BY <1>1, ViewsAlone
<1>3. FeedsAgree'
  BY <1>1, FeedsAlone
<1>4. StarTypes'
  BY <1>0, GoesTo DEF StarTypes
<1> QED BY <1>2, <1>3, <1>4

(* The handlers by which a star is counted, before and after a step. *)
LEMMA BusyStars ==
  ASSUME StarTypes, NEW o \in StarOps, NEW op, Goes(o, op)
  PROVE  /\ Cardinality(Busy({"count"}, Fans)') = Cardinality(Busy({"count"}, Fans))
              + (IF op.at = "count" THEN 1 ELSE 0) - (IF stops[o].at = "count" THEN 1 ELSE 0)
         /\ Cardinality(Busy({"uncredit", "uncount"}, Fans)') = Cardinality(Busy({"uncredit", "uncount"}, Fans))
              + (IF op.at \in {"uncredit", "uncount"} THEN 1 ELSE 0)
              - (IF stops[o].at \in {"uncredit", "uncount"} THEN 1 ELSE 0)
         /\ Cardinality(Busy({"count", "credit"}, Others)') = Cardinality(Busy({"count", "credit"}, Others))
              + (IF op.at \in {"count", "credit"} /\ op.user # Owner THEN 1 ELSE 0)
              - (IF stops[o].at \in {"count", "credit"} /\ stops[o].user # Owner THEN 1 ELSE 0)
         /\ Cardinality(Busy({"uncredit"}, Others)') = Cardinality(Busy({"uncredit"}, Others))
              + (IF op.at = "uncredit" /\ op.user # Owner THEN 1 ELSE 0)
              - (IF stops[o].at = "uncredit" /\ stops[o].user # Owner THEN 1 ELSE 0)
         /\ \A ats, S : Cardinality(Busy(ats, S)) \in Nat
<1>1. op \in StarOp /\ stops[o] \in StarOp
  BY DEF StarTypes, Goes
<1>2. \A p \in StarOp : p.at # "idle" => p.user \in Fans /\ (p.user \in Others <=> p.user # Owner)
  BY StarOpIs DEF Others
<1>3. \A ats, S : Cardinality(Busy(ats, S)') = Cardinality(Busy(ats, S))
           + (IF op.at \in ats /\ op.user \in S THEN 1 ELSE 0)
           - (IF stops[o].at \in ats /\ stops[o].user \in S THEN 1 ELSE 0)
  BY BusyGoes
<1>4. Cardinality(Busy({"count"}, Fans)') = Cardinality(Busy({"count"}, Fans))
           + (IF op.at \in {"count"} /\ op.user \in Fans THEN 1 ELSE 0)
           - (IF stops[o].at \in {"count"} /\ stops[o].user \in Fans THEN 1 ELSE 0)
  BY <1>3
<1>5. Cardinality(Busy({"uncredit", "uncount"}, Fans)') = Cardinality(Busy({"uncredit", "uncount"}, Fans))
           + (IF op.at \in {"uncredit", "uncount"} /\ op.user \in Fans THEN 1 ELSE 0)
           - (IF stops[o].at \in {"uncredit", "uncount"} /\ stops[o].user \in Fans THEN 1 ELSE 0)
  BY <1>3
<1>6. Cardinality(Busy({"count", "credit"}, Others)') = Cardinality(Busy({"count", "credit"}, Others))
           + (IF op.at \in {"count", "credit"} /\ op.user \in Others THEN 1 ELSE 0)
           - (IF stops[o].at \in {"count", "credit"} /\ stops[o].user \in Others THEN 1 ELSE 0)
  BY <1>3 DEF Others
<1>7. Cardinality(Busy({"uncredit"}, Others)') = Cardinality(Busy({"uncredit"}, Others))
           + (IF op.at \in {"uncredit"} /\ op.user \in Others THEN 1 ELSE 0)
           - (IF stops[o].at \in {"uncredit"} /\ stops[o].user \in Others THEN 1 ELSE 0)
  BY <1>3 DEF Others
<1>8. \A ats, S : Cardinality(Busy(ats, S)) \in Nat
  BY BusyFinite
<1> QED BY <1>1, <1>2, <1>4, <1>5, <1>6, <1>7, <1>8

LEMMA UpsertStarKeeps == ASSUME StarInv, NEW o \in StarOps, upsertStar(o) PROVE StarInv'
<1>0. StarTypes
  BY DEF StarInv
<1>1. stops[o] \in StarOp /\ stops[o].at = "star"
  BY <1>0 DEF StarTypes, upsertStar
<1>2. PICK u \in Fans : stops[o].user = u
  BY <1>1, StarOpIs
<1>3. /\ stars' = stars \cup {u} /\ UNCHANGED <<there, shares, starCount, credit, feed, amiss, viewed, viewCount, today>>
      /\ IF u \in stars THEN StarEnd(o) ELSE StarGo(o, u, "count")
  BY <1>2 DEF upsertStar, viewCounts
<1>4. PICK op \in StarOp : Goes(o, op) /\ IF u \in stars THEN op.at = "idle" ELSE op.at = "count" /\ op.user = u
  BY <1>3, OpEnds, OpOf DEF StarAts
<1>5. \A kind : Stays(kind)
  BY <1>3 DEF Stays
<1>6. IsFiniteSet(stars) /\ Cardinality(stars) \in Nat /\ IsFiniteSet(stars \ {Owner}) /\ Cardinality(stars \ {Owner}) \in Nat
  <2>1. IsFiniteSet(stars) /\ stars \ {Owner} \in SUBSET stars
    BY <1>0 DEF StarTypes
  <2>2. IsFiniteSet(stars \ {Owner})
    BY <2>1, FS_Subset
  <2> QED BY <2>1, <2>2, FS_CardinalityType
<1>7. Cardinality(stars') = IF u \in stars THEN Cardinality(stars) ELSE Cardinality(stars) + 1
  BY <1>3, <1>6, FS_AddElement
<1>8. IsFiniteSet(stars')
  BY <1>3, <1>6, FS_AddElement
<1>9. Cardinality(stars' \ {Owner}) = IF u \in stars \/ u = Owner THEN Cardinality(stars \ {Owner}) ELSE Cardinality(stars \ {Owner}) + 1
  <2>1. CASE u \in stars \/ u = Owner
    <3>1. stars' \ {Owner} = stars \ {Owner}
      BY <1>3, <2>1
    <3> QED BY <2>1, <3>1
  <2>2. CASE u \notin stars /\ u # Owner
    <3>1. stars' \ {Owner} = (stars \ {Owner}) \cup {u} /\ u \notin stars \ {Owner}
      BY <1>3, <2>2
    <3>2. Cardinality((stars \ {Owner}) \cup {u}) = Cardinality(stars \ {Owner}) + 1
      BY <1>6, <3>1, FS_AddElement
    <3> QED BY <2>2, <3>1, <3>2
  <2> QED BY <2>1, <2>2
<1>10. StarTypes' /\ ViewersApart' /\ ViewsCounted' /\ FeedsAgree'
  <2>1. stars' \in SUBSET Fans /\ starCount' \in Nat /\ credit' \in Nat
    BY <1>0, <1>3 DEF StarTypes
  <2>2. op.at \in StarAts \cup {"idle"} /\ stops[o].at \in StarAts \cup {"idle"}
    BY <1>1, <1>4 DEF StarAts
  <2> QED BY <1>3, <1>4, <1>5, <1>8, <2>1, <2>2, StarStep
<1>11. /\ Cardinality(Busy({"count"}, Fans)') = Cardinality(Busy({"count"}, Fans)) + (IF u \in stars THEN 0 ELSE 1)
       /\ Cardinality(Busy({"uncredit", "uncount"}, Fans)') = Cardinality(Busy({"uncredit", "uncount"}, Fans))
       /\ Cardinality(Busy({"count", "credit"}, Others)') = Cardinality(Busy({"count", "credit"}, Others))
            + (IF u \in stars \/ u = Owner THEN 0 ELSE 1)
       /\ Cardinality(Busy({"uncredit"}, Others)') = Cardinality(Busy({"uncredit"}, Others))
       /\ \A ats, S : Cardinality(Busy(ats, S)) \in Nat
  BY <1>0, <1>1, <1>4, BusyStars
<1>12. StarsCounted'
  BY <1>0, <1>3, <1>6, <1>7, <1>11 DEF StarInv, StarsCounted, StarTypes
<1>13. StarsCredited'
  BY <1>0, <1>3, <1>6, <1>9, <1>11 DEF StarInv, StarsCredited, StarTypes
<1> QED BY <1>10, <1>12, <1>13 DEF StarInv

LEMMA StarsFinite ==
  ASSUME StarTypes
  PROVE  IsFiniteSet(stars) /\ Cardinality(stars) \in Nat /\ IsFiniteSet(stars \ {Owner}) /\ Cardinality(stars \ {Owner}) \in Nat
<1>1. IsFiniteSet(stars) /\ stars \ {Owner} \in SUBSET stars
  BY DEF StarTypes
<1>2. IsFiniteSet(stars \ {Owner})
  BY <1>1, FS_Subset
<1> QED BY <1>1, <1>2, FS_CardinalityType

(* The counts go up: the project's, then its owner's. *)
LEMMA CountStarKeeps == ASSUME StarInv, NEW o \in StarOps, countStar(o) \/ creditStar(o) PROVE StarInv'
<1>0. StarTypes
  BY DEF StarInv
<1>1. stops[o] \in StarOp /\ stops[o].at \in {"count", "credit"}
  BY <1>0 DEF StarTypes, countStar, creditStar
<1>2. PICK u \in Fans : stops[o].user = u
  BY <1>1, StarOpIs
<1>3. UNCHANGED <<there, stars, shares, feed, viewed, viewCount, today>>
  BY DEF countStar, creditStar, viewCounts
<1>4. PICK op \in StarOp :
        /\ Goes(o, op)
        /\ IF stops[o].at = "count" /\ u # Owner THEN op.at = "credit" /\ op.user = u ELSE op.at = "idle"
  <2>1. CASE stops[o].at = "count" /\ u # Owner
    <3>1. StarGo(o, u, "credit")
      BY <1>2, <2>1 DEF countStar, creditStar
    <3> QED BY <2>1, <3>1, OpOf DEF StarAts
  <2>2. CASE ~(stops[o].at = "count" /\ u # Owner)
    <3>1. StarEnd(o)
      BY <1>1, <1>2, <2>2 DEF countStar, creditStar
    <3> QED BY <2>2, <3>1, OpEnds
  <2> QED BY <2>1, <2>2
<1>5. /\ starCount' = IF stops[o].at = "count" /\ there THEN starCount + 1 ELSE starCount
      /\ <<"credit", Owner>> \notin amiss' => credit' = IF stops[o].at = "credit" THEN credit + 1 ELSE credit
      /\ credit' \in {credit, credit + 1}
      /\ \A kind : Stays(kind)
  BY <1>1 DEF countStar, creditStar, Stays
<1>6. Cardinality(stars) \in Nat /\ Cardinality(stars \ {Owner}) \in Nat /\ IsFiniteSet(stars)
  BY <1>0, StarsFinite
<1>7. starCount \in Nat /\ credit \in Nat /\ starCount' \in Nat /\ credit' \in Nat /\ stars' \in SUBSET Fans
  BY <1>0, <1>3, <1>5 DEF StarTypes
<1>8. StarTypes' /\ ViewersApart' /\ ViewsCounted' /\ FeedsAgree'
  <2>1. op.at \in StarAts \cup {"idle"} /\ stops[o].at \in StarAts \cup {"idle"}
    BY <1>1, <1>4 DEF StarAts
  <2> QED BY <1>3, <1>4, <1>5, <1>6, <1>7, <2>1, StarStep
<1>9. /\ Cardinality(Busy({"count"}, Fans)') = Cardinality(Busy({"count"}, Fans)) - (IF stops[o].at = "count" THEN 1 ELSE 0)
      /\ Cardinality(Busy({"uncredit", "uncount"}, Fans)') = Cardinality(Busy({"uncredit", "uncount"}, Fans))
      /\ Cardinality(Busy({"count", "credit"}, Others)') = Cardinality(Busy({"count", "credit"}, Others))
           - (IF stops[o].at = "credit" /\ u # Owner THEN 1 ELSE 0)
      /\ Cardinality(Busy({"uncredit"}, Others)') = Cardinality(Busy({"uncredit"}, Others))
      /\ \A ats, S : Cardinality(Busy(ats, S)) \in Nat
  BY <1>0, <1>1, <1>2, <1>4, BusyStars
<1>10. StarsCounted'
  BY <1>3, <1>5, <1>6, <1>7, <1>9 DEF StarInv, StarsCounted, Stays
<1>11. StarsCredited'
  <2>1. stops[o].at = "credit" => u # Owner
    BY <1>2 DEF StarInv, ViewersApart
  <2> QED BY <1>3, <1>5, <1>6, <1>7, <1>9, <2>1 DEF StarInv, StarsCredited, Stays
<1> QED BY <1>8, <1>10, <1>11 DEF StarInv

(* A star is taken back: the row, then the credit, then the count. *)
LEMMA UnstarKeeps == ASSUME StarInv, NEW o \in StarOps, NEW u \in Fans, unstarProject(o, u) PROVE StarInv'
<1>0. StarTypes
  BY DEF StarInv
<1>1. stops[o].at = "idle" /\ u \in stars /\ stars' = stars \ {u} /\ StarGo(o, u, "uncredit")
  BY DEF unstarProject, Free, HadStar
<1>2. UNCHANGED <<there, shares, starCount, credit, feed, amiss, viewed, viewCount, today>>
  BY DEF unstarProject, viewCounts
<1>3. PICK op \in StarOp : Goes(o, op) /\ op.at = "uncredit" /\ op.user = u
  BY <1>1, OpOf DEF StarAts
<1>4. \A kind : Stays(kind)
  BY <1>2 DEF Stays
<1>5. IsFiniteSet(stars) /\ Cardinality(stars) \in Nat /\ IsFiniteSet(stars \ {Owner}) /\ Cardinality(stars \ {Owner}) \in Nat
  BY <1>0, StarsFinite
<1>6. Cardinality(stars') = Cardinality(stars) - 1 /\ IsFiniteSet(stars')
  BY <1>1, <1>5, FS_RemoveElement
<1>7. Cardinality(stars' \ {Owner}) = IF u = Owner THEN Cardinality(stars \ {Owner}) ELSE Cardinality(stars \ {Owner}) - 1
  <2>1. CASE u = Owner
    <3>1. stars' \ {Owner} = stars \ {Owner}
      BY <1>1, <2>1
    <3> QED BY <2>1, <3>1
  <2>2. CASE u # Owner
    <3>1. stars' \ {Owner} = (stars \ {Owner}) \ {u} /\ u \in stars \ {Owner}
      BY <1>1, <2>2
    <3>2. Cardinality((stars \ {Owner}) \ {u}) = Cardinality(stars \ {Owner}) - 1
      BY <1>5, <3>1, FS_RemoveElement
    <3> QED BY <2>2, <3>1, <3>2
  <2> QED BY <2>1, <2>2
<1>8. starCount \in Nat /\ credit \in Nat /\ starCount' \in Nat /\ credit' \in Nat /\ stars' \in SUBSET Fans
  BY <1>0, <1>1, <1>2 DEF StarTypes
<1>9. StarTypes' /\ ViewersApart' /\ ViewsCounted' /\ FeedsAgree'
  <2>1. op.at \in StarAts \cup {"idle"} /\ stops[o].at \in StarAts \cup {"idle"}
    BY <1>1, <1>3 DEF StarAts
  <2> QED BY <1>2, <1>3, <1>4, <1>6, <1>8, <2>1, StarStep
<1>10. /\ Cardinality(Busy({"count"}, Fans)') = Cardinality(Busy({"count"}, Fans))
       /\ Cardinality(Busy({"uncredit", "uncount"}, Fans)') = Cardinality(Busy({"uncredit", "uncount"}, Fans)) + 1
       /\ Cardinality(Busy({"count", "credit"}, Others)') = Cardinality(Busy({"count", "credit"}, Others))
       /\ Cardinality(Busy({"uncredit"}, Others)') = Cardinality(Busy({"uncredit"}, Others)) + (IF u = Owner THEN 0 ELSE 1)
       /\ \A ats, S : Cardinality(Busy(ats, S)) \in Nat
  BY <1>0, <1>1, <1>3, BusyStars
<1>11. StarsCounted'
  BY <1>2, <1>5, <1>6, <1>8, <1>10 DEF StarInv, StarsCounted
<1>12. StarsCredited'
  BY <1>2, <1>5, <1>7, <1>8, <1>10 DEF StarInv, StarsCredited
<1> QED BY <1>9, <1>11, <1>12 DEF StarInv

LEMMA UncountKeeps == ASSUME StarInv, NEW o \in StarOps, uncreditStar(o) \/ uncountStar(o) PROVE StarInv'
<1>0. StarTypes
  BY DEF StarInv
<1>1. stops[o] \in StarOp /\ stops[o].at \in {"uncredit", "uncount"}
  BY <1>0 DEF StarTypes, uncreditStar, uncountStar
<1>2. PICK u \in Fans : stops[o].user = u
  BY <1>1, StarOpIs
<1>3. UNCHANGED <<there, stars, shares, feed, viewed, viewCount, today>>
  BY DEF uncreditStar, uncountStar, viewCounts
<1>4. PICK op \in StarOp :
        /\ Goes(o, op)
        /\ IF stops[o].at = "uncredit" THEN op.at = "uncount" /\ op.user = u ELSE op.at = "idle"
  <2>1. CASE stops[o].at = "uncredit"
    <3>1. StarGo(o, u, "uncount")
      BY <1>2, <2>1 DEF uncreditStar, uncountStar
    <3> QED BY <2>1, <3>1, OpOf DEF StarAts
  <2>2. CASE stops[o].at # "uncredit"
    <3>1. StarEnd(o)
      BY <1>1, <2>2 DEF uncreditStar, uncountStar
    <3> QED BY <2>2, <3>1, OpEnds
  <2> QED BY <2>1, <2>2
<1>5. \A n \in Nat : Fewer(n) \in Nat /\ (n # 0 => Fewer(n) = n - 1)
  BY DEF Fewer
<1>6. starCount \in Nat /\ credit \in Nat /\ stars \in SUBSET Fans
  BY <1>0 DEF StarTypes
<1>7. /\ starCount' = IF stops[o].at = "uncount" /\ there THEN Fewer(starCount) ELSE starCount
      /\ credit' = IF stops[o].at = "uncredit" /\ there /\ u # Owner THEN Fewer(credit) ELSE credit
      /\ stops[o].at = "uncount" /\ starCount = 0 => <<"count", Owner>> \in amiss'
      /\ stops[o].at = "uncredit" /\ u # Owner /\ (~there \/ credit = 0) => <<"credit", Owner>> \in amiss'
      /\ amiss \subseteq amiss'
  BY <1>1, <1>2 DEF uncreditStar, uncountStar
<1>8. \A kind : Stays(kind)
  BY <1>7 DEF Stays
<1>9. Cardinality(stars) \in Nat /\ Cardinality(stars \ {Owner}) \in Nat /\ IsFiniteSet(stars)
  BY <1>0, StarsFinite
<1>10. starCount' \in Nat /\ credit' \in Nat /\ stars' \in SUBSET Fans
  BY <1>3, <1>5, <1>6, <1>7
<1>11. StarTypes' /\ ViewersApart' /\ ViewsCounted' /\ FeedsAgree'
  <2>1. op.at \in StarAts \cup {"idle"} /\ stops[o].at \in StarAts \cup {"idle"}
    BY <1>1, <1>4 DEF StarAts
  <2> QED BY <1>3, <1>4, <1>8, <1>9, <1>10, <2>1, StarStep
<1>12. /\ Cardinality(Busy({"count"}, Fans)') = Cardinality(Busy({"count"}, Fans))
       /\ Cardinality(Busy({"uncredit", "uncount"}, Fans)') = Cardinality(Busy({"uncredit", "uncount"}, Fans))
            - (IF stops[o].at = "uncount" THEN 1 ELSE 0)
       /\ Cardinality(Busy({"count", "credit"}, Others)') = Cardinality(Busy({"count", "credit"}, Others))
       /\ Cardinality(Busy({"uncredit"}, Others)') = Cardinality(Busy({"uncredit"}, Others))
            - (IF stops[o].at = "uncredit" /\ u # Owner THEN 1 ELSE 0)
       /\ \A ats, S : Cardinality(Busy(ats, S)) \in Nat
  BY <1>0, <1>1, <1>2, <1>4, BusyStars
<1>13. StarsCounted'
  <2> SUFFICES ASSUME there', <<"count", Owner>> \notin amiss'
               PROVE  starCount' + Cardinality(Busy({"count"}, Fans)') = Cardinality(stars) + Cardinality(Busy({"uncredit", "uncount"}, Fans)')
    BY <1>3 DEF StarsCounted
  <2>1. starCount + Cardinality(Busy({"count"}, Fans)) = Cardinality(stars) + Cardinality(Busy({"uncredit", "uncount"}, Fans))
    BY <1>3, <1>7 DEF StarInv, StarsCounted
  <2>2. starCount' = starCount - (IF stops[o].at = "uncount" THEN 1 ELSE 0)
    BY <1>3, <1>5, <1>6, <1>7
  <2> QED BY <1>6, <1>9, <1>12, <2>1, <2>2
<1>14. StarsCredited'
  <2> SUFFICES ASSUME <<"credit", Owner>> \notin amiss'
               PROVE  credit' + Cardinality(Busy({"count", "credit"}, Others)') =
                        Cardinality(stars \ {Owner}) + Cardinality(Busy({"uncredit"}, Others)')
    BY <1>3 DEF StarsCredited
  <2>1. credit + Cardinality(Busy({"count", "credit"}, Others)) = Cardinality(stars \ {Owner}) + Cardinality(Busy({"uncredit"}, Others))
    BY <1>7 DEF StarInv, StarsCredited
  <2>2. credit' = credit - (IF stops[o].at = "uncredit" /\ u # Owner THEN 1 ELSE 0)
    BY <1>5, <1>6, <1>7
  <2> QED BY <1>6, <1>9, <1>12, <2>1, <2>2
<1> QED BY <1>11, <1>13, <1>14 DEF StarInv

(* What the steps of the shares have in common. *)
LEMMA ShareStep ==
  ASSUME StarInv, NEW o \in StarOps, NEW op, Goes(o, op),
         UNCHANGED <<there, stars, starCount, credit, viewed, viewCount, today>>,
         Stays("views"), Stays("count"), Stays("credit"),
         op.at \in FeedAts \cup {"idle"} /\ stops[o].at \in Sharing \cup {"idle"},
         shares' \in SUBSET Fans, feed' \in [Fans -> Nat]
  PROVE  StarTypes' /\ ViewersApart' /\ ViewsCounted' /\ StarsCounted' /\ StarsCredited'
<1>0. StarTypes
  BY DEF StarInv
<1>1. /\ op.at \notin CountAts \cup {"countView", "view", "credit"}
      /\ stops[o].at \notin CountAts \cup {"countView", "view"}
  BY DEF CountAts, FeedAts, Sharing
<1>2. ViewersApart' /\ ViewsCounted'
  BY <1>1, ViewsAlone
<1>3. StarsCounted' /\ StarsCredited'
  BY <1>1, StarsAlone
<1>4. StarTypes'
  BY <1>0, GoesTo DEF StarTypes
<1> QED BY <1>2, <1>3, <1>4

LEMMA FeedingGoes ==
  ASSUME StarTypes, NEW o \in StarOps, NEW op, Goes(o, op), NEW u
  PROVE  /\ Feeding(u)' = (Feeding(u) \ {o}) \cup (IF op.at \in FeedAts /\ op.user = u THEN {o} ELSE {})
         /\ o \in Feeding(u) <=> stops[o].at \in FeedAts /\ stops[o].user = u
  BY GoesTo DEF Feeding

LEMMA SharesKeep ==
  ASSUME StarInv, NEW o \in StarOps,
         createShare(o) \/ clearEntries(o) \/ \E u \in Fans : unshareFromProfile(o, u)
  PROVE  StarInv'
<1>0. StarTypes
  BY DEF StarInv
<1>1. UNCHANGED <<there, stars, starCount, credit, amiss, viewed, viewCount, today>>
  BY DEF createShare, clearEntries, unshareFromProfile, viewCounts
<1>2. \A kind : Stays(kind)
  BY <1>1 DEF Stays
<1>3. stops[o] \in StarOp
  BY <1>0 DEF StarTypes
<1>4. ASSUME createShare(o) PROVE StarInv'
  <2>1. stops[o].at \in {"share", "reshare"}
    BY <1>4 DEF createShare
  <2>2. PICK u \in Fans : stops[o].user = u
    BY <1>3, <2>1, StarOpIs
  <2>3. feed' = feed /\ shares' = shares \cup {u}
        /\ IF u \notin shares THEN StarGo(o, u, "entry")
           ELSE IF stops[o].at = "reshare" THEN StarGo(o, u, "clear") ELSE StarEnd(o)
    BY <1>4, <2>2 DEF createShare
  <2>4. PICK op \in StarOp : /\ Goes(o, op)
                             /\ IF u \notin shares THEN op.at = "entry" /\ op.user = u
                                ELSE IF stops[o].at = "reshare" THEN op.at = "clear" /\ op.user = u ELSE op.at = "idle"
    <3>1. CASE u \notin shares
      BY <2>3, <3>1, OpOf DEF Sharing
    <3>2. CASE u \in shares /\ stops[o].at = "reshare"
      <4>1. StarGo(o, u, "clear") /\ "clear" \in StarAts \cup Sharing \cup {"view", "countView"}
        BY <2>3, <3>2 DEF Sharing
      <4>2. \E op \in StarOp : Goes(o, op) /\ op.at = "clear" /\ op.user = u
        BY <4>1, OpOf
      <4> QED BY <3>2, <4>2
    <3>3. CASE u \in shares /\ stops[o].at # "reshare"
      BY <2>3, <3>3, OpEnds
    <3> QED BY <3>1, <3>2, <3>3
  <2>5. StarTypes' /\ ViewersApart' /\ ViewsCounted' /\ StarsCounted' /\ StarsCredited'
    <3>1. op.at \in FeedAts \cup {"idle"} /\ stops[o].at \in Sharing \cup {"idle"}
      BY <2>1, <2>4 DEF FeedAts, Sharing
    <3>2. shares' \in SUBSET Fans /\ feed' \in [Fans -> Nat]
      BY <1>0, <2>3 DEF StarTypes
    <3> QED BY <1>1, <1>2, <2>4, <3>1, <3>2, ShareStep
  <2>6. Feeding(u)' = Feeding(u) \cup (IF op.at = "idle" THEN {} ELSE {o}) /\ o \notin Feeding(u)
    BY <1>0, <2>1, <2>4, FeedingGoes DEF FeedAts
  <2>7. ASSUME <<"feed", u>> \notin amiss' PROVE FeedOf(u)'
    <3>1. FeedOf(u)
      BY <1>1, <2>7 DEF StarInv, FeedsAgree
    <3>2. stops'[o] = op /\ \A q \in StarOps \ {o} : stops'[q] = stops[q]
      BY <1>0, <2>4, GoesTo
    <3>3. CASE op.at = "idle"
      <4>1. Feeding(u)' = Feeding(u) /\ u \in shares /\ \A q \in StarOps : Feeding(u) = {q} => q # o
        BY <2>4, <2>6, <3>3
      <4> QED BY <2>3, <3>1, <3>2, <4>1 DEF FeedOf
    <3>4. CASE op.at # "idle"
      <4>1. Feeding(u)' # {} /\ \A q \in StarOps : Feeding(u)' = {q} => q = o /\ Feeding(u) = {}
        BY <2>6, <3>4
      <4> QED BY <2>3, <2>4, <3>1, <3>2, <3>4, <4>1 DEF FeedOf
    <3> QED BY <3>3, <3>4
  <2>8. FeedsAgree'
    <3>1. (stops[o].at \in FeedAts => stops[o].user = u) /\ (op.at \in FeedAts => op.user = u)
      BY <2>1, <2>4 DEF FeedAts
    <3>2. \A w \in Fans : w # u => /\ feed'[w] = feed[w] /\ (w \in shares' <=> w \in shares)
                                   /\ <<"feed", w>> \in amiss => <<"feed", w>> \in amiss'
      BY <1>1, <2>3
    <3> QED BY <2>4, <2>7, <3>1, <3>2, FeedsOfOne
  <2> QED BY <2>5, <2>8 DEF StarInv
<1>5. ASSUME clearEntries(o) PROVE StarInv'
  <2>1. stops[o].at = "clear"
    BY <1>5 DEF clearEntries
  <2>2. PICK u \in Fans : stops[o].user = u
    BY <1>3, <2>1, StarOpIs
  <2>3. feed' = [feed EXCEPT ![u] = 0] /\ shares' = shares /\ StarGo(o, u, "entry")
    BY <1>5, <2>2 DEF clearEntries
  <2>4. PICK op \in StarOp : Goes(o, op) /\ op.at = "entry" /\ op.user = u
    BY <2>3, OpOf DEF Sharing
  <2>5. StarTypes' /\ ViewersApart' /\ ViewsCounted' /\ StarsCounted' /\ StarsCredited'
    <3>1. op.at \in FeedAts \cup {"idle"} /\ stops[o].at \in Sharing \cup {"idle"}
      BY <2>1, <2>4 DEF FeedAts, Sharing
    <3>2. shares' \in SUBSET Fans /\ feed' \in [Fans -> Nat]
      BY <1>0, <2>3 DEF StarTypes
    <3> QED BY <1>1, <1>2, <2>4, <3>1, <3>2, ShareStep
  <2>6. Feeding(u)' = Feeding(u) /\ o \in Feeding(u)
    <3>1. /\ Feeding(u)' = (Feeding(u) \ {o}) \cup (IF op.at \in FeedAts /\ op.user = u THEN {o} ELSE {})
          /\ o \in Feeding(u) <=> stops[o].at \in FeedAts /\ stops[o].user = u
      BY <1>0, <2>4, FeedingGoes
    <3>2. stops[o].at \in FeedAts /\ op.at \in FeedAts
      BY <2>1, <2>4 DEF FeedAts
    <3>3. o \in Feeding(u) /\ Feeding(u)' = (Feeding(u) \ {o}) \cup {o}
      BY <2>2, <2>4, <3>1, <3>2
    <3> QED BY <3>3
  <2>7. ASSUME <<"feed", u>> \notin amiss' PROVE FeedOf(u)'
    <3>1. FeedOf(u)
      BY <1>1, <2>7 DEF StarInv, FeedsAgree
    <3>2. stops'[o] = op /\ feed'[u] = 0
      BY <1>0, <2>3, <2>4, GoesTo DEF StarTypes
    <3>3. Feeding(u)' # {} /\ \A q \in StarOps : Feeding(u)' = {q} => q = o /\ Feeding(u) = {o}
      BY <2>6
    <3> QED BY <2>1, <2>3, <2>4, <3>1, <3>2, <3>3 DEF FeedOf
  <2>8. FeedsAgree'
    <3>1. (stops[o].at \in FeedAts => stops[o].user = u) /\ (op.at \in FeedAts => op.user = u)
      BY <2>2, <2>4
    <3>2. \A w \in Fans : w # u => /\ feed'[w] = feed[w] /\ (w \in shares' <=> w \in shares)
                                   /\ <<"feed", w>> \in amiss => <<"feed", w>> \in amiss'
      BY <1>0, <1>1, <2>3 DEF StarTypes
    <3> QED BY <2>4, <2>7, <3>1, <3>2, FeedsOfOne
  <2> QED BY <2>5, <2>8 DEF StarInv
<1>6. ASSUME NEW u \in Fans, unshareFromProfile(o, u) PROVE StarInv'
  <2>1. stops[o].at = "idle" /\ feed' = feed /\ shares' = shares \ {u} /\ StarGo(o, u, "unfeed")
    BY <1>6 DEF unshareFromProfile, Free
  <2>2. PICK op \in StarOp : Goes(o, op) /\ op.at = "unfeed" /\ op.user = u
    BY <2>1, OpOf DEF Sharing
  <2>3. StarTypes' /\ ViewersApart' /\ ViewsCounted' /\ StarsCounted' /\ StarsCredited'
    <3>1. op.at \in FeedAts \cup {"idle"} /\ stops[o].at \in Sharing \cup {"idle"}
      BY <2>1, <2>2 DEF FeedAts, Sharing
    <3>2. shares' \in SUBSET Fans /\ feed' \in [Fans -> Nat]
      BY <1>0, <2>1 DEF StarTypes
    <3> QED BY <1>1, <1>2, <2>2, <3>1, <3>2, ShareStep
  <2>4. o \in Feeding(u)'
    BY <1>0, <2>2, FeedingGoes DEF FeedAts
  <2>5. FeedOf(u)'
    <3>1. stops'[o] = op
      BY <1>0, <2>2, GoesTo
    <3>2. Feeding(u)' # {} /\ \A q \in StarOps : Feeding(u)' = {q} => q = o
      BY <2>4
    <3> QED BY <2>1, <2>2, <3>1, <3>2 DEF FeedOf
  <2>6. FeedsAgree'
    <3>1. (stops[o].at \in FeedAts => stops[o].user = u) /\ (op.at \in FeedAts => op.user = u)
      BY <2>1, <2>2 DEF FeedAts
    <3>2. \A w \in Fans : w # u => /\ feed'[w] = feed[w] /\ (w \in shares' <=> w \in shares)
                                   /\ <<"feed", w>> \in amiss => <<"feed", w>> \in amiss'
      BY <1>1, <2>1
    <3>3. <<"feed", u>> \notin amiss' => FeedOf(u)'
      BY <2>5
    <3> QED BY <2>2, <3>1, <3>2, <3>3, FeedsOfOne
  <2> QED BY <2>3, <2>6 DEF StarInv
<1> QED BY <1>4, <1>5, <1>6

(* The feed's entry is written, or the entries of a share taken back. *)
LEMMA EntriesKeep == ASSUME StarInv, NEW o \in StarOps, writeActivity(o) \/ removeEntries(o) PROVE StarInv'
<1>0. StarTypes
  BY DEF StarInv
<1>1. stops[o] \in StarOp /\ stops[o].at \in {"entry", "unfeed"}
  BY <1>0 DEF StarTypes, writeActivity, removeEntries
<1>2. PICK u \in Fans : stops[o].user = u
  BY <1>1, StarOpIs
<1>3. UNCHANGED <<there, stars, shares, starCount, credit, viewed, viewCount, today>>
  BY DEF writeActivity, removeEntries, viewCounts
<1>4. PICK op \in StarOp : Goes(o, op) /\ op.at = "idle"
  BY OpEnds DEF writeActivity, removeEntries
<1>5. /\ \A kind : kind # "feed" => Stays(kind)
      /\ \A w : w # u => (<<"feed", w>> \in amiss => <<"feed", w>> \in amiss')
  BY <1>2 DEF writeActivity, removeEntries, Stays
<1>6. feed[u] \in Nat
  BY <1>0 DEF StarTypes
<1>7. feed' \in [Fans -> Nat] /\ \A w \in Fans : w # u => feed'[w] = feed[w]
  BY <1>0, <1>2, <1>6 DEF writeActivity, removeEntries, StarTypes
<1>8. StarTypes' /\ ViewersApart' /\ ViewsCounted' /\ StarsCounted' /\ StarsCredited'
  <2>1. op.at \in FeedAts \cup {"idle"} /\ stops[o].at \in Sharing \cup {"idle"}
    BY <1>1, <1>4 DEF Sharing
  <2>2. shares' \in SUBSET Fans
    BY <1>0, <1>3 DEF StarTypes
  <2>3. Stays("views") /\ Stays("count") /\ Stays("credit")
    BY <1>5
  <2> QED BY <1>3, <1>4, <1>7, <2>1, <2>2, <2>3, ShareStep
<1>9. ASSUME ~Beside(o, u, Sharing) PROVE Feeding(u)' = {}
  <2>1. \A p \in StarOps \ {o} : ~(stops[p].at \in FeedAts /\ stops[p].user = u)
    BY <1>9 DEF Beside, FeedAts, Sharing
  <2> QED BY <1>0, <1>4, <2>1, GoesTo DEF Feeding, FeedAts
<1>10. ASSUME <<"feed", u>> \notin amiss' PROVE FeedOf(u)'
  <2>1. CASE writeActivity(o)
    <3>1. feed' = [feed EXCEPT ![u] = @ + 1] /\ u \in shares /\ feed[u] = 0 /\ ~Beside(o, u, Sharing)
      BY <1>2, <1>6, <1>10, <2>1 DEF writeActivity
    <3>2. feed'[u] = 1
      BY <1>0, <3>1 DEF StarTypes
    <3> QED BY <1>3, <1>9, <3>1, <3>2 DEF FeedOf
  <2>2. CASE removeEntries(o)
    <3>1. feed' = [feed EXCEPT ![u] = 0] /\ u \notin shares /\ ~Beside(o, u, Sharing)
      BY <1>2, <1>10, <2>2 DEF removeEntries
    <3>2. feed'[u] = 0
      BY <1>0, <3>1 DEF StarTypes
    <3> QED BY <1>3, <1>9, <3>1, <3>2 DEF FeedOf
  <2> QED BY <2>1, <2>2
<1>11. FeedsAgree'
  <2>1. (stops[o].at \in FeedAts => stops[o].user = u) /\ (op.at \in FeedAts => op.user = u)
    BY <1>2, <1>4 DEF FeedAts
  <2>2. \A w \in Fans : w # u => /\ feed'[w] = feed[w] /\ (w \in shares' <=> w \in shares)
                                 /\ <<"feed", w>> \in amiss => <<"feed", w>> \in amiss'
    BY <1>3, <1>5, <1>7
  <2>3. <<"feed", u>> \notin amiss' => FeedOf(u)'
    BY <1>10
  <2> QED BY <1>4, <2>1, <2>2, <2>3, FeedsOfOne
<1> QED BY <1>8, <1>11 DEF StarInv

LEMMA ViewsKeep == ASSUME StarInv, NEW o \in StarOps, createView(o) \/ countView(o) PROVE StarInv'
<1>0. StarTypes
  BY DEF StarInv
<1>1. stops[o] \in StarOp /\ stops[o].at \in {"view", "countView"}
  BY <1>0 DEF StarTypes, createView, countView
<1>2. PICK u \in Fans : stops[o].user = u /\ u # Owner
  BY <1>1, StarOpIs DEF StarInv, ViewersApart
<1>3. UNCHANGED <<there, stars, shares, starCount, credit, feed, today>> /\ \A kind : Stays(kind)
  BY DEF createView, countView, Stays
<1>4. PICK op \in StarOp :
        /\ Goes(o, op)
        /\ IF stops[o].at = "view" /\ <<u, today>> \notin viewed THEN op.at = "countView" /\ op.user = u ELSE op.at = "idle"
  <2>1. CASE stops[o].at = "view" /\ <<u, today>> \notin viewed
    <3>1. StarGo(o, u, "countView")
      BY <1>2, <2>1 DEF createView, countView
    <3> QED BY <2>1, <3>1, OpOf
  <2>2. CASE ~(stops[o].at = "view" /\ <<u, today>> \notin viewed)
    <3>1. StarEnd(o)
      BY <1>1, <1>2, <2>2 DEF createView, countView
    <3> QED BY <2>2, <3>1, OpEnds
  <2> QED BY <2>1, <2>2
<1>5. op.at \notin CountAts \cup FeedAts /\ stops[o].at \notin CountAts \cup FeedAts
  BY <1>1, <1>4 DEF CountAts, FeedAts
<1>6. StarsCounted' /\ StarsCredited'
  BY <1>3, <1>4, <1>5, StarsAlone
<1>7. FeedsAgree'
  BY <1>3, <1>4, <1>5, FeedsAlone
<1>8. viewed' = IF stops[o].at = "view" THEN viewed \cup {<<u, today>>} ELSE viewed
  BY <1>1, <1>2 DEF createView, countView
<1>9. /\ viewCount' \in {viewCount, viewCount + 1}
      /\ stops[o].at = "view" => viewCount' = viewCount
      /\ there /\ <<"views", Owner>> \notin amiss' /\ stops[o].at = "countView" => viewCount' = viewCount + 1
  BY <1>1 DEF createView, countView
<1>10. IsFiniteSet(viewed) /\ Cardinality(viewed) \in Nat /\ viewCount \in Nat /\ today \in Nat
  BY <1>0, FS_CardinalityType DEF StarTypes
<1>11. /\ IsFiniteSet(viewed')
       /\ Cardinality(viewed') = IF stops[o].at = "view" /\ <<u, today>> \notin viewed THEN Cardinality(viewed) + 1 ELSE Cardinality(viewed)
  <2>1. /\ IsFiniteSet(viewed \cup {<<u, today>>})
        /\ Cardinality(viewed \cup {<<u, today>>}) = IF <<u, today>> \in viewed THEN Cardinality(viewed) ELSE Cardinality(viewed) + 1
    BY <1>10, FS_AddElement
  <2> QED BY <1>8, <1>10, <2>1
<1>12. StarTypes'
  <2>1. viewed' \in SUBSET ((Fans \ {Owner}) \X Nat) /\ viewCount' \in Nat
    BY <1>0, <1>2, <1>8, <1>9, <1>10 DEF StarTypes
  <2> QED BY <1>0, <1>3, <1>4, <1>11, <2>1, GoesTo DEF StarTypes
<1>13. ViewersApart'
  BY <1>0, <1>2, <1>4, GoesTo DEF StarInv, ViewersApart
<1>14. /\ Cardinality(Busy({"countView"}, Fans)') = Cardinality(Busy({"countView"}, Fans))
            + (IF op.at = "countView" THEN 1 ELSE 0) - (IF stops[o].at = "countView" THEN 1 ELSE 0)
       /\ Cardinality(Busy({"countView"}, Fans)) \in Nat
  <2>1. Cardinality(Busy({"countView"}, Fans)') = Cardinality(Busy({"countView"}, Fans))
           + (IF op.at \in {"countView"} /\ op.user \in Fans THEN 1 ELSE 0)
           - (IF stops[o].at \in {"countView"} /\ stops[o].user \in Fans THEN 1 ELSE 0)
    BY <1>0, <1>4, BusyGoes
  <2>2. Cardinality(Busy({"countView"}, Fans)) \in Nat
    BY <1>0, BusyFinite
  <2> QED BY <1>2, <1>4, <2>1, <2>2
<1>15. viewCount + Cardinality(Busy({"countView"}, Fans)) <= Cardinality(viewed)
  BY DEF StarInv, ViewsCounted
<1>16. there /\ <<"views", Owner>> \notin amiss => viewCount + Cardinality(Busy({"countView"}, Fans)) = Cardinality(viewed)
  BY DEF StarInv, ViewsCounted
<1>17. ViewsCounted'
  <2>1. CASE stops[o].at = "view"
    BY <1>3, <1>4, <1>9, <1>10, <1>11, <1>14, <1>15, <1>16, <2>1 DEF ViewsCounted, Stays
  <2>2. CASE stops[o].at = "countView"
    BY <1>3, <1>4, <1>9, <1>10, <1>11, <1>14, <1>15, <1>16, <2>2 DEF ViewsCounted, Stays
  <2> QED BY <1>1, <2>1, <2>2
<1> QED BY <1>6, <1>7, <1>12, <1>13, <1>17 DEF StarInv

LEMMA StarNextKeeps == StarInv /\ [StarNext]_starVars => StarInv'
<1> SUFFICES ASSUME StarInv, [StarNext]_starVars PROVE StarInv'
  OBVIOUS
<1>1. ASSUME NEW o \in StarOps, Starring(o) PROVE StarInv'
  BY <1>1, UpsertStarKeeps, CountStarKeeps, UncountKeeps, CallsBegin, UnstarKeeps DEF Starring
<1>2. ASSUME NEW o \in StarOps, SharingSteps(o) PROVE StarInv'
  BY <1>2, SharesKeep, EntriesKeep, CallsBegin DEF SharingSteps
<1>3. ASSUME NEW o \in StarOps, ViewSteps(o) PROVE StarInv'
  BY <1>3, ViewsKeep, CallsBegin DEF ViewSteps
<1> QED BY <1>1, <1>2, <1>3, NoCallKeeps DEF StarNext

LEMMA StarShows == StarInv => StarsAgree
<1> SUFFICES ASSUME StarInv PROVE StarsAgree
  OBVIOUS
<1>0. StarTypes
  BY DEF StarInv
<1>1. \A ats, S : Cardinality(Busy(ats, S)) \in Nat
  BY <1>0, BusyFinite
<1>2. Cardinality(stars) \in Nat /\ Cardinality(stars \ {Owner}) \in Nat /\ Cardinality(viewed) \in Nat
  BY <1>0, StarsFinite, FS_CardinalityType DEF StarTypes
<1>3. starCount \in Nat /\ credit \in Nat /\ viewCount \in Nat
  BY <1>0 DEF StarTypes
<1>4. viewCount <= Cardinality(viewed) /\ \A v \in viewed : v[1] # Owner
  BY <1>0, <1>1, <1>2, <1>3 DEF StarInv, ViewsCounted, StarTypes
<1>5. ASSUME \A o \in StarOps : Free(o)
      PROVE  /\ there /\ <<"count", Owner>> \notin amiss => starCount = Cardinality(stars)
             /\ <<"credit", Owner>> \notin amiss => credit = Cardinality(stars \ {Owner})
             /\ there /\ <<"views", Owner>> \notin amiss => viewCount = Cardinality(viewed)
             /\ \A u \in Fans : <<"feed", u>> \notin amiss => feed[u] = Cardinality(shares \cap {u})
  <2>1. /\ Busy({"countView"}, Fans) = {} /\ Busy({"count"}, Fans) = {} /\ Busy({"uncredit", "uncount"}, Fans) = {}
        /\ Busy({"count", "credit"}, Others) = {} /\ Busy({"uncredit"}, Others) = {}
    BY <1>5 DEF Busy, Free
  <2>2. \A u : Feeding(u) = {}
    BY <1>5 DEF Feeding, Free, FeedAts
  <2>3. Cardinality({}) = 0 /\ \A u : Cardinality({u}) = 1
    BY FS_EmptySet, FS_Singleton
  <2>4. there /\ <<"count", Owner>> \notin amiss => starCount = Cardinality(stars)
    <3>1. there /\ <<"count", Owner>> \notin amiss =>
            starCount + Cardinality(Busy({"count"}, Fans)) = Cardinality(stars) + Cardinality(Busy({"uncredit", "uncount"}, Fans))
      BY DEF StarInv, StarsCounted
    <3>2. Cardinality(Busy({"count"}, Fans)) = 0 /\ Cardinality(Busy({"uncredit", "uncount"}, Fans)) = 0
      BY <2>1, <2>3
    <3> QED BY <1>2, <1>3, <3>1, <3>2
  <2>5. <<"credit", Owner>> \notin amiss => credit = Cardinality(stars \ {Owner})
    BY <1>2, <1>3, <2>1, <2>3 DEF StarInv, StarsCredited
  <2>6. there /\ <<"views", Owner>> \notin amiss => viewCount = Cardinality(viewed)
    <3>1. there /\ <<"views", Owner>> \notin amiss =>
            viewCount + Cardinality(Busy({"countView"}, Fans)) = Cardinality(viewed)
      BY DEF StarInv, ViewsCounted
    <3>2. Cardinality(Busy({"countView"}, Fans)) = 0
      BY <2>1, <2>3
    <3> QED BY <1>2, <1>3, <3>1, <3>2
  <2>7. ASSUME NEW u \in Fans, <<"feed", u>> \notin amiss PROVE feed[u] = Cardinality(shares \cap {u})
    <3>1. feed[u] = IF u \in shares THEN 1 ELSE 0
      BY <2>2, <2>7 DEF StarInv, FeedsAgree, FeedOf
    <3>2. shares \cap {u} = IF u \in shares THEN {u} ELSE {}
      OBVIOUS
    <3> QED BY <2>3, <3>1, <3>2
  <2> QED BY <2>4, <2>5, <2>6, <2>7
<1> QED BY <1>4, <1>5 DEF StarsAgree

(* With no handler under way the project counts its stars and its views,
   its owner the stars of others, and the feed has one entry of each share
   and none of what is not shared, but where a write was lost, a decrement
   came first or two calls about one share overlapped; never more views
   than viewers of a day, and none of the owner's: for any fans, calls and
   days (starProject, unstarProject, shareToProfile, unshareFromProfile,
   registerProjectView). *)
THEOREM StarsAlwaysAgree == StarSpec => []StarsAgree
<1>1. StarInit => StarInv
  BY StarsBegin
<1>2. StarInv /\ [StarNext]_starVars => StarInv'
  BY StarNextKeeps
<1>3. StarInv => StarsAgree
  BY StarShows
<1> QED BY <1>1, <1>2, <1>3, PTL DEF StarSpec

-----------------------------------------------------------------------------
(* A playlist: what is listed, and who saved it. *)
Modes == {"MANUAL", "STARS"}
ListRow == [on : BOOLEAN, public : BOOLEAN, mode : Modes, songs : Seq(Songs), v : Nat]
ListOp ==
    {NoListOp} \cup [at : {"add", "remove"}, song : Songs]
    \cup [at : {"order"}, songs : Seq(Songs), read : Seq(Songs), v : Nat]
    \cup [at : {"update"}, public : BOOLEAN, mode : Modes, setPublic : BOOLEAN, setMode : BOOLEAN]
    \cup [at : {"save"}, by : Savers] \cup [at : {"count", "uncount", "savedBy", "list"}]
ListTypes ==
    /\ list \in ListRow
    /\ alive \in SUBSET Songs /\ kept \in SUBSET Songs
    /\ savedBy \in SUBSET Savers /\ IsFiniteSet(savedBy)
    /\ savedCount \in Nat
    /\ plops \in [ListOps -> ListOp]
    /\ crossed \in [order : BOOLEAN, save : BOOLEAN]

Once(songs) == \A i, j \in 1 .. Len(songs) : i # j => songs[i] # songs[j]
In(songs) == {songs[i] : i \in 1 .. Len(songs)}

(* An order that may still be saved is of the songs that are listed. *)
OrderOf(op) == op.at = "order" =>
    /\ Once(op.songs) /\ op.v <= list.v
    /\ list.on /\ op.v = list.v /\ ~crossed.order => In(op.songs) = In(list.songs)
SongsKept ==
    /\ Once(list.songs)
    /\ list.on /\ ~crossed.order => In(list.songs) = kept
    /\ \A o \in ListOps : OrderOf(plops[o])
(* A save not counted yet has a handler that will count it, until the
   playlist's saves are deleted. *)
SavesKept == ~crossed.save =>
    /\ list.on /\ LUnder({"list"}) = {} =>
         savedCount + Cardinality(LUnder({"count"})) = Cardinality(savedBy) + Cardinality(LUnder({"uncount"}))
    /\ ~list.on => savedBy = {}

PlaylistInv == ListTypes /\ SongsKept /\ SavesKept

(* Induction up to a bound, over a set. *)
LEMMA CountingUp ==
  ASSUME NEW N \in Nat, NEW G, 0 \in G, \A n \in 0 .. N : n \in G /\ n < N => n + 1 \in G
  PROVE  \A n \in 0 .. N : n \in G
<1> DEFINE below == {p \in Nat \X Nat : p[1] < p[2]}
           bad == {n \in 0 .. N : n \notin G}
<1>1. IsWellFoundedOn(below, Nat)
  BY NatLessThanWellFounded DEF OpToRel
<1>2. IsWellFoundedOn(below, bad)
  BY <1>1, IsWellFoundedOnSubset
<1>3. SUFFICES ASSUME bad # {} PROVE FALSE
  OBVIOUS
<1>4. PICK m \in bad : \A x \in bad : <<x, m>> \notin below
  BY <1>2, <1>3, WFMin
<1>5. m # 0 /\ m - 1 \in 0 .. N /\ m - 1 < N
  BY <1>4
<1>6. m - 1 \notin bad
  <2>1. m \in Nat /\ m - 1 \in Nat /\ m - 1 < m
    BY <1>4, <1>5
  <2>2. <<m - 1, m>> \in below
    BY <2>1
  <2> QED BY <1>4, <2>2
<1>7. m \in G
  BY <1>5, <1>6
<1> QED BY <1>4, <1>7

(* What a pull leaves, place by place. *)
Pulls(q, x, n, f) ==
    f = [k \in 0 .. n |-> IF k = 0 THEN <<>> ELSE IF q[k] = x THEN f[k - 1] ELSE Append(f[k - 1], q[k])]

LEMMA PullExists ==
  ASSUME NEW q, Len(q) \in Nat, NEW x
  PROVE  \E f : Pulls(q, x, Len(q), f)
<1> DEFINE N == Len(q)
           G == {n \in 0 .. N : \E f : Pulls(q, x, n, f)}
<1>1. 0 \in G
  <2>1. Pulls(q, x, 0, [k \in 0 .. 0 |-> <<>>])
    BY DEF Pulls
  <2> QED BY <2>1
<1>2. ASSUME NEW n \in 0 .. N, n \in G, n < N PROVE n + 1 \in G
  <2>1. PICK f : Pulls(q, x, n, f)
    BY <1>2
  <2> DEFINE last == IF q[n + 1] = x THEN f[n] ELSE Append(f[n], q[n + 1])
             g == [k \in 0 .. n + 1 |-> IF k = n + 1 THEN last ELSE f[k]]
  <2>2. \A k \in 0 .. n : g[k] = f[k]
    OBVIOUS
  <2>3. \A k \in 0 .. n : f[k] = IF k = 0 THEN <<>> ELSE IF q[k] = x THEN f[k - 1] ELSE Append(f[k - 1], q[k])
    BY <2>1 DEF Pulls
  <2>4. g[n + 1] = last /\ DOMAIN g = 0 .. n + 1
    OBVIOUS
  <2> HIDE DEF g
  <2>5. \A k \in 0 .. n + 1 : g[k] = IF k = 0 THEN <<>> ELSE IF q[k] = x THEN g[k - 1] ELSE Append(g[k - 1], q[k])
    <3> TAKE k \in 0 .. n + 1
    <3>1. CASE k = n + 1
      BY <3>1, <2>2, <2>4
    <3>2. CASE k = 0
      BY <3>2, <2>2, <2>3
    <3>3. CASE k \in 1 .. n
      <4>1. k - 1 \in 0 .. n /\ k \in 0 .. n
        BY <3>3
      <4> QED BY <4>1, <3>3, <2>2, <2>3
    <3> QED BY <3>1, <3>2, <3>3
  <2>6. g = [k \in 0 .. n + 1 |-> g[k]]
    BY DEF g
  <2>7. Pulls(q, x, n + 1, g)
    BY <2>5, <2>6 DEF Pulls
  <2>8. n + 1 \in 0 .. N
    BY <1>2
  <2> QED BY <2>7, <2>8
<1>3. \A n \in 0 .. N : n \in G
  <2> HIDE DEF G
  <2> QED BY <1>1, <1>2, CountingUp
<1> QED BY <1>3

LEMMA PullStep ==
  ASSUME NEW q, Len(q) \in Nat, NEW x
  PROVE  \E f : /\ Without(q, x) = f[Len(q)] /\ f[0] = <<>>
                /\ \A k \in 0 .. Len(q) : k # 0 => f[k] = IF q[k] = x THEN f[k - 1] ELSE Append(f[k - 1], q[k])
<1> DEFINE f == CHOOSE f : Pulls(q, x, Len(q), f)
<1>1. Pulls(q, x, Len(q), f)
  BY PullExists
<1>2. Without(q, x) = f[Len(q)]
  BY DEF Without, Pulls
<1> HIDE DEF f
<1>3. f[0] = <<>> /\ \A k \in 0 .. Len(q) : k # 0 => f[k] = IF q[k] = x THEN f[k - 1] ELSE Append(f[k - 1], q[k])
  <2> DEFINE body(k) == IF k = 0 THEN <<>> ELSE IF q[k] = x THEN f[k - 1] ELSE Append(f[k - 1], q[k])
  <2>1. f = [k \in 0 .. Len(q) |-> body(k)]
    BY <1>1 DEF Pulls
  <2> HIDE DEF body
  <2>2. \A k \in 0 .. Len(q) : f[k] = body(k)
    BY <2>1
  <2>3. 0 \in 0 .. Len(q)
    OBVIOUS
  <2> QED BY <2>2, <2>3 DEF body
<1> QED BY <1>2, <1>3

LEMMA AddedLast ==
  ASSUME NEW S, NEW q \in Seq(S), NEW x \in S
  PROVE  /\ Append(q, x) \in Seq(S) /\ In(Append(q, x)) = In(q) \cup {x}
         /\ Once(q) /\ x \notin In(q) => Once(Append(q, x))
<1> DEFINE l == Len(q)
           a == Append(q, x)
<1>1. /\ a \in Seq(S) /\ l \in Nat /\ Len(a) = l + 1
      /\ \A k \in 1 .. l : a[k] = q[k]
      /\ a[l + 1] = x
  OBVIOUS
<1>2. 1 .. l + 1 = 1 .. l \cup {l + 1}
  BY <1>1
<1> HIDE DEF a
<1>3. In(a) = In(q) \cup {x}
  BY <1>1, <1>2 DEF In
<1>4. ASSUME Once(q), x \notin In(q) PROVE Once(a)
  <2>1. \A k \in 1 .. l : q[k] # x
    BY <1>4 DEF In
  <2> QED BY <2>1, <1>1, <1>2, <1>4 DEF Once
<1> QED BY <1>1, <1>3, <1>4 DEF a

(* A pull leaves the other songs, each in one place. *)
LEMMA WithoutIs ==
  ASSUME NEW S, NEW q \in Seq(S), NEW x
  PROVE  /\ Without(q, x) \in Seq(S) /\ In(Without(q, x)) = In(q) \ {x}
         /\ Once(q) => Once(Without(q, x))
<1> DEFINE N == Len(q)
<1>0. N \in Nat /\ \A k \in 1 .. N : q[k] \in S
  OBVIOUS
<1>1. PICK f : /\ Without(q, x) = f[N] /\ f[0] = <<>>
               /\ \A k \in 0 .. N : k # 0 => f[k] = IF q[k] = x THEN f[k - 1] ELSE Append(f[k - 1], q[k])
  <2> HIDE DEF N
  <2>1. Len(q) \in Nat
    BY <1>0 DEF N
  <2> QED BY <2>1, PullStep DEF N
<1> DEFINE Right(n) ==
       /\ f[n] \in Seq(S)
       /\ In(f[n]) = {q[k] : k \in 1 .. n} \ {x}
       /\ Once(q) => Once(f[n])
     G == {n \in 0 .. N : Right(n)}
<1>2. 0 \in G
  <2>1. f[0] \in Seq(S) /\ Len(f[0]) = 0
    BY <1>1
  <2>2. In(f[0]) = {} /\ Once(f[0]) /\ {q[k] : k \in 1 .. 0} = {}
    BY <2>1 DEF In, Once
  <2>3. Right(0)
    BY <2>1, <2>2
  <2> QED BY <2>3, <1>0
<1>3. ASSUME NEW n \in 0 .. N, n \in G, n < N PROVE n + 1 \in G
  <2>0. n + 1 \in 1 .. N /\ n + 1 \in 0 .. N /\ n + 1 # 0 /\ (n + 1) - 1 = n
    BY <1>3, <1>0
  <2>1. f[n + 1] = IF q[n + 1] = x THEN f[n] ELSE Append(f[n], q[n + 1])
    BY <1>1, <2>0
  <2>2. Right(n)
    BY <1>3
  <2>3. {q[k] : k \in 1 .. n + 1} = {q[k] : k \in 1 .. n} \cup {q[n + 1]}
    <3>1. 1 .. n + 1 = 1 .. n \cup {n + 1}
      BY <1>3
    <3> QED BY <3>1
  <2>4. CASE q[n + 1] = x
    <3>1. f[n + 1] = f[n]
      BY <2>1, <2>4
    <3>2. {q[k] : k \in 1 .. n + 1} \ {x} = {q[k] : k \in 1 .. n} \ {x}
      BY <2>3, <2>4
    <3>3. Right(n + 1)
      BY <2>2, <3>1, <3>2
    <3> QED BY <3>3, <2>0
  <2>5. CASE q[n + 1] # x
    <3>1. f[n + 1] = Append(f[n], q[n + 1]) /\ f[n] \in Seq(S) /\ q[n + 1] \in S
      BY <2>1, <2>5, <2>2, <2>0, <1>0
    <3>2. {q[k] : k \in 1 .. n + 1} \ {x} = ({q[k] : k \in 1 .. n} \ {x}) \cup {q[n + 1]}
      BY <2>3, <2>5
    <3>3. /\ f[n + 1] \in Seq(S)
          /\ In(f[n + 1]) = In(f[n]) \cup {q[n + 1]}
          /\ Once(f[n]) /\ q[n + 1] \notin In(f[n]) => Once(f[n + 1])
      BY <3>1, AddedLast
    <3>4. ASSUME Once(q) PROVE q[n + 1] \notin In(f[n])
      <4> SUFFICES ASSUME q[n + 1] \in In(f[n]) PROVE FALSE
        OBVIOUS
      <4>1. PICK j \in 1 .. n : q[j] = q[n + 1]
        BY <2>2
      <4>2. j \in 1 .. N /\ n + 1 \in 1 .. N /\ j # n + 1
        BY <2>0, <1>0
      <4> QED BY <4>1, <4>2, <3>4 DEF Once
    <3>5. Right(n + 1)
      BY <2>2, <3>2, <3>3, <3>4
    <3> QED BY <3>5, <2>0
  <2> QED BY <2>4, <2>5
<1>4. \A n \in 0 .. N : n \in G
  <2> HIDE DEF G
  <2> QED BY <1>0, <1>2, <1>3, CountingUp
<1>5. Right(N)
  <2>1. N \in 0 .. N
    BY <1>0
  <2>2. N \in G
    BY <1>4, <2>1
  <2> HIDE DEF N, Right
  <2> QED BY <2>2
<1>6. {q[k] : k \in 1 .. N} = In(q)
  BY DEF In
<1> HIDE DEF N
<1> QED BY <1>5, <1>6, <1>1

-----------------------------------------------------------------------------
(* A handler of the playlist goes on. *)
LEMMA ListOpIs ==
  /\ NoListOp \in ListOp /\ NoListOp.at = "idle"
  /\ \A op \in ListOp : /\ op.at = "idle" <=> op = NoListOp
                        /\ op.at \in {"add", "remove"} => op.song \in Songs
                        /\ op.at = "order" => op.songs \in Seq(Songs) /\ op.v \in Nat
                        /\ op.at = "update" => op.public \in BOOLEAN /\ op.mode \in Modes
                        /\ op.at = "save" => op.by \in Savers
  BY DEF ListOp, NoListOp

LEMMA ListGoes ==
  ASSUME ListTypes, NEW o \in ListOps, NEW op \in ListOp, LTo(o, op)
  PROVE  plops' \in [ListOps -> ListOp] /\ plops'[o] = op /\ \A q \in ListOps \ {o} : plops'[q] = plops[q]
  BY DEF ListTypes, LTo

LEMMA UnderFinite == ASSUME NEW at PROVE IsFiniteSet(LUnder(at)) /\ Cardinality(LUnder(at)) \in Nat
<1>1. LUnder(at) \in SUBSET ListOps
  BY DEF LUnder
<1>2. IsFiniteSet(LUnder(at))
  BY <1>1, PlaylistAssumption, FS_Subset
<1> QED BY <1>2, FS_CardinalityType

LEMMA UnderGoes ==
  ASSUME ListTypes, NEW o \in ListOps, NEW op \in ListOp, LTo(o, op), NEW at
  PROVE  Cardinality(LUnder(at)') = Cardinality(LUnder(at))
           + (IF op.at \in at THEN 1 ELSE 0) - (IF plops[o].at \in at THEN 1 ELSE 0)
<1>1. \A q \in ListOps \ {o} : q \in LUnder(at)' <=> q \in LUnder(at)
  BY ListGoes DEF LUnder
<1>2. IsFiniteSet(LUnder(at)) /\ Cardinality(LUnder(at)) \in Nat
  BY UnderFinite
<1>3. LUnder(at) \subseteq ListOps /\ LUnder(at)' \subseteq ListOps
  BY DEF LUnder
<1>4. (o \in LUnder(at)' <=> op.at \in at) /\ (o \in LUnder(at) <=> plops[o].at \in at)
  BY ListGoes DEF LUnder
<1>5. CASE o \in LUnder(at)'
  <2>1. LUnder(at)' = LUnder(at) \cup {o}
    BY <1>1, <1>3, <1>5
  <2>2. Cardinality(LUnder(at) \cup {o}) = IF o \in LUnder(at) THEN Cardinality(LUnder(at)) ELSE Cardinality(LUnder(at)) + 1
    BY <1>2, FS_AddElement
  <2> QED BY <1>2, <1>4, <1>5, <2>1, <2>2
<1>6. CASE o \notin LUnder(at)'
  <2>1. LUnder(at)' = LUnder(at) \ {o}
    BY <1>1, <1>3, <1>6
  <2>2. Cardinality(LUnder(at) \ {o}) = IF o \in LUnder(at) THEN Cardinality(LUnder(at)) - 1 ELSE Cardinality(LUnder(at))
    BY <1>2, FS_RemoveElement
  <2> QED BY <1>2, <1>4, <1>6, <2>1, <2>2
<1> QED BY <1>5, <1>6

(* What leaves the songs alone, and what leaves the saves. *)
LEMMA SongsAlone ==
  ASSUME PlaylistInv, NEW o \in ListOps, NEW op \in ListOp, LTo(o, op), kept' = kept,
         list'.songs = list.songs, list'.on => list.on, list'.v = list.v, crossed.order => crossed'.order,
         OrderOf(op)'
  PROVE  SongsKept'
<1>1. ASSUME NEW q \in ListOps PROVE OrderOf(plops[q])'
  <2>1. plops'[o] = op /\ (q # o => plops'[q] = plops[q])
    BY ListGoes DEF PlaylistInv
  <2>2. CASE q = o
    BY <2>1, <2>2 DEF OrderOf
  <2>3. CASE q # o
    <3>1. OrderOf(plops[q])
      BY DEF PlaylistInv, SongsKept
    <3> QED BY <2>1, <2>3, <3>1 DEF OrderOf
  <2> QED BY <2>2, <2>3
<1> QED BY <1>1 DEF PlaylistInv, SongsKept

LEMMA SavesAlone ==
  ASSUME PlaylistInv, NEW o \in ListOps, NEW op \in ListOp, LTo(o, op), UNCHANGED <<savedBy, savedCount>>,
         list'.on <=> list.on, crossed.save => crossed'.save,
         op.at \notin {"count", "uncount", "list"}, plops[o].at \notin {"count", "uncount", "list"}
  PROVE  SavesKept'
<1>0. ListTypes
  BY DEF PlaylistInv
<1>1. /\ Cardinality(LUnder({"count"})') = Cardinality(LUnder({"count"}))
            + (IF op.at \in {"count"} THEN 1 ELSE 0) - (IF plops[o].at \in {"count"} THEN 1 ELSE 0)
      /\ Cardinality(LUnder({"uncount"})') = Cardinality(LUnder({"uncount"}))
            + (IF op.at \in {"uncount"} THEN 1 ELSE 0) - (IF plops[o].at \in {"uncount"} THEN 1 ELSE 0)
  BY <1>0, UnderGoes
<1>2. Cardinality(LUnder({"count"})) \in Nat /\ Cardinality(LUnder({"uncount"})) \in Nat
  BY UnderFinite
<1>3. Cardinality(LUnder({"count"})') = Cardinality(LUnder({"count"})) /\ Cardinality(LUnder({"uncount"})') = Cardinality(LUnder({"uncount"}))
  BY <1>1, <1>2
<1>4. LUnder({"list"})' = LUnder({"list"})
  BY <1>0, ListGoes DEF LUnder
<1> QED BY <1>3, <1>4 DEF PlaylistInv, SavesKept

LEMMA PlaylistBegins == PlaylistInit => PlaylistInv
<1> SUFFICES ASSUME PlaylistInit PROVE PlaylistInv
  OBVIOUS
<1>1. IsFiniteSet({}) /\ Cardinality({}) = 0
  BY FS_EmptySet
<1>2. <<>> \in Seq(Songs) /\ Len(<<>>) = 0 /\ 1 .. 0 = {}
  OBVIOUS
<1>3. ListTypes
  BY <1>1, <1>2, ListOpIs DEF ListTypes, ListRow, Modes, PlaylistInit
<1>4. SongsKept
  BY <1>2, ListOpIs DEF SongsKept, Once, In, OrderOf, PlaylistInit
<1>5. SavesKept
  <2>1. LUnder({"count"}) = {} /\ LUnder({"uncount"}) = {}
    BY ListOpIs DEF LUnder, PlaylistInit
  <2> QED BY <1>1, <2>1 DEF SavesKept, PlaylistInit
<1> QED BY <1>3, <1>4, <1>5 DEF PlaylistInv

(* What a playlist is to be read for, and what changes neither its songs
   nor its saves. *)
LEMMA ReadersKeep ==
  ASSUME PlaylistInv, NEW o \in ListOps,
         \/ \E song \in Songs, adds \in BOOLEAN : findBoth(o, song, adds)
         \/ \E S \in SUBSET alive : \E songs \in Orders(S) : readOrder(o, songs)
         \/ \E public \in BOOLEAN, mode \in Modes : readUpdate(o, public, mode)
         \/ \E u \in Savers : readToSave(o, u)
         \/ deletePlaylist(o)
  PROVE  PlaylistInv'
<1>0. ListTypes
  BY DEF PlaylistInv
<1>1. UNCHANGED <<list, alive, savedBy, savedCount, kept, crossed>> /\ plops[o] = NoListOp
  BY DEF findBoth, readOrder, readUpdate, readToSave, deletePlaylist, LFree
<1>2. plops[o].at = "idle"
  BY <1>1, ListOpIs
<1>3. PICK op \in ListOp : LTo(o, op) /\ op.at \in {"add", "remove", "order", "update", "save", "savedBy"} /\ OrderOf(op)
  <2>1. ASSUME NEW song \in Songs, NEW adds \in BOOLEAN, findBoth(o, song, adds)
        PROVE  \E op \in ListOp : LTo(o, op) /\ op.at \in {"add", "remove"} /\ OrderOf(op)
    <3> PICK at \in {"add", "remove"} : at = IF adds THEN "add" ELSE "remove"
      OBVIOUS
    <3> DEFINE op == [at |-> at, song |-> song]
    <3>1. op \in ListOp /\ op.at \in {"add", "remove"}
      BY DEF ListOp
    <3>2. LTo(o, op)
      BY <2>1 DEF findBoth
    <3> HIDE DEF op
    <3> QED BY <3>1, <3>2 DEF OrderOf
  <2>2. ASSUME NEW S \in SUBSET alive, NEW songs \in Orders(S), readOrder(o, songs)
        PROVE  \E op \in ListOp : LTo(o, op) /\ op.at = "order" /\ OrderOf(op)
    <3> DEFINE op == [at |-> "order", songs |-> songs, read |-> list.songs, v |-> list.v]
    <3>1. S \in SUBSET Songs
      BY <1>0 DEF ListTypes
    <3>2. IsFiniteSet(S) /\ Cardinality(S) \in Nat
      BY <3>1, PlaylistAssumption, FS_Subset, FS_CardinalityType
    <3>3. songs \in Seq(Songs) /\ Once(songs)
      <4>1. songs \in [1 .. Cardinality(S) -> S] /\ \A i, j \in DOMAIN songs : i # j => songs[i] # songs[j]
        BY DEF Orders
      <4>2. songs \in Seq(Songs) /\ Len(songs) = Cardinality(S)
        BY <3>1, <3>2, <4>1
      <4> QED BY <4>1, <4>2 DEF Once
    <3>4. list.songs \in Seq(Songs) /\ list.v \in Nat
      BY <1>0 DEF ListTypes, ListRow
    <3>5. op \in ListOp
      BY <3>3, <3>4 DEF ListOp
    <3>6. op.at = "order" /\ op.songs = songs /\ op.v = list.v
      OBVIOUS
    <3>7. LTo(o, op) /\ In(songs) = In(list.songs)
      BY <2>2 DEF readOrder, Reorderable, SongsOf, In
    <3> HIDE DEF op
    <3>8. OrderOf(op)
      BY <3>3, <3>4, <3>6, <3>7 DEF OrderOf
    <3> QED BY <3>5, <3>6, <3>7, <3>8
  <2>3. ASSUME NEW public \in BOOLEAN, NEW mode \in Modes, readUpdate(o, public, mode)
        PROVE  \E op \in ListOp : LTo(o, op) /\ op.at = "update" /\ OrderOf(op)
    <3> PICK setPublic \in BOOLEAN : setPublic = (public # list.public)
      OBVIOUS
    <3> PICK setMode \in BOOLEAN : setMode = (mode # list.mode)
      OBVIOUS
    <3> DEFINE op == [at |-> "update", public |-> public, mode |-> mode, setPublic |-> setPublic, setMode |-> setMode]
    <3>1. op \in ListOp /\ op.at = "update"
      BY DEF ListOp
    <3>2. LTo(o, op)
      BY <2>3 DEF readUpdate
    <3> HIDE DEF op
    <3> QED BY <3>1, <3>2 DEF OrderOf
  <2>4. ASSUME NEW u \in Savers, readToSave(o, u)
        PROVE  \E op \in ListOp : LTo(o, op) /\ op.at = "save" /\ OrderOf(op)
    <3> DEFINE op == [at |-> "save", by |-> u]
    <3>1. op \in ListOp /\ op.at = "save"
      BY DEF ListOp
    <3>2. LTo(o, op)
      BY <2>4 DEF readToSave
    <3> HIDE DEF op
    <3> QED BY <3>1, <3>2 DEF OrderOf
  <2>5. ASSUME deletePlaylist(o)
        PROVE  \E op \in ListOp : LTo(o, op) /\ op.at = "savedBy" /\ OrderOf(op)
    <3> DEFINE op == [at |-> "savedBy"]
    <3>1. op \in ListOp /\ op.at = "savedBy"
      BY DEF ListOp
    <3>2. LTo(o, op)
      BY <2>5 DEF deletePlaylist
    <3> HIDE DEF op
    <3> QED BY <3>1, <3>2 DEF OrderOf
  <2> QED BY <2>1, <2>2, <2>3, <2>4, <2>5
<1>4. OrderOf(op)'
  BY <1>1, <1>3 DEF OrderOf
<1>5. SongsKept'
  BY <1>1, <1>3, <1>4, SongsAlone
<1>6. SavesKept'
  BY <1>1, <1>2, <1>3, SavesAlone
<1>7. ListTypes'
  BY <1>0, <1>1, <1>3, ListGoes DEF ListTypes
<1> QED BY <1>5, <1>6, <1>7 DEF PlaylistInv

LEMMA UpdateKeeps == ASSUME PlaylistInv, NEW o \in ListOps, updatePlaylist(o) PROVE PlaylistInv'
<1>0. ListTypes
  BY DEF PlaylistInv
<1>1. plops[o].at = "update" /\ LTo(o, NoListOp) /\ UNCHANGED <<alive, savedBy, savedCount, kept, crossed>>
  BY DEF updatePlaylist, LEnd
<1>2. plops[o] \in ListOp /\ list \in ListRow
  BY <1>0 DEF ListTypes
<1>3. plops[o].public \in BOOLEAN /\ plops[o].mode \in Modes
  BY <1>1, <1>2, ListOpIs
<1>4. /\ list' \in ListRow
      /\ list'.songs = list.songs /\ (list'.on <=> list.on) /\ list'.v = list.v
  BY <1>2, <1>3 DEF updatePlaylist, ListRow
<1>5. NoListOp \in ListOp /\ NoListOp.at = "idle" /\ OrderOf(NoListOp)'
  BY ListOpIs DEF OrderOf
<1>6. SongsKept'
  BY <1>1, <1>4, <1>5, SongsAlone
<1>7. SavesKept'
  BY <1>1, <1>4, <1>5, SavesAlone
<1>8. ListTypes'
  BY <1>0, <1>1, <1>4, <1>5, ListGoes DEF ListTypes
<1> QED BY <1>6, <1>7, <1>8 DEF PlaylistInv

(* A song is added or removed. *)
LEMMA SongsChange == ASSUME PlaylistInv, NEW o \in ListOps, addToList(o) \/ removeFromList(o) PROVE PlaylistInv'
<1>0. ListTypes
  BY DEF PlaylistInv
<1>1. plops[o].at \in {"add", "remove"} /\ LTo(o, NoListOp) /\ UNCHANGED <<alive, savedBy, savedCount>>
  BY DEF addToList, removeFromList, LEnd
<1>2. plops[o] \in ListOp /\ list \in ListRow /\ crossed \in [order : BOOLEAN, save : BOOLEAN]
  BY <1>0 DEF ListTypes
<1>3. PICK song \in Songs : plops[o].song = song
  BY <1>1, <1>2, ListOpIs
<1>4. NoListOp \in ListOp /\ NoListOp.at = "idle" /\ OrderOf(NoListOp)'
  BY ListOpIs DEF OrderOf
<1>5. list.songs \in Seq(Songs) /\ Once(list.songs) /\ list.v \in Nat
  BY <1>2 DEF ListRow, PlaylistInv, SongsKept
<1>6. CASE ~list.on
  <2>1. UNCHANGED <<list, kept, crossed>>
    BY <1>6 DEF addToList, removeFromList
  <2>2. SongsKept'
    BY <1>1, <1>4, <2>1, SongsAlone
  <2>3. SavesKept'
    BY <1>1, <1>4, <2>1, SavesAlone
  <2>4. ListTypes'
    BY <1>0, <1>1, <1>4, <2>1, ListGoes DEF ListTypes
  <2> QED BY <2>2, <2>3, <2>4 DEF PlaylistInv
<1>7. CASE list.on
  <2>1. PICK b \in BOOLEAN : b = (crossed.order \/ LUnder({"order"}) # {})
    OBVIOUS
  <2>2. crossed' = [crossed EXCEPT !.order = b]
    BY <1>2, <1>7, <2>1 DEF addToList, removeFromList
  <2>3. crossed' \in [order : BOOLEAN, save : BOOLEAN] /\ crossed'.order = b /\ crossed'.save = crossed.save
    BY <1>2, <2>2
  <2>4. PICK new \in Seq(Songs) :
          /\ list' = [list EXCEPT !.songs = new] /\ Once(new) /\ kept' \in SUBSET Songs
          /\ In(list.songs) = kept => In(new) = kept'
    <3>1. CASE addToList(o)
      <4> DEFINE new == IF song \in In(list.songs) THEN list.songs ELSE Append(list.songs, song)
      <4>1. list' = [list EXCEPT !.songs = new] /\ kept' = kept \cup {song}
        BY <1>3, <1>7, <3>1 DEF addToList, SongsOf, In
      <4>2. new \in Seq(Songs) /\ Once(new) /\ In(new) = In(list.songs) \cup {song}
        BY <1>5, AddedLast
      <4>3. kept' \in SUBSET Songs
        BY <1>0, <4>1 DEF ListTypes
      <4> HIDE DEF new
      <4> QED BY <4>1, <4>2, <4>3
    <3>2. CASE removeFromList(o)
      <4> DEFINE new == Without(list.songs, song)
      <4>1. list' = [list EXCEPT !.songs = new] /\ kept' = kept \ {song}
        BY <1>3, <1>7, <3>2 DEF removeFromList
      <4>2. new \in Seq(Songs) /\ Once(new) /\ In(new) = In(list.songs) \ {song}
        BY <1>5, WithoutIs
      <4>3. kept' \in SUBSET Songs
        BY <1>0, <4>1 DEF ListTypes
      <4> HIDE DEF new
      <4> QED BY <4>1, <4>2, <4>3
    <3> QED BY <3>1, <3>2
  <2>5. list' \in ListRow /\ list'.songs = new /\ (list'.on <=> list.on) /\ list'.v = list.v
    BY <1>2, <2>4 DEF ListRow
  <2>6. ListTypes'
    BY <1>0, <1>1, <1>4, <2>3, <2>4, <2>5, ListGoes DEF ListTypes
  <2>7. SavesKept'
    BY <1>1, <1>4, <2>3, <2>5, SavesAlone
  <2>8. ASSUME NEW q \in ListOps PROVE OrderOf(plops[q])'
    <3>1. plops'[o] = NoListOp /\ (q # o => plops'[q] = plops[q])
      BY <1>0, <1>1, <1>4, ListGoes
    <3>2. CASE q = o
      BY <1>4, <3>1, <3>2 DEF OrderOf
    <3>3. CASE q # o
      <4>1. OrderOf(plops[q])
        BY DEF PlaylistInv, SongsKept
      <4>2. plops[q].at = "order" => crossed'.order
        BY <2>1, <2>3 DEF LUnder
      <4> QED BY <2>5, <3>1, <3>3, <4>1, <4>2 DEF OrderOf
    <3> QED BY <3>2, <3>3
  <2>9. ~crossed'.order => In(list.songs) = kept
    BY <1>7, <2>1, <2>3 DEF PlaylistInv, SongsKept
  <2>10. SongsKept'
    BY <2>4, <2>5, <2>8, <2>9 DEF SongsKept
  <2> QED BY <2>6, <2>7, <2>10 DEF PlaylistInv
<1> QED BY <1>6, <1>7

(* An order is saved, if nothing was saved since it was read. *)
LEMMA OrderKeeps == ASSUME PlaylistInv, NEW o \in ListOps, saveOrder(o) PROVE PlaylistInv'
<1>0. ListTypes
  BY DEF PlaylistInv
<1>1. plops[o].at = "order" /\ LTo(o, NoListOp) /\ UNCHANGED <<alive, savedBy, savedCount, kept, crossed>>
  BY DEF saveOrder, LEnd
<1>2. plops[o] \in ListOp /\ list \in ListRow
  BY <1>0 DEF ListTypes
<1>3. PICK songs \in Seq(Songs), v \in Nat : plops[o].songs = songs /\ plops[o].v = v
  BY <1>1, <1>2, ListOpIs
<1>4. NoListOp \in ListOp /\ NoListOp.at = "idle" /\ OrderOf(NoListOp)'
  BY ListOpIs DEF OrderOf
<1>5. OrderOf(plops[o])
  BY DEF PlaylistInv, SongsKept
<1>6. CASE list' = list
  <2>1. SongsKept'
    BY <1>1, <1>4, <1>6, SongsAlone
  <2>2. SavesKept'
    BY <1>1, <1>4, <1>6, SavesAlone
  <2>3. ListTypes'
    BY <1>0, <1>1, <1>4, <1>6, ListGoes DEF ListTypes
  <2> QED BY <2>1, <2>2, <2>3 DEF PlaylistInv
<1>7. CASE list.on /\ list.v = v /\ list' = [list EXCEPT !.songs = songs, !.v = @ + 1]
  <2>1. list' \in ListRow /\ list'.songs = songs /\ list'.v = v + 1 /\ (list'.on <=> list.on)
    <3>1. PICK w \in Nat : w = v + 1
      OBVIOUS
    <3>2. list' = [list EXCEPT !.songs = songs, !.v = w]
      BY <1>7, <3>1
    <3>3. list' \in ListRow /\ list'.songs = songs /\ list'.v = w /\ (list'.on <=> list.on)
      BY <1>2, <3>2 DEF ListRow
    <3> QED BY <3>1, <3>3
  <2>2. ListTypes'
    BY <1>0, <1>1, <1>4, <2>1, ListGoes DEF ListTypes
  <2>3. SavesKept'
    BY <1>1, <1>4, <2>1, SavesAlone
  <2>4. Once(songs) /\ (~crossed.order => In(songs) = In(list.songs))
    BY <1>1, <1>3, <1>5, <1>7 DEF OrderOf
  <2>5. ASSUME NEW q \in ListOps PROVE OrderOf(plops[q])'
    <3>1. plops'[o] = NoListOp /\ (q # o => plops'[q] = plops[q])
      BY <1>0, <1>1, <1>4, ListGoes
    <3>2. CASE q = o
      BY <1>4, <3>1, <3>2 DEF OrderOf
    <3>3. CASE q # o
      <4>1. OrderOf(plops[q]) /\ plops[q] \in ListOp
        BY <1>0 DEF PlaylistInv, SongsKept, ListTypes
      <4>2. ASSUME plops[q].at = "order" PROVE plops[q].v \in Nat /\ plops[q].v <= list'.v /\ plops[q].v # list'.v
        <5>1. plops[q].v \in Nat /\ plops[q].v <= v
          BY <1>7, <4>1, <4>2, ListOpIs DEF OrderOf
        <5> QED BY <2>1, <5>1
      <4> QED BY <3>1, <3>3, <4>1, <4>2 DEF OrderOf
    <3> QED BY <3>2, <3>3
  <2>6. SongsKept'
    BY <1>1, <1>7, <2>1, <2>4, <2>5 DEF PlaylistInv, SongsKept
  <2> QED BY <2>2, <2>3, <2>6 DEF PlaylistInv
<1> QED BY <1>3, <1>6, <1>7 DEF saveOrder

(* The playlist is saved and let go, and goes with its saves. *)
LEMMA SavesChange ==
  ASSUME PlaylistInv, NEW o \in ListOps,
         \/ createSave(o) \/ countSave(o) \/ (\E u \in Savers : unsavePlaylist(o, u)) \/ uncountSave(o)
         \/ deleteSaves(o) \/ deleteList(o)
  PROVE  PlaylistInv'
<1>0. ListTypes
  BY DEF PlaylistInv
<1>1. plops[o] \in ListOp /\ list \in ListRow /\ crossed \in [order : BOOLEAN, save : BOOLEAN]
      /\ savedCount \in Nat /\ IsFiniteSet(savedBy)
  BY <1>0 DEF ListTypes
<1>2. UNCHANGED <<alive, kept>>
  BY DEF createSave, countSave, unsavePlaylist, uncountSave, deleteSaves, deleteList
<1>3. list' \in ListRow /\ list'.songs = list.songs /\ (list'.on => list.on) /\ list'.v = list.v
      /\ (~deleteList(o) => list' = list)
  BY <1>1 DEF createSave, countSave, unsavePlaylist, uncountSave, deleteSaves, deleteList, ListRow
<1>4. PICK b \in BOOLEAN :
        crossed' = [crossed EXCEPT !.save = b]
        /\ b = (crossed.save \/ (createSave(o) /\ ~list.on) \/ (uncountSave(o) /\ list.on /\ savedCount = 0)
                \/ (deleteList(o) /\ savedBy # {}))
  <2>1. crossed = [crossed EXCEPT !.save = crossed.save]
    BY <1>1
  <2>2. CASE createSave(o)
    <3>1. PICK b \in BOOLEAN : b = (crossed.save \/ ~list.on)
      OBVIOUS
    <3>2. crossed' = [crossed EXCEPT !.save = b] /\ ~uncountSave(o) /\ ~deleteList(o)
      BY <1>1, <2>2, <3>1 DEF createSave, uncountSave, deleteList
    <3> QED BY <2>2, <3>1, <3>2
  <2>3. CASE uncountSave(o)
    <3>1. PICK b \in BOOLEAN : b = (crossed.save \/ (list.on /\ savedCount = 0))
      OBVIOUS
    <3>2. crossed' = [crossed EXCEPT !.save = b] /\ ~createSave(o) /\ ~deleteList(o)
      BY <1>1, <2>3, <3>1 DEF createSave, uncountSave, deleteList
    <3> QED BY <2>3, <3>1, <3>2
  <2>4. CASE deleteList(o)
    <3>1. PICK b \in BOOLEAN : b = (crossed.save \/ savedBy # {})
      OBVIOUS
    <3>2. crossed' = [crossed EXCEPT !.save = b] /\ ~createSave(o) /\ ~uncountSave(o)
      BY <1>1, <2>4, <3>1 DEF createSave, uncountSave, deleteList
    <3> QED BY <2>4, <3>1, <3>2
  <2>5. CASE ~createSave(o) /\ ~uncountSave(o) /\ ~deleteList(o)
    <3>1. crossed' = crossed /\ crossed.save \in BOOLEAN
      BY <1>1, <2>5 DEF countSave, unsavePlaylist, deleteSaves
    <3> QED BY <2>1, <2>5, <3>1
  <2> QED BY <2>2, <2>3, <2>4, <2>5
<1>5. crossed' \in [order : BOOLEAN, save : BOOLEAN] /\ crossed'.order = crossed.order /\ crossed'.save = b
  BY <1>1, <1>4
<1>6. PICK op \in ListOp :
        /\ LTo(o, op) /\ op.at # "order"
        /\ op.at = "count" <=> createSave(o) /\ plops[o].by \notin savedBy
        /\ op.at = "uncount" <=> \E u \in Savers : unsavePlaylist(o, u)
        /\ op.at = "list" <=> deleteSaves(o)
  <2>0. \A at \in {"count", "uncount", "list"} : [at |-> at] \in ListOp
    BY DEF ListOp
  <2>1. CASE createSave(o) /\ plops[o].by \notin savedBy
    <3>1. LTo(o, [at |-> "count"]) /\ plops[o].at = "save"
      BY <2>1 DEF createSave
    <3>2. ~deleteSaves(o) /\ ~\E u \in Savers : unsavePlaylist(o, u)
      BY <3>1, ListOpIs DEF deleteSaves, unsavePlaylist, LFree
    <3> QED BY <2>0, <2>1, <3>1, <3>2
  <2>2. CASE \E u \in Savers : unsavePlaylist(o, u)
    <3>1. LTo(o, [at |-> "uncount"]) /\ plops[o] = NoListOp
      BY <2>2 DEF unsavePlaylist, LFree
    <3>2. ~deleteSaves(o) /\ ~createSave(o)
      BY <3>1, ListOpIs DEF deleteSaves, createSave
    <3> QED BY <2>0, <2>2, <3>1, <3>2
  <2>3. CASE deleteSaves(o)
    <3>1. LTo(o, [at |-> "list"]) /\ plops[o].at = "savedBy"
      BY <2>3 DEF deleteSaves
    <3>2. ~createSave(o) /\ ~\E u \in Savers : unsavePlaylist(o, u)
      BY <3>1, ListOpIs DEF createSave, unsavePlaylist, LFree
    <3> QED BY <2>0, <2>3, <3>1, <3>2
  <2>4. CASE /\ ~(createSave(o) /\ plops[o].by \notin savedBy)
             /\ ~(\E u \in Savers : unsavePlaylist(o, u)) /\ ~deleteSaves(o)
    <3>1. LTo(o, NoListOp)
      BY <2>4 DEF createSave, countSave, uncountSave, deleteList, LEnd
    <3> QED BY <2>4, <3>1, ListOpIs
  <2> QED BY <2>1, <2>2, <2>3, <2>4
<1>7. OrderOf(op)'
  BY <1>6 DEF OrderOf
<1>8. SongsKept'
  BY <1>2, <1>3, <1>5, <1>6, <1>7, SongsAlone
<1>9. ListTypes'
  <2>1. savedBy' \in SUBSET Savers /\ IsFiniteSet(savedBy')
    <3>1. CASE createSave(o)
      <4>1. plops[o].by \in Savers
        BY <1>1, <3>1, ListOpIs DEF createSave
      <4>2. savedBy' = savedBy \/ savedBy' = savedBy \cup {plops[o].by}
        BY <3>1 DEF createSave
      <4> QED BY <1>0, <1>1, <4>1, <4>2, FS_AddElement DEF ListTypes
    <3>2. CASE ~createSave(o)
      <4>1. savedBy' \in SUBSET savedBy
        BY <3>2 DEF countSave, unsavePlaylist, uncountSave, deleteSaves, deleteList
      <4> QED BY <1>0, <1>1, <4>1, FS_Subset DEF ListTypes
    <3> QED BY <3>1, <3>2
  <2>2. savedCount' \in Nat
    BY <1>1 DEF createSave, countSave, unsavePlaylist, uncountSave, deleteSaves, deleteList
  <2> QED BY <1>0, <1>2, <1>3, <1>5, <1>6, <2>1, <2>2, ListGoes DEF ListTypes
<1>10. /\ Cardinality(LUnder({"count"})') = Cardinality(LUnder({"count"}))
            + (IF op.at \in {"count"} THEN 1 ELSE 0) - (IF plops[o].at \in {"count"} THEN 1 ELSE 0)
       /\ Cardinality(LUnder({"uncount"})') = Cardinality(LUnder({"uncount"}))
            + (IF op.at \in {"uncount"} THEN 1 ELSE 0) - (IF plops[o].at \in {"uncount"} THEN 1 ELSE 0)
  BY <1>0, <1>6, UnderGoes
<1>11. Cardinality(LUnder({"count"})) \in Nat /\ Cardinality(LUnder({"uncount"})) \in Nat
  BY UnderFinite
<1>12. Cardinality(savedBy) \in Nat
  BY <1>1, FS_CardinalityType
<1>13. SavesKept'
  <2> SUFFICES ASSUME ~b
               PROVE  /\ list'.on /\ LUnder({"list"})' = {} =>
                           savedCount' + Cardinality(LUnder({"count"})') = Cardinality(savedBy') + Cardinality(LUnder({"uncount"})')
                      /\ ~list'.on => savedBy' = {}
    BY <1>5 DEF SavesKept
  <2>1. ~crossed.save
    BY <1>4
  <2>2. ASSUME ~list'.on PROVE savedBy' = {}
    <3>1. CASE deleteList(o)
      BY <1>4, <3>1 DEF deleteList
    <3>2. CASE ~deleteList(o)
      <4>1. ~list.on /\ ~createSave(o)
        BY <1>3, <1>4, <2>2, <3>2
      <4>2. savedBy = {}
        BY <2>1, <4>1 DEF PlaylistInv, SavesKept
      <4> QED BY <3>2, <4>1, <4>2 DEF countSave, unsavePlaylist, uncountSave, deleteSaves
    <3> QED BY <3>1, <3>2
  <2>3. ASSUME list'.on, LUnder({"list"})' = {}
        PROVE  savedCount' + Cardinality(LUnder({"count"})') = Cardinality(savedBy') + Cardinality(LUnder({"uncount"})')
    <3>1. ~deleteList(o) /\ list.on
      BY <1>1, <1>3, <2>3 DEF deleteList, ListRow
    <3>2. op.at # "list" /\ LUnder({"list"}) = {}
      <4>1. plops'[o] = op /\ \A q \in ListOps \ {o} : plops'[q] = plops[q]
        BY <1>0, <1>6, ListGoes
      <4>2. plops[o].at # "list"
        BY <3>1, ListOpIs DEF createSave, countSave, unsavePlaylist, uncountSave, deleteSaves, LFree
      <4> QED BY <2>3, <4>1, <4>2 DEF LUnder
    <3>3. savedCount + Cardinality(LUnder({"count"})) = Cardinality(savedBy) + Cardinality(LUnder({"uncount"}))
      BY <2>1, <3>1, <3>2 DEF PlaylistInv, SavesKept
    <3>4. CASE createSave(o)
      <4>1. plops[o].at = "save" /\ savedCount' = savedCount
        BY <3>4 DEF createSave
      <4>2. op.at # "uncount"
        BY <1>6, <4>1, ListOpIs DEF unsavePlaylist, LFree
      <4>3. CASE plops[o].by \in savedBy
        <5>1. savedBy' = savedBy /\ op.at # "count"
          BY <1>6, <3>4, <4>3 DEF createSave
        <5> QED BY <1>10, <1>11, <3>3, <4>1, <4>2, <5>1
      <4>4. CASE plops[o].by \notin savedBy
        <5>1. savedBy' = savedBy \cup {plops[o].by} /\ op.at = "count"
          BY <1>6, <3>4, <4>4 DEF createSave
        <5>2. Cardinality(savedBy \cup {plops[o].by}) = Cardinality(savedBy) + 1
          BY <1>1, <4>4, FS_AddElement
        <5> QED BY <1>1, <1>10, <1>11, <1>12, <3>3, <4>1, <4>2, <5>1, <5>2
      <4> QED BY <4>3, <4>4
    <3>5. CASE countSave(o)
      <4>1. plops[o].at = "count" /\ savedCount' = savedCount + 1 /\ savedBy' = savedBy
        BY <3>1, <3>5 DEF countSave
      <4>2. op.at \notin {"count", "uncount"}
        BY <1>6, <4>1, ListOpIs DEF createSave, unsavePlaylist, LFree
      <4> QED BY <1>1, <1>10, <1>11, <1>12, <3>3, <4>1, <4>2
    <3>6. ASSUME NEW u \in Savers, unsavePlaylist(o, u)
          PROVE  savedCount' + Cardinality(LUnder({"count"})') = Cardinality(savedBy') + Cardinality(LUnder({"uncount"})')
      <4>1. plops[o].at = "idle" /\ savedCount' = savedCount /\ savedBy' = savedBy \ {u} /\ u \in savedBy
        BY <3>6, ListOpIs DEF unsavePlaylist, LFree
      <4>2. op.at = "uncount"
        BY <1>6, <3>6
      <4>3. Cardinality(savedBy \ {u}) = Cardinality(savedBy) - 1
        BY <1>1, <4>1, FS_RemoveElement
      <4> QED BY <1>1, <1>10, <1>11, <1>12, <3>3, <4>1, <4>2, <4>3
    <3>7. CASE uncountSave(o)
      <4>1. plops[o].at = "uncount" /\ savedBy' = savedBy /\ savedCount # 0
        BY <1>4, <3>1, <3>7 DEF uncountSave
      <4>2. savedCount' = savedCount - 1
        BY <1>1, <3>1, <3>7, <4>1 DEF uncountSave
      <4>3. op.at \notin {"count", "uncount"}
        BY <1>6, <4>1, ListOpIs DEF createSave, unsavePlaylist, LFree
      <4> QED BY <1>1, <1>10, <1>11, <1>12, <3>3, <4>1, <4>2, <4>3
    <3>8. ~deleteSaves(o)
      BY <1>6, <3>2
    <3> QED BY <3>1, <3>4, <3>5, <3>6, <3>7, <3>8
  <2> QED BY <2>2, <2>3
<1> QED BY <1>8, <1>9, <1>13 DEF PlaylistInv

LEMMA PlaylistStep == PlaylistInv /\ [PlaylistNext]_playlistVars => PlaylistInv'
<1> SUFFICES ASSUME PlaylistInv, [PlaylistNext]_playlistVars PROVE PlaylistInv'
  OBVIOUS
<1>0. ListTypes
  BY DEF PlaylistInv
<1>1. ASSUME UNCHANGED <<list, savedBy, savedCount, plops, kept, crossed>>, alive' \in SUBSET Songs
      PROVE  PlaylistInv'
  <2>1. ListTypes'
    BY <1>0, <1>1 DEF ListTypes
  <2>2. SongsKept' /\ SavesKept'
    BY <1>1 DEF PlaylistInv, SongsKept, SavesKept, OrderOf, LUnder
  <2> QED BY <2>1, <2>2 DEF PlaylistInv
<1>2. ASSUME NEW o \in ListOps, Listing(o) PROVE PlaylistInv'
  <2>1. ASSUME NEW song \in Songs, projectGone(song) PROVE PlaylistInv'
    BY <1>0, <1>1, <2>1 DEF projectGone, ListTypes
  <2>2. ASSUME NEW mode \in {"MANUAL", "STARS"}, readUpdate(o, list.public, mode) PROVE PlaylistInv'
    <3>1. list.public \in BOOLEAN /\ mode \in Modes
      BY <1>0 DEF ListTypes, ListRow, Modes
    <3> QED BY <2>2, <3>1, ReadersKeep
  <2> QED BY <1>2, <2>1, <2>2, ReadersKeep, SongsChange, OrderKeeps, UpdateKeeps DEF Listing
<1>3. ASSUME NEW o \in ListOps, Saving(o) PROVE PlaylistInv'
  <2>1. ASSUME NEW public \in BOOLEAN, readUpdate(o, public, list.mode) PROVE PlaylistInv'
    <3>1. list.mode \in Modes
      BY <1>0 DEF ListTypes, ListRow
    <3> QED BY <2>1, <3>1, ReadersKeep
  <2> QED BY <1>3, <2>1, ReadersKeep, SavesChange, UpdateKeeps DEF Saving
<1>4. CASE UNCHANGED playlistVars
  BY <1>0, <1>1, <1>4 DEF playlistVars, ListTypes
<1> QED BY <1>2, <1>3, <1>4 DEF PlaylistNext

(* No song is listed twice; the list is what was added and not removed,
   through every order saved beside, unless an addition or a removal came
   while one waited; and the count is of the saves, of which none outlives
   the playlist, unless a save crossed its deletion or an unsave came
   before its count: for any songs, savers and handlers (addProject,
   removeProject, reorderPlaylist, savePlaylist, deletePlaylist). *)
THEOREM PlaylistsAlwaysAgree == PlaylistSpec => []PlaylistsAgree
<1>1. PlaylistInit => PlaylistInv
  BY PlaylistBegins
<1>2. PlaylistInv /\ [PlaylistNext]_playlistVars => PlaylistInv'
  BY PlaylistStep
<1>3. PlaylistInv => PlaylistsAgree
  <2> SUFFICES ASSUME PlaylistInv PROVE PlaylistsAgree
    OBVIOUS
  <2>1. /\ \A i, j \in 1 .. Len(list.songs) : i # j => list.songs[i] # list.songs[j]
        /\ list.on /\ ~crossed.order => SongsOf(list) = kept
    BY DEF PlaylistInv, SongsKept, Once, In, SongsOf
  <2>2. ASSUME \A o \in ListOps : LFree(o), ~crossed.save
        PROVE  IF list.on THEN savedCount = Cardinality(savedBy) ELSE savedBy = {}
    <3>1. LUnder({"count"}) = {} /\ LUnder({"uncount"}) = {} /\ LUnder({"list"}) = {}
      BY <2>2, ListOpIs DEF LUnder, LFree
    <3>2. Cardinality({}) = 0
      BY FS_EmptySet
    <3>3. savedCount \in Nat /\ Cardinality(savedBy) \in Nat
      BY FS_CardinalityType DEF PlaylistInv, ListTypes
    <3> QED BY <2>2, <3>1, <3>2, <3>3 DEF PlaylistInv, SavesKept
  <2> QED BY <2>1, <2>2 DEF PlaylistsAgree
<1> QED BY <1>1, <1>2, <1>3, PTL DEF PlaylistSpec

(* Whichever of them a behaviour is of, the counts beside projects, forks,
   stars and shares are those of the rows, and a playlist lists what was
   put there. *)
THEOREM CountsAlwaysAgree == ProjectsSpec => []CountsAgree
<1>1. ProjectsInit => LibraryInit /\ StarInit /\ PlaylistInit
  BY DEF ProjectsInit
<1>2. [ProjectsNext]_<<focus, libraryVars, starVars, savesVars, mediaVars, playlistVars>>
      => [LibraryNext]_libraryVars /\ [StarNext]_starVars /\ [PlaylistNext]_playlistVars
  <2>1. /\ LibraryFocus => LibraryNext
        /\ StarFocus => StarNext
        /\ PlaylistFocus => PlaylistNext
    BY DEF LibraryFocus, LibraryNext, StarFocus, StarNext, PlaylistFocus, PlaylistNext
  <2> QED BY <2>1 DEF ProjectsNext
<1> QED
  BY <1>1, <1>2, LibraryAlwaysAgrees, StarsAlwaysAgree, PlaylistsAlwaysAgree, PTL
  DEF ProjectsSpec, LibrarySpec, StarSpec, PlaylistSpec, CountsAgree

-----------------------------------------------------------------------------
(* Rows in an order, and their pages. *)
Sorts(order, rows) ==
    /\ \A q, r \in rows : q # r => <<q, r>> \in order \/ <<r, q>> \in order
    /\ \A r \in rows : <<r, r>> \notin order
    /\ \A p, q, r \in rows : <<p, q>> \in order /\ <<q, r>> \in order => <<p, r>> \in order

LEMMA RanksRise ==
    ASSUME NEW rows, IsFiniteSet(rows), NEW order, Sorts(order, rows)
    PROVE  /\ Cardinality(rows) \in Nat
           /\ \A r \in rows : Rank(r, rows, order) \in 0 .. Cardinality(rows) - 1
           /\ \A q, r \in rows : Rank(q, rows, order) < Rank(r, rows, order) => <<q, r>> \in order
           /\ \A q, r \in rows : Rank(q, rows, order) = Rank(r, rows, order) => q = r
  <1>0. Cardinality(rows) \in Nat
    BY FS_CardinalityType
  <1>1. ASSUME NEW r \in rows
        PROVE  /\ IsFiniteSet({q \in rows : <<q, r>> \in order})
               /\ Rank(r, rows, order) \in 0 .. Cardinality(rows) - 1
    <2> DEFINE before == {q \in rows : <<q, r>> \in order}
    <2>1. before \in SUBSET rows /\ before # rows
      BY DEF Sorts
    <2>2. IsFiniteSet(before) /\ Cardinality(before) <= Cardinality(rows) /\ Cardinality(before) # Cardinality(rows)
      BY <2>1, FS_Subset
    <2>3. Cardinality(before) \in Nat
      BY <2>2, FS_CardinalityType
    <2>4. Rank(r, rows, order) = Cardinality(before)
      BY DEF Rank
    <2> HIDE DEF before
    <2>5. Cardinality(before) \in 0 .. Cardinality(rows) - 1
      BY <1>0, <2>2, <2>3
    <2> QED BY <2>2, <2>4, <2>5 DEF before
  <1>2. ASSUME NEW q \in rows, NEW r \in rows, <<q, r>> \in order
        PROVE  Rank(q, rows, order) < Rank(r, rows, order)
    <2> DEFINE low == {p \in rows : <<p, q>> \in order}
               high == {p \in rows : <<p, r>> \in order}
    <2>1. low \in SUBSET high /\ q \in high /\ q \notin low
      BY <1>2 DEF Sorts
    <2>2. IsFiniteSet(high) /\ IsFiniteSet(low)
      BY <1>1
    <2>3. Rank(q, rows, order) = Cardinality(low) /\ Rank(r, rows, order) = Cardinality(high)
      BY DEF Rank
    <2> HIDE DEF low, high
    <2>4. Cardinality(low) <= Cardinality(high) /\ Cardinality(low) # Cardinality(high)
      BY <2>1, <2>2, FS_Subset
    <2>5. Cardinality(low) \in Nat /\ Cardinality(high) \in Nat
      BY <2>2, FS_CardinalityType
    <2> QED BY <2>3, <2>4, <2>5
  <1>3. \A r \in rows : Rank(r, rows, order) \in Int
    <2> TAKE r \in rows
    <2>1. Rank(r, rows, order) \in 0 .. Cardinality(rows) - 1
      BY <1>1
    <2> QED BY <2>1
  <1>4. \A q, r \in rows : Rank(q, rows, order) < Rank(r, rows, order) => <<q, r>> \in order
    <2> TAKE q, r \in rows
    <2>1. <<r, q>> \in order => Rank(r, rows, order) < Rank(q, rows, order)
      BY <1>2
    <2>2. q = r => Rank(q, rows, order) = Rank(r, rows, order)
      OBVIOUS
    <2>3. q # r => <<q, r>> \in order \/ <<r, q>> \in order
      BY DEF Sorts
    <2> QED BY <2>1, <2>2, <2>3, <1>3
  <1>5. \A q, r \in rows : Rank(q, rows, order) = Rank(r, rows, order) => q = r
    <2> TAKE q, r \in rows
    <2>1. /\ <<r, q>> \in order => Rank(r, rows, order) < Rank(q, rows, order)
          /\ <<q, r>> \in order => Rank(q, rows, order) < Rank(r, rows, order)
      BY <1>2
    <2>3. q # r => <<q, r>> \in order \/ <<r, q>> \in order
      BY DEF Sorts
    <2> QED BY <2>1, <2>3, <1>3
  <1> QED BY <1>0, <1>1, <1>4, <1>5

(* A page is no longer than the limit. *)
LEMMA PagesFit ==
    ASSUME NEW rows, IsFiniteSet(rows), NEW order, Sorts(order, rows), NEW n \in Nat, PageLimit \in Nat \ {0},
           NEW page \in SUBSET PageOf(rows, order, n).rows
    PROVE  Cardinality(page) <= PageLimit
  <1> DEFINE place == [r \in page |-> Rank(r, rows, order)]
  <1>1. \A r \in page : r \in rows /\ Rank(r, rows, order) \in n .. n + PageLimit - 1
    BY DEF PageOf
  <1>2. place \in Injection(page, n .. n + PageLimit - 1)
    BY <1>1, RanksRise DEF Injection, IsInjective
  <1>3. IsFiniteSet(n .. n + PageLimit - 1) /\ Cardinality(n .. n + PageLimit - 1) = PageLimit
    <2>1. n \in Int /\ n + PageLimit - 1 \in Int
      OBVIOUS
    <2> QED BY <2>1, FS_Interval
  <1> HIDE DEF place
  <1> QED BY <1>2, <1>3, FS_Injection

LEMMA Multiples ==
    ASSUME NEW L \in Nat \ {0}
    PROVE  /\ \A j, k \in Nat : j < k => j * L + L <= k * L
           /\ \A q \in Nat : \E k \in 0 .. q : k * L <= q /\ q <= k * L + L - 1
           /\ \A k \in Nat : k * L \in Nat
  <1>1. ASSUME NEW j \in Nat, NEW k \in Nat, j < k
        PROVE  j * L + L <= k * L
    <2>1. (k - j - 1) * L >= 0
      BY <1>1
    <2>2. (k - j - 1) * L = k * L - j * L - L
      BY <1>1
    <2>3. k * L \in Int /\ j * L \in Int
      OBVIOUS
    <2> QED BY <2>1, <2>2, <2>3
  <1>2. ASSUME NEW q \in Nat
        PROVE  \E k \in 0 .. q : k * L <= q /\ q <= k * L + L - 1
    <2>1. q = L * (q \div L) + (q % L) /\ q % L \in 0 .. L - 1 /\ q \div L \in Nat
      OBVIOUS
    <2>2. PICK k \in Nat : k = q \div L
      BY <2>1
    <2>3. (L - 1) * k >= 0
      <3>1. PICK l \in Nat : l = L - 1
        OBVIOUS
      <3>2. l * k >= 0
        OBVIOUS
      <3> QED BY <3>1, <3>2
    <2>6. (L - 1) * k = L * k - k
      OBVIOUS
    <2>4. L * k \in Int /\ k * L = L * k
      OBVIOUS
    <2>5. k \in 0 .. q /\ k * L <= q /\ q <= k * L + L - 1
      BY <2>1, <2>2, <2>3, <2>4, <2>6
    <2> QED BY <2>5
  <1>3. \A k \in Nat : k * L \in Nat
    OBVIOUS
  <1> QED BY <1>1, <1>2, <1>3

(* Who pages on has seen all of the rows a page may show, in order. *)
LEMMA PagesAll ==
    ASSUME NEW rows, IsFiniteSet(rows), NEW order, Sorts(order, rows), PageLimit \in Nat \ {0},
           NEW N \in Nat, Cardinality(rows) <= N, NEW may \in SUBSET rows,
           NEW page, DOMAIN page = 0 .. N,
           \A k \in 0 .. N : /\ page[k].rows = PageOf(rows, order, k * PageLimit).rows \cap may
                             /\ (page[k].hasMore <=> PageOf(rows, order, k * PageLimit).hasMore)
    PROVE  Complete(page, may, order)
  <1>0. /\ Cardinality(rows) \in Nat /\ \A r \in rows : Rank(r, rows, order) \in 0 .. Cardinality(rows) - 1
        /\ \A q, r \in rows : Rank(q, rows, order) < Rank(r, rows, order) => <<q, r>> \in order
    BY RanksRise
  <1>1. /\ \A j, k \in Nat : j < k => j * PageLimit + PageLimit <= k * PageLimit
        /\ \A q \in Nat : \E k \in 0 .. q : k * PageLimit <= q /\ q <= k * PageLimit + PageLimit - 1
        /\ \A k \in Nat : k * PageLimit \in Nat
    BY Multiples
  <1>2. \A k \in 0 .. N : \A r : r \in page[k].rows <=>
            r \in may /\ Rank(r, rows, order) \in k * PageLimit .. k * PageLimit + PageLimit - 1
    BY DEF PageOf
  <1>3. \A k \in 0 .. N : page[k].hasMore <=> Cardinality(rows) > k * PageLimit + PageLimit
    BY DEF PageOf
  <1>4. ASSUME NEW r \in may
        PROVE  \E k \in Paged(page) : r \in page[k].rows
    <2>1. PICK q \in Nat : q = Rank(r, rows, order)
      BY <1>0
    <2>2. PICK k \in 0 .. q : k * PageLimit <= q /\ q <= k * PageLimit + PageLimit - 1
      BY <1>1
    <2>3. q < Cardinality(rows) /\ k \in 0 .. N /\ k \in Nat /\ k * PageLimit \in Nat
      <3>1. q \in 0 .. Cardinality(rows) - 1
        BY <1>0, <2>1
      <3>2. k \in Nat /\ k <= q /\ q < Cardinality(rows)
        BY <3>1, <1>0
      <3> QED BY <3>2, <1>0, <1>1
    <2>4. \A j \in 0 .. k - 1 : page[j].hasMore
      <3> TAKE j \in 0 .. k - 1
      <3>1. j \in Nat /\ j < k /\ j \in 0 .. N /\ j * PageLimit \in Nat
        BY <2>3, <1>1
      <3>2. j * PageLimit + PageLimit <= k * PageLimit
        BY <3>1, <2>3, <1>1
      <3>3. Cardinality(rows) > j * PageLimit + PageLimit
        <4>1. PICK a \in Nat, b \in Nat : a = j * PageLimit /\ b = k * PageLimit
          BY <3>1, <2>3
        <4>2. a + PageLimit <= b /\ b <= q /\ q < Cardinality(rows)
          BY <4>1, <3>2, <2>2, <2>3
        <4>3. Cardinality(rows) > a + PageLimit
          BY <4>2, <1>0
        <4> QED BY <4>1, <4>3
      <3> QED BY <3>1, <3>3, <1>3
    <2>5. r \in page[k].rows
      <3>1. q \in k * PageLimit .. k * PageLimit + PageLimit - 1
        BY <2>2, <2>3
      <3> QED BY <3>1, <2>1, <2>3, <1>2
    <2> QED BY <2>3, <2>4, <2>5 DEF Paged
  <1>5. UNION {page[k].rows : k \in Paged(page)} = may
    BY <1>2, <1>4 DEF Paged
  <1>6. ASSUME NEW j \in Paged(page), NEW k \in Paged(page), j < k,
               NEW q \in page[j].rows, NEW r \in page[k].rows
        PROVE  <<q, r>> \in order
    <2>1. j \in 0 .. N /\ k \in 0 .. N /\ j \in Nat /\ k \in Nat
      BY DEF Paged
    <2>2. q \in rows /\ r \in rows /\ Rank(q, rows, order) \in j * PageLimit .. j * PageLimit + PageLimit - 1
          /\ Rank(r, rows, order) \in k * PageLimit .. k * PageLimit + PageLimit - 1
      BY <2>1, <1>2
    <2>3. j * PageLimit + PageLimit <= k * PageLimit /\ j * PageLimit \in Nat /\ k * PageLimit \in Nat
      BY <1>6, <2>1, <1>1
    <2>4. Rank(q, rows, order) < Rank(r, rows, order)
      BY <2>2, <2>3
    <2> QED BY <2>2, <2>4, <1>0
  <1>7. \A k \in Paged(page) : Cardinality(page[k].rows) <= PageLimit
    <2> TAKE k \in Paged(page)
    <2>1. k \in 0 .. N /\ k * PageLimit \in Nat
      BY <1>1 DEF Paged
    <2>2. page[k].rows \in SUBSET PageOf(rows, order, k * PageLimit).rows
      BY <2>1
    <2> QED BY <2>1, <2>2, PagesFit
  <1>8. \A j, k \in Paged(page) : j < k => page[j].rows \X page[k].rows \subseteq order
    <2> TAKE j, k \in Paged(page)
    <2> HAVE j < k
    <2>1. \A p \in page[j].rows \X page[k].rows : p = <<p[1], p[2]>> /\ p[1] \in page[j].rows /\ p[2] \in page[k].rows
      OBVIOUS
    <2> QED BY <2>1, <1>6
  <1> QED BY <1>5, <1>7, <1>8 DEF Complete

(* The flags follow the standing, and no edge to follow crosses a block. *)
ShownInv ==
    /\ state \in [Folk -> SUBSET {"deleted", "banned", "search", "feed"}]
    /\ ownerFlags = [u \in Folk |-> OwnerFlags(state[u])]
    /\ published \in [Folk -> [project : BOOLEAN, playlist : BOOLEAN]]
    /\ follow \subseteq Folk \X Folk /\ block \subseteq Folk \X Folk
    /\ \A u \in Folk : <<u, u>> \notin block
    /\ \A u, v \in Folk : <<u, v>> \in follow => <<u, v>> \notin block /\ <<v, u>> \notin block

LEMMA ShownBegins == DiscoveryInit => ShownInv
  BY DEF DiscoveryInit, ShownInv

LEMMA ShownStep == ShownInv /\ [DiscoveryNext]_discoveryVars => ShownInv'
  <1> SUFFICES ASSUME ShownInv, DiscoveryNext
               PROVE  ShownInv'
    BY DEF ShownInv, discoveryVars
  <1> PICK u \in Folk :
        \/ \E what \in {"deleted", "banned", "search", "feed"} : setState(u, what)
        \/ \E what \in {"project", "playlist"} : makePublic(u, what)
        \/ \E v \in Folk : followUser(u, v) \/ unfollow(u, v) \/ blockUser(u, v) \/ unblockUser(u, v)
        \/ UNCHANGED <<state, ownerFlags, published, follow, block>>
    BY DEF DiscoveryNext, updatePreferences
  <1>1. ASSUME NEW what \in {"deleted", "banned", "search", "feed"}, setState(u, what)
        PROVE  ShownInv'
    <2>1. PICK s \in SUBSET {"deleted", "banned", "search", "feed"} : state' = [state EXCEPT ![u] = s]
      BY <1>1 DEF setState, ShownInv
    <2>2. ownerFlags' = [w \in Folk |-> OwnerFlags(state'[w])]
      BY <1>1, <2>1 DEF setState, ShownInv
    <2> QED BY <1>1, <2>1, <2>2 DEF setState, ShownInv
  <1>2. ASSUME NEW what \in {"project", "playlist"}, makePublic(u, what)
        PROVE  ShownInv'
    <2>1. PICK r \in [project : BOOLEAN, playlist : BOOLEAN] : published' = [published EXCEPT ![u] = r]
      <3>1. CASE what = "project"
        BY <1>2, <3>1 DEF makePublic, ShownInv
      <3>2. CASE what = "playlist"
        BY <1>2, <3>2 DEF makePublic, ShownInv
      <3> QED BY <3>1, <3>2
    <2> QED BY <1>2, <2>1 DEF makePublic, ShownInv
  <1>3. ASSUME NEW v \in Folk, followUser(u, v)
        PROVE  ShownInv'
    BY <1>3 DEF followUser, ShownInv
  <1>4. ASSUME NEW v \in Folk, unfollow(u, v)
        PROVE  ShownInv'
    BY <1>4 DEF unfollow, ShownInv
  <1>5. ASSUME NEW v \in Folk, blockUser(u, v)
        PROVE  ShownInv'
    BY <1>5 DEF blockUser, ShownInv
  <1>6. ASSUME NEW v \in Folk, unblockUser(u, v)
        PROVE  ShownInv'
    BY <1>6 DEF unblockUser, ShownInv
  <1>7. ASSUME UNCHANGED <<state, ownerFlags, published, follow, block>>
        PROVE  ShownInv'
    BY <1>7 DEF ShownInv
  <1> QED BY <1>1, <1>2, <1>3, <1>4, <1>5, <1>6, <1>7

(* What a filter asks for, and whom a block hides. *)
LEMMA Asked ==
    ASSUME ShownInv
    PROVE  /\ \A u \in Folk : /\ (ownerFlags[u].active <=> ~Inactive(u))
                             /\ (ownerFlags[u].listed <=> (~Inactive(u) /\ "search" \notin state[u]))
                             /\ (SearchFilter(u) <=> (~Inactive(u) /\ "search" \notin state[u]))
                             /\ (LEADERBOARD_VISIBLE(u) <=> (~Inactive(u) /\ "search" \notin state[u]))
                             /\ (ACTIVE_USER_FILTER(u) <=> (~Inactive(u) /\ "search" \notin state[u]))
                             /\ (isUserPubliclyVisible(u) <=> (~Inactive(u) /\ "search" \notin state[u]))
           /\ Anyone \notin Folk /\ getBlockedSet(Anyone) = {}
           /\ \A u \in Folk : u \notin getBlockedSet(u)
           /\ \A u \in Folk, v \in Viewing : /\ (isHiddenByBlock(v, u) <=> u \in getBlockedSet(v))
                                            /\ (hasBlocked(v, u) \/ hasBlocked(u, v) <=> u \in getBlockedSet(v))
  <1>1. \A u \in Folk : ownerFlags[u] = OwnerFlags(state[u])
    BY DEF ShownInv
  <1>2. \A u \in Folk : /\ (Inactive(u) <=> "deleted" \in state[u] \/ "banned" \in state[u])
                       /\ (LEADERBOARD_VISIBLE(u) <=> ~("deleted" \in state[u] \/ "banned" \in state[u] \/ "search" \in state[u]))
    BY DEF Inactive, LEADERBOARD_VISIBLE
  <1>3. Anyone \notin Folk
    BY DiscoveryAssumption DEF Anyone
  <1>4. getBlockedSet(Anyone) = {} /\ \A u \in Folk : u \notin getBlockedSet(u)
    BY <1>3 DEF getBlockedSet, ShownInv
  <1>5. \A u \in Folk : /\ (ownerFlags[u].active <=> ~Inactive(u))
                       /\ (ownerFlags[u].listed <=> (~Inactive(u) /\ "search" \notin state[u]))
    <2> TAKE u \in Folk
    <2>1. PICK a \in BOOLEAN, l \in BOOLEAN :
            /\ (a <=> ~Inactive(u)) /\ (l <=> (~Inactive(u) /\ "search" \notin state[u]))
            /\ OwnerFlags(state[u]) = [active |-> a, listed |-> l]
      BY DEF OwnerFlags, Inactive
    <2> QED BY <2>1, <1>1
  <1>6. \A u \in Folk, v \in Viewing : isHiddenByBlock(v, u) <=> u \in getBlockedSet(v)
    BY <1>4 DEF isHiddenByBlock
  <1>7. \A u \in Folk, v \in Viewing : hasBlocked(v, u) \/ hasBlocked(u, v) <=> u \in getBlockedSet(v)
    BY DEF hasBlocked, getBlockedSet
  <1>8. \A u \in Folk : /\ (SearchFilter(u) <=> (~Inactive(u) /\ "search" \notin state[u]))
                       /\ (ACTIVE_USER_FILTER(u) <=> (~Inactive(u) /\ "search" \notin state[u]))
                       /\ (isUserPubliclyVisible(u) <=> (~Inactive(u) /\ "search" \notin state[u]))
    BY <1>2 DEF SearchFilter, ACTIVE_USER_FILTER, isUserPubliclyVisible
  <1> QED BY <1>2, <1>3, <1>4, <1>5, <1>6, <1>7, <1>8

LEMMA SurfacesRight == ShownInv => SurfacesAgree
  <1> SUFFICES ASSUME ShownInv
               PROVE  SurfacesAgree
    OBVIOUS
  <1> DEFINE open(u) == ~Inactive(u) /\ "search" \notin state[u]
  <1>0. /\ \A u \in Folk : /\ (ownerFlags[u].listed <=> open(u)) /\ (SearchFilter(u) <=> open(u))
                          /\ (LEADERBOARD_VISIBLE(u) <=> open(u)) /\ (ACTIVE_USER_FILTER(u) <=> open(u))
                          /\ (isUserPubliclyVisible(u) <=> open(u))
        /\ Anyone \notin Folk /\ getBlockedSet(Anyone) = {} /\ \A u \in Folk : u \notin getBlockedSet(u)
    BY Asked
  <1> HIDE DEF open
  <1>1. ASSUME NEW v \in Viewing
        PROVE  /\ getTrendingProjects(v) \ {v} = searchProjects(v, TRUE) \ {v}
               /\ searchProjects(v, TRUE) = searchProjects(v, FALSE)
               /\ Board(v, "ALL_TIME") = searchUsers(v) /\ Board(v, "WEEK") \subseteq searchUsers(v)
               /\ getSuggestedUsers(v) \subseteq searchUsers(v) \ {v}
               /\ getPopularPlaylists(v) \subseteq searchUsers(v)
    <2>1. searchProjects(v, TRUE) = {u \in Folk : ((published[u].project /\ open(u)) \/ u = v) /\ u \notin getBlockedSet(v)}
      BY <1>0 DEF searchProjects, searchWithAtlas
    <2>2. searchProjects(v, FALSE) = {u \in Folk : ((published[u].project /\ open(u)) \/ u = v) /\ u \notin getBlockedSet(v)}
      BY <1>0 DEF searchProjects, searchWithRegex
    <2>3. getTrendingProjects(v) = {u \in Folk : published[u].project /\ open(u) /\ u \notin getBlockedSet(v)}
      BY <1>0 DEF getTrendingProjects
    <2>4. searchUsers(v) = {u \in Folk : open(u) /\ u \notin getBlockedSet(v)}
      BY <1>0 DEF searchUsers
    <2>5. Board(v, "ALL_TIME") = searchUsers(v) /\ Board(v, "WEEK") \subseteq searchUsers(v)
      BY <1>0, <2>4 DEF Board
    <2>6. getPopularPlaylists(v) \subseteq searchUsers(v)
      BY <1>0, <2>4 DEF getPopularPlaylists
    <2>7. \A u \in getSuggestedUsers(v) : u \in Folk /\ u # v /\ open(u) /\ u \notin getBlockedSet(v)
      BY <1>0 DEF getSuggestedUsers
    <2> QED BY <2>1, <2>2, <2>3, <2>4, <2>5, <2>6, <2>7
  <1>2. /\ getTrendingProjects(Anyone) = {u \in Folk : published[u].project /\ open(u)}
        /\ getPopularPlaylists(Anyone) = {u \in Folk : published[u].playlist /\ open(u)}
        /\ searchUsers(Anyone) = {u \in Folk : open(u)}
    BY <1>0 DEF getTrendingProjects, getPopularPlaylists, searchUsers
  <1>3. /\ resolveProjectMeta = {u \in Folk : published[u].project /\ open(u)}
        /\ resolveCardSourceUrl("project") = {u \in Folk : published[u].project /\ open(u)}
        /\ resolveList = {u \in Folk : published[u].playlist /\ open(u)}
        /\ resolveCardSourceUrl("list") = {u \in Folk : published[u].playlist /\ open(u)}
        /\ resolveProfile = {u \in Folk : open(u)}
        /\ resolveCardSourceUrl("profile") = {u \in Folk : open(u)}
    BY <1>0 DEF resolveProjectMeta, resolveCardSourceUrl, resolveList, resolveProfile
  <1>4. getExploreStats = [totalProjects |-> Cardinality(getTrendingProjects(Anyone)),
                           totalPlaylists |-> Cardinality(getPopularPlaylists(Anyone))]
    <2>1. /\ {u \in Folk : published[u].project /\ ownerFlags[u].listed} = getTrendingProjects(Anyone)
          /\ {u \in Folk : published[u].playlist /\ ownerFlags[u].listed} = getPopularPlaylists(Anyone)
      BY <1>0 DEF getTrendingProjects, getPopularPlaylists
    <2> QED BY <2>1 DEF getExploreStats
  <1> QED BY <1>1, <1>2, <1>3, <1>4 DEF SurfacesAgree

(* What a page of the feed or of shares may show. *)
LEMMA FeedShows ==
    ASSUME NEW v \in Viewing
    PROVE  /\ \A i \in FeedRows(v) : /\ i \in DOMAIN Deeds /\ Deeds[i].actor \in FeedActors(v)
                                    /\ Deeds[i].of \notin getBlockedSet(v)
           /\ \A i \in ShareRows(v) : i \in DOMAIN Deeds /\ Deeds[i].of \notin getBlockedSet(v)
  <1>1. \A rows, n : PageOf(rows, Newest, n).rows \subseteq rows
    BY DEF PageOf
  <1>2. \A n : getFeed(v, n).rows = {i \in PageOf(DeedsOf(FeedActors(v)), Newest, n).rows : Deeds[i].of \notin getBlockedSet(v)}
    BY DEF getFeed, withoutBlockedTargets
  <1>3. \A i \in FeedRows(v) : i \in DOMAIN Deeds /\ Deeds[i].actor \in FeedActors(v) /\ Deeds[i].of \notin getBlockedSet(v)
    <2> TAKE i \in FeedRows(v)
    <2>1. PICK n \in 0 .. Len(Deeds) : i \in getFeed(v, n).rows
      BY DEF FeedRows
    <2>2. i \in PageOf(DeedsOf(FeedActors(v)), Newest, n).rows /\ Deeds[i].of \notin getBlockedSet(v)
      BY <2>1, <1>2
    <2> QED BY <2>2, <1>1 DEF DeedsOf
  <1>4. ASSUME NEW w \in Folk, NEW n, NEW i \in listProfileShares(v, w, n).rows
        PROVE  i \in DOMAIN Deeds /\ Deeds[i].of \notin getBlockedSet(v)
    <2>1. i \in PageOf(DeedsOf({w}), Newest, n).rows /\ Deeds[i].of \notin getBlockedSet(v)
      BY <1>4 DEF listProfileShares
    <2> QED BY <2>1, <1>1 DEF DeedsOf
  <1> QED BY <1>3, <1>4 DEF ShareRows

LEMMA GoneRight == ShownInv => GoneStayGone
  <1> SUFFICES ASSUME ShownInv, NEW v \in Viewing, NEW u \in Folk \ {v}, Inactive(u)
               PROVE  u \notin Found(v) \cup Opened(v) \cup Active(v)
    BY DEF GoneStayGone
  <1>1. ~ownerFlags[u].active /\ ~ownerFlags[u].listed /\ ~SearchFilter(u) /\ ~ACTIVE_USER_FILTER(u)
    BY Asked
  <1>2. u \notin Found(v)
    BY <1>1 DEF Found, searchUsers, getTrendingProjects, getPopularPlaylists, getSuggestedUsers
  <1>3. u \notin Opened(v)
    BY <1>1 DEF Opened, projectQuery, getProject, playlistQuery, playlists, savedPlaylists, publicProfile, NoProfile
  <1>4. u \notin Active(v)
    BY FeedShows DEF Active, FeedActors
  <1> QED BY <1>2, <1>3, <1>4

LEMMA BlocksRight == ShownInv => BlocksHold
  <1> SUFFICES ASSUME ShownInv, NEW v \in Viewing, NEW u \in getBlockedSet(v)
               PROVE  /\ u \notin Found(v) \cup Opened(v) \cup Active(v) \cup Shown(v) \cup resolveProjects(v)
                      /\ \A i \in drain(v) : Deeds[i].actor # u
                      /\ ~publicProject(v, u) /\ ~getShareProject(v, u) /\ ~mayStar(v, u) /\ ~mayShare(v, u)
    BY DEF BlocksHold
  <1>1. /\ u \in Folk /\ u # v /\ isHiddenByBlock(v, u) /\ (hasBlocked(v, u) \/ hasBlocked(u, v))
        /\ <<v, u>> \notin follow
    <2>1. u \in Folk /\ (<<v, u>> \in block \/ <<u, v>> \in block)
      BY DEF getBlockedSet
    <2>2. v \in Folk
      BY <2>1 DEF ShownInv
    <2> QED BY <2>1, <2>2, Asked DEF ShownInv
  <1>2. u \notin Found(v)
    BY <1>1 DEF Found, searchUsers, getTrendingProjects, getPopularPlaylists, getSuggestedUsers
  <1>3. u \notin Opened(v)
    BY <1>1 DEF Opened, projectQuery, playlistQuery, playlists, savedPlaylists, publicProfile, NoProfile, blockedProfileStub
  <1>4. u \notin Active(v)
    BY <1>1, FeedShows DEF Active, FeedActors
  <1>5. u \notin Shown(v)
    <2>1. \A w, type : u \notin followList(v, w, type)
      BY DEF followList
    <2> QED BY <2>1, FeedShows DEF Shown
  <1>6. u \notin resolveProjects(v) /\ \A i \in drain(v) : Deeds[i].actor # u
    BY <1>1 DEF resolveProjects, drain, fanOut
  <1>7. ~publicProject(v, u) /\ ~getShareProject(v, u) /\ ~mayStar(v, u) /\ ~mayShare(v, u)
    BY <1>1 DEF publicProject, getShareProject, mayStar, mayShare
  <1> QED BY <1>2, <1>3, <1>4, <1>5, <1>6, <1>7

LEMMA LinksRight == ShownInv => LinksOpen
  <1> SUFFICES ASSUME ShownInv, NEW v \in Viewing, NEW u \in Folk \ {v}
               PROVE  /\ ~Inactive(u) /\ u \notin getBlockedSet(v) =>
                            /\ (projectQuery(v, u) <=> published[u].project) /\ (playlistQuery(v, u) <=> published[u].playlist)
                            /\ publicProfile(v, u, FALSE).is = "profile"
                      /\ u \in searchProjects(u, TRUE)
                      /\ mayShare(v, u) => projectQuery(v, u) /\ mayStar(v, u)
                      /\ projectQuery(v, u) => publicProject(v, u) /\ getShareProject(v, u) /\ canViewProject(v, u)
    BY DEF LinksOpen
  <1>1. /\ (ownerFlags[u].active <=> ~Inactive(u)) /\ u \notin getBlockedSet(u)
        /\ (isHiddenByBlock(v, u) <=> u \in getBlockedSet(v))
        /\ (hasBlocked(v, u) \/ hasBlocked(u, v) <=> u \in getBlockedSet(v))
    BY Asked
  <1>2. ASSUME ~Inactive(u), u \notin getBlockedSet(v)
        PROVE  /\ (projectQuery(v, u) <=> published[u].project) /\ (playlistQuery(v, u) <=> published[u].playlist)
               /\ publicProfile(v, u, FALSE).is = "profile"
    BY <1>1, <1>2 DEF projectQuery, getProject, playlistQuery, publicProfile, ProfileTo
  <1>3. u \in searchProjects(u, TRUE)
    BY <1>1 DEF searchProjects, searchWithAtlas
  <1>4. mayShare(v, u) => projectQuery(v, u) /\ mayStar(v, u)
    BY <1>1 DEF mayShare, projectQuery, getProject, mayStar, canViewProject
  <1>5. projectQuery(v, u) => publicProject(v, u) /\ getShareProject(v, u) /\ canViewProject(v, u)
    BY <1>1 DEF projectQuery, getProject, publicProject, getShareProject, canViewProject
  <1> QED BY <1>2, <1>3, <1>4, <1>5

LEMMA PreviewRight == ShownInv => PreviewHonest
  <1> SUFFICES ASSUME ShownInv, NEW u \in Folk
               PROVE  /\ publicProfile(u, u, TRUE) = publicProfile(Anyone, u, FALSE)
                      /\ \A v \in Folk, field \in DOMAIN NoProfile \ {"is"} :
                            publicProfile(v, u, TRUE)[field] => publicProfile(v, u, FALSE)[field]
    BY DEF PreviewHonest
  <1>1. Anyone \notin Folk /\ ~hasBlocked(u, Anyone) /\ ~hasBlocked(Anyone, u)
    BY Asked DEF hasBlocked, ShownInv
  <1>2. publicProfile(u, u, TRUE) = publicProfile(Anyone, u, FALSE)
    BY <1>1 DEF publicProfile
  <1>3. ASSUME NEW v \in Folk, NEW field \in DOMAIN NoProfile \ {"is"}
        PROVE  publicProfile(v, u, TRUE)[field] => publicProfile(v, u, FALSE)[field]
    <2>1. field \in {"project", "playlist", "isFollowedByMe", "isFollowingMe", "showFollowers", "lastOnlineAt", "country"}
      BY DEF NoProfile
    <2>2. <<Anyone, u>> \notin follow /\ <<u, Anyone>> \notin follow /\ Anyone # u /\ Anyone \notin Staff
      BY <1>1, DiscoveryAssumption DEF ShownInv
    <2>3. ProfileTo(Anyone, u)[field] => ProfileTo(v, u)[field]
      <3>1. CASE field = "project"
        BY <3>1, <2>2 DEF ProfileTo, PublicProjects
      <3>5. CASE field = "playlist"
        BY <3>5, <2>2 DEF ProfileTo
      <3>2. CASE field = "isFollowedByMe"
        BY <3>2, <2>2 DEF ProfileTo
      <3>6. CASE field = "isFollowingMe"
        BY <3>6, <2>2 DEF ProfileTo
      <3>3. CASE field = "showFollowers"
        BY <3>3, <2>2 DEF ProfileTo, showFollowers
      <3>4. CASE field \in {"lastOnlineAt", "country"}
        BY <3>4, <2>2 DEF ProfileTo, lastOnlineAt, country, ShownTo, Mutual
      <3> QED BY <2>1, <3>1, <3>2, <3>3, <3>4, <3>5, <3>6
    <2>4. \/ publicProfile(v, u, TRUE) = ProfileTo(Anyone, u) /\ publicProfile(v, u, FALSE) = ProfileTo(v, u)
          \/ publicProfile(v, u, TRUE) = publicProfile(v, u, FALSE)
      BY DEF publicProfile
    <2> QED BY <2>3, <2>4
  <1> QED BY <1>2, <1>3

LEMMA PagesRight == ShownInv => PagesComplete
  <1> SUFFICES ASSUME ShownInv, NEW v \in Viewing
               PROVE  /\ \A t \in {"ALL_TIME", "WEEK"}, asc \in BOOLEAN :
                            Complete([k \in 0 .. Cardinality(Folk) |-> leaderboard(v, t, asc, k * PageLimit)],
                                     Board(v, t), buildLeaderboardSort(t, asc))
                      /\ Complete([k \in 0 .. Len(Deeds) |-> getFeed(v, k * PageLimit)],
                                  {i \in DOMAIN Deeds : /\ <<v, Deeds[i].actor>> \in follow
                                                       /\ state[Deeds[i].actor] \cap {"deleted", "banned", "feed"} = {}
                                                       /\ Deeds[i].of \notin getBlockedSet(v)}, Newest)
                      /\ FeedRows(v) \subseteq drain(v)
    BY DEF PagesComplete
  <1>0. PageLimit \in Nat \ {0} /\ Folk \subseteq Nat /\ IsFiniteSet(Folk) /\ Cardinality(Folk) \in Nat
    BY DiscoveryAssumption, FS_CardinalityType
  <1>4. /\ Len(Deeds) \in Nat /\ DOMAIN Deeds = 1 .. Len(Deeds)
        /\ \A i \in DOMAIN Deeds : Deeds[i] \in [actor : Folk, of : Folk]
    <2>1. Deeds \in Seq([actor : Folk, of : Folk])
      BY DiscoveryAssumption
    <2>2. Len(Deeds) \in Nat /\ DOMAIN Deeds = 1 .. Len(Deeds)
      BY <2>1, LenProperties
    <2> QED BY <2>1, <2>2, ElementOfSeq
  <1>1. ASSUME NEW t \in {"ALL_TIME", "WEEK"}, NEW asc \in BOOLEAN
        PROVE  Complete([k \in 0 .. Cardinality(Folk) |-> leaderboard(v, t, asc, k * PageLimit)],
                        Board(v, t), buildLeaderboardSort(t, asc))
    <2> DEFINE order == buildLeaderboardSort(t, asc)
               rows == Board(v, t)
               page == [k \in 0 .. Cardinality(Folk) |-> leaderboard(v, t, asc, k * PageLimit)]
    <2>1. PICK key \in [Folk -> Nat] :
            order = {p \in Folk \X Folk : IF asc THEN key[p[1]] < key[p[2]] \/ (key[p[1]] = key[p[2]] /\ p[1] < p[2])
                                                 ELSE key[p[2]] < key[p[1]] \/ (key[p[2]] = key[p[1]] /\ p[2] < p[1])}
      BY DiscoveryAssumption DEF buildLeaderboardSort
    <2>2. rows \in SUBSET Folk
      BY DEF Board
    <2>3. IsFiniteSet(rows) /\ Cardinality(rows) <= Cardinality(Folk)
      BY <1>0, <2>2, FS_Subset
    <2>4. \A a, b \in Folk : <<a, b>> \in order <=>
             IF asc THEN key[a] < key[b] \/ (key[a] = key[b] /\ a < b) ELSE key[b] < key[a] \/ (key[b] = key[a] /\ b < a)
      BY <2>1
    <2>5. page = [k \in 0 .. Cardinality(Folk) |-> PageOf(rows, order, k * PageLimit)]
      BY DEF leaderboard
    <2> HIDE DEF order, rows, page
    <2>6. Sorts(order, rows)
      <3>1. \A a \in Folk : a \in Nat /\ key[a] \in Nat
        BY <1>0, <2>1
      <3> QED BY <2>2, <2>4, <3>1 DEF Sorts
    <2>7. \A k \in 0 .. Cardinality(Folk) : /\ page[k].rows = PageOf(rows, order, k * PageLimit).rows \cap rows
                                            /\ (page[k].hasMore <=> PageOf(rows, order, k * PageLimit).hasMore)
      BY <2>5 DEF PageOf
    <2>8. DOMAIN page = 0 .. Cardinality(Folk) /\ rows \in SUBSET rows
      BY <2>5
    <2>9. Complete(page, rows, order)
      BY <1>0, <2>3, <2>6, <2>7, <2>8, PagesAll
    <2> QED BY <2>9 DEF page, rows, order
  <1>2. Complete([k \in 0 .. Len(Deeds) |-> getFeed(v, k * PageLimit)],
                 {i \in DOMAIN Deeds : /\ <<v, Deeds[i].actor>> \in follow
                                      /\ state[Deeds[i].actor] \cap {"deleted", "banned", "feed"} = {}
                                      /\ Deeds[i].of \notin getBlockedSet(v)}, Newest)
    <2> DEFINE rows == DeedsOf(FeedActors(v))
               may == {i \in rows : Deeds[i].of \notin getBlockedSet(v)}
               page == [k \in 0 .. Len(Deeds) |-> getFeed(v, k * PageLimit)]
    <2>1. may = {i \in DOMAIN Deeds : /\ <<v, Deeds[i].actor>> \in follow
                                     /\ state[Deeds[i].actor] \cap {"deleted", "banned", "feed"} = {}
                                     /\ Deeds[i].of \notin getBlockedSet(v)}
      BY <1>0, <1>4 DEF DeedsOf, FeedActors, Inactive
    <2>2. rows \in SUBSET (1 .. Len(Deeds)) /\ may \in SUBSET rows
      BY <1>0, <1>4 DEF DeedsOf
    <2>3. IsFiniteSet(rows) /\ Cardinality(rows) <= Len(Deeds)
      <3>1. IsFiniteSet(1 .. Len(Deeds)) /\ Cardinality(1 .. Len(Deeds)) = Len(Deeds)
        <4>1. PICK n \in Nat : n = Len(Deeds)
          BY <1>4
        <4>2. IsFiniteSet(1 .. n) /\ Cardinality(1 .. n) = n
          BY FS_Interval
        <4> QED BY <4>1, <4>2
      <3> HIDE DEF rows
      <3> QED BY <2>2, <3>1, FS_Subset
    <2>4. \A k \in 0 .. Len(Deeds) : /\ page[k].rows = PageOf(rows, Newest, k * PageLimit).rows \cap may
                                     /\ (page[k].hasMore <=> PageOf(rows, Newest, k * PageLimit).hasMore)
      BY DEF getFeed, withoutBlockedTargets, PageOf
    <2>5. DOMAIN page = 0 .. Len(Deeds)
      OBVIOUS
    <2> HIDE DEF rows, may, page
    <2>6. Sorts(Newest, rows)
      <3>1. \A i, j \in 1 .. Len(Deeds) : <<i, j>> \in Newest <=> i < j
        BY <1>4 DEF Newest
      <3>2. \A i \in rows : i \in 1 .. Len(Deeds) /\ i \in Nat
        BY <1>4, <2>2
      <3> QED BY <3>1, <3>2 DEF Sorts
    <2>7. Complete(page, may, Newest)
      BY <1>0, <1>4, <2>2, <2>3, <2>4, <2>5, <2>6, PagesAll
    <2> QED BY <2>1, <2>7 DEF page
  <1>3. FeedRows(v) \subseteq drain(v)
    <2>1. \A i \in FeedRows(v) : i \in DOMAIN Deeds /\ <<v, Deeds[i].actor>> \in follow
      BY FeedShows DEF FeedActors
    <2>2. \A e \in follow : e[1] \in Folk
      BY DEF ShownInv
    <2> QED BY <2>1, <2>2 DEF drain, fanOut
  <1> QED BY <1>1, <1>2, <1>3

LEMMA DiscoveryAlways == DiscoveryInit /\ [][DiscoveryNext]_discoveryVars => []DiscoveryHolds
  <1>1. ShownInv => DiscoveryHolds
    BY SurfacesRight, GoneRight, BlocksRight, LinksRight, PreviewRight, PagesRight DEF DiscoveryHolds
  <1> QED BY <1>1, ShownBegins, ShownStep, PTL

(* Whoever is shown is shown as the account stands: on its content, and on
   each of the surfaces that list or open something (owner-visibility,
   explore, search, feed, links, cards). *)
THEOREM ShownAsTheyAre == StandingSpec => []ShownAsTheyStand
  <1>1. Origin => Init /\ DiscoveryInit
    BY DEF Origin
  <1>2. [Step]_<<part, vars, identityVars, discoveryVars>> => [Next]_vars /\ [DiscoveryNext]_discoveryVars
    BY DEF Step
  <1>3. Init /\ [][Next]_vars => []ContentSettles
    BY ContentComesToSettle DEF Spec
  <1> QED BY <1>1, <1>2, <1>3, DiscoveryAlways, PTL DEF StandingSpec, ShownAsTheyStand
=============================================================================
