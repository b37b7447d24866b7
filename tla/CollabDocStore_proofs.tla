------------------------ MODULE CollabDocStore_proofs ------------------------
(***************************************************************************)
(* Proofs about the shared document of CollabDocStore, for any tabs, edits *)
(* and saves, and any number of sessions, failing calls and crashes: types *)
(* are kept; a deleted document is not brought back; a session that ended  *)
(* is not written to as long as no database call has failed; and, where    *)
(* sessions follow each other, what is stored stays and no document has    *)
(* its lines twice, up to the failures each of the two can bear.           *)
(***************************************************************************)
EXTENDS CollabDocStore, SequenceTheorems, FiniteSetTheorems, TLAPS

Documents == [seeds : SUBSET Nat, marks : Contents]
StoredDocs == [seeds : SUBSET Nat, marks : Contents, lyricsVersion : Nat]
LyricsRows == [marks : Contents, version : Nat]
Loads ==
    {Idle} \cup [at : {"asked"}]
    \cup [at : {"read", "checked"}, stored : StoredDocs \cup {None}, lyrics : LyricsRows \cup {None}, refused : BOOLEAN]
Stores ==
    {Idle} \cup [at : {"state"}, seeds : SUBSET Nat, marks : Contents] \cup [at : {"lyrics"}]
    \cup [at : {"version"}, version : Nat]
Removals == {"state", "lyrics", "version"}
Steps == {"start", "flush", "flushing", "close", "delete"} \cup Removals

(* What is in the database, ... *)
RowTypes ==
    /\ project \in BOOLEAN
    /\ lyrics \in LyricsRows \cup {None}
    /\ stored \in StoredDocs \cup {None}
    /\ session \in [epoch : Nat, live : BOOLEAN]
    /\ lyrics = None => ~project
(* ... what the process has of the document, ... *)
DocTypes ==
    /\ doc \in Documents \cup {None}
    /\ client \in [Client -> Phases]
    /\ copy \in [Client -> Documents \cup {None}]
    /\ Attached # {} => doc # None
    /\ store # Idle => doc # None
    /\ load # Idle => doc = None
(* ... the load, the store and the teardowns under way. *)
LoadTypes ==
    /\ load \in Loads
    /\ load.at \in {"read", "checked"} /\ load.lyrics = None => ~project
    /\ load.at = "checked" /\ ~load.refused => load.lyrics # None
StoreTypes ==
    /\ store \in Stores
    /\ dirty \in {"clean", "state", "projection"}
    /\ pending \in BOOLEAN /\ discardAfterStore \in BOOLEAN /\ discarded \in BOOLEAN
TeardownTypes ==
    /\ settling \in Seq({"end", "discard"})
    /\ owed \subseteq {"end", "discard"}
    /\ step \in Steps
    /\ settling = <<>> => step = "start"
    /\ removing \in StoredDocs \cup {None}
    /\ step \in Removals => removing # None
WorkTypes ==
    /\ saving \in Save \cup {None}
    /\ budget \in [{"seeds", "faults", "crashes"} -> Nat]
    /\ budget.seeds <= MaxSeeds
DocInv == RowTypes /\ DocTypes /\ LoadTypes /\ StoreTypes /\ TeardownTypes /\ WorkTypes

(* A deletion is torn down once, and while it waits its tombstone stands. *)
Sweeping == settling # <<>> /\ Head(settling) = "discard"
Sweeps == {i \in 1 .. Len(settling) : settling[i] = "discard"}
SweptOnce ==
    /\ "discard" \in owed \/ Sweeps # {} => ~project /\ ~swept
    /\ Sweeps # {} => "discard" \notin owed /\ discarded
    /\ \A i, j \in Sweeps : i = j
SweepWaits ==
    Sweeping =>
        /\ step \in {"start", "flush", "close", "delete"}
        /\ step # "start" => load = Idle
        /\ step \in {"close", "delete"} => store = Idle
(* Once it is swept, nobody is left who would write the row again. *)
NobodyWritesBack ==
    swept =>
        /\ stored = None /\ ~project /\ store = Idle
        /\ doc # None => discarded
        /\ load.at = "checked" => load.refused
        /\ step \in {"start", "flush", "flushing", "close"}
SweepInv == SweptOnce /\ SweepWaits /\ NobodyWritesBack

(* After the end of a session a document is loaded only until the last of
   the teardowns that are due has closed its connections. *)
EndDue == owed # {} \/ (settling # <<>> /\ (step = "start" \/ Len(settling) >= 2))
Closing == settling # <<>> /\ step \in {"flush", "flushing", "close"}
EndInv ==
    /\ budget.faults <= MaxFaults
    /\ budget.faults = MaxFaults =>
        /\ dirty = "clean"
        /\ ~session.live => EndDue \/ ((load.at = "checked" => load.refused) /\ (doc # None => Closing))

LEMMA NoneApart == None \notin Documents /\ None \notin StoredDocs /\ None \notin LyricsRows /\ None \notin Save
  BY StoreAssumption DEF Documents, StoredDocs, LyricsRows, Contents, Mark

LEMMA DocBegins == Init => DocInv
  <1> SUFFICES ASSUME Init
               PROVE  DocInv
    OBVIOUS
  <1> USE DEF Init
  <1>1. RowTypes
    BY NoneApart DEF RowTypes, LyricsRows, Contents
  <1>2. DocTypes
    BY DEF DocTypes, Phases, Attached
  <1>3. LoadTypes /\ StoreTypes
    BY DEF LoadTypes, StoreTypes, Loads, Stores, Idle
  <1>4. TeardownTypes
    BY DEF TeardownTypes, Steps, Removals
  <1>5. WorkTypes
    BY StoreAssumption DEF WorkTypes
  <1> QED BY <1>1, <1>2, <1>3, <1>4, <1>5 DEF DocInv

(* What an attachment makes of the document, the tabs and their copies. *)
LEMMA Attaches ==
    ASSUME DocTypes, StoreTypes, NEW C \in SUBSET Client, NEW d \in Documents, attach(C, d)
    PROVE  /\ doc' \in Documents /\ doc' # None
           /\ client' \in [Client -> Phases] /\ copy' \in [Client -> Documents \cup {None}]
           /\ pending' \in BOOLEAN
  <1> USE DEF attach
  <1>1. PICK held : held = {copy[c] : c \in C} \ {None}
    OBVIOUS
  <1>2. held \subseteq Documents
    BY <1>1 DEF DocTypes
  <1>3. PICK merged : merged = [seeds |-> d.seeds \cup UNION {h.seeds : h \in held},
                                marks |-> d.marks \cup UNION {h.marks : h \in held}]
    OBVIOUS
  <1>4. \A h \in held : h.seeds \subseteq Nat /\ h.marks \subseteq Mark
    BY <1>2 DEF Documents, Contents
  <1>5. d.seeds \cup UNION {h.seeds : h \in held} \subseteq Nat /\ d.marks \cup UNION {h.marks : h \in held} \subseteq Mark
    BY <1>4 DEF Documents, Contents
  <1>6. merged \in Documents
    BY <1>3, <1>5 DEF Documents, Contents
  <1>7. /\ doc' = merged
        /\ client' = [c \in Client |-> IF c \in C THEN "writer" ELSE client[c]]
        /\ copy' = [c \in Client |-> IF c \in Attached \cup C THEN merged ELSE copy[c]]
        /\ pending' = (pending \/ merged # d)
    BY <1>1, <1>3
  <1>9. client' \in [Client -> Phases] /\ copy' \in [Client -> Documents \cup {None}]
    BY <1>6, <1>7 DEF DocTypes, Phases
  <1> QED BY <1>6, <1>7, <1>9, NoneApart DEF StoreTypes

-----------------------------------------------------------------------------
(* The queue of teardowns. *)
LEMMA Queued ==
    ASSUME settling \in Seq({"end", "discard"}), NEW kind \in {"end", "discard"}, settling' = Append(settling, kind)
    PROVE  /\ settling' \in Seq({"end", "discard"}) /\ settling' # <<>>
           /\ Len(settling') = Len(settling) + 1 /\ Len(settling) \in Nat
           /\ \A i \in 1 .. Len(settling) : settling'[i] = settling[i]
           /\ settling'[Len(settling) + 1] = kind
           /\ settling # <<>> => Head(settling') = Head(settling)
           /\ settling = <<>> => Head(settling') = kind
  OBVIOUS

LEMMA Finished ==
    ASSUME settling \in Seq({"end", "discard"}), settling # <<>>, settling' = Tail(settling)
    PROVE  /\ settling' \in Seq({"end", "discard"})
           /\ Len(settling') = Len(settling) - 1 /\ Len(settling) \in Nat /\ Len(settling) >= 1
           /\ \A i \in 1 .. Len(settling') : settling'[i] = settling[i + 1]
           /\ Head(settling) = settling[1] /\ Head(settling) \in {"end", "discard"}
           /\ settling' # <<>> <=> Len(settling) >= 2
  <1>1. /\ settling' \in Seq({"end", "discard"}) /\ Len(settling) \in Nat /\ Len(settling) >= 1
        /\ Len(settling') = Len(settling) - 1
    OBVIOUS
  <1>2. \A i \in 1 .. Len(settling') : settling'[i] = settling[i + 1]
    BY <1>1
  <1>3. Head(settling) = settling[1] /\ Head(settling) \in {"end", "discard"}
    BY <1>1
  <1>4. settling' # <<>> <=> Len(settling') # 0
    BY <1>1, EmptySeq
  <1> QED BY <1>1, <1>2, <1>3, <1>4

-----------------------------------------------------------------------------
(* Types. *)
LEMMA ServicesKeepTypes ==
    ASSUME DocInv,
           \/ startSession \/ endSessionService \/ deleteProject \/ patchLyrics
           \/ \E s \in Save : collabSessionBlocks(s)
    PROVE  DocInv'
  <1> USE NoneApart DEF DocInv
  <1>1. CASE startSession
    BY <1>1 DEF startSession, RowTypes, DocTypes, Attached, LoadTypes, StoreTypes, TeardownTypes, WorkTypes, teardown, tabs
  <1>2. CASE endSessionService
    <2>1. session' \in [epoch : Nat, live : BOOLEAN] /\ owed' \subseteq {"end", "discard"}
      BY <1>2 DEF endSessionService, RowTypes, TeardownTypes
    <2>2. RowTypes' /\ TeardownTypes' /\ StoreTypes' /\ WorkTypes'
      BY <1>2, <2>1 DEF endSessionService, RowTypes, TeardownTypes, StoreTypes, WorkTypes
    <2> QED BY <1>2, <2>2 DEF endSessionService, DocTypes, Attached, LoadTypes, tabs
  <1>3. CASE deleteProject
    <2>1. session' \in [epoch : Nat, live : BOOLEAN] /\ owed' \subseteq {"end", "discard"}
      BY <1>3 DEF deleteProject, RowTypes, TeardownTypes
    <2>2. RowTypes' /\ TeardownTypes' /\ StoreTypes' /\ WorkTypes'
      BY <1>3, <2>1 DEF deleteProject, RowTypes, TeardownTypes, StoreTypes, WorkTypes
    <2> QED BY <1>3, <2>2 DEF deleteProject, DocTypes, Attached, LoadTypes, tabs
  <1>4. CASE patchLyrics
    <2>1. saving \in Save /\ {saving} \subseteq Mark
      BY <1>4 DEF patchLyrics, WorkTypes, Mark
    <2>2. lyrics' \in LyricsRows \cup {None} /\ (lyrics' = None => lyrics = None)
      <3>1. CASE lyrics # None
        BY <1>4, <2>1, <3>1 DEF patchLyrics, RowTypes, LyricsRows, Contents
      <3>2. CASE lyrics = None
        BY <1>4, <2>1, <3>2 DEF patchLyrics, RowTypes, LyricsRows, Contents
      <3> QED BY <3>1, <3>2
    <2> QED BY <1>4, <2>2 DEF patchLyrics, RowTypes, DocTypes, Attached, LoadTypes, StoreTypes, TeardownTypes, WorkTypes, teardown, tabs
  <1>5. ASSUME NEW s \in Save, collabSessionBlocks(s)
        PROVE  DocInv'
    BY <1>5 DEF collabSessionBlocks, database, RowTypes, DocTypes, Attached, LoadTypes, StoreTypes, TeardownTypes, WorkTypes, teardown, tabs
  <1> QED BY <1>1, <1>2, <1>3, <1>4, <1>5

LEMMA TabsKeepTypes ==
    ASSUME DocInv, NEW c \in Client,
           \/ Knock(c) \/ PassGate(c) \/ resolvePrincipal(c) \/ Leave(c) \/ Admit(c)
           \/ \E e \in Edit : edit(c, e)
    PROVE  DocInv'
  <1> USE NoneApart DEF DocInv
  <1>1. CASE Knock(c)
    <2>1. client' \in [Client -> Phases] /\ copy' \in [Client -> Documents \cup {None}] /\ Attached' \subseteq Attached
      BY <1>1 DEF Knock, DocTypes, Phases, Attached
    <2> QED BY <1>1, <2>1 DEF Knock, database, RowTypes, DocTypes, LoadTypes, StoreTypes, TeardownTypes, WorkTypes, teardown
  <1>2. CASE PassGate(c)
    <2>1. client' \in [Client -> Phases] /\ Attached' \subseteq Attached
      BY <1>2 DEF PassGate, DocTypes, Phases, Attached
    <2> QED BY <1>2, <2>1 DEF PassGate, database, RowTypes, DocTypes, LoadTypes, StoreTypes, TeardownTypes, WorkTypes, teardown
  <1>3. CASE resolvePrincipal(c)
    <2>1. client' \in [Client -> Phases] /\ Attached' \subseteq Attached
      BY <1>3 DEF resolvePrincipal, DocTypes, Phases, Attached
    <2> QED BY <1>3, <2>1 DEF resolvePrincipal, database, RowTypes, DocTypes, LoadTypes, StoreTypes, TeardownTypes, WorkTypes, teardown
  <1>4. CASE Leave(c)
    <2>1. client' \in [Client -> Phases] /\ Attached' \subseteq Attached
      BY <1>4 DEF Leave, DocTypes, Phases, Attached
    <2> QED BY <1>4, <2>1 DEF Leave, database, RowTypes, DocTypes, LoadTypes, StoreTypes, TeardownTypes, WorkTypes, teardown
  <1>5. CASE Admit(c)
    <2>1. /\ client[c] = "read" /\ discardAfterStore' \in BOOLEAN
          /\ database' = database /\ store' = store /\ dirty' = dirty /\ discarded' = discarded
          /\ teardown' = teardown /\ saving' = saving /\ budget' = budget
      BY <1>5 DEF Admit, StoreTypes
    <2>2. CASE doc = None \/ discarded
      <3>1. /\ client' = [client EXCEPT ![c] = IF discarded THEN "off" ELSE "loading"]
            /\ load' = IF load = Idle /\ ~discarded THEN [at |-> "asked"] ELSE load
            /\ doc' = doc /\ copy' = copy /\ pending' = pending
        BY <1>5, <2>2 DEF Admit
      <3>2. client' \in [Client -> Phases] /\ Attached' \subseteq Attached
        BY <3>1 DEF DocTypes, Phases, Attached
      <3>3. load' \in Loads /\ (load' # Idle => doc = None)
        BY <2>2, <3>1 DEF LoadTypes, Loads, DocTypes
      <3>4. DocTypes'
        BY <2>1, <3>1, <3>2, <3>3 DEF DocTypes
      <3>5. LoadTypes'
        BY <2>1, <3>1, <3>3 DEF LoadTypes, database
      <3> QED BY <2>1, <3>1, <3>4, <3>5 DEF database, RowTypes, StoreTypes, TeardownTypes, WorkTypes, teardown
    <2>3. CASE ~(doc = None \/ discarded)
      <3>1. attach({c}, doc) /\ load' = load /\ load = Idle /\ doc \in Documents
        BY <1>5, <2>3 DEF Admit, DocTypes
      <3>2. /\ doc' \in Documents /\ doc' # None /\ pending' \in BOOLEAN
            /\ client' \in [Client -> Phases] /\ copy' \in [Client -> Documents \cup {None}]
        BY <3>1, Attaches
      <3>3. DocTypes'
        BY <2>1, <3>1, <3>2 DEF DocTypes
      <3>4. LoadTypes'
        BY <2>1, <3>1 DEF LoadTypes, database
      <3> QED BY <2>1, <3>1, <3>2, <3>3, <3>4 DEF database, RowTypes, StoreTypes, TeardownTypes, WorkTypes, teardown
    <2> QED BY <2>2, <2>3
  <1>6. ASSUME NEW e \in Edit, edit(c, e)
        PROVE  DocInv'
    <2>1. doc # None /\ doc \in Documents /\ e \in Mark
      BY <1>6 DEF edit, DocTypes, Attached, Mark
    <2>2. doc' \in Documents
      BY <1>6, <2>1 DEF edit, Documents, Contents
    <2>3. copy' \in [Client -> Documents \cup {None}]
      BY <1>6, <2>2 DEF edit, DocTypes
    <2>4. DocTypes'
      BY <1>6, <2>1, <2>2, <2>3 DEF edit, DocTypes, Attached
    <2> QED BY <1>6, <2>4 DEF edit, database, RowTypes, LoadTypes, StoreTypes, TeardownTypes, WorkTypes, teardown
  <1> QED BY <1>1, <1>2, <1>3, <1>4, <1>5, <1>6

LEMMA LoadsKeepTypes == DocInv /\ (Loading \/ fetchFail) => DocInv'
  <1> SUFFICES ASSUME DocInv, Loading \/ fetchFail
               PROVE  DocInv'
    OBVIOUS
  <1> USE NoneApart DEF DocInv
  <1>1. Idle \in Loads /\ (load.at \in {"asked", "read", "checked"} => load # Idle)
    BY DEF Loads, Idle
  <1>2. Refused \in [Client -> Phases] /\ {c \in Client : Refused[c] \in {"writer", "reader"}} \subseteq Attached
    BY DEF Refused, DocTypes, Phases, Attached
  <1>3. CASE fetchStart
    <2>1. load' \in Loads
      BY <1>3 DEF fetchStart, Loads, RowTypes, StoreTypes
    <2>2. LoadTypes'
      BY <1>3, <2>1 DEF fetchStart, LoadTypes, RowTypes, database
    <2>3. DocTypes'
      BY <1>1, <1>3 DEF fetchStart, DocTypes, Attached, tabs
    <2> QED BY <1>3, <2>2, <2>3 DEF fetchStart, database, RowTypes, StoreTypes, TeardownTypes, WorkTypes, teardown
  <1>4. CASE fetchCheck
    <2>1. load \in Loads /\ load.at = "read"
      BY <1>4 DEF fetchCheck, LoadTypes
    <2>2. PICK refused \in BOOLEAN : refused = (load.refused \/ ~project \/ ~session.live)
      OBVIOUS
    <2>3. load' = [load EXCEPT !.at = "checked", !.refused = refused]
      BY <1>4, <2>2 DEF fetchCheck
    <2> DEFINE Reads == [at : {"read", "checked"}, stored : StoredDocs \cup {None}, lyrics : LyricsRows \cup {None}, refused : BOOLEAN]
    <2>7. load \in Reads
      BY <2>1 DEF Loads, Idle
    <2>8. load' \in Reads
      BY <2>3, <2>7
    <2>4. load' \in Loads /\ load'.lyrics = load.lyrics /\ load'.at = "checked" /\ load'.refused = refused
      BY <2>3, <2>7, <2>8 DEF Loads
    <2>5. LoadTypes'
      BY <1>4, <2>1, <2>2, <2>4 DEF fetchCheck, LoadTypes, RowTypes, database
    <2>6. DocTypes'
      BY <1>1, <1>4 DEF fetchCheck, DocTypes, Attached, tabs
    <2> QED BY <1>4, <2>5, <2>6 DEF fetchCheck, database, RowTypes, StoreTypes, TeardownTypes, WorkTypes, teardown
  <1>5. CASE fetchRefuse \/ fetchFail
    <2>1. load' = Idle /\ client' = Refused /\ database' = database /\ doc' = doc /\ store' = store
          /\ pending' = pending /\ dirty' = dirty /\ discardAfterStore' = discardAfterStore /\ discarded' = discarded
          /\ teardown' = teardown /\ copy' = copy /\ saving' = saving
      BY <1>5 DEF fetchRefuse, fetchFail
    <2>2. budget' \in [{"seeds", "faults", "crashes"} -> Nat] /\ budget'.seeds <= MaxSeeds
      BY <1>5 DEF fetchRefuse, fetchFail, Spend, WorkTypes
    <2>3. Attached' \subseteq Attached
      BY <1>2, <2>1 DEF Attached
    <2>4. DocTypes'
      BY <1>2, <2>1, <2>3 DEF DocTypes
    <2>5. LoadTypes'
      BY <1>1, <2>1 DEF LoadTypes, Idle
    <2> QED BY <2>1, <2>2, <2>4, <2>5 DEF database, RowTypes, StoreTypes, TeardownTypes, WorkTypes, teardown
  (* What both ways of handing a document out have in common.               *)
  <1>6. ASSUME NEW d \in Documents, handOut(d), load.at = "checked", load' = Idle, store' = store
        PROVE  DocTypes' /\ pending' \in BOOLEAN
    <2>1. CASE discarded
      <3>1. client' = Refused /\ doc' = doc /\ copy' = copy /\ pending' = pending
        BY <1>6, <2>1 DEF handOut
      <3>2. Attached' \subseteq Attached
        BY <1>2, <3>1 DEF Attached
      <3> QED BY <1>2, <1>6, <3>1, <3>2 DEF DocTypes, StoreTypes
    <2>2. CASE ~discarded
      <3>1. attach(Loaders, d) /\ Loaders \in SUBSET Client
        BY <1>6, <2>2 DEF handOut, Loaders
      <3>2. /\ doc' \in Documents /\ doc' # None /\ pending' \in BOOLEAN
            /\ client' \in [Client -> Phases] /\ copy' \in [Client -> Documents \cup {None}]
        BY <3>1, Attaches
      <3> QED BY <1>6, <3>2 DEF DocTypes
    <2> QED BY <2>1, <2>2
  <1>7. ASSUME load.at = "checked", ~load.refused
        PROVE  /\ load.stored \in StoredDocs \cup {None} /\ load.lyrics \in LyricsRows
    BY <1>7 DEF LoadTypes, Loads, Idle
  <1>8. CASE fetchResume
    <2>1. load.stored \in StoredDocs /\ load.lyrics \in LyricsRows /\ load.at = "checked" /\ load' = Idle /\ store' = store
      BY <1>7, <1>8 DEF fetchResume, Resumes, current, docMatchesLyrics
    <2>2. [seeds |-> load.stored.seeds, marks |-> load.stored.marks] \in Documents
      BY <2>1 DEF StoredDocs, Documents
    <2>3. DocTypes' /\ pending' \in BOOLEAN
      BY <1>6, <1>8, <2>1, <2>2 DEF fetchResume
    <2>4. stored' \in StoredDocs \cup {None}
      <3>1. CASE stored = None
        BY <1>8, <3>1 DEF fetchResume, RowTypes
      <3>2. CASE stored \in StoredDocs
        <4>1. [stored EXCEPT !.lyricsVersion = load.lyrics.version] \in StoredDocs
          BY <2>1, <3>2 DEF StoredDocs, LyricsRows
        <4> QED BY <1>8, <3>2, <4>1 DEF fetchResume
      <3> QED BY <3>1, <3>2 DEF RowTypes
    <2>5. LoadTypes'
      BY <1>1, <2>1 DEF LoadTypes, Idle
    <2> QED BY <1>8, <2>3, <2>4, <2>5 DEF fetchResume, RowTypes, StoreTypes, TeardownTypes, WorkTypes, teardown
  <1>9. CASE fetchSeed
    <2>1. PICK seed : seed = 1 + MaxSeeds - budget.seeds
      OBVIOUS
    <2>2. seed \in Nat
      BY <2>1, StoreAssumption DEF WorkTypes
    <2>3. load.lyrics \in LyricsRows /\ load.at = "checked" /\ load' = Idle /\ store' = store
      BY <1>7, <1>9 DEF fetchSeed
    <2>4. [seeds |-> {seed}, marks |-> load.lyrics.marks] \in Documents
      BY <2>2, <2>3 DEF LyricsRows, Documents
    <2>5. handOut([seeds |-> {seed}, marks |-> load.lyrics.marks])
      BY <1>9, <2>1 DEF fetchSeed
    <2>6. DocTypes' /\ pending' \in BOOLEAN
      BY <1>6, <2>3, <2>4, <2>5
    <2>7. stored' = [seeds |-> {seed}, marks |-> load.lyrics.marks, lyricsVersion |-> load.lyrics.version]
      BY <1>9, <2>1 DEF fetchSeed
    <2>8. stored' \in StoredDocs
      BY <2>2, <2>3, <2>7 DEF LyricsRows, StoredDocs
    <2>9. LoadTypes'
      BY <1>1, <2>3 DEF LoadTypes, Idle
    <2>10. budget' \in [{"seeds", "faults", "crashes"} -> Nat] /\ budget'.seeds <= MaxSeeds
      BY <1>9, StoreAssumption DEF fetchSeed, Spend, WorkTypes
    <2> QED BY <1>9, <2>6, <2>8, <2>9, <2>10 DEF fetchSeed, RowTypes, StoreTypes, TeardownTypes, WorkTypes, teardown
  <1> QED BY <1>3, <1>4, <1>5, <1>8, <1>9 DEF Loading

LEMMA StoresKeepTypes ==
    DocInv /\ (Storing \/ storeStateFails \/ storeProjectionFails \/ retryDirtyStores \/ unload) => DocInv'
  <1> SUFFICES ASSUME DocInv, Storing \/ storeStateFails \/ storeProjectionFails \/ retryDirtyStores \/ unload
               PROVE  DocInv'
    OBVIOUS
  <1> USE NoneApart DEF DocInv
  <1>0. Idle \in Stores /\ (store.at \in {"state", "lyrics", "version"} => store # Idle)
    BY DEF Stores, Idle
  <1>1. CASE storeStart
    <2>1. doc \in Documents /\ store = Idle /\ step' \in Steps /\ (step' = "start" <=> step = "start")
          /\ (step' \in Removals <=> step \in Removals)
      BY <1>1 DEF storeStart, DocTypes, TeardownTypes, Steps, Removals
    <2>2. store' \in Stores
      BY <1>1, <2>1 DEF storeStart, Stores, Documents
    <2>3. DocTypes' /\ StoreTypes'
      BY <1>1, <2>2 DEF storeStart, DocTypes, StoreTypes, Attached, tabs
    <2> QED BY <1>1, <2>1, <2>3 DEF storeStart, database, RowTypes, LoadTypes, TeardownTypes, WorkTypes
  (* What the ends of a store have in common.                               *)
  <1>2. ASSUME NEW outcome \in {"clean", "state", "projection"}, storeEnds(outcome), UNCHANGED <<settling, removing, owed>>
        PROVE  TeardownTypes' /\ dirty' = outcome /\ store' = Idle
    <2>1. step' \in Steps /\ (step' = "start" <=> step = "start") /\ (step' \in Removals <=> step \in Removals)
      BY <1>2 DEF storeEnds, TeardownTypes, Steps, Removals
    <2> QED BY <1>2, <2>1 DEF storeEnds, TeardownTypes
  <1>3. CASE storeWriteState
    <2>1. store \in [at : {"state"}, seeds : SUBSET Nat, marks : Contents] /\ store # Idle
      BY <1>0, <1>3 DEF storeWriteState, StoreTypes, Stores, Idle
    <2>2. stored' \in StoredDocs
      BY <1>3, <2>1 DEF storeWriteState, StoredDocs, RowTypes
    <2>3. store' \in Stores
      BY <1>3 DEF storeWriteState, Stores
    <2>4. DocTypes' /\ StoreTypes'
      BY <1>3, <2>1, <2>3 DEF storeWriteState, DocTypes, StoreTypes, Attached, tabs
    <2> QED BY <1>3, <2>2, <2>4 DEF storeWriteState, RowTypes, LoadTypes, TeardownTypes, WorkTypes, teardown
  <1>4. CASE storeStateFails \/ storeProjectionFails
    <2>1. TeardownTypes' /\ dirty' \in {"clean", "state", "projection"} /\ store' = Idle
      BY <1>2, <1>4 DEF storeStateFails, storeProjectionFails
    <2>2. budget' \in [{"seeds", "faults", "crashes"} -> Nat] /\ budget'.seeds <= MaxSeeds
      BY <1>4 DEF storeStateFails, storeProjectionFails, Spend, WorkTypes
    <2>3. DocTypes' /\ StoreTypes'
      BY <1>0, <1>4, <2>1 DEF storeStateFails, storeProjectionFails, DocTypes, StoreTypes, Attached, tabs
    <2> QED BY <1>4, <2>1, <2>2, <2>3 DEF storeStateFails, storeProjectionFails, database, RowTypes, LoadTypes, WorkTypes
  <1>5. CASE storeWriteLyrics
    <2>1. doc \in Documents /\ store # Idle
      BY <1>0, <1>5 DEF storeWriteLyrics, DocTypes
    <2>2. CASE lyrics = None
      <3>1. storeEnds("clean") /\ lyrics' = lyrics
        BY <1>5, <2>2 DEF storeWriteLyrics
      <3>2. TeardownTypes' /\ dirty' = "clean" /\ store' = Idle
        BY <1>2, <1>5, <3>1 DEF storeWriteLyrics
      <3>3. DocTypes' /\ StoreTypes'
        BY <1>0, <1>5, <3>2 DEF storeWriteLyrics, DocTypes, StoreTypes, Attached, tabs
      <3> QED BY <1>5, <3>1, <3>2, <3>3 DEF storeWriteLyrics, RowTypes, LoadTypes, WorkTypes
    <2>3. CASE lyrics \in LyricsRows
      <3>1. /\ lyrics' = [marks |-> doc.marks, version |-> lyrics.version + 1]
            /\ store' = [at |-> "version", version |-> lyrics'.version]
            /\ dirty' = dirty /\ step' = step
        BY <1>5, <2>3 DEF storeWriteLyrics
      <3>2. lyrics' \in LyricsRows
        BY <2>1, <2>3, <3>1 DEF LyricsRows, Documents
      <3>3. store' \in Stores
        BY <3>1, <3>2 DEF LyricsRows, Stores
      <3>4. DocTypes' /\ StoreTypes'
        BY <1>5, <2>1, <3>1, <3>3 DEF storeWriteLyrics, DocTypes, StoreTypes, Attached, tabs
      <3> QED BY <1>5, <3>1, <3>2, <3>4 DEF storeWriteLyrics, RowTypes, LoadTypes, TeardownTypes, WorkTypes
    <2> QED BY <2>2, <2>3 DEF RowTypes
  <1>6. CASE storeWriteVersion
    <2>1. store \in [at : {"version"}, version : Nat] /\ storeEnds("clean")
      BY <1>6 DEF storeWriteVersion, StoreTypes, Stores, Idle
    <2>2. stored' \in StoredDocs \cup {None}
      <3>1. CASE stored = None
        BY <1>6, <3>1 DEF storeWriteVersion
      <3>2. CASE stored \in StoredDocs
        <4>1. [stored EXCEPT !.lyricsVersion = store.version] \in StoredDocs
          BY <2>1, <3>2 DEF StoredDocs
        <4> QED BY <1>6, <3>2, <4>1 DEF storeWriteVersion
      <3> QED BY <3>1, <3>2 DEF RowTypes
    <2>3. TeardownTypes' /\ dirty' = "clean" /\ store' = Idle
      BY <1>2, <1>6, <2>1 DEF storeWriteVersion
    <2>4. DocTypes' /\ StoreTypes'
      BY <1>0, <1>6, <2>3 DEF storeWriteVersion, DocTypes, StoreTypes, Attached, tabs
    <2> QED BY <1>6, <2>2, <2>3, <2>4 DEF storeWriteVersion, RowTypes, LoadTypes, WorkTypes
  <1>7. CASE retryDirtyStores
    BY <1>7 DEF retryDirtyStores, database, RowTypes, DocTypes, Attached, LoadTypes, StoreTypes, TeardownTypes, WorkTypes, teardown, tabs
  <1>8. CASE unload
    <2>1. stored' \in StoredDocs \cup {None} /\ discarded' \in BOOLEAN /\ doc' = None /\ Attached' = {} /\ store' = Idle
          /\ dirty' = "clean" /\ discardAfterStore' = FALSE
      BY <1>8 DEF unload, RowTypes, StoreTypes, Attached, tabs
    <2>2. budget' \in [{"seeds", "faults", "crashes"} -> Nat] /\ budget'.seeds <= MaxSeeds
      BY <1>8 DEF unload, Spend, WorkTypes
    <2>3. DocTypes' /\ StoreTypes'
      BY <1>0, <1>8, <2>1 DEF unload, DocTypes, StoreTypes, tabs
    <2> QED BY <1>8, <2>1, <2>2, <2>3 DEF unload, RowTypes, LoadTypes, TeardownTypes, WorkTypes, teardown
  <1> QED BY <1>1, <1>3, <1>4, <1>5, <1>6, <1>7, <1>8 DEF Storing

(* A teardown that ends leaves the queue and its record. *)
LEMMA FinishKeepsTypes ==
    ASSUME TeardownTypes, finish, settling # <<>>
    PROVE  TeardownTypes' /\ step' = "start"
  <1>1. settling' \in Seq({"end", "discard"})
    BY Finished DEF finish, TeardownTypes
  <1> QED BY <1>1 DEF finish, TeardownTypes, Steps, Removals

LEMMA EndsKeepTypes ==
    ASSUME DocInv,
           \/ \E kind \in {"end", "discard"} : call(kind)
           \/ endLoaded \/ removeRead \/ removeWriteState \/ removeWriteLyrics \/ removeWriteVersion
           \/ removeDelete \/ removeFails \/ discardStart
    PROVE  DocInv'
  <1> USE NoneApart DEF DocInv
  <1>1. ASSUME NEW kind \in {"end", "discard"}, call(kind)
        PROVE  DocInv'
    <2>1. settling' \in Seq({"end", "discard"}) /\ settling' # <<>>
      BY <1>1, Queued DEF call, TeardownTypes
    <2>2. TeardownTypes'
      BY <1>1, <2>1 DEF call, TeardownTypes
    <2>3. StoreTypes'
      BY <1>1 DEF call, StoreTypes
    <2> QED BY <1>1, <2>2, <2>3 DEF call, database, RowTypes, DocTypes, Attached, LoadTypes, WorkTypes, tabs
  <1>2. CASE endLoaded
    <2>1. client' \in [Client -> Phases] /\ settling # <<>>
      BY <1>2 DEF endLoaded, Running, DocTypes, Phases
    <2>2. TeardownTypes'
      BY <1>2, <2>1 DEF endLoaded, TeardownTypes, Steps, Removals
    <2>3. DocTypes' /\ StoreTypes'
      BY <1>2, <2>1 DEF endLoaded, DocTypes, StoreTypes
    <2> QED BY <1>2, <2>2, <2>3 DEF endLoaded, database, RowTypes, LoadTypes, WorkTypes
  <1>3. CASE removeRead
    <2>1. TeardownTypes'
      <3>1. CASE stored = None
        BY <1>3, <3>1, FinishKeepsTypes DEF removeRead, Running
      <3>2. CASE stored \in StoredDocs
        <4>1. removing' = stored /\ step' \in {"state", "delete"} /\ settling' = settling /\ owed' = owed /\ settling # <<>>
          BY <1>3, <3>2 DEF removeRead, Running
        <4> QED BY <3>2, <4>1 DEF TeardownTypes, Steps, Removals
      <3> QED BY <3>1, <3>2 DEF RowTypes
    <2> QED BY <1>3, <2>1 DEF removeRead, database, RowTypes, DocTypes, Attached, LoadTypes, StoreTypes, WorkTypes
  <1>4. CASE removeWriteState
    <2>1. removing \in StoredDocs
      BY <1>4 DEF removeWriteState, TeardownTypes, Removals
    <2>2. \A v \in Nat : [removing EXCEPT !.lyricsVersion = v] \in StoredDocs
      BY <2>1 DEF StoredDocs
    <2>3. stored # None => stored.lyricsVersion \in Nat
      BY DEF RowTypes, StoredDocs
    <2>4. stored' \in StoredDocs
      BY <1>4, <2>2, <2>3 DEF removeWriteState
    <2>5. TeardownTypes'
      BY <1>4 DEF removeWriteState, TeardownTypes, Steps, Removals, Running
    <2> QED BY <1>4, <2>4, <2>5 DEF removeWriteState, RowTypes, DocTypes, Attached, LoadTypes, StoreTypes, WorkTypes, tabs
  <1>5. CASE removeWriteLyrics
    <2>1. removing \in StoredDocs
      BY <1>5 DEF removeWriteLyrics, TeardownTypes, Removals
    <2>2. CASE lyrics = None
      <3>1. TeardownTypes'
        BY <1>5, <2>2 DEF removeWriteLyrics, TeardownTypes, Steps, Removals, Running
      <3> QED BY <1>5, <2>2, <3>1 DEF removeWriteLyrics, RowTypes, DocTypes, Attached, LoadTypes, StoreTypes, WorkTypes, tabs
    <2>3. CASE lyrics \in LyricsRows
      <3>1. /\ step' = "version" /\ lyrics' = [marks |-> removing.marks, version |-> lyrics.version + 1]
            /\ removing' = [removing EXCEPT !.lyricsVersion = lyrics'.version]
        BY <1>5, <2>3 DEF removeWriteLyrics
      <3>2. lyrics' \in LyricsRows
        BY <2>1, <2>3, <3>1 DEF LyricsRows, StoredDocs
      <3>3. lyrics'.version \in Nat
        BY <3>2 DEF LyricsRows
      <3>4. removing' \in StoredDocs
        BY <2>1, <3>1, <3>3 DEF StoredDocs
      <3>5. TeardownTypes'
        BY <1>5, <3>1, <3>4 DEF removeWriteLyrics, TeardownTypes, Steps, Removals, Running
      <3> QED BY <1>5, <3>2, <3>5 DEF removeWriteLyrics, RowTypes, DocTypes, Attached, LoadTypes, StoreTypes, WorkTypes, tabs
    <2> QED BY <2>2, <2>3 DEF RowTypes
  <1>6. CASE removeWriteVersion
    <2>1. removing \in StoredDocs
      BY <1>6 DEF removeWriteVersion, TeardownTypes, Removals
    <2>2. stored' \in StoredDocs \cup {None}
      <3>1. CASE stored = None
        BY <1>6, <3>1 DEF removeWriteVersion
      <3>2. CASE stored \in StoredDocs
        <4>1. [stored EXCEPT !.lyricsVersion = removing.lyricsVersion] \in StoredDocs
          BY <2>1, <3>2 DEF StoredDocs
        <4> QED BY <1>6, <3>2, <4>1 DEF removeWriteVersion
      <3> QED BY <3>1, <3>2 DEF RowTypes
    <2>3. TeardownTypes'
      BY <1>6 DEF removeWriteVersion, TeardownTypes, Steps, Removals, Running
    <2> QED BY <1>6, <2>2, <2>3 DEF removeWriteVersion, RowTypes, DocTypes, Attached, LoadTypes, StoreTypes, WorkTypes, tabs
  <1>7. CASE removeDelete
    <2>1. TeardownTypes'
      BY <1>7, FinishKeepsTypes DEF removeDelete, Running
    <2> QED BY <1>7, <2>1 DEF removeDelete, RowTypes, DocTypes, Attached, LoadTypes, StoreTypes, WorkTypes
  <1>8. CASE removeFails
    <2>1. TeardownTypes'
      BY <1>8, FinishKeepsTypes DEF removeFails, Running
    <2>2. budget' \in [{"seeds", "faults", "crashes"} -> Nat] /\ budget'.seeds <= MaxSeeds
      BY <1>8 DEF removeFails, Spend, WorkTypes
    <2> QED BY <1>8, <2>1, <2>2 DEF removeFails, database, RowTypes, DocTypes, Attached, LoadTypes, StoreTypes, WorkTypes
  <1>9. CASE discardStart
    <2>1. TeardownTypes' /\ pending' \in BOOLEAN
      BY <1>9 DEF discardStart, TeardownTypes, StoreTypes, Steps, Removals, Running
    <2> QED BY <1>9, <2>1 DEF discardStart, database, RowTypes, DocTypes, Attached, LoadTypes, StoreTypes, WorkTypes, tabs
  <1> QED BY <1>1, <1>2, <1>3, <1>4, <1>5, <1>6, <1>7, <1>8, <1>9

LEMMA ClosingKeepsTypes == DocInv /\ (closePass \/ closeEnds \/ discardDelete \/ Crash) => DocInv'
  <1> SUFFICES ASSUME DocInv, closePass \/ closeEnds \/ discardDelete \/ Crash
               PROVE  DocInv'
    OBVIOUS
  <1> USE NoneApart DEF DocInv
  <1>1. CASE closePass
    <2>1. client' \in [Client -> Phases] /\ Attached' \subseteq Attached
      BY <1>1 DEF closePass, DocTypes, Phases, Attached
    <2> QED BY <1>1, <2>1 DEF closePass, database, RowTypes, DocTypes, LoadTypes, StoreTypes, TeardownTypes, WorkTypes, teardown
  <1>2. CASE closeEnds
    <2>1. TeardownTypes'
      <3>1. CASE Head(settling) = "end"
        BY <1>2, <3>1, FinishKeepsTypes DEF closeEnds
      <3>2. CASE Head(settling) # "end"
        BY <1>2, <3>2 DEF closeEnds, TeardownTypes, Steps, Removals
      <3> QED BY <3>1, <3>2
    <2>2. budget' \in [{"seeds", "faults", "crashes"} -> Nat] /\ budget'.seeds <= MaxSeeds
      BY <1>2 DEF closeEnds, Spend, WorkTypes
    <2> QED BY <1>2, <2>1, <2>2 DEF closeEnds, database, RowTypes, DocTypes, Attached, LoadTypes, StoreTypes, WorkTypes
  <1>3. CASE discardDelete
    <2>1. TeardownTypes'
      BY <1>3, FinishKeepsTypes DEF discardDelete, Running
    <2>2. budget' \in [{"seeds", "faults", "crashes"} -> Nat] /\ budget'.seeds <= MaxSeeds
      BY <1>3 DEF discardDelete, Spend, WorkTypes
    <2>3. stored' \in StoredDocs \cup {None} /\ discarded' \in BOOLEAN
      BY <1>3 DEF discardDelete, RowTypes, StoreTypes
    <2> QED BY <1>3, <2>1, <2>2, <2>3 DEF discardDelete, RowTypes, DocTypes, Attached, LoadTypes, StoreTypes, WorkTypes
  <1>4. CASE Crash
    <2>1. budget' \in [{"seeds", "faults", "crashes"} -> Nat] /\ budget'.seeds <= MaxSeeds
      BY <1>4 DEF Crash, Spend, WorkTypes
    <2>2. DocTypes'
      BY <1>4 DEF Crash, DocTypes, Phases, Attached
    <2>3. LoadTypes'
      BY <1>4 DEF Crash, LoadTypes, Loads, Idle
    <2>4. StoreTypes'
      BY <1>4 DEF Crash, StoreTypes, Stores
    <2>5. settling' = <<>> /\ step' = "start" /\ removing' = None /\ owed' = {}
      BY <1>4 DEF Crash
    <2>6. TeardownTypes'
      BY <2>5, EmptySeq DEF TeardownTypes, Steps, Removals
    <2> QED BY <1>4, <2>1, <2>2, <2>3, <2>4, <2>6 DEF Crash, database, RowTypes, WorkTypes
  <1> QED BY <1>1, <1>2, <1>3, <1>4

LEMMA DocStep == DocInv /\ [Next]_vars => DocInv'
  <1> SUFFICES ASSUME DocInv, [Next]_vars
               PROVE  DocInv'
    OBVIOUS
  <1>1. CASE UNCHANGED vars
    BY <1>1 DEF vars, database, teardown, tabs, past, DocInv, RowTypes, DocTypes, Attached, LoadTypes, StoreTypes,
        TeardownTypes, WorkTypes
  <1> QED BY <1>1, ServicesKeepTypes, TabsKeepTypes, LoadsKeepTypes, StoresKeepTypes, EndsKeepTypes, ClosingKeepsTypes
        DEF Next, TearingDown

(* Every variable keeps its type; in particular whoever is attached, and
   every store under way, has a loaded document (collab.server.ts). *)
THEOREM TypeCorrect == Spec => []TypeOK
  <1>1. Init => DocInv
    BY DocBegins
  <1>2. DocInv /\ [Next]_vars => DocInv'
    BY DocStep
  <1>3. DocInv => TypeOK
    BY DEF DocInv, RowTypes, DocTypes, LoadTypes, StoreTypes, TeardownTypes, TypeOK, LyricsRows, StoredDocs, Documents
  <1> QED BY <1>1, <1>2, <1>3, PTL DEF Spec
-----------------------------------------------------------------------------
(* A deletion is torn down once. *)
LEMMA SweepsShrink ==
    ASSUME settling \in Seq({"end", "discard"}), settling # <<>>, settling' = Tail(settling),
           \A i, j \in Sweeps : i = j
    PROVE  /\ (\A i, j \in Sweeps : i = j)'
           /\ Sweeps' # {} => Sweeps # {}
           /\ Sweeping => Sweeps # {} /\ Sweeps' = {}
  <1>1. /\ Len(settling') = Len(settling) - 1 /\ Len(settling) \in Nat /\ Len(settling) >= 1
        /\ \A i \in 1 .. Len(settling') : settling'[i] = settling[i + 1]
        /\ Head(settling) = settling[1]
    BY Finished
  <1>2. \A i \in Sweeps' : i \in Nat /\ i >= 1 /\ i + 1 \in Sweeps
    BY <1>1 DEF Sweeps
  <1>3. Sweeping => 1 \in Sweeps
    BY <1>1 DEF Sweeping, Sweeps
  <1>4. (\A i, j \in Sweeps : i = j)'
    <2> SUFFICES ASSUME NEW i \in Sweeps', NEW j \in Sweeps'
                 PROVE  i = j
      OBVIOUS
    <2>1. i + 1 = j + 1 /\ i \in Nat /\ j \in Nat
      BY <1>2
    <2> QED BY <2>1
  <1>5. Sweeping => Sweeps' = {}
    <2> SUFFICES ASSUME Sweeping, NEW i \in Sweeps'
                 PROVE  FALSE
      OBVIOUS
    <2>1. i + 1 = 1 /\ i \in Nat /\ i >= 1
      BY <1>2, <1>3
    <2> QED BY <2>1
  <1> QED BY <1>2, <1>3, <1>4, <1>5

LEMMA SweepsGrow ==
    ASSUME settling \in Seq({"end", "discard"}), NEW kind \in {"end", "discard"}, settling' = Append(settling, kind)
    PROVE  /\ kind = "end" => Sweeps' = Sweeps
           /\ kind = "discard" => Sweeps' = Sweeps \cup {Len(settling) + 1}
           /\ Sweeping' => Sweeping \/ (settling = <<>> /\ kind = "discard")
  <1>1. /\ settling' # <<>> /\ Len(settling') = Len(settling) + 1 /\ Len(settling) \in Nat
        /\ \A i \in 1 .. Len(settling) : settling'[i] = settling[i]
        /\ settling'[Len(settling) + 1] = kind
        /\ settling # <<>> => Head(settling') = Head(settling)
        /\ settling = <<>> => Head(settling') = kind
    BY Queued
  <1>2. 1 .. Len(settling') = (1 .. Len(settling)) \cup {Len(settling) + 1}
    BY <1>1
  <1>3. kind = "end" => Sweeps' = Sweeps
    BY <1>1, <1>2 DEF Sweeps
  <1>4. kind = "discard" => Sweeps' = Sweeps \cup {Len(settling) + 1}
    BY <1>1, <1>2 DEF Sweeps
  <1> QED BY <1>1, <1>3, <1>4 DEF Sweeping

LEMMA SweepingIsQueued == settling \in Seq({"end", "discard"}) /\ Sweeping => Sweeps # {}
  <1> SUFFICES ASSUME settling \in Seq({"end", "discard"}), Sweeping
               PROVE  Sweeps # {}
    OBVIOUS
  <1>1. settling # <<>> /\ Len(settling) \in Nat /\ Len(settling) >= 1 /\ Head(settling) = settling[1]
    BY DEF Sweeping
  <1>2. 1 \in Sweeps
    BY <1>1 DEF Sweeps, Sweeping
  <1> QED BY <1>2

LEMMA SweepBegins == Init => SweepInv
  <1> SUFFICES ASSUME Init
               PROVE  SweepInv
    OBVIOUS
  <1>1. Sweeps = {}
    BY DEF Init, Sweeps
  <1> QED BY <1>1 DEF Init, SweepInv, SweptOnce, SweepWaits, NobodyWritesBack, Sweeping

(* A step that leaves the queue alone leaves what is in it. *)
LEMMA QueueKept ==
    ASSUME SweptOnce, settling' = settling, owed' = owed, project' = project, swept' = swept,
           discarded' = discarded \/ (Sweeps # {} => discarded' = discarded)
    PROVE  SweptOnce' /\ Sweeps' = Sweeps /\ Sweeping' = Sweeping
  <1>1. Sweeps' = Sweeps /\ Sweeping' = Sweeping
    BY DEF Sweeps, Sweeping
  <1> QED BY <1>1 DEF SweptOnce

LEMMA ServicesSweep ==
    ASSUME DocInv, SweepInv,
           \/ startSession \/ endSessionService \/ deleteProject \/ patchLyrics
           \/ \E s \in Save : collabSessionBlocks(s)
    PROVE  SweepInv'
  <1> USE DEF SweepInv
  <1>1. Sweeps' = Sweeps /\ Sweeping' = Sweeping
    BY DEF startSession, endSessionService, deleteProject, patchLyrics, collabSessionBlocks, teardown, Sweeps, Sweeping
  <1>2. SweptOnce'
    BY <1>1 DEF startSession, endSessionService, deleteProject, patchLyrics, collabSessionBlocks, database, teardown, past,
       SweptOnce, NobodyWritesBack
  <1>3. SweepWaits'
    BY <1>1 DEF startSession, endSessionService, deleteProject, patchLyrics, collabSessionBlocks, teardown, SweepWaits
  <1>4. NobodyWritesBack'
    BY DEF startSession, endSessionService, deleteProject, patchLyrics, collabSessionBlocks, database, teardown, past,
       NobodyWritesBack
  <1> QED BY <1>2, <1>3, <1>4

LEMMA TabsSweep ==
    ASSUME DocInv, SweepInv, NEW c \in Client,
           \/ Knock(c) \/ PassGate(c) \/ resolvePrincipal(c) \/ Leave(c) \/ Admit(c)
           \/ \E e \in Edit : edit(c, e)
    PROVE  SweepInv'
  <1> USE DEF SweepInv
  <1>1. /\ settling' = settling /\ owed' = owed /\ step' = step /\ project' = project /\ swept' = swept
        /\ discarded' = discarded /\ stored' = stored /\ store' = store
    BY DEF Knock, PassGate, resolvePrincipal, Leave, Admit, edit, database, teardown, past
  <1>2. SweptOnce' /\ Sweeping' = Sweeping
    BY <1>1, QueueKept
  <1>3. Sweeping => discarded
    BY SweepingIsQueued DEF DocInv, TeardownTypes, SweptOnce
  <1>4. /\ load' = load \/ (load = Idle /\ ~discarded /\ load' = [at |-> "asked"])
        /\ doc' # None => doc # None
    <2>1. CASE Admit(c)
      <3>1. CASE doc = None \/ discarded
        BY <2>1, <3>1 DEF Admit
      <3>2. CASE ~(doc = None \/ discarded)
        BY <2>1, <3>2 DEF Admit
      <3> QED BY <3>1, <3>2
    <2>2. CASE \E e \in Edit : edit(c, e)
      BY <2>2 DEF edit, DocInv, DocTypes, Attached
    <2>3. CASE Knock(c) \/ PassGate(c) \/ resolvePrincipal(c) \/ Leave(c)
      BY <2>3 DEF Knock, PassGate, resolvePrincipal, Leave
    <2> QED BY <2>1, <2>2, <2>3
  <1>5. SweepWaits'
    BY <1>1, <1>2, <1>3, <1>4 DEF SweepWaits
  <1>6. NobodyWritesBack'
    BY <1>1, <1>4 DEF NobodyWritesBack
  <1> QED BY <1>2, <1>5, <1>6

LEMMA LoadsSweep == DocInv /\ SweepInv /\ (Loading \/ fetchFail) => SweepInv'
  <1> SUFFICES ASSUME DocInv, SweepInv, Loading \/ fetchFail
               PROVE  SweepInv'
    OBVIOUS
  <1> USE DEF SweepInv
  <1>1. /\ settling' = settling /\ owed' = owed /\ step' = step /\ project' = project /\ swept' = swept
        /\ discarded' = discarded /\ store' = store
    BY DEF Loading, fetchFail, fetchStart, fetchCheck, fetchRefuse, fetchResume, fetchSeed, database, teardown, past
  <1>2. SweptOnce' /\ Sweeping' = Sweeping
    BY <1>1, QueueKept
  <1>3. load # Idle
    BY DEF Loading, fetchFail, fetchStart, fetchCheck, fetchRefuse, fetchResume, fetchSeed, Idle
  <1>4. SweepWaits'
    BY <1>1, <1>2, <1>3 DEF SweepWaits
  <1>5. NobodyWritesBack'
    <2>1. CASE fetchStart
      BY <1>1, <2>1 DEF fetchStart, database, NobodyWritesBack
    <2>2. CASE fetchCheck
      <3>1. swept => load'.refused
        <4>1. PICK refused \in BOOLEAN : refused = (load.refused \/ ~project \/ ~session.live)
          OBVIOUS
        <4>2. load' = [load EXCEPT !.at = "checked", !.refused = refused]
          BY <2>2, <4>1 DEF fetchCheck
        <4>3. load \in [at : {"read", "checked"}, stored : StoredDocs \cup {None}, lyrics : LyricsRows \cup {None}, refused : BOOLEAN]
          BY <2>2 DEF fetchCheck, DocInv, LoadTypes, Loads, Idle
        <4>4. load'.refused = refused
          BY <4>2, <4>3
        <4> QED BY <4>1, <4>4 DEF NobodyWritesBack
      <3> QED BY <1>1, <2>2, <3>1 DEF fetchCheck, database, NobodyWritesBack
    <2>3. CASE fetchRefuse \/ fetchFail
      BY <1>1, <2>3 DEF fetchRefuse, fetchFail, database, NobodyWritesBack, Idle
    <2>4. CASE fetchResume \/ fetchSeed
      BY <1>1, <2>4 DEF fetchResume, fetchSeed, NobodyWritesBack
    <2> QED BY <2>1, <2>2, <2>3, <2>4 DEF Loading
  <1> QED BY <1>2, <1>4, <1>5

LEMMA StoresSweep ==
    DocInv /\ SweepInv /\ (Storing \/ storeStateFails \/ storeProjectionFails \/ retryDirtyStores \/ unload) => SweepInv'
  <1> SUFFICES ASSUME DocInv, SweepInv, Storing \/ storeStateFails \/ storeProjectionFails \/ retryDirtyStores \/ unload
               PROVE  SweepInv'
    OBVIOUS
  <1> USE DEF SweepInv
  <1>1. /\ settling' = settling /\ owed' = owed /\ project' = project /\ swept' = swept /\ load' = load
        /\ discarded' = discarded \/ (settling # <<>> => discarded' = discarded)
    BY DEF Storing, storeStart, storeWriteState, storeWriteLyrics, storeWriteVersion, storeStateFails,
       storeProjectionFails, retryDirtyStores, unload, database, teardown, past, StoreTypes, DocInv
  <1>2. SweptOnce' /\ Sweeping' = Sweeping
    <2>1. Sweeps # {} => settling # <<>>
      BY DEF Sweeps
    <2> QED BY <1>1, <2>1, QueueKept
  <1>3. Sweeping => discarded
    BY SweepingIsQueued DEF DocInv, TeardownTypes, SweptOnce
  <1>4. CASE storeStart
    <2>1. discarded => store' = store /\ step' = IF step = "flush" THEN "close" ELSE step
      BY <1>4 DEF storeStart
    <2>2. SweepWaits'
      BY <1>1, <1>2, <1>3, <1>4, <2>1 DEF storeStart, SweepWaits
    <2>3. NobodyWritesBack'
      BY <1>1, <1>4, <2>1 DEF storeStart, database, NobodyWritesBack
    <2> QED BY <1>2, <2>2, <2>3
  <1>5. CASE storeWriteState \/ storeWriteLyrics \/ storeWriteVersion \/ storeStateFails \/ storeProjectionFails
    <2>1. store # Idle /\ (step' = step \/ (step = "flushing" /\ step' = "close"))
      BY <1>5 DEF storeWriteState, storeWriteLyrics, storeWriteVersion, storeStateFails, storeProjectionFails, storeEnds,
         Idle, teardown
    <2>2. SweepWaits'
      BY <1>1, <1>2, <2>1 DEF SweepWaits
    <2>3. NobodyWritesBack'
      BY <1>1, <2>1 DEF NobodyWritesBack
    <2> QED BY <1>2, <2>2, <2>3
  <1>6. CASE retryDirtyStores \/ unload
    <2>1. step' = step /\ store' = store /\ (stored' = stored \/ stored' = None) /\ (doc' = doc \/ doc' = None)
          /\ (doc' # None => discarded' = discarded)
      BY <1>6 DEF retryDirtyStores, unload, database, teardown
    <2>2. SweepWaits'
      BY <1>1, <1>2, <2>1 DEF SweepWaits
    <2>3. NobodyWritesBack'
      BY <1>1, <2>1 DEF NobodyWritesBack
    <2> QED BY <1>2, <2>2, <2>3
  <1> QED BY <1>4, <1>5, <1>6 DEF Storing

LEMMA TeardownsSweep == DocInv /\ SweepInv /\ (TearingDown \/ removeFails) => SweepInv'
  <1> SUFFICES ASSUME DocInv, SweepInv, TearingDown \/ removeFails
               PROVE  SweepInv'
    OBVIOUS
  <1> USE DEF SweepInv
  <1>0. settling \in Seq({"end", "discard"}) /\ (settling = <<>> => step = "start")
    BY DEF DocInv, TeardownTypes
  <1>1. ASSUME NEW kind \in {"end", "discard"}, call(kind)
        PROVE  SweepInv'
    <2>1. /\ kind \in owed /\ owed' = owed \ {kind} /\ discarded' = (discarded \/ kind = "discard")
          /\ project' = project /\ swept' = swept /\ stored' = stored /\ store' = store /\ load' = load
          /\ doc' = doc /\ step' = step
      BY <1>1 DEF call, database, past
    <2>2. /\ kind = "end" => Sweeps' = Sweeps
          /\ kind = "discard" => Sweeps' = Sweeps \cup {Len(settling) + 1}
          /\ Sweeping' => Sweeping \/ (settling = <<>> /\ kind = "discard")
      BY <1>0, <1>1, SweepsGrow DEF call
    <2>3. SweptOnce'
      BY <2>1, <2>2 DEF SweptOnce
    <2>4. SweepWaits'
      BY <1>0, <2>1, <2>2 DEF SweepWaits
    <2>5. NobodyWritesBack'
      BY <2>1 DEF NobodyWritesBack
    <2> QED BY <2>3, <2>4, <2>5
  (* A teardown that ends leaves the queue.                                 *)
  <1>2. ASSUME finish, settling # <<>>, discarded' = discarded, project' = project, swept' = swept,
               stored' = stored \/ stored' = None, store' = store, load' = load, doc' = doc
        PROVE  SweepInv'
    <2>1. (\A i, j \in Sweeps : i = j)' /\ (Sweeps' # {} => Sweeps # {}) /\ owed' = owed /\ step' = "start"
      BY <1>0, <1>2, SweepsShrink DEF finish, SweptOnce
    <2>2. SweptOnce'
      BY <1>2, <2>1 DEF SweptOnce
    <2>3. SweepWaits'
      BY <2>1 DEF SweepWaits
    <2>4. NobodyWritesBack'
      BY <1>2, <2>1 DEF NobodyWritesBack
    <2> QED BY <2>2, <2>3, <2>4
  (* A step of the running teardown leaves the queue alone.                 *)
  <1>3. ASSUME settling' = settling, owed' = owed, discarded' = discarded, project' = project, swept' = swept
        PROVE  SweptOnce' /\ Sweeping' = Sweeping
    BY <1>3, QueueKept
  <1>4. CASE endLoaded
    <2>1. SweptOnce' /\ Sweeping' = Sweeping /\ ~Sweeping
      BY <1>3, <1>4 DEF endLoaded, Running, Sweeping, database, past
    <2>2. NobodyWritesBack'
      BY <1>4 DEF endLoaded, database, past, NobodyWritesBack
    <2> QED BY <2>1, <2>2 DEF SweepWaits
  <1>5. CASE removeRead
    <2>1. CASE stored = None
      BY <1>2, <1>5, <2>1 DEF removeRead, Running, database, past
    <2>2. CASE stored # None
      <3>1. settling' = settling /\ owed' = owed /\ ~swept
        BY <1>5, <2>2 DEF removeRead, NobodyWritesBack
      <3>2. SweptOnce' /\ Sweeping' = Sweeping /\ ~Sweeping
        BY <1>3, <1>5, <3>1 DEF removeRead, Running, Sweeping, database, past
      <3> QED BY <1>5, <3>1, <3>2 DEF removeRead, past, SweepWaits, NobodyWritesBack
    <2> QED BY <2>1, <2>2
  <1>6. CASE removeWriteState \/ removeWriteLyrics \/ removeWriteVersion
    <2>1. settling' = settling /\ owed' = owed /\ discarded' = discarded /\ project' = project /\ swept' = swept
          /\ step \in Removals /\ Running("end")
      BY <1>6 DEF removeWriteState, removeWriteLyrics, removeWriteVersion, past, Removals
    <2>2. SweptOnce' /\ Sweeping' = Sweeping /\ ~Sweeping
      BY <1>3, <2>1 DEF Running, Sweeping
    <2>3. ~swept
      BY <2>1 DEF NobodyWritesBack, Removals
    <2> QED BY <2>1, <2>2, <2>3 DEF SweepWaits, NobodyWritesBack
  <1>7. CASE removeDelete \/ removeFails
    BY <1>2, <1>7 DEF removeDelete, removeFails, Running, database, past
  <1>8. CASE discardStart
    <2>1. settling' = settling /\ owed' = owed /\ discarded' = discarded /\ project' = project /\ swept' = swept
          /\ store' = store /\ load' = load /\ load = Idle /\ step' = (IF doc # None THEN "flush" ELSE "delete") /\ Sweeping
      BY <1>8 DEF discardStart, Running, Sweeping, database, past
    <2>2. SweptOnce' /\ Sweeping' = Sweeping
      BY <1>3, <2>1
    <2>3. ~swept
      BY <1>0, <2>1, SweepingIsQueued DEF SweptOnce
    <2>4. doc = None => store = Idle
      BY DEF DocInv, DocTypes
    <2>5. SweepWaits'
      BY <2>1, <2>4 DEF SweepWaits
    <2> QED BY <2>1, <2>2, <2>3, <2>5 DEF NobodyWritesBack
  <1>9. CASE closePass
    <2>1. settling' = settling /\ owed' = owed /\ discarded' = discarded /\ project' = project /\ swept' = swept
          /\ store' = store /\ load' = load /\ step' = step /\ stored' = stored /\ doc' = doc
      BY <1>9 DEF closePass, database, teardown, past
    <2>2. SweptOnce' /\ Sweeping' = Sweeping
      BY <1>3, <2>1
    <2> QED BY <2>1, <2>2 DEF SweepWaits, NobodyWritesBack
  <1>10. CASE closeEnds
    <2>1. discarded' = discarded /\ project' = project /\ swept' = swept /\ store' = store /\ load' = load
          /\ stored' = stored /\ doc' = doc /\ settling # <<>> /\ step = "close"
      BY <1>10 DEF closeEnds, database, past
    <2>2. CASE Head(settling) = "end"
      BY <1>2, <1>10, <2>1, <2>2 DEF closeEnds
    <2>3. CASE Head(settling) # "end"
      <3>1. settling' = settling /\ owed' = owed /\ step' = "delete"
        BY <1>10, <2>3 DEF closeEnds
      <3>2. SweptOnce' /\ Sweeping' = Sweeping
        BY <1>3, <2>1, <3>1
      <3>3. Sweeping
        BY <1>0, <2>1, <2>3 DEF Sweeping
      <3>4. ~swept
        BY <1>0, <3>3, SweepingIsQueued DEF SweptOnce
      <3> QED BY <2>1, <3>1, <3>2, <3>4 DEF SweepWaits, NobodyWritesBack
    <2> QED BY <2>2, <2>3
  <1>11. CASE discardDelete
    <2>1. Sweeping /\ settling # <<>> /\ step = "delete" /\ finish /\ project' = project /\ store' = store
          /\ load' = load /\ doc' = doc /\ discarded' = (discarded /\ doc # None)
      BY <1>11 DEF discardDelete, Running, Sweeping
    <2>2. Sweeps # {} /\ Sweeps' = {} /\ (\A i, j \in Sweeps : i = j)' /\ owed' = owed /\ step' = "start"
      BY <1>0, <2>1, SweepsShrink DEF finish, SweptOnce
    <2>3. ~project /\ ~swept /\ "discard" \notin owed /\ discarded /\ load = Idle /\ store = Idle
      BY <2>1, <2>2 DEF SweptOnce, SweepWaits
    <2>4. SweptOnce' /\ SweepWaits'
      BY <2>1, <2>2, <2>3 DEF SweptOnce, SweepWaits
    <2>5. swept' => stored' = None
      BY <1>11, <2>3 DEF discardDelete
    <2>6. NobodyWritesBack'
      BY <2>1, <2>2, <2>3, <2>5 DEF NobodyWritesBack, Idle
    <2> QED BY <2>4, <2>6
  <1> QED BY <1>1, <1>4, <1>5, <1>6, <1>7, <1>8, <1>9, <1>10, <1>11 DEF TearingDown

LEMMA SweepStep == DocInv /\ SweepInv /\ [Next]_vars => SweepInv'
  <1> SUFFICES ASSUME DocInv, SweepInv, [Next]_vars
               PROVE  SweepInv'
    OBVIOUS
  <1>1. CASE Crash
    <2>1. Sweeps' = {} /\ ~Sweeping' /\ owed' = {} /\ swept' = swept /\ stored' = stored /\ project' = project
          /\ store' = Idle /\ load' = Idle /\ doc' = None /\ step' = "start"
      BY <1>1 DEF Crash, Sweeps, Sweeping, database, past
    <2> QED BY <2>1 DEF SweepInv, SweptOnce, SweepWaits, NobodyWritesBack, Idle
  <1>2. CASE UNCHANGED vars
    BY <1>2 DEF vars, database, teardown, past, SweepInv, SweptOnce, SweepWaits, NobodyWritesBack, Sweeps, Sweeping
  <1> QED BY <1>1, <1>2, ServicesSweep, TabsSweep, LoadsSweep, StoresSweep, TeardownsSweep DEF Next

(* discardSession runs once for a deleted project, and once it has deleted
   the stored document no load, store or teardown still under way in any
   order brings it back (discardSession, fetchState, storeState). *)
THEOREM DeletedForGood == Spec => []DeletedStaysDeleted
  <1>1. Init => DocInv /\ SweepInv
    BY DocBegins, SweepBegins
  <1>2. (DocInv /\ SweepInv) /\ [Next]_vars => (DocInv /\ SweepInv)'
    BY DocStep, SweepStep
  <1>3. DocInv /\ SweepInv => DeletedStaysDeleted
    BY DEF SweepInv, NobodyWritesBack, DeletedStaysDeleted
  <1> QED BY <1>1, <1>2, <1>3, PTL DEF Spec
-----------------------------------------------------------------------------
(* The end of a session. *)
LEMMA EndBegins == Init => EndInv
  BY StoreAssumption DEF Init, EndInv, Idle

(* A step that fails a database call leaves the claim behind. *)
LEMMA Faulted == DocInv /\ EndInv /\ Spend("faults") => EndInv'
  <1> SUFFICES ASSUME DocInv, EndInv, Spend("faults")
               PROVE  EndInv'
    OBVIOUS
  <1>1. budget.faults \in Nat /\ budget'.faults = budget.faults - 1 /\ budget.faults <= MaxFaults /\ MaxFaults \in Nat
    BY StoreAssumption DEF DocInv, WorkTypes, Spend, EndInv
  <1> QED BY <1>1 DEF EndInv

LEMMA Unfaulted ==
    ASSUME DocInv, UNCHANGED budget \/ Spend("seeds") \/ Spend("crashes")
    PROVE  budget'.faults = budget.faults
  BY DEF DocInv, WorkTypes, Spend

(* A step that is not a teardown's, and begins nothing: whoever loads was
   loading, whatever is loaded was. *)
LEMMA EndKept ==
    ASSUME EndInv, budget'.faults = budget.faults, session' = session, settling' = settling, owed' = owed,
           step' = step \/ (step \in {"flush", "flushing"} /\ step' \in {"flushing", "close"}),
           load' = load \/ load'.at # "checked" \/ (~session.live => load'.refused),
           doc' # None => doc # None, dirty' \in {dirty, "clean"}
    PROVE  EndInv'
  BY DEF EndInv, EndDue, Closing

LEMMA ServicesEnd ==
    ASSUME DocInv, EndInv,
           \/ startSession \/ endSessionService \/ deleteProject \/ patchLyrics
           \/ \E s \in Save : collabSessionBlocks(s)
    PROVE  EndInv'
  <1>1. CASE startSession
    BY <1>1 DEF startSession, EndInv, DocInv, RowTypes
  <1>2. CASE endSessionService \/ deleteProject
    BY <1>2 DEF endSessionService, deleteProject, EndInv, EndDue
  <1>3. CASE patchLyrics \/ \E s \in Save : collabSessionBlocks(s)
    <2>1. /\ budget' = budget /\ session' = session /\ settling' = settling /\ owed' = owed /\ step' = step
          /\ load' = load /\ doc' = doc /\ dirty' = dirty
      BY <1>3 DEF patchLyrics, collabSessionBlocks, database, teardown
    <2> QED BY <2>1, EndKept
  <1> QED BY <1>1, <1>2, <1>3

LEMMA TabsEnd ==
    ASSUME DocInv, EndInv, NEW c \in Client,
           \/ Knock(c) \/ PassGate(c) \/ resolvePrincipal(c) \/ Leave(c) \/ Admit(c)
           \/ \E e \in Edit : edit(c, e)
    PROVE  EndInv'
  <1>1. /\ budget' = budget /\ session' = session /\ settling' = settling /\ owed' = owed /\ step' = step /\ dirty' = dirty
    BY DEF Knock, PassGate, resolvePrincipal, Leave, Admit, edit, database, teardown
  <1>2. (load' = load \/ load'.at # "checked") /\ (doc' # None => doc # None)
    <2>1. CASE Admit(c)
      <3>1. CASE doc = None \/ discarded
        BY <2>1, <3>1 DEF Admit
      <3>2. CASE ~(doc = None \/ discarded)
        BY <2>1, <3>2 DEF Admit
      <3> QED BY <3>1, <3>2
    <2>2. CASE \E e \in Edit : edit(c, e)
      BY <2>2 DEF edit, DocInv, DocTypes, Attached
    <2>3. CASE Knock(c) \/ PassGate(c) \/ resolvePrincipal(c) \/ Leave(c)
      BY <2>3 DEF Knock, PassGate, resolvePrincipal, Leave
    <2> QED BY <2>1, <2>2, <2>3
  <1> QED BY <1>1, <1>2, EndKept

LEMMA LoadsEnd == DocInv /\ EndInv /\ (Loading \/ fetchFail) => EndInv'
  <1> SUFFICES ASSUME DocInv, EndInv, Loading \/ fetchFail
               PROVE  EndInv'
    OBVIOUS
  <1>1. CASE fetchFail
    BY <1>1, Faulted DEF fetchFail
  <1>2. CASE Loading
    <2>1. /\ session' = session /\ settling' = settling /\ owed' = owed /\ step' = step /\ dirty' = dirty
          /\ budget'.faults = budget.faults
      BY <1>2, Unfaulted DEF Loading, fetchStart, fetchCheck, fetchRefuse, fetchResume, fetchSeed, database, teardown
    <2>2. CASE fetchStart \/ fetchRefuse
      BY <2>1, <2>2, EndKept DEF fetchStart, fetchRefuse, Idle
    <2>3. CASE fetchCheck
      <3>1. PICK refused \in BOOLEAN : refused = (load.refused \/ ~project \/ ~session.live)
        OBVIOUS
      <3>2. load' = [load EXCEPT !.at = "checked", !.refused = refused] /\ doc' = doc
        BY <2>3, <3>1 DEF fetchCheck
      <3>3. load \in [at : {"read", "checked"}, stored : StoredDocs \cup {None}, lyrics : LyricsRows \cup {None}, refused : BOOLEAN]
        BY <2>3 DEF fetchCheck, DocInv, LoadTypes, Loads, Idle
      <3>4. load'.refused = refused
        BY <3>2, <3>3
      <3>5. ~session.live => load'.refused
        BY <3>1, <3>4
      <3> QED BY <2>1, <3>2, <3>5, EndKept
    <2>4. CASE fetchResume \/ fetchSeed
      <3>1. load.at = "checked" /\ ~load.refused /\ load' = Idle
        BY <2>4 DEF fetchResume, fetchSeed
      <3> QED BY <2>1, <3>1 DEF EndInv, EndDue, Idle
    <2> QED BY <1>2, <2>2, <2>3, <2>4 DEF Loading
  <1> QED BY <1>1, <1>2

LEMMA StoresEnd ==
    DocInv /\ EndInv /\ (Storing \/ storeStateFails \/ storeProjectionFails \/ retryDirtyStores \/ unload) => EndInv'
  <1> SUFFICES ASSUME DocInv, EndInv, Storing \/ storeStateFails \/ storeProjectionFails \/ retryDirtyStores \/ unload
               PROVE  EndInv'
    OBVIOUS
  <1>1. CASE Spend("faults")
    BY <1>1, Faulted
  <1>2. CASE ~Spend("faults")
    <2>1. /\ session' = session /\ settling' = settling /\ owed' = owed /\ load' = load /\ budget' = budget
          /\ dirty' \in {dirty, "clean"} /\ (doc' # None => doc # None)
      BY <1>2 DEF Storing, storeStart, storeWriteState, storeWriteLyrics, storeWriteVersion, storeStateFails, storeEnds,
         storeProjectionFails, retryDirtyStores, unload, database, teardown
    <2>2. step' = step \/ (step \in {"flush", "flushing"} /\ step' \in {"flushing", "close"})
      <3>1. CASE storeStart
        BY <3>1 DEF storeStart
      <3>2. CASE storeWriteLyrics
        BY <3>2 DEF storeWriteLyrics, storeEnds
      <3>3. CASE storeWriteState \/ storeWriteVersion \/ retryDirtyStores \/ unload
        BY <3>3 DEF storeWriteState, storeWriteVersion, storeEnds, retryDirtyStores, unload, teardown
      <3> QED BY <1>2, <3>1, <3>2, <3>3 DEF Storing, storeStateFails, storeProjectionFails
    <2>3. budget'.faults = budget.faults
      BY <2>1
    <2> QED BY <2>1, <2>2, <2>3, EndKept
  <1> QED BY <1>1, <1>2

LEMMA TeardownsEnd == DocInv /\ EndInv /\ (TearingDown \/ removeFails) => EndInv'
  <1> SUFFICES ASSUME DocInv, EndInv, TearingDown \/ removeFails
               PROVE  EndInv'
    OBVIOUS
  <1>0. settling \in Seq({"end", "discard"}) /\ (settling = <<>> => step = "start")
    BY DEF DocInv, TeardownTypes
  <1>1. ASSUME NEW kind \in {"end", "discard"}, call(kind)
        PROVE  EndInv'
    <2>1. settling' # <<>> /\ Len(settling') = Len(settling) + 1 /\ Len(settling) \in Nat
          /\ (settling # <<>> => Len(settling) >= 1)
      BY <1>0, <1>1, Queued DEF call
    <2>2. step' = step /\ budget' = budget /\ dirty' = dirty /\ session' = session
      BY <1>1 DEF call, database
    <2>3. settling' # <<>> /\ (step' = "start" \/ Len(settling') >= 2)
      BY <1>0, <2>1, <2>2
    <2> QED BY <2>2, <2>3 DEF EndInv, EndDue
  (* A teardown that ends is the last one due only if nothing is loaded.    *)
  <1>2. ASSUME finish, settling # <<>>, session' = session, load' = load, doc' = doc, dirty' = dirty, budget' = budget,
               ~session.live /\ ~(owed # {} \/ Len(settling) >= 2) /\ dirty = "clean" /\ budget.faults = MaxFaults =>
                   doc = None /\ (load.at = "checked" => load.refused)
        PROVE  EndInv'
    <2>1. Len(settling) \in Nat /\ (settling' # <<>> <=> Len(settling) >= 2) /\ owed' = owed /\ step' = "start"
      BY <1>0, <1>2, Finished DEF finish
    <2> QED BY <1>2, <2>1 DEF EndInv, EndDue
  <1>3. CASE endLoaded
    BY <1>3 DEF endLoaded, Running, database, Idle, EndInv, EndDue, Closing
  <1>4. CASE removeRead
    <2>1. load = Idle /\ doc = None /\ doc' = doc /\ load' = load /\ dirty' = dirty /\ budget' = budget /\ session' = session
      BY <1>4 DEF removeRead, database
    <2>2. CASE stored = None
      BY <1>2, <1>4, <2>1, <2>2 DEF removeRead, Running, Idle
    <2>3. CASE stored # None
      BY <1>4, <2>1, <2>3 DEF EndInv, Idle
    <2> QED BY <2>2, <2>3
  <1>5. CASE removeWriteState \/ removeWriteLyrics \/ removeWriteVersion
    <2>1. settling' = settling /\ owed' = owed /\ step \notin {"start", "flush", "flushing", "close"} /\ session' = session
          /\ load' = load /\ doc' = doc /\ dirty' = dirty /\ budget' = budget
      BY <1>5 DEF removeWriteState, removeWriteLyrics, removeWriteVersion
    <2> QED BY <2>1 DEF EndInv, EndDue, Closing
  <1>6. CASE removeDelete
    <2>1. finish /\ settling # <<>> /\ step = "delete" /\ session' = session /\ load' = load /\ doc' = doc
          /\ dirty' = dirty /\ budget' = budget
      BY <1>6 DEF removeDelete, Running
    <2> QED BY <1>2, <2>1 DEF EndInv, EndDue, Closing
  <1>7. CASE removeFails
    BY <1>7, Faulted DEF removeFails
  <1>8. CASE discardStart
    BY <1>8 DEF discardStart, Running, database, Idle, EndInv, EndDue, Closing
  <1>9. CASE closePass
    <2>1. settling' = settling /\ owed' = owed /\ step' = step /\ session' = session
          /\ load' = load /\ doc' = doc /\ dirty' = dirty /\ budget' = budget
      BY <1>9 DEF closePass, database, teardown
    <2> QED BY <2>1, EndKept
  <1>10. CASE closeEnds
    <2>1. CASE Spend("faults")
      BY <2>1, Faulted
    <2>2. CASE ~Spend("faults")
      <3>1. settling # <<>> /\ step = "close" /\ session' = session /\ load' = load /\ doc' = doc
            /\ dirty' = dirty /\ budget' = budget /\ (doc = None \/ isUnstored)
        BY <1>10, <2>2 DEF closeEnds, database
      <3>2. dirty = "clean" => doc = None
        BY <3>1 DEF isUnstored
      <3>3. CASE Head(settling) = "end"
        BY <1>2, <1>10, <3>1, <3>2, <3>3 DEF closeEnds, EndInv, EndDue
      <3>4. CASE Head(settling) # "end"
        <4>1. settling' = settling /\ owed' = owed /\ step' = "delete"
          BY <1>10, <3>4 DEF closeEnds
        <4> QED BY <3>1, <3>2, <4>1 DEF EndInv, EndDue
      <3> QED BY <3>3, <3>4
    <2> QED BY <2>1, <2>2
  <1>11. CASE discardDelete
    <2>1. CASE Spend("faults")
      BY <2>1, Faulted
    <2>2. CASE ~Spend("faults")
      <3>1. finish /\ settling # <<>> /\ step = "delete" /\ session' = session /\ load' = load /\ doc' = doc
            /\ dirty' = dirty /\ budget' = budget
        BY <1>11, <2>2 DEF discardDelete, Running
      <3> QED BY <1>2, <3>1 DEF EndInv, EndDue, Closing
    <2> QED BY <2>1, <2>2
  <1> QED BY <1>1, <1>3, <1>4, <1>5, <1>6, <1>7, <1>8, <1>9, <1>10, <1>11 DEF TearingDown

LEMMA EndStep == DocInv /\ EndInv /\ [Next]_vars => EndInv'
  <1> SUFFICES ASSUME DocInv, EndInv, [Next]_vars
               PROVE  EndInv'
    OBVIOUS
  <1>1. CASE Crash
    <2>1. budget'.faults = budget.faults
      BY <1>1, Unfaulted DEF Crash
    <2> QED BY <1>1, <2>1 DEF Crash, EndInv, Idle
  <1>2. CASE UNCHANGED vars
    BY <1>2 DEF vars, database, teardown, EndInv, EndDue, Closing
  <1> QED BY <1>1, <1>2, ServicesEnd, TabsEnd, LoadsEnd, StoresEnd, TeardownsEnd DEF Next

(* As long as no database call has failed, a session that ended, its
   teardown over, has no writer left in its document: nobody still loading
   it gets in behind the teardown, overlapping sessions and crashes
   included (endSession, closeUntilUnloaded, fetchState). *)
THEOREM EndedIsOver == Spec => [](budget.faults = MaxFaults => NoWriterAfterEnd)
  <1>1. Init => DocInv /\ EndInv
    BY DocBegins, EndBegins
  <1>2. (DocInv /\ EndInv) /\ [Next]_vars => (DocInv /\ EndInv)'
    BY DocStep, EndStep
  <1>3. DocInv /\ EndInv => (budget.faults = MaxFaults => NoWriterAfterEnd)
    BY DEF DocInv, DocTypes, Attached, EndInv, EndDue, Closing, NoWriterAfterEnd
  <1> QED BY <1>1, <1>2, <1>3, PTL DEF Spec

-----------------------------------------------------------------------------
(* Whoever is inside is of the newest session, a load has its loaders, and
   only a loaded document waits for a final store. *)
Turns ==
    /\ budget.faults <= MaxFaults /\ budget.crashes <= MaxCrashes
    /\ seen \in [Client -> Nat]
    /\ \A c \in Client : seen[c] <= session.epoch /\ (client[c] \in Within => seen[c] = session.epoch)
    /\ load # Idle => Loaders # {}
    /\ session.live => project
    /\ discarded => ~project
    /\ doc = None => ~discardAfterStore

LEMMA TurnsBegin == Init => Turns
  <1> SUFFICES ASSUME Init
               PROVE  Turns
    OBVIOUS
  <1>1. budget = [seeds |-> MaxSeeds, faults |-> MaxFaults, crashes |-> MaxCrashes]
    BY DEF Init
  <1>2. budget.faults <= MaxFaults /\ budget.crashes <= MaxCrashes
    BY <1>1, StoreAssumption
  <1>3. seen \in [Client -> Nat] /\ \A c \in Client : seen[c] = 0 /\ client[c] = "off"
    BY DEF Init
  <1> QED BY <1>2, <1>3 DEF Init, Turns, Within

(* A step spends at most one failing call or one crash. *)
LEMMA Spending ==
    ASSUME DocInv, [Next]_vars
    PROVE  \/ budget'.faults = budget.faults /\ budget'.crashes = budget.crashes
           \/ budget'.faults = budget.faults /\ budget'.crashes = budget.crashes - 1 /\ Crash
           \/ budget'.faults = budget.faults - 1 /\ budget'.crashes = budget.crashes
  <1>0. budget \in [{"seeds", "faults", "crashes"} -> Nat]
    BY DEF DocInv, WorkTypes
  <1>1. \/ budget' = budget \/ Spend("seeds") \/ Spend("faults") \/ (Spend("crashes") /\ Crash)
    <2>1. CASE startSession \/ endSessionService \/ deleteProject \/ patchLyrics \/ \E s \in Save : collabSessionBlocks(s)
      BY <2>1 DEF startSession, endSessionService, deleteProject, patchLyrics, collabSessionBlocks
    <2>2. ASSUME NEW c \in Client,
                 \/ Knock(c) \/ PassGate(c) \/ resolvePrincipal(c) \/ Admit(c) \/ Leave(c)
                 \/ \E e \in Edit : edit(c, e)
          PROVE  budget' = budget
      BY <2>2 DEF Knock, PassGate, resolvePrincipal, Admit, Leave, edit
    <2>3. CASE Loading \/ fetchFail
      BY <2>3 DEF Loading, fetchStart, fetchCheck, fetchRefuse, fetchResume, fetchSeed, fetchFail
    <2>4. CASE Storing \/ storeStateFails \/ storeProjectionFails \/ retryDirtyStores \/ unload
      BY <2>4 DEF Storing, storeStart, storeWriteState, storeWriteLyrics, storeWriteVersion, storeStateFails, storeProjectionFails, retryDirtyStores, unload
    <2>5. CASE TearingDown \/ removeFails
      BY <2>5 DEF TearingDown, call, endLoaded, removeRead, removeWriteState, removeWriteLyrics, removeWriteVersion, removeDelete,
         discardStart, closePass, closeEnds, discardDelete, removeFails
    <2>6. CASE Crash
      BY <2>6 DEF Crash
    <2>7. CASE UNCHANGED vars
      BY <2>7 DEF vars
    <2> QED BY <2>1, <2>2, <2>3, <2>4, <2>5, <2>6, <2>7 DEF Next
  <1>2. Spend("seeds") => budget'.faults = budget.faults /\ budget'.crashes = budget.crashes
    BY <1>0 DEF Spend
  <1>3. Spend("faults") => budget'.faults = budget.faults - 1 /\ budget'.crashes = budget.crashes
    BY <1>0 DEF Spend
  <1>4. Spend("crashes") => budget'.faults = budget.faults /\ budget'.crashes = budget.crashes - 1
    BY <1>0 DEF Spend
  <1> QED BY <1>1, <1>2, <1>3, <1>4

-----------------------------------------------------------------------------
(* Turns.
   Steps that leave the tabs' sessions alone. *)
LEMMA TurnsKept ==
    ASSUME DocInv, Turns, budget'.faults <= MaxFaults, budget'.crashes <= MaxCrashes,
           seen' = seen, session'.epoch = session.epoch, session'.live => session.live, 
           project' = project \/ ~session'.live,
           \A c \in Client : client'[c] \in Within => client[c] \in Within,
           load' # Idle => load # Idle /\ \A c \in Client : client[c] = "loading" => client'[c] = "loading",
           discarded' => discarded \/ ~project', project' => project,
           doc' = None => ~discardAfterStore' \/ (doc = None /\ discardAfterStore' = discardAfterStore)
    PROVE  Turns'
  <1>1. (\A c \in Client : seen[c] <= session.epoch /\ (client[c] \in Within => seen[c] = session.epoch))'
    BY DEF Turns
  <1>2. load' # Idle => Loaders' # {}
    BY DEF Turns, Loaders
  <1>3. session'.live => project'
    BY DEF Turns
  <1>4. discarded' => ~project'
    BY DEF Turns
  <1>5. doc' = None => ~discardAfterStore'
    BY DEF Turns
  <1> QED BY <1>1, <1>2, <1>3, <1>4, <1>5 DEF Turns

LEMMA Bounded ==
    ASSUME DocInv, Turns, [Next]_vars
    PROVE  budget'.faults <= MaxFaults /\ budget'.crashes <= MaxCrashes
  <1>1. budget.faults \in Nat /\ budget.crashes \in Nat /\ MaxFaults \in Nat /\ MaxCrashes \in Nat
    BY StoreAssumption DEF DocInv, WorkTypes
  <1> QED BY <1>1, Spending DEF Turns

LEMMA ServicesTurn ==
    ASSUME DocInv, SweepInv, Turns, startSession => SessionsApart', [Next]_vars,
           \/ startSession \/ endSessionService \/ deleteProject \/ patchLyrics
           \/ \E s \in Save : collabSessionBlocks(s)
    PROVE  Turns'
  <1>0. budget'.faults <= MaxFaults /\ budget'.crashes <= MaxCrashes /\ session \in [epoch : Nat, live : BOOLEAN]
    BY Bounded DEF DocInv, RowTypes
  <1>1. CASE startSession
    <2>1. /\ session'.epoch = session.epoch + 1 /\ session'.live /\ project /\ project' = project
          /\ load' = load /\ client' = client /\ seen' = seen /\ discarded' = discarded
          /\ doc' = doc /\ discardAfterStore' = discardAfterStore
      BY <1>1 DEF startSession, tabs
    <2>2. \A c \in Client : client'[c] \in Within => seen'[c] = session'.epoch
      BY <1>1, <2>1 DEF SessionsApart
    <2>3. \A c \in Client : seen'[c] \in Nat /\ seen'[c] <= session'.epoch
      BY <1>0, <2>1 DEF Turns
    <2>4. load' # Idle => Loaders' # {}
      BY <2>1 DEF Turns, Loaders
    <2> QED BY <1>0, <2>1, <2>2, <2>3, <2>4 DEF Turns
  <1>2. CASE ~startSession
    <2>1. /\ session'.epoch = session.epoch /\ (session'.live => session.live) /\ (project' = project \/ ~session'.live)
          /\ (project' => project)
          /\ load' = load /\ client' = client /\ seen' = seen /\ discarded' = discarded
          /\ doc' = doc /\ discardAfterStore' = discardAfterStore
      BY <1>0, <1>2 DEF endSessionService, deleteProject, patchLyrics, collabSessionBlocks, database, tabs
    <2> QED BY <1>0, <2>1, TurnsKept
  <1> QED BY <1>1, <1>2

LEMMA TabsTurn ==
    ASSUME DocInv, SweepInv, Turns, [Next]_vars, NEW c \in Client,
           \/ Knock(c) \/ PassGate(c) \/ resolvePrincipal(c) \/ Leave(c) \/ Admit(c)
           \/ \E e \in Edit : edit(c, e)
    PROVE  Turns'
  <1>0. /\ budget'.faults <= MaxFaults /\ budget'.crashes <= MaxCrashes /\ session \in [epoch : Nat, live : BOOLEAN]
        /\ client \in [Client -> Phases]
    BY Bounded DEF DocInv, RowTypes, DocTypes
  <1>1. session' = session /\ project' = project /\ discarded' = discarded
    BY DEF Knock, PassGate, resolvePrincipal, Leave, Admit, edit, database
  <1>2. CASE PassGate(c) \/ Leave(c) \/ \E e \in Edit : edit(c, e)
    <2>1. /\ \A d \in Client : client'[d] \in Within => client[d] \in Within
          /\ \A d \in Client : client[d] = "loading" => client'[d] = "loading"
          /\ seen' = seen /\ load' = load
          /\ discardAfterStore' = discardAfterStore
      BY <1>0, <1>2 DEF PassGate, Leave, edit, Within, Attached
    <2>2. doc' = doc \/ doc' # None
      <3>1. ASSUME NEW e \in Edit, edit(c, e)
            PROVE  doc' # None
        <4>1. doc \in Documents /\ e \in Mark
          BY <3>1 DEF edit, DocInv, DocTypes, Attached, Mark
        <4>2. doc' \in Documents
          BY <3>1, <4>1 DEF edit, Documents, Contents
        <4> QED BY <4>2, NoneApart
      <3> QED BY <1>2, <3>1 DEF PassGate, Leave
    <2> QED BY <1>0, <1>1, <2>1, <2>2, TurnsKept DEF Turns
  <1>3. CASE Knock(c)
    <2>1. /\ client' = [client EXCEPT ![c] = client'[c]] /\ client'[c] \notin Within /\ client[c] = "off"
          /\ load' = load /\ doc' = doc /\ discardAfterStore' = discardAfterStore
      BY <1>0, <1>3 DEF Knock, Within
    <2>2. seen' \in [Client -> Nat] /\ \A d \in Client : seen'[d] \in {0, seen[d]} /\ (d # c => seen'[d] = seen[d])
      BY <1>3 DEF Knock, Turns
    <2>3. \A d \in Client : seen'[d] <= session'.epoch /\ (client'[d] \in Within => seen'[d] = session'.epoch)
      BY <1>0, <1>1, <2>1, <2>2 DEF Turns
    <2>4. load' # Idle => Loaders' # {}
      BY <1>0, <2>1 DEF Turns, Loaders
    <2> QED BY <1>0, <1>1, <2>1, <2>2, <2>3, <2>4 DEF Turns
  <1>4. CASE resolvePrincipal(c)
    <2>1. /\ client' = [client EXCEPT ![c] = client'[c]] /\ client[c] = "auth"
          /\ load' = load /\ doc' = doc /\ discardAfterStore' = discardAfterStore
      BY <1>0, <1>4 DEF resolvePrincipal
    <2>2. PICK admitted \in BOOLEAN : admitted = (session.live /\ (copy[c] = None \/ seen[c] = session.epoch))
      OBVIOUS
    <2>3. /\ client' = [client EXCEPT ![c] = IF admitted THEN "read" ELSE "off"]
          /\ seen' = IF admitted THEN [seen EXCEPT ![c] = session.epoch] ELSE seen
      BY <1>4, <2>2 DEF resolvePrincipal
    <2>4. seen' \in [Client -> Nat]
      BY <1>0, <2>3 DEF Turns
    <2>5. \A d \in Client : seen'[d] <= session'.epoch /\ (client'[d] \in Within => seen'[d] = session'.epoch)
      BY <1>0, <1>1, <2>3 DEF Turns, Within
    <2>6. load' # Idle => Loaders' # {}
      BY <1>0, <2>1 DEF Turns, Loaders
    <2> QED BY <1>0, <1>1, <2>1, <2>4, <2>5, <2>6 DEF Turns
  <1>5. CASE Admit(c)
    <2>1. client[c] = "read" /\ seen' = seen /\ (discardAfterStore' => discardAfterStore)
      BY <1>5 DEF Admit
    <2>2. CASE doc = None \/ discarded
      <3>1. /\ client' = [client EXCEPT ![c] = IF discarded THEN "off" ELSE "loading"]
            /\ load' = IF load = Idle /\ ~discarded THEN [at |-> "asked"] ELSE load
            /\ doc' = doc
        BY <1>5, <2>2 DEF Admit
      <3>2. \A d \in Client : client'[d] \in Within => client[d] \in Within
        BY <1>0, <2>1, <3>1 DEF Within
      <3>3. load' # Idle => Loaders' # {}
        BY <1>0, <2>1, <3>1 DEF Turns, Loaders
      <3> QED BY <1>0, <1>1, <2>1, <3>1, <3>2, <3>3 DEF Turns
    <2>3. CASE ~(doc = None \/ discarded)
      <3>1. attach({c}, doc) /\ load' = load /\ load = Idle /\ doc \in Documents /\ {c} \in SUBSET Client
        BY <1>5, <2>3 DEF Admit, DocInv, DocTypes
      <3>2. doc' # None
        BY <3>1, Attaches DEF DocInv
      <3>3. \A d \in Client : client'[d] \in Within => client[d] \in Within
        BY <1>0, <2>1, <3>1 DEF attach, Within
      <3> QED BY <1>0, <1>1, <2>1, <3>1, <3>2, <3>3 DEF Turns
    <2> QED BY <2>2, <2>3
  <1> QED BY <1>2, <1>3, <1>4, <1>5

LEMMA LoadsTurn ==
    ASSUME DocInv, SweepInv, Turns, [Next]_vars, Loading \/ fetchFail
    PROVE  Turns'
  <1>0. /\ budget'.faults <= MaxFaults /\ budget'.crashes <= MaxCrashes /\ client \in [Client -> Phases]
    BY Bounded DEF DocInv, DocTypes
  <1>1. session' = session /\ project' = project /\ discarded' = discarded /\ seen' = seen
        /\ discardAfterStore' = discardAfterStore
    BY DEF Loading, fetchStart, fetchCheck, fetchRefuse, fetchResume, fetchSeed, fetchFail, database, tabs
  <1>2. CASE fetchStart \/ fetchCheck
    <2>1. load # Idle /\ client' = client /\ doc' = doc
      BY <1>2 DEF fetchStart, fetchCheck, Idle, tabs
    <2> QED BY <1>0, <1>1, <2>1, TurnsKept DEF Turns
  <1>3. \A c \in Client : Refused[c] \in Within => client[c] \in Within
    BY <1>0 DEF Refused, Within, Loaders
  <1>4. CASE fetchRefuse \/ fetchFail
    <2>1. load' = Idle /\ client' = Refused /\ doc' = doc
      BY <1>4 DEF fetchRefuse, fetchFail
    <2> QED BY <1>0, <1>1, <1>3, <2>1, TurnsKept DEF Turns
  <1>5. CASE fetchResume \/ fetchSeed
    <2>1. load' = Idle /\ load.at = "checked" /\ ~load.refused
      BY <1>5 DEF fetchResume, fetchSeed
    <2>2. PICK d : handOut(d)
      BY <1>5 DEF fetchResume, fetchSeed
    <2>3. \A c \in Client : client'[c] \in Within => client[c] \in Within
      <3>1. CASE discarded
        BY <1>3, <2>2, <3>1 DEF handOut
      <3>2. CASE ~discarded
        BY <1>0, <2>2, <3>2 DEF handOut, attach, Loaders, Within
      <3> QED BY <3>1, <3>2
    <2>4. doc = None
      BY <2>1 DEF DocInv, DocTypes, Idle
    <2> QED BY <1>0, <1>1, <2>1, <2>3, <2>4, TurnsKept DEF Turns
  <1> QED BY <1>2, <1>4, <1>5 DEF Loading

LEMMA StoresTurn ==
    ASSUME DocInv, SweepInv, Turns, [Next]_vars,
           Storing \/ storeStateFails \/ storeProjectionFails \/ retryDirtyStores \/ unload
    PROVE  Turns'
  <1>0. budget'.faults <= MaxFaults /\ budget'.crashes <= MaxCrashes
    BY Bounded
  <1>1. session' = session /\ project' = project /\ (discarded' => discarded) /\ seen' = seen /\ load' = load /\ client' = client
        /\ (doc' = None => ~discardAfterStore' \/ (doc = None /\ discardAfterStore' = discardAfterStore))
    <2>1. CASE Storing
      BY <2>1 DEF Turns, Storing, storeStart, storeWriteState, storeWriteLyrics, storeWriteVersion, database, tabs
    <2>2. CASE storeStateFails \/ storeProjectionFails \/ retryDirtyStores
      BY <2>2 DEF Turns, storeStateFails, storeProjectionFails, retryDirtyStores, database, tabs
    <2>3. CASE unload
      BY <2>3 DEF unload, tabs
    <2> QED BY <2>1, <2>2, <2>3
  <1> QED BY <1>0, <1>1, TurnsKept DEF Turns

LEMMA TeardownsTurn ==
    ASSUME DocInv, SweepInv, Turns, [Next]_vars, TearingDown \/ removeFails \/ Crash \/ UNCHANGED vars
    PROVE  Turns'
  <1>0. /\ budget'.faults <= MaxFaults /\ budget'.crashes <= MaxCrashes /\ client \in [Client -> Phases]
    BY Bounded DEF DocInv, DocTypes
  <1>1. session' = session /\ project' = project /\ seen' = seen
    BY DEF TearingDown, call, endLoaded, removeRead, removeWriteState, removeWriteLyrics, removeWriteVersion, removeDelete,
       discardStart, closePass, closeEnds, discardDelete, removeFails, Crash, vars, database, tabs, finish
  <1>2. discarded' => discarded \/ ~project
    <2>1. ASSUME NEW kind \in {"end", "discard"}, call(kind)
          PROVE  discarded' => discarded \/ ~project
      BY <2>1 DEF call, SweepInv, SweptOnce
    <2> QED BY <2>1 DEF TearingDown, endLoaded, removeRead, removeWriteState, removeWriteLyrics, removeWriteVersion, removeDelete,
       discardStart, closePass, closeEnds, discardDelete, removeFails, Crash, vars
  <1>3. \A c \in Client : client'[c] \in Within => client[c] \in Within
    BY <1>0 DEF TearingDown, call, endLoaded, removeRead, removeWriteState, removeWriteLyrics, removeWriteVersion, removeDelete,
       discardStart, closePass, closeEnds, discardDelete, removeFails, Crash, vars, tabs, Within, Attached
  <1>4. load' # Idle => load # Idle /\ \A c \in Client : client[c] = "loading" => client'[c] = "loading"
    BY <1>0 DEF TearingDown, call, endLoaded, removeRead, removeWriteState, removeWriteLyrics, removeWriteVersion, removeDelete,
       discardStart, closePass, closeEnds, discardDelete, removeFails, Crash, vars, tabs, Attached
  <1>5. doc' = None => ~discardAfterStore' \/ (doc = None /\ discardAfterStore' = discardAfterStore)
    BY DEF TearingDown, call, endLoaded, removeRead, removeWriteState, removeWriteLyrics, removeWriteVersion, removeDelete,
       discardStart, closePass, closeEnds, discardDelete, removeFails, Crash, vars
  <1> QED BY <1>0, <1>1, <1>2, <1>3, <1>4, <1>5, TurnsKept DEF Turns

LEMMA TurnsStep == DocInv /\ SweepInv /\ Turns /\ (startSession => SessionsApart') /\ [Next]_vars => Turns'
  BY ServicesTurn, TabsTurn, LoadsTurn, StoresTurn, TeardownsTurn DEF Next

-----------------------------------------------------------------------------
(* Kept: what a store wrote stays.  The ways a document and Lyrics may stand
   to each other, where no store has failed or nothing crashes any more. *)
Fine == budget.faults = MaxFaults \/ (budget.faults + 1 = MaxFaults /\ budget.crashes = MaxCrashes)
Unsaved == project /\ used \cap Save = {}
Fresh == load.stored = stored /\ load.lyrics = lyrics
LoadKept ==
    /\ load.at = "read" /\ session.live => Fresh
    /\ load.at = "checked" /\ ~load.refused => Fresh /\ step = "start"
UnloadedKept == doc = None => kept \subseteq Loadable
LoadedKept == doc # None =>
    /\ stored # None /\ kept \subseteq doc.marks /\ kept \subseteq stored.marks
    /\ store.at = "state" => kept \subseteq store.marks /\ store.marks \subseteq doc.marks
    /\ store.at = "version" => store.version = lyrics.version /\ kept \subseteq lyrics.marks
    /\ current(stored, lyrics) \/ store.at = "lyrics" \/ kept \subseteq lyrics.marks
    /\ budget.faults = MaxFaults => current(stored, lyrics) \/ store.at = "version"
    /\ discardAfterStore =>
         pending \/ store.at \in {"state", "lyrics"} \/ dirty # "clean" \/ kept \subseteq lyrics.marks
RemovalKept ==
    /\ step \in Removals \cup {"delete"} => doc = None
    /\ step \in {"state", "lyrics"} =>
         removing = stored /\ stored # None /\ current(stored, lyrics) /\ kept \subseteq stored.marks
    /\ step = "version" => /\ stored # None /\ stored.marks = lyrics.marks
                           /\ removing.lyricsVersion = lyrics.version /\ kept \subseteq lyrics.marks
    /\ step = "delete" => kept \subseteq lyrics.marks
KeptParts == saving = None /\ LoadKept /\ UnloadedKept /\ LoadedKept /\ RemovalKept
KeptInv == Fine /\ Unsaved => KeptParts

(* Of a project that stands, teardowns are ends, and none is queued while
   a session is live. *)
Ends ==
    /\ ~discarded
    /\ "discard" \notin owed
    /\ settling # <<>> => Head(settling) = "end" /\ ~session.live
    /\ step # "start" => settling # <<>>
    /\ discardAfterStore => doc # None
    /\ lyrics \in LyricsRows /\ stored \in StoredDocs \cup {None}

LEMMA EndsOnly == DocInv /\ SweepInv /\ Turns /\ SessionsApart /\ project => Ends
  <1> SUFFICES ASSUME DocInv, SweepInv, Turns, SessionsApart, project
               PROVE  Ends
    OBVIOUS
  <1>1. ~discarded /\ "discard" \notin owed /\ Sweeps = {}
    BY DEF Turns, SweepInv, SweptOnce
  <1>2. ASSUME settling # <<>>
        PROVE  Head(settling) = "end" /\ ~session.live
    <2>1. settling \in Seq({"end", "discard"})
      BY DEF DocInv, TeardownTypes
    <2>2. Head(settling) \in {"end", "discard"}
      BY <1>2, <2>1
    <2>3. ~Sweeping
      BY <1>1, <2>1, SweepingIsQueued
    <2> QED BY <1>2, <2>2, <2>3 DEF Sweeping, SessionsApart
  <1>3. lyrics \in LyricsRows /\ stored \in StoredDocs \cup {None}
    BY DEF DocInv, RowTypes
  <1> QED BY <1>1, <1>2, <1>3 DEF Ends, DocInv, TeardownTypes, Turns

(* What the step was taken from. *)
LEMMA FineBefore ==
    ASSUME DocInv, Turns, [Next]_vars, Fine', Unsaved'
    PROVE  /\ Fine /\ Unsaved
           /\ budget'.faults = MaxFaults => budget.faults = MaxFaults
           /\ Spend("faults") => budget.faults = MaxFaults /\ budget'.faults # MaxFaults
           /\ Crash => budget.faults = MaxFaults
  <1>0. /\ budget \in [{"seeds", "faults", "crashes"} -> Nat] /\ MaxFaults \in Nat /\ MaxCrashes \in Nat
        /\ budget.faults <= MaxFaults /\ budget.crashes <= MaxCrashes
    BY StoreAssumption DEF DocInv, WorkTypes, Turns
  <1>1. \/ budget'.faults = budget.faults /\ budget'.crashes = budget.crashes
        \/ budget'.faults = budget.faults /\ budget'.crashes = budget.crashes - 1 /\ Crash
        \/ budget'.faults = budget.faults - 1 /\ budget'.crashes = budget.crashes
    BY Spending
  <1>2. Spend("faults") => budget'.faults = budget.faults - 1 /\ budget'.crashes = budget.crashes
    BY <1>0 DEF Spend
  <1>3. Crash => budget'.faults = budget.faults /\ budget'.crashes = budget.crashes - 1
    BY <1>0 DEF Crash, Spend
  <1>4. Unsaved
    <2>1. CASE startSession \/ endSessionService \/ deleteProject \/ patchLyrics \/ \E s \in Save : collabSessionBlocks(s)
      BY <2>1 DEF Unsaved, startSession, endSessionService, deleteProject, patchLyrics, collabSessionBlocks, database, past
    <2>2. ASSUME NEW c \in Client,
                 \/ Knock(c) \/ PassGate(c) \/ resolvePrincipal(c) \/ Admit(c) \/ Leave(c)
                 \/ \E e \in Edit : edit(c, e)
          PROVE  Unsaved
      BY <2>2 DEF Unsaved, Knock, PassGate, resolvePrincipal, Admit, Leave, edit, database, past
    <2>3. CASE Loading \/ fetchFail
      BY <2>3 DEF Unsaved, Loading, fetchStart, fetchCheck, fetchRefuse, fetchResume, fetchSeed, fetchFail, database, past
    <2>4. CASE Storing \/ storeStateFails \/ storeProjectionFails \/ retryDirtyStores \/ unload
      BY <2>4 DEF Unsaved, Storing, storeStart, storeWriteState, storeWriteLyrics, storeWriteVersion, storeStateFails, storeProjectionFails,
         retryDirtyStores, unload, database, past
    <2>5. CASE TearingDown \/ removeFails \/ Crash \/ UNCHANGED vars
      BY <2>5 DEF Unsaved, TearingDown, call, endLoaded, removeRead, removeWriteState, removeWriteLyrics, removeWriteVersion, removeDelete,
         discardStart, closePass, closeEnds, discardDelete, removeFails, Crash, vars, database, past
    <2> QED BY <2>1, <2>2, <2>3, <2>4, <2>5 DEF Next
  <1>5. budget'.faults = MaxFaults \/ (budget'.faults + 1 = MaxFaults /\ budget'.crashes = MaxCrashes)
    BY DEF Fine
  <1>6. /\ budget.faults = MaxFaults \/ (budget.faults + 1 = MaxFaults /\ budget.crashes = MaxCrashes)
        /\ budget'.faults = MaxFaults => budget.faults = MaxFaults
        /\ Spend("faults") => budget.faults = MaxFaults /\ budget'.faults # MaxFaults
        /\ Crash => budget.faults = MaxFaults
    BY <1>0, <1>1, <1>2, <1>3, <1>5
  <1> QED BY <1>4, <1>6 DEF Fine

LEMMA KeptBegins == Init => KeptInv
  BY NoneApart DEF Init, KeptInv, KeptParts, LoadKept, UnloadedKept, LoadedKept, RemovalKept, Removals, Idle

(* A step that touches none of it. *)
LEMMA KeptKept ==
    ASSUME KeptParts, stored' = stored, lyrics' = lyrics, doc' = doc, load' = load, store' = store, pending' = pending,
           dirty' = dirty, discardAfterStore' = discardAfterStore, step' = step, removing' = removing, kept' = kept,
           saving' = saving, session'.live => session.live,
           budget'.faults = MaxFaults => budget.faults = MaxFaults
    PROVE  KeptParts'
  BY DEF KeptParts, LoadKept, Fresh, UnloadedKept, LoadedKept, RemovalKept, Loadable, current, docMatchesLyrics

Standing == DocInv /\ Turns /\ Ends /\ KeptParts

LEMMA ServicesKeep ==
    ASSUME Standing, Turns', SessionsApart', [Next]_vars, Fine', Unsaved',
           \/ startSession \/ endSessionService \/ deleteProject \/ patchLyrics
           \/ \E s \in Save : collabSessionBlocks(s)
    PROVE  KeptParts'
  <1>0. Fine /\ Unsaved /\ (budget'.faults = MaxFaults => budget.faults = MaxFaults)
    BY FineBefore DEF Standing
  <1>1. CASE startSession
    <2>1. /\ session'.epoch = session.epoch + 1 /\ session'.live /\ client' = client /\ seen' = seen /\ load' = load
      BY <1>1 DEF startSession, tabs
    <2>2. load = Idle
      <3> SUFFICES ASSUME load # Idle
                   PROVE  FALSE
        OBVIOUS
      <3>1. PICK c \in Client : client[c] = "loading"
        BY DEF Standing, Turns, Loaders
      <3>2. seen[c] <= session.epoch /\ seen[c] \in Nat /\ session.epoch \in Nat
        BY DEF Standing, Turns, DocInv, RowTypes
      <3>3. seen[c] = session.epoch + 1
        BY <2>1, <3>1 DEF SessionsApart, Within
      <3> QED BY <3>2, <3>3
    <2>3. LoadKept'
      BY <2>1, <2>2 DEF LoadKept, Idle
    <2> QED BY <1>1, <2>3 DEF Standing, startSession, KeptParts, UnloadedKept, LoadedKept, RemovalKept, Loadable, current, docMatchesLyrics,
          teardown, past
  <1>2. CASE endSessionService
    <2>1. session'.live = FALSE
      BY <1>2 DEF Standing, endSessionService, DocInv, RowTypes
    <2> QED BY <1>0, <1>2, <2>1, KeptKept DEF Standing, endSessionService, past
  <1>3. CASE deleteProject
    BY <1>3 DEF deleteProject, Unsaved
  <1>4. CASE patchLyrics
    BY <1>4 DEF patchLyrics, Standing, KeptParts
  <1>5. ASSUME NEW s \in Save, collabSessionBlocks(s)
        PROVE  KeptParts'
    BY <1>5 DEF collabSessionBlocks, Unsaved
  <1> QED BY <1>1, <1>2, <1>3, <1>4, <1>5

(* An attachment only adds to a document. *)
LEMMA AttachAdds ==
    ASSUME DocTypes, StoreTypes, NEW C \in SUBSET Client, NEW d \in Documents, attach(C, d)
    PROVE  d.marks \subseteq doc'.marks /\ doc' # None /\ (pending => pending')
  <1> QED BY Attaches DEF attach

LEMMA TabsKeep ==
    ASSUME Standing, Turns', [Next]_vars, Fine', Unsaved', NEW c \in Client,
           \/ Knock(c) \/ PassGate(c) \/ resolvePrincipal(c) \/ Leave(c) \/ Admit(c)
           \/ \E e \in Edit : edit(c, e)
    PROVE  KeptParts'
  <1>0. Fine /\ Unsaved /\ (budget'.faults = MaxFaults => budget.faults = MaxFaults)
    BY FineBefore DEF Standing
  <1>1. CASE Knock(c) \/ PassGate(c) \/ resolvePrincipal(c) \/ Leave(c)
    BY <1>0, <1>1, KeptKept DEF Standing, Knock, PassGate, resolvePrincipal, Leave, database, teardown, past
  (* The document grows, and may be due for a store.                        *)
  <1>2. ASSUME doc # None, doc' # None, doc.marks \subseteq doc'.marks, pending => pending', discardAfterStore' => discardAfterStore,
               load = Idle, load' = Idle, stored' = stored, lyrics' = lyrics, store' = store, dirty' = dirty, step' = step, removing' = removing,
               kept' = kept, saving' = saving
        PROVE  KeptParts'
    <2>1. LoadKept' /\ UnloadedKept' /\ RemovalKept'
      BY <1>2 DEF Standing, KeptParts, LoadKept, UnloadedKept, RemovalKept, Idle, Removals
    <2>2. LoadedKept'
      BY <1>0, <1>2 DEF Standing, KeptParts, LoadedKept, current
    <2> QED BY <1>2, <2>1, <2>2 DEF Standing, KeptParts
  <1>3. CASE Admit(c)
    <2>1. /\ stored' = stored /\ lyrics' = lyrics /\ store' = store /\ dirty' = dirty /\ step' = step /\ removing' = removing
          /\ kept' = kept /\ saving' = saving /\ (discardAfterStore' => discardAfterStore) /\ session' = session
      BY <1>3 DEF Admit, database, teardown, past
    <2>2. CASE doc = None
      <3>1. /\ load' = load \/ load' = [at |-> "asked"]
            /\ doc' = doc /\ pending' = pending
        BY <1>3, <2>2 DEF Admit
      <3>2. LoadKept'
        BY <2>1, <3>1 DEF Standing, KeptParts, LoadKept, Fresh
      <3> QED BY <1>0, <2>1, <2>2, <3>1, <3>2 DEF Standing, KeptParts, UnloadedKept, LoadedKept, RemovalKept, Loadable, current, docMatchesLyrics
    <2>3. CASE doc # None
      <3>1. attach({c}, doc) /\ load' = load /\ load = Idle /\ doc \in Documents /\ {c} \in SUBSET Client
        BY <1>3, <2>3 DEF Admit, Standing, Ends, DocInv, DocTypes
      <3>2. doc.marks \subseteq doc'.marks /\ doc' # None /\ (pending => pending')
        BY <3>1, AttachAdds DEF Standing, DocInv
      <3> QED BY <1>2, <2>1, <2>3, <3>1, <3>2
    <2> QED BY <2>2, <2>3
  <1>4. ASSUME NEW e \in Edit, edit(c, e)
        PROVE  KeptParts'
    <2>1. doc \in Documents /\ doc # None /\ load = Idle /\ e \in Mark
      BY <1>4, NoneApart DEF edit, Standing, DocInv, DocTypes, Attached, Mark
    <2>2. doc' \in Documents /\ doc.marks \subseteq doc'.marks
      BY <1>4, <2>1 DEF edit, Documents, Contents
    <2> QED BY <1>2, <1>4, <2>1, <2>2, NoneApart DEF edit, database, teardown, past
  <1> QED BY <1>1, <1>3, <1>4

LEMMA LoadsKeep ==
    ASSUME Standing, Turns', [Next]_vars, Fine', Unsaved', Loading \/ fetchFail
    PROVE  KeptParts'
  <1>0. Fine /\ Unsaved /\ (budget'.faults = MaxFaults => budget.faults = MaxFaults)
    BY FineBefore DEF Standing
  <1>1. /\ lyrics' = lyrics /\ store' = store /\ dirty' = dirty /\ step' = step /\ removing' = removing /\ session' = session
        /\ kept' = kept /\ saving' = saving /\ discardAfterStore' = discardAfterStore
    BY DEF Loading, fetchStart, fetchCheck, fetchRefuse, fetchResume, fetchSeed, fetchFail, database, teardown, past
  <1>2. load # Idle /\ doc = None
    BY DEF Loading, fetchStart, fetchCheck, fetchRefuse, fetchResume, fetchSeed, fetchFail, Idle, Standing, DocInv, DocTypes
  (* Of the steps that hand nothing out.                                    *)
  <1>3. ASSUME LoadKept', doc' = doc, stored' = stored
        PROVE  KeptParts'
    BY <1>1, <1>2, <1>3 DEF Standing, KeptParts, UnloadedKept, LoadedKept, RemovalKept, Loadable, current, docMatchesLyrics
  <1>4. CASE fetchStart
    <2>1. load' = [at |-> "read", stored |-> stored, lyrics |-> lyrics, refused |-> discarded] /\ doc' = doc /\ stored' = stored
      BY <1>4 DEF fetchStart, database
    <2>2. LoadKept'
      BY <1>1, <2>1 DEF LoadKept, Fresh
    <2> QED BY <1>3, <2>1, <2>2
  <1>5. CASE fetchCheck
    <2>1. PICK refused \in BOOLEAN : refused = (load.refused \/ ~project \/ ~session.live)
      OBVIOUS
    <2>2. load' = [load EXCEPT !.at = "checked", !.refused = refused] /\ load.at = "read" /\ doc' = doc /\ stored' = stored
      BY <1>5, <2>1 DEF fetchCheck, database
    <2>3. load \in [at : {"read", "checked"}, stored : StoredDocs \cup {None}, lyrics : LyricsRows \cup {None}, refused : BOOLEAN]
      BY <2>2 DEF Standing, DocInv, LoadTypes, Loads, Idle
    <2>4. load'.at = "checked" /\ load'.refused = refused /\ load'.stored = load.stored /\ load'.lyrics = load.lyrics
      BY <2>2, <2>3
    <2>5. ~refused => session.live
      BY <2>1
    <2>6. session.live => Fresh /\ step = "start"
      BY <2>2 DEF Standing, KeptParts, LoadKept, Ends
    <2>7. LoadKept'
      BY <1>1, <2>2, <2>4, <2>5, <2>6 DEF LoadKept, Fresh
    <2> QED BY <1>3, <2>2, <2>7
  <1>6. CASE fetchRefuse \/ fetchFail
    <2>1. load' = Idle /\ doc' = doc /\ stored' = stored
      BY <1>6 DEF fetchRefuse, fetchFail, database
    <2>2. LoadKept'
      BY <2>1 DEF LoadKept, Idle
    <2> QED BY <1>3, <2>1, <2>2
  (* What is handed out holds everything, and the row that goes with it.    *)
  <1>7. ASSUME load.at = "checked", ~load.refused, load' = Idle,
               NEW d \in Documents, handOut(d), kept \subseteq d.marks,
               stored' # None, kept \subseteq stored'.marks, current(stored', lyrics')
        PROVE  KeptParts'
    <2>1. attach(Loaders, d) /\ Loaders \in SUBSET Client
      BY <1>7 DEF handOut, Loaders, Standing, Ends
    <2>2. d.marks \subseteq doc'.marks /\ doc' # None
      BY <2>1, AttachAdds DEF Standing, DocInv
    <2>3. store = Idle /\ ~discardAfterStore /\ step = "start"
      BY <1>2, <1>7 DEF Standing, DocInv, DocTypes, Turns, KeptParts, LoadKept
    <2>4. LoadedKept'
      BY <1>1, <1>7, <2>2, <2>3 DEF LoadedKept, Idle
    <2>5. LoadKept' /\ UnloadedKept' /\ RemovalKept'
      BY <1>1, <1>7, <2>2, <2>3 DEF LoadKept, UnloadedKept, RemovalKept, Idle, Removals
    <2> QED BY <1>1, <2>4, <2>5 DEF Standing, KeptParts
  <1>8. CASE fetchResume \/ fetchSeed
    <2>1. load.at = "checked" /\ ~load.refused /\ load' = Idle /\ load.stored = stored /\ load.lyrics = lyrics /\ lyrics \in LyricsRows
      BY <1>8 DEF fetchResume, fetchSeed, Standing, KeptParts, LoadKept, Fresh, Ends
    <2>2. kept \subseteq Loadable
      BY <1>2 DEF Standing, KeptParts, UnloadedKept
    <2>3. CASE fetchResume
      <3>1. current(stored, lyrics) \/ docMatchesLyrics(stored, lyrics)
        BY <2>1, <2>3 DEF fetchResume, Resumes
      <3>2. stored \in StoredDocs /\ stored # None /\ kept \subseteq stored.marks
        BY <2>2, <3>1 DEF Loadable, current, docMatchesLyrics, Standing, Ends
      <3>3. [seeds |-> load.stored.seeds, marks |-> load.stored.marks] \in Documents
        BY <2>1, <3>2 DEF StoredDocs, Documents
      <3>4. stored' = IF current(stored, lyrics) THEN stored ELSE [stored EXCEPT !.lyricsVersion = lyrics.version]
        BY <2>1, <2>3, <3>2 DEF fetchResume
      <3>5. PICK r : r = [stored EXCEPT !.lyricsVersion = lyrics.version]
        OBVIOUS
      <3>6. r \in StoredDocs /\ r.marks = stored.marks /\ r.lyricsVersion = lyrics.version /\ lyrics.version \in Nat
        BY <2>1, <3>2, <3>5 DEF StoredDocs, LyricsRows
      <3>7. current(r, lyrics) /\ r # None
        BY <3>6, NoneApart DEF current
      <3>8. stored' # None /\ kept \subseteq stored'.marks /\ current(stored', lyrics')
        BY <1>1, <3>2, <3>4, <3>5, <3>6, <3>7
      <3>9. handOut([seeds |-> load.stored.seeds, marks |-> load.stored.marks])
        BY <2>3 DEF fetchResume
      <3> QED BY <1>7, <2>1, <3>2, <3>3, <3>8, <3>9
    <2>4. CASE fetchSeed
      <3>1. PICK seed : seed = 1 + MaxSeeds - budget.seeds
        OBVIOUS
      <3>2. seed \in Nat
        BY <3>1, StoreAssumption DEF Standing, DocInv, WorkTypes
      <3>3. /\ stored' = [seeds |-> {seed}, marks |-> lyrics.marks, lyricsVersion |-> lyrics.version]
            /\ handOut([seeds |-> {seed}, marks |-> lyrics.marks])
            /\ ~current(stored, lyrics) /\ ~docMatchesLyrics(stored, lyrics)
        BY <2>1, <2>4, <3>1 DEF fetchSeed, Resumes
      <3>4. kept \subseteq lyrics.marks
        BY <2>2, <3>3 DEF Loadable
      <3>5. [seeds |-> {seed}, marks |-> lyrics.marks] \in Documents /\ stored' \in StoredDocs
        BY <2>1, <3>2, <3>3 DEF LyricsRows, Documents, StoredDocs
      <3>6. stored' # None /\ current(stored', lyrics')
        BY <1>1, <2>1, <3>3, <3>5, NoneApart DEF current, LyricsRows
      <3> QED BY <1>7, <2>1, <3>3, <3>4, <3>5, <3>6
    <2> QED BY <1>8, <2>3, <2>4
  <1> QED BY <1>4, <1>5, <1>6, <1>8 DEF Loading

LEMMA StoresKeep ==
    ASSUME Standing, Turns', [Next]_vars, Fine', Unsaved',
           Storing \/ storeStateFails \/ storeProjectionFails \/ retryDirtyStores \/ unload
    PROVE  KeptParts'
  <1>0. /\ Fine /\ Unsaved /\ (budget'.faults = MaxFaults => budget.faults = MaxFaults)
        /\ Spend("faults") => budget.faults = MaxFaults /\ budget'.faults # MaxFaults
    BY FineBefore DEF Standing
  <1>1. /\ session' = session /\ saving' = saving /\ removing' = removing /\ load' = load /\ project' = project
    BY DEF Storing, storeStart, storeWriteState, storeWriteLyrics, storeWriteVersion, storeStateFails,
       storeProjectionFails, retryDirtyStores, unload, database, teardown
  (* A store moves the teardown that waits for it, and no other.            *)
  <1>2. \A s \in {"start", "delete"} \cup Removals : step' = s <=> step = s
    <2>1. CASE storeStart \/ storeWriteState
      BY <2>1 DEF storeStart, storeWriteState, teardown, Removals
    <2>2. CASE storeWriteLyrics
      BY <2>2 DEF storeWriteLyrics, storeEnds, Removals
    <2>3. CASE storeWriteVersion \/ storeStateFails \/ storeProjectionFails
      BY <2>3 DEF storeWriteVersion, storeStateFails, storeProjectionFails, storeEnds, Removals
    <2>4. CASE retryDirtyStores \/ unload
      BY <2>4 DEF retryDirtyStores, unload, teardown
    <2> QED BY <2>1, <2>2, <2>3, <2>4 DEF Storing
  <1>3. CASE retryDirtyStores
    <2>1. step' = step
      BY <1>3 DEF retryDirtyStores, teardown
    <2> QED BY <1>0, <1>1, <1>3, <2>1 DEF retryDirtyStores, database, past, Standing, KeptParts, LoadKept, Fresh, UnloadedKept, LoadedKept,
         RemovalKept, Loadable, current, docMatchesLyrics
  <1> SUFFICES ASSUME ~retryDirtyStores
               PROVE  KeptParts'
    BY <1>3
  <1>4. doc # None /\ load = Idle /\ doc \in Documents /\ stored \in StoredDocs /\ lyrics \in LyricsRows /\ stored # None
    <2>1. doc # None
      <3>1. storeStart \/ unload => doc # None
        BY DEF storeStart, unload
      <3>2. storeWriteState \/ storeWriteLyrics \/ storeWriteVersion \/ storeStateFails \/ storeProjectionFails => store # Idle
        BY DEF storeWriteState, storeWriteLyrics, storeWriteVersion, storeStateFails, storeProjectionFails, Idle
      <3> QED BY <3>1, <3>2 DEF Storing, Standing, DocInv, DocTypes
    <2> QED BY <2>1, NoneApart DEF Standing, DocInv, DocTypes, Ends, KeptParts, LoadedKept
  <1>5. step \notin Removals \cup {"delete"} /\ step' \notin Removals \cup {"delete"}
    BY <1>2, <1>4 DEF Standing, KeptParts, RemovalKept
  (* What is left to show of a step with the document still loaded.         *)
  <1>6. ASSUME doc' = doc, LoadedKept'
        PROVE  KeptParts'
    <2>1. LoadKept' /\ UnloadedKept'
      BY <1>1, <1>4, <1>6 DEF LoadKept, UnloadedKept, Idle
    <2>2. RemovalKept'
      BY <1>5 DEF RemovalKept, Removals
    <2> QED BY <1>1, <1>6, <2>1, <2>2 DEF Standing, KeptParts
  <1>7. ~discarded /\ LoadedKept
    BY DEF Standing, Ends, KeptParts
  <1>8. CASE storeStart
    <2>1. store' = [at |-> "state", seeds |-> doc.seeds, marks |-> doc.marks] /\ store = Idle
          /\ doc' = doc /\ stored' = stored /\ lyrics' = lyrics /\ kept' = kept /\ discardAfterStore' = discardAfterStore
          /\ dirty' = dirty /\ budget' = budget
      BY <1>7, <1>8 DEF storeStart, database, past
    <2>2. LoadedKept'
      BY <1>4, <1>7, <2>1 DEF LoadedKept, current, Idle
    <2> QED BY <1>6, <2>1, <2>2
  <1>9. CASE storeWriteState
    <2>1. /\ stored' = [seeds |-> store.seeds, marks |-> store.marks, lyricsVersion |-> stored.lyricsVersion]
          /\ kept' = kept \cup (store.marks \cap Edit) /\ store' = [at |-> "lyrics"] /\ store.at = "state"
          /\ doc' = doc /\ lyrics' = lyrics /\ discardAfterStore' = discardAfterStore /\ dirty' = dirty /\ budget' = budget
          /\ pending' = pending
      BY <1>4, <1>9 DEF storeWriteState
    <2>2. stored' \in StoredDocs
      <3>1. store \in [at : {"state"}, seeds : SUBSET Nat, marks : Contents]
        BY <2>1 DEF Standing, DocInv, StoreTypes, Stores, Idle
      <3> QED BY <1>4, <2>1, <3>1 DEF StoredDocs
    <2>3. stored' # None /\ stored'.marks = store.marks /\ stored'.lyricsVersion = stored.lyricsVersion
      BY <2>1, <2>2, NoneApart
    <2>4. kept' \subseteq store.marks /\ store.marks \subseteq doc.marks
      BY <1>4, <1>7, <2>1 DEF LoadedKept
    <2>5. current(stored', lyrics') <=> current(stored, lyrics)
      BY <1>4, <2>1, <2>3 DEF current
    <2>6. budget.faults = MaxFaults => current(stored, lyrics)
      BY <1>4, <1>7, <2>1 DEF LoadedKept
    <2>7. LoadedKept'
      BY <2>1, <2>3, <2>4, <2>5, <2>6 DEF LoadedKept
    <2> QED BY <1>6, <2>1, <2>7
  <1>10. CASE storeWriteLyrics
    <2>1. lyrics # None
      BY <1>4, NoneApart
    <2>2. /\ lyrics' = [marks |-> doc.marks, version |-> lyrics.version + 1]
          /\ store' = [at |-> "version", version |-> lyrics'.version] /\ dirty' = dirty
          /\ doc' = doc /\ stored' = stored /\ kept' = kept /\ discardAfterStore' = discardAfterStore
      BY <1>10, <2>1 DEF storeWriteLyrics, past
    <2>3. LoadedKept'
      BY <1>4, <1>7, <2>2 DEF LoadedKept
    <2> QED BY <1>6, <2>2, <2>3
  <1>11. CASE storeWriteVersion
    <2>1. /\ stored' = [stored EXCEPT !.lyricsVersion = store.version] /\ store' = Idle /\ dirty' = "clean" /\ store.at = "version"
          /\ doc' = doc /\ lyrics' = lyrics /\ kept' = kept
      BY <1>4, <1>11 DEF storeWriteVersion, storeEnds, past
    <2>2. store.version = lyrics.version /\ kept \subseteq lyrics.marks /\ kept \subseteq doc.marks /\ kept \subseteq stored.marks
      BY <1>4, <1>7, <2>1 DEF LoadedKept
    <2>3. stored' \in StoredDocs /\ stored'.marks = stored.marks /\ stored'.lyricsVersion = lyrics.version /\ lyrics.version \in Nat
      BY <1>4, <2>1, <2>2 DEF StoredDocs, LyricsRows
    <2>4. current(stored', lyrics') /\ stored' # None
      BY <2>1, <2>3, NoneApart DEF current
    <2>5. LoadedKept'
      BY <2>1, <2>2, <2>3, <2>4 DEF LoadedKept, Idle
    <2> QED BY <1>6, <2>1, <2>5
  <1>12. CASE storeStateFails \/ storeProjectionFails
    <2>1. /\ store' = Idle /\ dirty' \in {"state", "projection"} /\ store.at \in {"state", "lyrics", "version"}
          /\ doc' = doc /\ stored' = stored /\ lyrics' = lyrics /\ kept' = kept
          /\ budget.faults = MaxFaults /\ budget'.faults # MaxFaults
      BY <1>0, <1>12 DEF storeStateFails, storeProjectionFails, storeEnds, database, past
    <2>2. kept \subseteq doc.marks /\ kept \subseteq stored.marks
          /\ (current(stored, lyrics) \/ kept \subseteq lyrics.marks)
      BY <1>4, <1>7, <2>1 DEF LoadedKept
    <2>3. LoadedKept'
      BY <1>4, <2>1, <2>2 DEF LoadedKept, Idle, current
    <2> QED BY <1>6, <2>1, <2>3
  <1>13. CASE unload
    <2>1. /\ doc' = None /\ lyrics' = lyrics /\ kept' = kept /\ ~pending /\ store = Idle /\ ~isUnstored
          /\ stored' = stored \/ (stored' = None /\ discardAfterStore)
      BY <1>13 DEF unload, past
    <2>2. kept \subseteq stored.marks /\ (current(stored, lyrics) \/ kept \subseteq lyrics.marks)
      BY <1>4, <1>7, <2>1 DEF LoadedKept, Idle
    <2>3. discardAfterStore => kept \subseteq lyrics.marks
      <3>1. discardAfterStore => dirty = "clean"
        BY <1>7, <2>1 DEF isUnstored
      <3> QED BY <1>4, <1>7, <2>1, <3>1 DEF LoadedKept, Idle
    <2>4. UnloadedKept'
      <3>1. CASE stored' = stored
        BY <2>1, <2>2, <3>1 DEF UnloadedKept, Loadable
      <3>2. CASE stored' = None /\ discardAfterStore
        BY <2>1, <2>3, <3>2 DEF UnloadedKept, Loadable, current, docMatchesLyrics
      <3> QED BY <2>1, <3>1, <3>2
    <2>5. LoadKept' /\ LoadedKept' /\ RemovalKept'
      BY <1>1, <1>4, <1>5, <2>1 DEF LoadKept, LoadedKept, RemovalKept, Idle, Removals
    <2> QED BY <1>1, <2>4, <2>5 DEF Standing, KeptParts
  <1> QED BY <1>8, <1>9, <1>10, <1>11, <1>12, <1>13 DEF Storing

LEMMA TeardownsKeep ==
    ASSUME Standing, Turns', [Next]_vars, Fine', Unsaved', TearingDown \/ removeFails
    PROVE  KeptParts'
  <1>0. /\ Fine /\ Unsaved /\ (budget'.faults = MaxFaults => budget.faults = MaxFaults)
    BY FineBefore DEF Standing
  <1>1. /\ session' = session /\ saving' = saving /\ load' = load /\ kept' = kept /\ doc' = doc /\ store' = store
        /\ dirty' = dirty
    BY DEF TearingDown, call, endLoaded, removeRead, removeWriteState, removeWriteLyrics, removeWriteVersion, removeDelete,
       discardStart, closePass, closeEnds, discardDelete, removeFails, database, past
  <1>2. ASSUME NEW kind \in {"end", "discard"}, call(kind)
        PROVE  KeptParts'
    BY <1>0, <1>1, <1>2, KeptKept DEF call, Standing, database
  <1>3. ~Running("discard")
    BY DEF Running, Standing, Ends
  <1>4. CASE endLoaded
    <2>1. /\ load = Idle /\ doc # None /\ step' = "flush" /\ pending' = TRUE
          /\ stored' = stored /\ lyrics' = lyrics /\ removing' = removing
      BY <1>4 DEF endLoaded, database
    <2>2. LoadedKept'
      BY <1>0, <1>1, <2>1 DEF Standing, KeptParts, LoadedKept, current
    <2>3. LoadKept' /\ UnloadedKept' /\ RemovalKept'
      BY <1>1, <2>1 DEF LoadKept, UnloadedKept, RemovalKept, Idle, Removals
    <2> QED BY <1>1, <2>2, <2>3 DEF Standing, KeptParts
  <1>5. CASE closePass
    BY <1>0, <1>1, <1>5, KeptKept DEF closePass, Standing, database, teardown
  (* A teardown at its end, nothing written with it.                        *)
  <1>6. ASSUME finish, load.at = "checked" => load.refused, stored' = stored, lyrics' = lyrics,
               pending' = pending, discardAfterStore' = discardAfterStore,
               settling # <<>>
        PROVE  KeptParts'
    <2>1. step' = "start" /\ ~session.live
      BY <1>6 DEF finish, Standing, Ends
    <2>2. LoadKept' /\ RemovalKept'
      BY <1>1, <1>6, <2>1 DEF LoadKept, RemovalKept, Removals
    <2>3. UnloadedKept' /\ LoadedKept'
      BY <1>0, <1>1, <1>6 DEF Standing, KeptParts, UnloadedKept, LoadedKept, Loadable, current, docMatchesLyrics
    <2> QED BY <1>1, <2>2, <2>3 DEF Standing, KeptParts
  <1>7. step # "start" => (load.at = "checked" => load.refused) /\ ~session.live
    BY DEF Standing, KeptParts, LoadKept, Ends
  <1>8. CASE closeEnds
    <2>1. settling # <<>> /\ Head(settling) = "end" /\ step = "close" /\ finish
          /\ stored' = stored /\ lyrics' = lyrics
          /\ pending' = pending /\ discardAfterStore' = discardAfterStore
      BY <1>8 DEF closeEnds, Standing, Ends, database
    <2> QED BY <1>6, <1>7, <2>1
  <1>9. CASE removeFails
    <2>1. settling # <<>> /\ finish /\ step # "start" /\ stored' = stored /\ lyrics' = lyrics
          /\ pending' = pending /\ discardAfterStore' = discardAfterStore
      BY <1>9 DEF removeFails, Running, database
    <2> QED BY <1>6, <1>7, <2>1
  (* The removal of a document that is not loaded.                          *)
  <1>10. CASE removeRead
    <2>1. load = Idle /\ doc = None /\ stored' = stored /\ lyrics' = lyrics /\ settling # <<>> /\ lyrics \in LyricsRows
          /\ pending' = pending /\ discardAfterStore' = discardAfterStore
      BY <1>10 DEF removeRead, Running, database, Standing, Ends
    <2>2. kept \subseteq Loadable
      BY <2>1 DEF Standing, KeptParts, UnloadedKept
    <2>3. CASE stored = None
      BY <1>6, <1>10, <2>1, <2>3 DEF removeRead, Idle
    <2>4. CASE stored # None
      <3>1. removing' = stored
            /\ step' = IF current(stored, lyrics) /\ ~docMatchesLyrics(stored, lyrics) THEN "state" ELSE "delete"
        BY <1>10, <2>1, <2>4, NoneApart DEF removeRead
      <3>2. RemovalKept'
        <4>1. CASE current(stored, lyrics) /\ ~docMatchesLyrics(stored, lyrics)
          BY <1>1, <2>1, <2>2, <2>4, <3>1, <4>1 DEF RemovalKept, Removals, Loadable, current
        <4>2. CASE ~(current(stored, lyrics) /\ ~docMatchesLyrics(stored, lyrics))
          <5>1. kept \subseteq lyrics.marks
            BY <2>2, <2>4, <4>2 DEF Loadable, docMatchesLyrics
          <5> QED BY <1>1, <2>1, <3>1, <4>2, <5>1 DEF RemovalKept, Removals
        <4> QED BY <4>1, <4>2
      <3>3. LoadKept' /\ LoadedKept' /\ UnloadedKept'
        BY <1>1, <2>1, <2>2 DEF LoadKept, LoadedKept, UnloadedKept, Loadable, current, docMatchesLyrics, Idle
      <3> QED BY <1>1, <3>2, <3>3 DEF Standing, KeptParts
    <2> QED BY <2>3, <2>4
  <1>11. CASE removeWriteState \/ removeWriteLyrics \/ removeWriteVersion \/ removeDelete
    <2>1. doc = None /\ step # "start" /\ settling # <<>> /\ lyrics \in LyricsRows
      BY <1>11 DEF removeWriteState, removeWriteLyrics, removeWriteVersion, removeDelete, Running, Standing, KeptParts,
         RemovalKept, Removals, Ends
    <2>2. LoadKept' /\ LoadedKept'
      BY <1>1, <1>7, <2>1 DEF LoadKept, LoadedKept
    <2>3. kept \subseteq Loadable
      BY <2>1 DEF Standing, KeptParts, UnloadedKept
    <2>4. CASE removeWriteState
      <3>1. removing = stored /\ stored # None /\ current(stored, lyrics) /\ kept \subseteq stored.marks /\ stored \in StoredDocs
        BY <2>4, NoneApart DEF removeWriteState, Standing, KeptParts, RemovalKept, Ends
      <3>2. stored' = [stored EXCEPT !.lyricsVersion = stored.lyricsVersion] /\ lyrics' = lyrics /\ step' = "lyrics" /\ removing' = removing
        BY <2>4, <3>1 DEF removeWriteState
      <3>3. stored' = stored
        BY <3>1, <3>2 DEF StoredDocs
      <3>4. RemovalKept' /\ UnloadedKept'
        BY <1>1, <2>1, <2>3, <3>1, <3>2, <3>3 DEF RemovalKept, UnloadedKept, Loadable, current, docMatchesLyrics, Removals
      <3> QED BY <1>1, <2>2, <3>4 DEF Standing, KeptParts
    <2>5. CASE removeWriteLyrics
      <3>1. removing = stored /\ stored # None /\ kept \subseteq stored.marks /\ stored \in StoredDocs
        BY <2>5, NoneApart DEF removeWriteLyrics, Standing, KeptParts, RemovalKept, Ends
      <3>2. /\ step' = "version" /\ lyrics' = [marks |-> stored.marks, version |-> lyrics.version + 1]
            /\ removing' = [stored EXCEPT !.lyricsVersion = lyrics'.version] /\ stored' = stored
        BY <2>1, <2>5, <3>1, NoneApart DEF removeWriteLyrics
      <3>3. lyrics'.marks = stored.marks /\ removing'.lyricsVersion = lyrics'.version
        BY <3>1, <3>2 DEF StoredDocs
      <3>4. RemovalKept' /\ UnloadedKept'
        BY <1>1, <2>1, <3>1, <3>2, <3>3 DEF RemovalKept, UnloadedKept, Loadable, Removals
      <3> QED BY <1>1, <2>2, <3>4 DEF Standing, KeptParts
    <2>6. CASE removeWriteVersion
      <3>1. stored # None /\ stored.marks = lyrics.marks /\ kept \subseteq lyrics.marks /\ stored \in StoredDocs
        BY <2>6, NoneApart DEF removeWriteVersion, Standing, KeptParts, RemovalKept, Ends
      <3>2. step' = "delete" /\ stored' = [stored EXCEPT !.lyricsVersion = removing.lyricsVersion] /\ lyrics' = lyrics
        BY <2>6, <3>1 DEF removeWriteVersion
      <3>3. stored'.marks = stored.marks
        BY <3>1, <3>2 DEF StoredDocs
      <3>4. RemovalKept' /\ UnloadedKept'
        BY <1>1, <2>1, <3>1, <3>2, <3>3 DEF RemovalKept, UnloadedKept, Loadable, Removals
      <3> QED BY <1>1, <2>2, <3>4 DEF Standing, KeptParts
    <2>7. CASE removeDelete
      <3>1. kept \subseteq lyrics.marks /\ stored' = None /\ lyrics' = lyrics /\ step' = "start"
        BY <2>7 DEF removeDelete, finish, Standing, KeptParts, RemovalKept
      <3>2. RemovalKept' /\ UnloadedKept'
        BY <1>1, <2>1, <3>1 DEF RemovalKept, UnloadedKept, Loadable, Removals, current, docMatchesLyrics
      <3> QED BY <1>1, <2>2, <3>2 DEF Standing, KeptParts
    <2> QED BY <1>11, <2>4, <2>5, <2>6, <2>7
  <1> QED BY <1>2, <1>3, <1>4, <1>5, <1>8, <1>9, <1>10, <1>11 DEF TearingDown, discardStart, discardDelete

LEMMA KeptStep ==
    DocInv /\ SweepInv /\ Turns /\ KeptInv /\ SessionsApart /\ SessionsApart' /\ [Next]_vars => KeptInv'
  <1> SUFFICES ASSUME DocInv, SweepInv, Turns, KeptInv, SessionsApart, SessionsApart', [Next]_vars, Fine', Unsaved'
               PROVE  KeptParts'
    BY DEF KeptInv
  <1>2. Turns' /\ Standing
    BY TurnsStep, FineBefore, EndsOnly DEF Standing, KeptInv, Unsaved
  <1>3. CASE Crash
    <2>1. budget.faults = MaxFaults
      BY <1>3, FineBefore
    <2>2. doc' = None /\ load' = Idle /\ step' = "start" /\ saving' = None /\ stored' = stored /\ lyrics' = lyrics /\ kept' = kept
      BY <1>3 DEF Crash, database, past
    <2>3. kept \subseteq Loadable
      <3>1. CASE doc = None
        BY <1>2, <3>1 DEF Standing, KeptParts, UnloadedKept
      <3>2. CASE doc # None
        BY <1>2, <2>1, <3>2 DEF Standing, KeptParts, LoadedKept, Loadable
      <3> QED BY <3>1, <3>2
    <2> QED BY <2>2, <2>3 DEF KeptParts, LoadKept, UnloadedKept, LoadedKept, RemovalKept, Loadable, current, docMatchesLyrics, Idle, Removals
  <1>4. CASE UNCHANGED vars
    BY <1>2, <1>4, KeptKept DEF Standing, vars, database, teardown, past
  <1> QED BY <1>2, <1>3, <1>4, ServicesKeep, TabsKeep, LoadsKeep, StoresKeep, TeardownsKeep DEF Next

(* An edit that a store has written is there for whoever comes next, where
   sessions follow each other: through any crashes with no failing call,
   and through one failing call with no crash after it (storeHooks,
   isUnstored, removeStoredDoc, fetchState). *)
THEOREM WhatIsStoredStays == Spec /\ []SessionsApart => [](Fine => StoredKept)
  <1>1. Init => DocInv /\ SweepInv /\ Turns /\ KeptInv
    BY DocBegins, SweepBegins, TurnsBegin, KeptBegins
  <1>2. (DocInv /\ SweepInv /\ Turns /\ KeptInv) /\ SessionsApart /\ SessionsApart' /\ [Next]_vars
            => (DocInv /\ SweepInv /\ Turns /\ KeptInv)'
    BY DocStep, SweepStep, TurnsStep, KeptStep
  <1>3. DocInv /\ KeptInv => (Fine => StoredKept)
    <2> SUFFICES ASSUME DocInv, KeptInv, Fine
                 PROVE  StoredKept
      OBVIOUS
    <2>1. TypeOK
      BY DEF DocInv, RowTypes, DocTypes, LoadTypes, StoreTypes, TeardownTypes, TypeOK, LyricsRows, StoredDocs, Documents
    <2> QED BY <2>1 DEF KeptInv, Unsaved, KeptParts, UnloadedKept, LoadedKept, StoredKept
  <1> QED BY <1>1, <1>2, <1>3, PTL DEF Spec

-----------------------------------------------------------------------------
(* One seed.  Whoever is attached holds the document, and a solo save under
   way has been counted. *)
Holding ==
    /\ \A c \in Attached : copy[c] # None
    /\ saving # None => saving \in used

(* What an attachment to a document of the same seeds makes of it. *)
LEMMA AttachSeeds ==
    ASSUME DocTypes, StoreTypes, NEW C \in SUBSET Client, NEW d \in Documents, attach(C, d),
           \A c \in C : copy[c] # None => copy[c].seeds = d.seeds
    PROVE  /\ doc' \in Documents /\ doc'.seeds = d.seeds
           /\ \A c \in Client : copy'[c] = IF c \in Attached \cup C THEN doc' ELSE copy[c]
           /\ ~pending' => doc' = d /\ ~pending
  <1>1. PICK held : held = {copy[c] : c \in C} \ {None}
    OBVIOUS
  <1>2. \A h \in held : h.seeds = d.seeds
    BY <1>1
  <1>3. PICK merged : merged = [seeds |-> d.seeds \cup UNION {h.seeds : h \in held},
                                marks |-> d.marks \cup UNION {h.marks : h \in held}]
    OBVIOUS
  <1>4. d.seeds \cup UNION {h.seeds : h \in held} = d.seeds
    BY <1>2
  <1>5. merged.seeds = d.seeds
    BY <1>3, <1>4
  <1>6. /\ doc' = merged
        /\ copy' = [c \in Client |-> IF c \in Attached \cup C THEN merged ELSE copy[c]]
        /\ pending' = (pending \/ merged # d)
    BY <1>1, <1>3 DEF attach
  <1> QED BY <1>5, <1>6, Attaches

LEMMA AttachHolds ==
    ASSUME DocTypes, StoreTypes, Holding, NEW C \in SUBSET Client, NEW d \in Documents, attach(C, d)
    PROVE  \A c \in Attached' : copy'[c] # None
  <1>1. doc' # None /\ client' \in [Client -> Phases] /\ copy' \in [Client -> Documents \cup {None}]
    BY Attaches
  <1>2. \A c \in Attached' : c \in Attached \cup C
    BY DEF attach, Attached
  <1>3. \A c \in Attached \cup C : copy'[c] = doc'
    BY DEF attach, Attached
  <1> QED BY <1>1, <1>2, <1>3

LEMMA HoldingStep == DocInv /\ Holding /\ [Next]_vars => Holding'
  <1> SUFFICES ASSUME DocInv, Holding, [Next]_vars
               PROVE  Holding'
    OBVIOUS
  <1>0. client \in [Client -> Phases] /\ copy \in [Client -> Documents \cup {None}]
    BY DEF DocInv, DocTypes
  <1>1. CASE startSession \/ endSessionService \/ deleteProject \/ patchLyrics \/ \E s \in Save : collabSessionBlocks(s)
    BY <1>1 DEF Holding, Attached, startSession, endSessionService, deleteProject, patchLyrics, collabSessionBlocks, past, tabs
  <1>2. ASSUME NEW c \in Client, Knock(c) \/ PassGate(c) \/ resolvePrincipal(c) \/ Leave(c)
        PROVE  Holding'
    <2>1. saving' = saving /\ used' = used
      BY <1>2 DEF Knock, PassGate, resolvePrincipal, Leave, past
    <2>2. Attached' \subseteq Attached
      BY <1>0, <1>2 DEF Attached, Knock, PassGate, resolvePrincipal, Leave
    <2>3. \A d \in Attached' : copy'[d] = copy[d]
      BY <1>0, <1>2 DEF Attached, Knock, PassGate, resolvePrincipal, Leave
    <2> QED BY <2>1, <2>2, <2>3 DEF Holding
  <1>3. ASSUME NEW c \in Client, Admit(c)
        PROVE  Holding'
    <2>1. saving' = saving /\ used' = used /\ client[c] = "read"
      BY <1>3 DEF Admit, past
    <2>2. CASE doc = None \/ discarded
      <3>1. client' = [client EXCEPT ![c] = IF discarded THEN "off" ELSE "loading"] /\ copy' = copy
        BY <1>3, <2>2 DEF Admit
      <3>2. Attached' \subseteq Attached
        BY <1>0, <3>1 DEF Attached
      <3> QED BY <2>1, <3>1, <3>2 DEF Holding
    <2>3. CASE ~(doc = None \/ discarded)
      <3>1. attach({c}, doc) /\ doc \in Documents /\ {c} \in SUBSET Client
        BY <1>3, <2>3 DEF Admit, DocInv, DocTypes
      <3> QED BY <2>1, <3>1, AttachHolds DEF Holding, DocInv
    <2> QED BY <2>2, <2>3
  <1>4. ASSUME NEW c \in Client, NEW e \in Edit, edit(c, e)
        PROVE  Holding'
    <2>1. doc \in Documents /\ e \in Mark
      BY <1>4 DEF edit, DocInv, DocTypes, Attached, Mark
    <2>2. doc' \in Documents /\ Attached' = Attached /\ saving' = saving /\ used \subseteq used'
      BY <1>4, <2>1 DEF edit, Documents, Contents, Attached
    <2>3. \A d \in Attached : copy'[d] = doc'
      BY <1>4 DEF edit, Attached
    <2> QED BY <2>2, <2>3, NoneApart DEF Holding
  <1>5. CASE fetchStart \/ fetchCheck \/ fetchRefuse \/ fetchFail
    <2>1. saving' = saving /\ used' = used /\ copy' = copy /\ client' \in {client, Refused}
      BY <1>5 DEF fetchStart, fetchCheck, fetchRefuse, fetchFail, past, tabs
    <2>2. Attached' \subseteq Attached
      BY <1>0, <2>1 DEF Attached, Refused
    <2> QED BY <2>1, <2>2 DEF Holding
  <1>6. CASE fetchResume \/ fetchSeed
    <2>1. saving' = saving /\ used' = used
      BY <1>6 DEF fetchResume, fetchSeed, past
    <2>2. \E d \in Documents : handOut(d)
      <3>1. load.at = "checked" /\ ~load.refused
        BY <1>6 DEF fetchResume, fetchSeed
      <3>2. load.stored \in StoredDocs \cup {None} /\ load.lyrics \in LyricsRows
        BY <3>1 DEF DocInv, LoadTypes, Loads, Idle
      <3>3. CASE fetchResume
        <4>1. load.stored \in StoredDocs
          BY <3>2, <3>3 DEF fetchResume, Resumes, current, docMatchesLyrics
        <4>2. [seeds |-> load.stored.seeds, marks |-> load.stored.marks] \in Documents
          BY <4>1 DEF StoredDocs, Documents
        <4> QED BY <3>3, <4>2 DEF fetchResume
      <3>4. CASE fetchSeed
        <4>1. PICK seed : seed = 1 + MaxSeeds - budget.seeds
          OBVIOUS
        <4>2. seed \in Nat
          BY <4>1, StoreAssumption DEF DocInv, WorkTypes
        <4>3. [seeds |-> {seed}, marks |-> load.lyrics.marks] \in Documents
          BY <3>2, <4>2 DEF LyricsRows, Documents
        <4>4. handOut([seeds |-> {seed}, marks |-> load.lyrics.marks])
          BY <3>4, <4>1 DEF fetchSeed
        <4> QED BY <4>3, <4>4
      <3> QED BY <1>6, <3>3, <3>4
    <2>3. PICK d \in Documents : handOut(d)
      BY <2>2
    <2>4. CASE discarded
      <3>1. copy' = copy /\ client' = Refused
        BY <2>3, <2>4 DEF handOut
      <3>2. Attached' \subseteq Attached
        BY <1>0, <3>1 DEF Attached, Refused
      <3> QED BY <2>1, <3>1, <3>2 DEF Holding
    <2>5. CASE ~discarded
      <3>1. attach(Loaders, d) /\ Loaders \in SUBSET Client
        BY <2>3, <2>5 DEF handOut, Loaders
      <3> QED BY <2>1, <3>1, AttachHolds DEF Holding, DocInv
    <2> QED BY <2>4, <2>5
  <1>7. CASE Storing \/ storeStateFails \/ storeProjectionFails \/ retryDirtyStores \/ unload
    <2>1. saving' = saving /\ used' = used /\ copy' = copy /\ client' = client
      BY <1>7 DEF Storing, storeStart, storeWriteState, storeWriteLyrics, storeWriteVersion, storeStateFails,
         storeProjectionFails, retryDirtyStores, unload, past, tabs
    <2> QED BY <2>1 DEF Holding, Attached
  <1>8. CASE TearingDown \/ removeFails \/ Crash \/ UNCHANGED vars
    <2>1. saving' \in {saving, None} /\ used' = used /\ copy' = copy
      BY <1>8 DEF TearingDown, call, endLoaded, removeRead, removeWriteState, removeWriteLyrics, removeWriteVersion, removeDelete,
         discardStart, closePass, closeEnds, discardDelete, removeFails, Crash, vars, past, tabs
    <2>2. Attached' \subseteq Attached
      BY <1>0, <1>8 DEF Attached, TearingDown, call, endLoaded, removeRead, removeWriteState, removeWriteLyrics, removeWriteVersion, removeDelete,
         discardStart, closePass, closeEnds, discardDelete, removeFails, Crash, vars, tabs
    <2> QED BY <2>1, <2>2 DEF Holding
  <1> QED BY <1>1, <1>2, <1>3, <1>4, <1>5, <1>6, <1>7, <1>8 DEF Next, Loading

Single(d) == \E x \in d.seeds : d.seeds = {x}
Held(c) == copy[c] # None /\ seen[c] = session.epoch
One == budget.faults + 1 >= MaxFaults /\ budget.crashes = MaxCrashes /\ used \cap Save = {}
(* Every document there is has the items of one seed, ... *)
Singles ==
    /\ doc # None => Single(doc)
    /\ stored # None => Single(stored)
    /\ removing # None => Single(removing)
    /\ load.at \in {"read", "checked"} /\ load.stored # None => Single(load.stored)
    /\ store.at = "state" => store.seeds = doc.seeds
    /\ project /\ doc # None => stored.seeds = doc.seeds
(* ... those of the copies that may come back; and a load resumes it as
   long as there are any, ... *)
CopiesOne ==
    /\ doc # None => \A c \in Client : Held(c) => copy[c].seeds = doc.seeds
    /\ doc = None /\ session.live => \A c \in Client : Held(c) =>
         stored # None /\ stored.seeds = copy[c].seeds /\ (current(stored, lyrics) \/ docMatchesLyrics(stored, lyrics))
    /\ load.at = "checked" /\ ~load.refused => \A c \in Client : Held(c) =>
         load.stored # None /\ load.stored.seeds = copy[c].seeds /\ Resumes
(* ... for the document goes only when Lyrics and its row agree. *)
StoresAgree ==
    /\ session.live /\ (\E c \in Client : Held(c)) => ~discardAfterStore
    /\ ~pending => /\ store.at = "state" => store.marks = doc.marks
                   /\ store.at \in {"lyrics", "version"} /\ project => stored.marks = doc.marks
                   /\ store.at = "version" /\ project => lyrics.marks = doc.marks
    /\ project /\ doc # None => current(stored, lyrics) \/ store # Idle \/ pending \/ stored.marks = lyrics.marks
OneParts == Singles /\ CopiesOne /\ StoresAgree
OneInv == One => OneParts

OneHolds ==
    /\ DocInv /\ SweepInv /\ Turns /\ Holding /\ SessionsApart /\ One /\ OneParts
    /\ project => Ends /\ KeptParts

LEMMA OneBegins == Init => OneInv /\ Holding
  BY NoneApart DEF Init, OneInv, OneParts, Singles, CopiesOne, StoresAgree, Held, Holding, Attached, Idle

LEMMA OneBefore ==
    ASSUME DocInv, Turns, [Next]_vars, One'
    PROVE  /\ One /\ Fine
           /\ Spend("faults") => budget.faults = MaxFaults
           /\ ~Crash
  <1>0. /\ budget \in [{"seeds", "faults", "crashes"} -> Nat] /\ MaxFaults \in Nat /\ MaxCrashes \in Nat
        /\ budget.faults <= MaxFaults /\ budget.crashes <= MaxCrashes
    BY StoreAssumption DEF DocInv, WorkTypes, Turns
  <1>1. \/ budget'.faults = budget.faults /\ budget'.crashes = budget.crashes
        \/ budget'.faults = budget.faults /\ budget'.crashes = budget.crashes - 1 /\ Crash
        \/ budget'.faults = budget.faults - 1 /\ budget'.crashes = budget.crashes
    BY Spending
  <1>2. Spend("faults") => budget'.faults = budget.faults - 1
    BY <1>0 DEF Spend
  <1>3. Crash => budget'.crashes = budget.crashes - 1
    BY <1>0 DEF Crash, Spend
  <1>4. used \cap Save = {}
    <2>1. used \subseteq used'
      <3>1. CASE startSession \/ endSessionService \/ deleteProject \/ patchLyrics \/ \E s \in Save : collabSessionBlocks(s)
        BY <3>1 DEF startSession, endSessionService, deleteProject, patchLyrics, collabSessionBlocks, past
      <3>2. ASSUME NEW c \in Client,
                   \/ Knock(c) \/ PassGate(c) \/ resolvePrincipal(c) \/ Admit(c) \/ Leave(c)
                   \/ \E e \in Edit : edit(c, e)
            PROVE  used \subseteq used'
        BY <3>2 DEF Knock, PassGate, resolvePrincipal, Admit, Leave, edit, past
      <3>3. CASE Loading \/ fetchFail
        BY <3>3 DEF Loading, fetchStart, fetchCheck, fetchRefuse, fetchResume, fetchSeed, fetchFail, past
      <3>4. CASE Storing \/ storeStateFails \/ storeProjectionFails \/ retryDirtyStores \/ unload
        BY <3>4 DEF Storing, storeStart, storeWriteState, storeWriteLyrics, storeWriteVersion, storeStateFails, storeProjectionFails,
           retryDirtyStores, unload, past
      <3>5. CASE TearingDown \/ removeFails \/ Crash \/ UNCHANGED vars
        BY <3>5 DEF TearingDown, call, endLoaded, removeRead, removeWriteState, removeWriteLyrics, removeWriteVersion, removeDelete,
           discardStart, closePass, closeEnds, discardDelete, removeFails, Crash, vars, past
      <3> QED BY <3>1, <3>2, <3>3, <3>4, <3>5 DEF Next
    <2> QED BY <2>1 DEF One
  <1>5. budget'.faults + 1 >= MaxFaults /\ budget'.crashes = MaxCrashes
    BY DEF One
  <1>6. /\ budget.faults + 1 >= MaxFaults /\ budget.crashes = MaxCrashes
        /\ budget.faults = MaxFaults \/ budget.faults + 1 = MaxFaults
        /\ Spend("faults") => budget.faults = MaxFaults
        /\ ~Crash
    BY <1>0, <1>1, <1>2, <1>3, <1>5
  <1> QED BY <1>4, <1>6 DEF Fine, One

(* A step that changes none of the documents: the tabs hold no more copies,
   a load may have begun or ended, a store may be due. *)
LEMMA OneKept ==
    ASSUME OneParts, doc' = doc, stored' = stored, lyrics' = lyrics, store' = store, removing' \in {removing, None},
           load' = load \/ load'.at \notin {"read", "checked"},
           project' => project, session'.live => session.live, session'.epoch = session.epoch,
           \A c \in Client : copy'[c] # None /\ seen'[c] = session.epoch => Held(c) /\ copy'[c] = copy[c],
           pending => pending', session'.live => (discardAfterStore' => discardAfterStore)
    PROVE  OneParts'
  <1>1. \A c \in Client : Held(c)' => Held(c) /\ copy'[c] = copy[c]
    BY DEF Held
  <1>2. Singles'
    BY DEF OneParts, Singles, Single
  <1>3. CopiesOne'
    BY <1>1 DEF OneParts, CopiesOne, Resumes, current, docMatchesLyrics
  <1>4. StoresAgree'
    BY <1>1 DEF OneParts, StoresAgree, current
  <1> QED BY <1>2, <1>3, <1>4 DEF OneParts

LEMMA ServicesOne ==
    ASSUME OneHolds, Turns', [Next]_vars, One',
           \/ startSession \/ endSessionService \/ deleteProject \/ patchLyrics
           \/ \E s \in Save : collabSessionBlocks(s)
    PROVE  OneParts'
  <1>1. CASE startSession
    <2>1. /\ session'.epoch = session.epoch + 1 /\ doc' = doc /\ stored' = stored /\ lyrics' = lyrics /\ store' = store
          /\ removing' = removing /\ load' = load /\ project' = project /\ copy' = copy /\ seen' = seen /\ pending' = pending
          /\ discardAfterStore' = discardAfterStore
      BY <1>1 DEF startSession, teardown, tabs
    <2>2. \A c \in Client : ~(seen[c] = session.epoch + 1)
      <3>1. \A c \in Client : seen[c] <= session.epoch /\ seen[c] \in Nat /\ session.epoch \in Nat
        BY DEF OneHolds, Turns, DocInv, RowTypes
      <3> QED BY <3>1
    <2>3. \A c \in Client : ~Held(c)'
      BY <2>1, <2>2 DEF Held
    <2>4. Singles'
      BY <2>1 DEF OneHolds, OneParts, Singles, Single
    <2>5. CopiesOne' /\ StoresAgree'
      BY <2>1, <2>3 DEF OneHolds, OneParts, CopiesOne, StoresAgree, current
    <2> QED BY <2>4, <2>5 DEF OneParts
  <1>2. CASE endSessionService
    <2>1. session'.live = FALSE /\ session'.epoch = session.epoch
      BY <1>2 DEF endSessionService, OneHolds, DocInv, RowTypes
    <2> QED BY <1>2, <2>1, OneKept DEF endSessionService, OneHolds, Held, tabs
  <1>3. CASE deleteProject
    <2>1. session'.live = FALSE /\ session'.epoch = session.epoch /\ project' = FALSE
      BY <1>3 DEF deleteProject, OneHolds, DocInv, RowTypes
    <2>2. /\ doc' = doc /\ stored' = stored /\ store' = store /\ removing' = removing /\ load' = load
          /\ copy' = copy /\ seen' = seen /\ pending' = pending
      BY <1>3 DEF deleteProject, tabs
    <2>3. Singles'
      BY <2>1, <2>2 DEF OneHolds, OneParts, Singles, Single
    <2>4. CopiesOne'
      BY <2>1, <2>2 DEF OneHolds, OneParts, CopiesOne, Held, Resumes, current, docMatchesLyrics
    <2>5. StoresAgree'
      BY <2>1, <2>2 DEF OneHolds, OneParts, StoresAgree
    <2> QED BY <2>3, <2>4, <2>5 DEF OneParts
  <1>4. CASE patchLyrics
    <2>1. saving \in Save /\ saving \in used
      BY <1>4 DEF patchLyrics, OneHolds, Holding, DocInv, WorkTypes
    <2> QED BY <2>1 DEF OneHolds, One
  <1>5. ASSUME NEW s \in Save, collabSessionBlocks(s)
        PROVE  OneParts'
    BY <1>5 DEF collabSessionBlocks, One
  <1> QED BY <1>1, <1>2, <1>3, <1>4, <1>5

LEMMA TabsOne ==
    ASSUME OneHolds, Turns', [Next]_vars, One', NEW c \in Client,
           \/ Knock(c) \/ PassGate(c) \/ resolvePrincipal(c) \/ Leave(c) \/ Admit(c)
           \/ \E e \in Edit : edit(c, e)
    PROVE  OneParts'
  <1>0. seen \in [Client -> Nat] /\ copy \in [Client -> Documents \cup {None}] /\ client \in [Client -> Phases]
    BY DEF OneHolds, Turns, DocInv, DocTypes
  <1>1. CASE Knock(c) \/ PassGate(c) \/ resolvePrincipal(c) \/ Leave(c)
    <2>1. /\ doc' = doc /\ stored' = stored /\ lyrics' = lyrics /\ store' = store /\ removing' = removing
          /\ load' = load /\ project' = project /\ session' = session /\ pending' = pending
          /\ discardAfterStore' = discardAfterStore
      BY <1>1 DEF Knock, PassGate, resolvePrincipal, Leave, database, teardown
    <2>2. \A d \in Client : copy'[d] # None /\ seen'[d] = session.epoch => Held(d) /\ copy'[d] = copy[d]
      <3>1. CASE Knock(c)
        BY <1>0, <3>1 DEF Knock, Held
      <3>2. CASE PassGate(c) \/ Leave(c)
        BY <3>2 DEF PassGate, Leave, Held
      <3>3. CASE resolvePrincipal(c)
        BY <1>0, <3>3 DEF resolvePrincipal, Held
      <3> QED BY <1>1, <3>1, <3>2, <3>3
    <2> QED BY <2>1, <2>2, OneKept DEF OneHolds
  (* The document gets edits and no items of another seed.                  *)
  <1>2. ASSUME doc # None, doc' # None, doc' \in Documents, doc'.seeds = doc.seeds, ~pending' => doc' = doc /\ ~pending,
               stored' = stored, lyrics' = lyrics, store' = store, removing' = removing, load = Idle, load' = Idle,
               project' = project, session' = session, seen' = seen,
               session.live /\ (\E d \in Client : Held(d)') => ~discardAfterStore',
               \A d \in Client : copy'[d] = copy[d] \/ copy'[d] = doc'
        PROVE  OneParts'
    <2>1. Singles'
      BY <1>2 DEF OneHolds, OneParts, Singles, Single, Idle
    <2>2. CopiesOne'
      BY <1>2 DEF OneHolds, OneParts, CopiesOne, Held, Idle
    <2>3. StoresAgree'
      BY <1>2 DEF OneHolds, OneParts, StoresAgree, current
    <2> QED BY <2>1, <2>2, <2>3 DEF OneParts
  <1>3. CASE Admit(c)
    <2>1. /\ stored' = stored /\ lyrics' = lyrics /\ store' = store /\ removing' = removing /\ seen' = seen
          /\ session' = session /\ project' = project /\ client[c] = "read"
          /\ (discardAfterStore' <=> discardAfterStore /\ (discarded \/ settling # <<>>))
      BY <1>3 DEF Admit, database, teardown
    <2>2. CASE doc = None \/ discarded
      <3>1. (load' = load \/ load' = [at |-> "asked"]) /\ doc' = doc /\ copy' = copy /\ pending' = pending
        BY <1>3, <2>2 DEF Admit
      <3>2. load' = load \/ load'.at \notin {"read", "checked"}
        BY <3>1
      <3> QED BY <2>1, <3>1, <3>2, OneKept DEF OneHolds, Held
    <2>3. CASE ~(doc = None \/ discarded)
      <3>1. attach({c}, doc) /\ load' = load /\ load = Idle /\ doc \in Documents /\ {c} \in SUBSET Client
        BY <1>3, <2>3 DEF Admit, OneHolds, DocInv, DocTypes
      <3>2. copy[c] # None => copy[c].seeds = doc.seeds
        <4>1. seen[c] = session.epoch
          BY <2>1 DEF OneHolds, Turns, Within
        <4> QED BY <2>3, <4>1 DEF OneHolds, OneParts, CopiesOne, Held
      <3>3. /\ doc' \in Documents /\ doc'.seeds = doc.seeds
            /\ \A d \in Client : copy'[d] = IF d \in Attached \cup {c} THEN doc' ELSE copy[d]
            /\ ~pending' => doc' = doc /\ ~pending
        BY <3>1, <3>2, AttachSeeds DEF OneHolds, DocInv
      <3>4. session.live => ~discardAfterStore'
        BY <2>1, <2>3 DEF OneHolds, SessionsApart
      <3> QED BY <1>2, <2>1, <2>3, <3>1, <3>3, <3>4, NoneApart
    <2> QED BY <2>2, <2>3
  <1>4. ASSUME NEW e \in Edit, edit(c, e)
        PROVE  OneParts'
    <2>1. doc \in Documents /\ doc # None /\ load = Idle /\ e \in Mark /\ c \in Attached
      BY <1>4, NoneApart DEF edit, OneHolds, DocInv, DocTypes, Attached, Mark
    <2>2. /\ doc' \in Documents /\ doc'.seeds = doc.seeds /\ pending' = TRUE /\ discardAfterStore' = discardAfterStore
          /\ \A d \in Client : copy'[d] = IF d \in Attached THEN doc' ELSE copy[d]
      BY <1>4, <2>1 DEF edit, Documents, Contents
    <2>3. /\ stored' = stored /\ lyrics' = lyrics /\ store' = store /\ removing' = removing /\ load' = load
          /\ project' = project /\ session' = session /\ seen' = seen
      BY <1>4 DEF edit, database, teardown
    <2>4. \A d \in Client : Held(d)' => Held(d)
      BY <2>2, <2>3 DEF Held, OneHolds, Holding
    <2>5. session.live /\ (\E d \in Client : Held(d)') => ~discardAfterStore'
      BY <2>2, <2>4 DEF OneHolds, OneParts, StoresAgree
    <2> QED BY <1>2, <2>1, <2>2, <2>3, <2>5, NoneApart
  <1> QED BY <1>1, <1>3, <1>4

LEMMA LoadsOne ==
    ASSUME OneHolds, Turns', [Next]_vars, One', Loading \/ fetchFail
    PROVE  OneParts'
  <1>1. /\ lyrics' = lyrics /\ store' = store /\ removing' = removing /\ session' = session /\ seen' = seen
        /\ project' = project /\ discardAfterStore' = discardAfterStore
    BY DEF Loading, fetchStart, fetchCheck, fetchRefuse, fetchResume, fetchSeed, fetchFail, database, teardown, tabs
  <1>2. load # Idle /\ doc = None /\ store = Idle /\ ~discardAfterStore
    BY DEF Loading, fetchStart, fetchCheck, fetchRefuse, fetchResume, fetchSeed, fetchFail, Idle, OneHolds, DocInv, DocTypes, Turns
  <1>3. CASE fetchRefuse \/ fetchFail
    <2>1. load' = Idle /\ doc' = doc /\ stored' = stored /\ copy' = copy /\ pending' = pending
      BY <1>3 DEF fetchRefuse, fetchFail, database
    <2>2. load'.at \notin {"read", "checked"}
      BY <2>1 DEF Idle
    <2> QED BY <1>1, <2>1, <2>2, OneKept DEF OneHolds, Held
  <1>4. CASE fetchStart
    <2>1. /\ load' = [at |-> "read", stored |-> stored, lyrics |-> lyrics, refused |-> discarded]
          /\ doc' = doc /\ stored' = stored /\ copy' = copy /\ pending' = pending
      BY <1>4 DEF fetchStart, database, tabs
    <2>2. Singles'
      BY <1>1, <1>2, <2>1 DEF OneHolds, OneParts, Singles, Single, Idle
    <2>3. CopiesOne' /\ StoresAgree'
      BY <1>1, <1>2, <2>1 DEF OneHolds, OneParts, CopiesOne, StoresAgree, Held, current, docMatchesLyrics
    <2> QED BY <2>2, <2>3 DEF OneParts
  <1>5. CASE fetchCheck
    <2>1. PICK refused \in BOOLEAN : refused = (load.refused \/ ~project \/ ~session.live)
      OBVIOUS
    <2>2. load' = [load EXCEPT !.at = "checked", !.refused = refused] /\ load.at = "read"
          /\ doc' = doc /\ stored' = stored /\ copy' = copy /\ pending' = pending
      BY <1>5, <2>1 DEF fetchCheck, database, tabs
    <2>3. load \in [at : {"read", "checked"}, stored : StoredDocs \cup {None}, lyrics : LyricsRows \cup {None}, refused : BOOLEAN]
      BY <2>2 DEF OneHolds, DocInv, LoadTypes, Loads, Idle
    <2>4. load'.at = "checked" /\ load'.refused = refused /\ load'.stored = load.stored /\ load'.lyrics = load.lyrics
      BY <2>2, <2>3
    <2>5. ~refused => session.live /\ project /\ load.stored = stored /\ load.lyrics = lyrics
      BY <2>1, <2>2 DEF OneHolds, KeptParts, LoadKept, Fresh
    <2>6. Singles'
      BY <1>1, <1>2, <2>2, <2>4 DEF OneHolds, OneParts, Singles, Single, Idle
    <2>7. ~refused => \A c \in Client : Held(c) =>
              load.stored # None /\ load.stored.seeds = copy[c].seeds
              /\ (current(load.stored, load.lyrics) \/ docMatchesLyrics(load.stored, load.lyrics))
      BY <1>2, <2>5 DEF OneHolds, OneParts, CopiesOne
    <2>8. CopiesOne'
      <3>1. (doc = None /\ session.live => \A c \in Client : Held(c) =>
               stored # None /\ stored.seeds = copy[c].seeds /\ (current(stored, lyrics) \/ docMatchesLyrics(stored, lyrics)))'
        BY <1>1, <2>2 DEF OneHolds, OneParts, CopiesOne, Held, current, docMatchesLyrics
      <3>2. (load.at = "checked" /\ ~load.refused => \A c \in Client : Held(c) =>
               load.stored # None /\ load.stored.seeds = copy[c].seeds /\ Resumes)'
        BY <1>1, <2>2, <2>4, <2>7 DEF Held, Resumes, current, docMatchesLyrics
      <3> QED BY <1>2, <2>2, <3>1, <3>2 DEF CopiesOne
    <2>9. StoresAgree'
      BY <1>1, <1>2, <2>2 DEF OneHolds, OneParts, StoresAgree, Held
    <2> QED BY <2>6, <2>8, <2>9 DEF OneParts
  (* What is handed out, where the copies that wait for it are of its seed. *)
  <1>6. ASSUME NEW d \in Documents, handOut(d), Single(d), load' = Idle,
               stored' # None => Single(stored'),
               discarded => (project => FALSE),
               project => stored' # None /\ stored'.seeds = d.seeds /\ current(stored', lyrics'),
               \A c \in Client : Held(c) => copy[c].seeds = d.seeds
        PROVE  OneParts'
    <2>1. CASE discarded
      <3>1. doc' = doc /\ copy' = copy /\ pending' = pending /\ ~project /\ ~session.live
        BY <1>6, <2>1 DEF handOut, OneHolds, Turns
      <3>2. Singles'
        BY <1>1, <1>2, <1>6, <3>1 DEF OneHolds, OneParts, Singles, Single, Idle
      <3>3. CopiesOne' /\ StoresAgree'
        BY <1>1, <1>2, <1>6, <3>1 DEF CopiesOne, StoresAgree, Idle
      <3> QED BY <3>2, <3>3 DEF OneParts
    <2>2. CASE ~discarded
      <3>1. attach(Loaders, d) /\ Loaders \in SUBSET Client
        BY <1>6, <2>2 DEF handOut, Loaders
      <3>2. \A c \in Loaders : copy[c] # None => copy[c].seeds = d.seeds
        <4>1. \A c \in Loaders : seen[c] = session.epoch
          BY DEF OneHolds, Turns, Loaders, Within
        <4> QED BY <1>6, <4>1 DEF Held, Loaders
      <3>3. /\ doc' \in Documents /\ doc'.seeds = d.seeds
            /\ \A c \in Client : copy'[c] = IF c \in Attached \cup Loaders THEN doc' ELSE copy[c]
        BY <3>1, <3>2, AttachSeeds DEF OneHolds, DocInv
      <3>4. doc' # None
        BY <3>3, NoneApart
      <3>5. Single(doc')
        BY <1>6, <3>3 DEF Single
      <3>6. Singles'
        BY <1>1, <1>2, <1>6, <3>3, <3>4, <3>5 DEF OneHolds, OneParts, Singles, Single, Idle
      <3>7. CopiesOne'
        BY <1>1, <1>6, <3>3, <3>4 DEF CopiesOne, Held, Idle
      <3>8. StoresAgree'
        BY <1>1, <1>2, <1>6 DEF StoresAgree, Idle
      <3> QED BY <3>6, <3>7, <3>8 DEF OneParts
    <2> QED BY <2>1, <2>2
  <1>7. discarded => (project => FALSE)
    BY DEF OneHolds, Turns
  <1>8. load.at = "checked" /\ ~load.refused => load.stored \in StoredDocs \cup {None} /\ load.lyrics \in LyricsRows
    BY DEF OneHolds, DocInv, LoadTypes, Loads, Idle
  <1>9. load.at = "checked" /\ ~load.refused /\ project => load.stored = stored /\ load.lyrics = lyrics /\ lyrics \in LyricsRows
    BY DEF OneHolds, KeptParts, LoadKept, Fresh, Ends
  <1>10. stored \in StoredDocs \cup {None} /\ (stored # None => Single(stored))
    BY DEF OneHolds, DocInv, RowTypes, OneParts, Singles
  <1>11. CASE fetchResume
    <2>1. load.at = "checked" /\ ~load.refused /\ load' = Idle /\ Resumes
          /\ handOut([seeds |-> load.stored.seeds, marks |-> load.stored.marks])
      BY <1>11 DEF fetchResume
    <2>2. load.stored \in StoredDocs /\ load.stored # None /\ load.lyrics \in LyricsRows
      BY <1>8, <2>1 DEF Resumes, current, docMatchesLyrics
    <2>3. PICK d : d = [seeds |-> load.stored.seeds, marks |-> load.stored.marks]
      OBVIOUS
    <2>4. d \in Documents /\ d.seeds = load.stored.seeds /\ Single(d)
      <3>1. d \in Documents /\ d.seeds = load.stored.seeds
        BY <2>2, <2>3 DEF StoredDocs, Documents
      <3>2. Single(load.stored)
        BY <2>1, <2>2 DEF OneHolds, OneParts, Singles
      <3> QED BY <3>1, <3>2 DEF Single
    <2>5. /\ stored # None => stored' # None /\ stored'.seeds = stored.seeds
          /\ stored = None => stored' = None
          /\ stored' = IF current(load.stored, load.lyrics) \/ stored = None THEN stored
                       ELSE [stored EXCEPT !.lyricsVersion = load.lyrics.version]
      <3>1. stored' = IF current(load.stored, load.lyrics) \/ stored = None THEN stored
                      ELSE [stored EXCEPT !.lyricsVersion = load.lyrics.version]
        BY <1>11 DEF fetchResume
      <3>2. PICK r : r = [stored EXCEPT !.lyricsVersion = load.lyrics.version]
        OBVIOUS
      <3>3. stored # None => r \in StoredDocs /\ r.seeds = stored.seeds
        BY <1>10, <2>2, <3>2 DEF StoredDocs, LyricsRows
      <3> QED BY <3>1, <3>2, <3>3, NoneApart
    <2>6. stored' # None => Single(stored')
      BY <1>10, <2>5 DEF Single
    <2>7. project => stored' # None /\ stored'.seeds = d.seeds /\ current(stored', lyrics')
      <3> SUFFICES ASSUME project
                   PROVE  stored' # None /\ stored'.seeds = d.seeds /\ current(stored', lyrics')
        OBVIOUS
      <3>1. load.stored = stored /\ load.lyrics = lyrics /\ stored \in StoredDocs /\ stored # None /\ lyrics \in LyricsRows
        BY <1>9, <2>1, <2>2
      <3>2. PICK r : r = [stored EXCEPT !.lyricsVersion = lyrics.version]
        OBVIOUS
      <3>3. r \in StoredDocs /\ r.lyricsVersion = lyrics.version /\ lyrics.version \in Nat
        BY <3>1, <3>2 DEF StoredDocs, LyricsRows
      <3>4. current(r, lyrics)
        BY <3>3, NoneApart DEF current
      <3>5. (stored' = stored /\ current(stored, lyrics)) \/ stored' = r
        BY <2>5, <3>1, <3>2
      <3>6. current(stored', lyrics')
        BY <1>1, <3>4, <3>5
      <3> QED BY <2>4, <2>5, <3>1, <3>6
    <2>8. \A c \in Client : Held(c) => copy[c].seeds = d.seeds
      BY <2>1, <2>4 DEF OneHolds, OneParts, CopiesOne
    <2>9. handOut(d)
      BY <2>1, <2>3
    <2> QED BY <1>6, <1>7, <2>1, <2>4, <2>6, <2>7, <2>8, <2>9
  <1>12. CASE fetchSeed
    <2>1. PICK seed : seed = 1 + MaxSeeds - budget.seeds
      OBVIOUS
    <2>2. seed \in Nat
      BY <2>1, StoreAssumption DEF OneHolds, DocInv, WorkTypes
    <2>3. /\ load.at = "checked" /\ ~load.refused /\ load' = Idle /\ ~Resumes /\ load.lyrics \in LyricsRows
          /\ stored' = [seeds |-> {seed}, marks |-> load.lyrics.marks, lyricsVersion |-> load.lyrics.version]
          /\ handOut([seeds |-> {seed}, marks |-> load.lyrics.marks])
      BY <1>8, <1>12, <2>1 DEF fetchSeed
    <2>4. PICK d : d = [seeds |-> {seed}, marks |-> load.lyrics.marks]
      OBVIOUS
    <2>5. d \in Documents /\ d.seeds = {seed} /\ Single(d) /\ handOut(d)
      BY <2>2, <2>3, <2>4 DEF LyricsRows, Documents, Single
    <2>6. stored' \in StoredDocs /\ stored' # None /\ stored'.seeds = {seed} /\ Single(stored')
      BY <2>2, <2>3, NoneApart DEF LyricsRows, StoredDocs, Single
    <2>7. project => current(stored', lyrics')
      BY <1>1, <1>9, <2>3, <2>6 DEF current, LyricsRows
    <2>8. \A c \in Client : Held(c) => copy[c].seeds = d.seeds
      BY <2>3 DEF OneHolds, OneParts, CopiesOne
    <2>9. load' = Idle /\ (stored' # None => Single(stored'))
      BY <2>3, <2>6
    <2>10. project => stored' # None /\ stored'.seeds = d.seeds /\ current(stored', lyrics')
      BY <2>5, <2>6, <2>7
    <2> QED BY <1>6, <1>7, <2>5, <2>8, <2>9, <2>10
  <1> QED BY <1>3, <1>4, <1>5, <1>11, <1>12 DEF Loading

LEMMA StoresOne ==
    ASSUME OneHolds, Turns', [Next]_vars, One',
           Storing \/ storeStateFails \/ storeProjectionFails \/ retryDirtyStores \/ unload
    PROVE  OneParts'
  <1>1. /\ session' = session /\ removing' = removing /\ load' = load /\ project' = project /\ copy' = copy /\ seen' = seen
        /\ (discardAfterStore' => discardAfterStore)
    BY DEF Storing, storeStart, storeWriteState, storeWriteLyrics, storeWriteVersion, storeStateFails,
       storeProjectionFails, retryDirtyStores, unload, database, teardown, tabs
  <1>2. CASE retryDirtyStores
    BY <1>1, <1>2, OneKept DEF retryDirtyStores, database, OneHolds, Held
  <1> SUFFICES ASSUME ~retryDirtyStores
               PROVE  OneParts'
    BY <1>2
  <1>3. doc # None /\ doc \in Documents /\ load = Idle /\ Single(doc) /\ stored \in StoredDocs \cup {None} /\ (stored # None => Single(stored))
    <2>1. storeStart \/ unload => doc # None
      BY DEF storeStart, unload
    <2>2. storeWriteState \/ storeWriteLyrics \/ storeWriteVersion \/ storeStateFails \/ storeProjectionFails => store # Idle
      BY DEF storeWriteState, storeWriteLyrics, storeWriteVersion, storeStateFails, storeProjectionFails, Idle
    <2>3. doc # None /\ doc \in Documents /\ load = Idle /\ stored \in StoredDocs \cup {None}
      BY <2>1, <2>2 DEF Storing, OneHolds, DocInv, DocTypes, RowTypes
    <2> QED BY <2>3 DEF OneHolds, OneParts, Singles
  (* Of a step with the document still loaded, the copies need no thought.  *)
  <1>4. ASSUME doc' = doc, stored' # None => Single(stored'), store'.at = "state" => store'.seeds = doc.seeds,
               project => stored'.seeds = doc.seeds, StoresAgree'
        PROVE  OneParts'
    <2>1. Singles'
      BY <1>1, <1>3, <1>4 DEF OneHolds, OneParts, Singles, Single
    <2>2. CopiesOne'
      BY <1>1, <1>3, <1>4 DEF OneHolds, OneParts, CopiesOne, Held, Idle
    <2> QED BY <1>4, <2>1, <2>2 DEF OneParts
  <1>5. project => stored # None /\ stored \in StoredDocs /\ stored.seeds = doc.seeds /\ lyrics \in LyricsRows /\ ~discarded /\ LoadedKept
    BY <1>3 DEF OneHolds, OneParts, Singles, KeptParts, LoadedKept, Ends
  <1>6. StoresAgree /\ \A c \in Client : Held(c)' <=> Held(c)
    BY <1>1 DEF OneHolds, OneParts, Held
  <1>7. CASE storeStart
    <2>1. /\ doc' = doc /\ stored' = stored /\ lyrics' = lyrics /\ discardAfterStore' = discardAfterStore /\ store = Idle
          /\ (store' = Idle /\ ~project) \/ store' = [at |-> "state", seeds |-> doc.seeds, marks |-> doc.marks]
      BY <1>5, <1>7 DEF storeStart, database
    <2>2. StoresAgree'
      BY <1>1, <1>6, <2>1 DEF StoresAgree, Idle
    <2>3. store'.at = "state" => store'.seeds = doc.seeds
      BY <2>1 DEF Idle
    <2> QED BY <1>3, <1>4, <1>5, <2>1, <2>2, <2>3
  <1>8. CASE storeWriteState
    <2>1. /\ stored' = [seeds |-> store.seeds, marks |-> store.marks,
                        lyricsVersion |-> IF stored = None THEN 0 ELSE stored.lyricsVersion]
          /\ store' = [at |-> "lyrics"] /\ store.at = "state" /\ doc' = doc /\ lyrics' = lyrics /\ pending' = pending
          /\ discardAfterStore' = discardAfterStore
      BY <1>8 DEF storeWriteState
    <2>2. store.seeds = doc.seeds
      BY <2>1 DEF OneHolds, OneParts, Singles
    <2>3. stored'.seeds = doc.seeds /\ stored'.marks = store.marks
      BY <2>1, <2>2
    <2>4. Single(stored')
      BY <1>3, <2>3 DEF Single
    <2>5. StoresAgree'
      BY <1>1, <1>6, <2>1, <2>3 DEF StoresAgree, Idle
    <2> QED BY <1>4, <2>1, <2>3, <2>4, <2>5
  <1>9. CASE storeWriteLyrics
    <2>1. doc' = doc /\ stored' = stored /\ store.at = "lyrics" /\ pending' = pending /\ discardAfterStore' = discardAfterStore
      BY <1>9 DEF storeWriteLyrics
    <2>2. CASE lyrics = None
      <3>1. ~project /\ store' = Idle
        BY <1>9, <2>2 DEF storeWriteLyrics, storeEnds, OneHolds, DocInv, RowTypes
      <3>2. StoresAgree'
        BY <1>1, <1>6, <2>1, <3>1 DEF StoresAgree, Idle
      <3> QED BY <1>3, <1>4, <2>1, <3>1, <3>2 DEF Idle
    <2>3. CASE lyrics # None
      <3>1. /\ lyrics' = [marks |-> doc.marks, version |-> lyrics.version + 1]
            /\ store' = [at |-> "version", version |-> lyrics'.version]
        BY <1>9, <2>3 DEF storeWriteLyrics
      <3>2. StoresAgree'
        BY <1>1, <1>6, <2>1, <3>1 DEF StoresAgree, Idle
      <3> QED BY <1>3, <1>4, <1>5, <2>1, <3>1, <3>2
    <2> QED BY <2>2, <2>3
  <1>10. CASE storeWriteVersion
    <2>1. /\ doc' = doc /\ store.at = "version" /\ store' = Idle /\ lyrics' = lyrics /\ discardAfterStore' = discardAfterStore
          /\ stored' = IF stored = None THEN None ELSE [stored EXCEPT !.lyricsVersion = store.version]
      BY <1>10 DEF storeWriteVersion, storeEnds
    <2>2. PICK r : r = [stored EXCEPT !.lyricsVersion = store.version]
      OBVIOUS
    <2>3. store.version \in Nat
      BY <2>1 DEF OneHolds, DocInv, StoreTypes, Stores, Idle
    <2>4. stored # None => r \in StoredDocs /\ r.seeds = stored.seeds /\ r.lyricsVersion = store.version /\ r # None
      BY <1>3, <2>2, <2>3, NoneApart DEF StoredDocs
    <2>5. stored' # None => Single(stored')
      BY <1>3, <2>1, <2>2, <2>4 DEF Single
    <2>6. project => stored'.seeds = doc.seeds /\ current(stored', lyrics')
      <3>1. project => store.version = lyrics.version /\ lyrics.version \in Nat
        BY <1>3, <1>5, <2>1 DEF LoadedKept, LyricsRows
      <3> QED BY <1>5, <2>1, <2>2, <2>4, <3>1 DEF current
    <2>7. StoresAgree'
      BY <1>1, <1>6, <2>1, <2>6 DEF StoresAgree, Idle
    <2> QED BY <1>4, <2>1, <2>5, <2>6, <2>7 DEF Idle
  <1>11. CASE storeStateFails \/ storeProjectionFails
    <2>1. /\ doc' = doc /\ stored' = stored /\ lyrics' = lyrics /\ store' = Idle /\ pending' = pending
          /\ discardAfterStore' = discardAfterStore
          /\ store.at \in {"state", "lyrics", "version"} /\ budget.faults = MaxFaults
      BY <1>11, OneBefore DEF storeStateFails, storeProjectionFails, storeEnds, database, OneHolds
    <2>2. project => current(stored, lyrics) \/ store.at = "version"
      BY <1>3, <1>5, <2>1 DEF LoadedKept
    <2>3. project => current(stored, lyrics) \/ pending \/ stored.marks = lyrics.marks
      BY <1>6, <2>2 DEF StoresAgree
    <2>4. StoresAgree'
      BY <1>1, <1>6, <2>1, <2>3 DEF StoresAgree, Idle, current
    <2> QED BY <1>3, <1>4, <1>5, <2>1, <2>4 DEF Idle
  <1>12. CASE unload
    <2>1. /\ doc' = None /\ lyrics' = lyrics /\ ~pending /\ store = Idle /\ store' = Idle /\ discardAfterStore' = FALSE
          /\ stored' = stored \/ (stored' = None /\ discardAfterStore)
      BY <1>12 DEF unload
    <2>2. Singles'
      BY <1>1, <1>3, <2>1 DEF OneHolds, OneParts, Singles, Single, Idle
    <2>3. session.live => project
      BY DEF OneHolds, Turns
    <2>4. ASSUME session.live, NEW c \in Client, Held(c)
          PROVE  /\ stored' = stored /\ stored # None /\ stored.seeds = copy[c].seeds
                 /\ current(stored, lyrics) \/ docMatchesLyrics(stored, lyrics)
      <3>1. ~discardAfterStore
        BY <1>6, <2>4 DEF StoresAgree
      <3>2. stored # None /\ stored.seeds = doc.seeds /\ copy[c].seeds = doc.seeds
        BY <1>3, <1>5, <2>3, <2>4 DEF OneHolds, OneParts, CopiesOne
      <3>3. current(stored, lyrics) \/ stored.marks = lyrics.marks
        BY <1>3, <1>6, <2>1, <2>3, <2>4 DEF StoresAgree
      <3> QED BY <2>1, <3>1, <3>2, <3>3 DEF docMatchesLyrics
    <2>5. CopiesOne'
      <3>1. \A c \in Client : Held(c)' => Held(c) /\ copy'[c] = copy[c]
        BY <1>1, <1>6
      <3> QED BY <1>1, <1>3, <2>1, <2>4, <3>1 DEF CopiesOne, current, docMatchesLyrics, Idle
    <2>6. StoresAgree'
      BY <1>1, <2>1 DEF StoresAgree, Idle
    <2> QED BY <2>2, <2>5, <2>6 DEF OneParts
  <1> QED BY <1>7, <1>8, <1>9, <1>10, <1>11, <1>12 DEF Storing

LEMMA TeardownsOne ==
    ASSUME OneHolds, Turns', [Next]_vars, One', TearingDown \/ removeFails
    PROVE  OneParts'
  <1>1. /\ session' = session /\ load' = load /\ doc' = doc /\ store' = store /\ copy' = copy /\ seen' = seen
        /\ project' = project
    BY DEF TearingDown, call, endLoaded, removeRead, removeWriteState, removeWriteLyrics, removeWriteVersion, removeDelete,
       discardStart, closePass, closeEnds, discardDelete, removeFails, database, tabs
  <1> pending => pending'
    BY DEF TearingDown, call, endLoaded, removeRead, removeWriteState, removeWriteLyrics, removeWriteVersion, removeDelete,
       discardStart, closePass, closeEnds, discardDelete, removeFails
  <1>2. \A c \in Client : copy'[c] # None /\ seen'[c] = session.epoch => Held(c) /\ copy'[c] = copy[c]
    BY <1>1 DEF Held
  <1>3. settling # <<>> => ~session.live
    BY DEF OneHolds, SessionsApart
  (* Steps that write nothing.                                              *)
  <1>4. ASSUME stored' = stored, lyrics' = lyrics, removing' \in {removing, None},
               session.live => (discardAfterStore' => discardAfterStore)
        PROVE  OneParts'
    BY <1>1, <1>2, <1>4, OneKept DEF OneHolds
  <1>5. CASE \/ \E kind \in {"end", "discard"} : call(kind)
             \/ endLoaded \/ discardStart \/ closePass \/ closeEnds \/ removeFails
    <2>1. stored' = stored /\ lyrics' = lyrics /\ removing' \in {removing, None}
      BY <1>5 DEF call, endLoaded, discardStart, closePass, closeEnds, removeFails, finish, database, teardown
    <2>2. session.live => (discardAfterStore' => discardAfterStore)
      BY <1>3, <1>5 DEF call, endLoaded, discardStart, closePass, closeEnds, removeFails, Running
    <2> QED BY <1>4, <2>1, <2>2
  (* Writes of rows: of a project that stands nothing is loaded.            *)
  <1>6. ASSUME ~session.live, project => doc = None, stored' # None => Single(stored'), removing' # None => Single(removing'),
               discardAfterStore' = discardAfterStore, pending' = pending
        PROVE  OneParts'
    <2>1. project => store = Idle
      BY <1>6 DEF OneHolds, DocInv, DocTypes
    <2>2. Singles'
      BY <1>1, <1>6 DEF OneHolds, OneParts, Singles, Single
    <2>3. CopiesOne'
      BY <1>1, <1>6 DEF OneHolds, OneParts, CopiesOne, Held, Resumes, current, docMatchesLyrics
    <2>4. StoresAgree'
      BY <1>1, <1>6, <2>1 DEF OneHolds, OneParts, StoresAgree, Idle
    <2> QED BY <2>2, <2>3, <2>4 DEF OneParts
  <1>7. /\ stored \in StoredDocs \cup {None} /\ (stored # None => Single(stored))
        /\ removing \in StoredDocs \cup {None} /\ (removing # None => Single(removing))
    BY DEF OneHolds, DocInv, RowTypes, TeardownTypes, OneParts, Singles
  <1>8. \A r \in StoredDocs : \A v \in Nat : [r EXCEPT !.lyricsVersion = v].seeds = r.seeds
    BY DEF StoredDocs
  <1>9. CASE removeRead
    <2>1. /\ settling # <<>> /\ doc = None /\ (removing' = stored \/ removing' = None) /\ stored' = stored
          /\ discardAfterStore' = discardAfterStore /\ pending' = pending
      BY <1>9 DEF removeRead, Running, finish, database
    <2>2. (stored' # None => Single(stored')) /\ (removing' # None => Single(removing'))
      BY <1>7, <2>1
    <2> QED BY <1>3, <1>6, <2>1, <2>2
  <1>10. CASE removeWriteState \/ removeWriteLyrics \/ removeWriteVersion
    <2>1. /\ settling # <<>> /\ removing # None /\ removing \in StoredDocs /\ (project => doc = None)
          /\ discardAfterStore' = discardAfterStore /\ pending' = pending
      BY <1>7, <1>10 DEF removeWriteState, removeWriteLyrics, removeWriteVersion, Running, OneHolds, DocInv, TeardownTypes, Removals,
         KeptParts, RemovalKept
    <2>2. stored' # None => Single(stored')
      <3>1. CASE removeWriteState
        <4>1. PICK v : v = IF stored = None THEN 0 ELSE stored.lyricsVersion
          OBVIOUS
        <4>2. v \in Nat
          BY <1>7, <4>1 DEF StoredDocs
        <4>3. stored' = [removing EXCEPT !.lyricsVersion = v]
          BY <3>1, <4>1 DEF removeWriteState
        <4>4. stored'.seeds = removing.seeds
          BY <1>8, <2>1, <4>2, <4>3
        <4> QED BY <1>7, <2>1, <4>4 DEF Single
      <3>2. CASE removeWriteLyrics
        BY <1>7, <3>2 DEF removeWriteLyrics
      <3>3. CASE removeWriteVersion
        <4>1. removing.lyricsVersion \in Nat
          BY <2>1 DEF StoredDocs
        <4>2. stored # None => stored'.seeds = stored.seeds
          BY <1>7, <1>8, <3>3, <4>1 DEF removeWriteVersion
        <4>3. stored = None => stored' = None
          BY <3>3 DEF removeWriteVersion
        <4> QED BY <1>7, <4>2, <4>3 DEF Single
      <3> QED BY <1>10, <3>1, <3>2, <3>3
    <2>3. removing' # None => Single(removing')
      <3>1. CASE removeWriteState \/ removeWriteVersion
        BY <1>7, <3>1 DEF removeWriteState, removeWriteVersion
      <3>2. CASE removeWriteLyrics /\ lyrics = None
        BY <1>7, <3>2 DEF removeWriteLyrics
      <3>3. CASE removeWriteLyrics /\ lyrics # None
        <4>1. lyrics' = [marks |-> removing.marks, version |-> lyrics.version + 1]
              /\ removing' = [removing EXCEPT !.lyricsVersion = lyrics'.version]
          BY <3>3 DEF removeWriteLyrics
        <4>2. lyrics'.version \in Nat
          BY <3>3, <4>1 DEF OneHolds, DocInv, RowTypes, LyricsRows
        <4>3. removing'.seeds = removing.seeds
          BY <1>8, <2>1, <4>1, <4>2
        <4> QED BY <1>7, <2>1, <4>3 DEF Single
      <3> QED BY <1>10, <3>1, <3>2, <3>3
    <2> QED BY <1>3, <1>6, <2>1, <2>2, <2>3
  <1>11. CASE removeDelete
    <2>1. /\ settling # <<>> /\ stored' = None /\ removing' = None /\ (project => doc = None)
          /\ discardAfterStore' = discardAfterStore /\ pending' = pending
      BY <1>11 DEF removeDelete, Running, finish, OneHolds, KeptParts, RemovalKept
    <2> QED BY <1>3, <1>6, <2>1
  <1>12. CASE discardDelete
    <2>1. /\ settling # <<>> /\ stored' \in {None, stored} /\ removing' = None
          /\ discardAfterStore' = discardAfterStore /\ pending' = pending
      BY <1>12 DEF discardDelete, Running, finish
    <2>2. ~project
      BY <1>12 DEF discardDelete, Running, OneHolds, Ends
    <2> QED BY <1>3, <1>6, <1>7, <2>1, <2>2
  <1> QED BY <1>5, <1>9, <1>10, <1>11, <1>12 DEF TearingDown

LEMMA OneStep ==
    DocInv /\ SweepInv /\ Turns /\ Holding /\ KeptInv /\ OneInv /\ SessionsApart /\ SessionsApart' /\ [Next]_vars => OneInv'
  <1> SUFFICES ASSUME DocInv, SweepInv, Turns, Holding, KeptInv, OneInv, SessionsApart, SessionsApart', [Next]_vars, One'
               PROVE  OneParts'
    BY DEF OneInv
  <1>1. One /\ Fine /\ ~Crash
    BY OneBefore
  <1>2. project => Ends /\ KeptParts
    BY <1>1, EndsOnly DEF KeptInv, Unsaved, One
  <1>3. OneHolds /\ Turns'
    BY <1>1, <1>2, TurnsStep DEF OneHolds, OneInv
  <1>4. CASE UNCHANGED vars
    BY <1>3, <1>4, OneKept DEF OneHolds, Held, vars, database, teardown, tabs
  <1> QED BY <1>1, <1>3, <1>4, ServicesOne, TabsOne, LoadsOne, StoresOne, TeardownsOne DEF Next

(* No document ever has every line twice, where sessions follow each other
   and until a second database call fails, the process dies or somebody
   saves outside of the session: whoever comes back with a copy finds the
   document that copy is of (resolvePrincipal, fetchState, unload). *)
THEOREM LinesAreNotDoubled == Spec /\ []SessionsApart => [](One => OneSeed)
  <1>1. Init => DocInv /\ SweepInv /\ Turns /\ Holding /\ KeptInv /\ OneInv
    BY DocBegins, SweepBegins, TurnsBegin, KeptBegins, OneBegins
  <1>2. (DocInv /\ SweepInv /\ Turns /\ Holding /\ KeptInv /\ OneInv) /\ SessionsApart /\ SessionsApart' /\ [Next]_vars
            => (DocInv /\ SweepInv /\ Turns /\ Holding /\ KeptInv /\ OneInv)'
    BY DocStep, SweepStep, TurnsStep, HoldingStep, KeptStep, OneStep
  <1>3. OneInv => (One => OneSeed)
    <2> SUFFICES ASSUME OneInv, One
                 PROVE  OneSeed
      OBVIOUS
    <2>1. \A d \in {doc, stored} \ {None} : Single(d)
      BY DEF OneInv, OneParts, Singles
    <2>2. \A d : Single(d) => Cardinality(d.seeds) = 1
      BY FS_Singleton DEF Single
    <2> QED BY <2>1, <2>2 DEF OneSeed
  <1> QED BY <1>1, <1>2, <1>3, PTL DEF Spec

-----------------------------------------------------------------------------
(* A single session is apart from the others by itself. *)
Lone ==
    /\ session.epoch <= 1
    /\ session.live => session.epoch = 1 /\ owed = {} /\ settling = <<>>
    /\ session.epoch = 0 => \A c \in Client : client[c] \notin Within
    /\ session.epoch = 0 /\ project => owed = {} /\ settling = <<>>

LEMMA LoneApart == Turns /\ Lone => SessionsApart
  BY DEF Turns, Lone, SessionsApart

(* Nobody gets past the read of a session that is not live. *)
LEMMA EnterLive ==
    ASSUME DocInv, [Next]_vars
    PROVE  \A c \in Client : client'[c] \in Within => client[c] \in Within \/ session.live
  <1>0. client \in [Client -> Phases] /\ Attached \subseteq {c \in Client : client[c] \in Within}
    BY DEF DocInv, DocTypes, Attached, Within
  <1>1. CASE startSession \/ endSessionService \/ deleteProject \/ patchLyrics \/ \E s \in Save : collabSessionBlocks(s)
    BY <1>1 DEF startSession, endSessionService, deleteProject, patchLyrics, collabSessionBlocks, tabs
  <1>2. ASSUME NEW c \in Client,
               \/ Knock(c) \/ PassGate(c) \/ resolvePrincipal(c) \/ Leave(c)
               \/ \E e \in Edit : edit(c, e)
        PROVE  \A d \in Client : client'[d] \in Within => client[d] \in Within \/ session.live
    BY <1>0, <1>2 DEF Knock, PassGate, resolvePrincipal, Leave, edit, Within
  <1>3. ASSUME NEW c \in Client, Admit(c)
        PROVE  \A d \in Client : client'[d] \in Within => client[d] \in Within
    <2>1. client[c] \in Within
      BY <1>3 DEF Admit, Within
    <2>2. \A d \in Client : d # c => client'[d] = client[d]
      <3>1. CASE doc = None \/ discarded
        BY <1>0, <1>3, <3>1 DEF Admit
      <3>2. CASE ~(doc = None \/ discarded)
        BY <1>3, <3>2 DEF Admit, attach
      <3> QED BY <3>1, <3>2
    <2> QED BY <2>1, <2>2
  <1>4. \A c \in Client : Refused[c] \in Within => client[c] \in Within
    BY <1>0 DEF Refused, Within
  <1>5. CASE Loading \/ fetchFail
    <2>1. ASSUME NEW d, handOut(d)
          PROVE  \A c \in Client : client'[c] \in Within => client[c] \in Within
      <3>1. CASE discarded
        BY <1>4, <2>1, <3>1 DEF handOut
      <3>2. CASE ~discarded
        BY <1>0, <2>1, <3>2 DEF handOut, attach, Loaders, Within
      <3> QED BY <3>1, <3>2
    <2>2. CASE fetchStart \/ fetchCheck \/ fetchRefuse \/ fetchFail
      BY <1>4, <2>2 DEF fetchStart, fetchCheck, fetchRefuse, fetchFail, tabs
    <2>3. CASE fetchResume \/ fetchSeed
      BY <2>1, <2>3 DEF fetchResume, fetchSeed
    <2> QED BY <1>5, <2>2, <2>3 DEF Loading
  <1>6. CASE Storing \/ storeStateFails \/ storeProjectionFails \/ retryDirtyStores \/ unload
    BY <1>6 DEF Storing, storeStart, storeWriteState, storeWriteLyrics, storeWriteVersion, storeStateFails,
       storeProjectionFails, retryDirtyStores, unload, tabs
  <1>7. CASE TearingDown \/ removeFails \/ Crash \/ UNCHANGED vars
    BY <1>0, <1>7 DEF TearingDown, call, endLoaded, removeRead, removeWriteState, removeWriteLyrics, removeWriteVersion, removeDelete,
       discardStart, closePass, closeEnds, discardDelete, removeFails, Crash, vars, tabs, Within
  <1> QED BY <1>1, <1>2, <1>3, <1>5, <1>6, <1>7 DEF Next

LEMMA LoneStep ==
    ASSUME DocInv, Turns, Lone, MaxSessions = 1, [Next]_vars
    PROVE  Lone' /\ (startSession => SessionsApart')
  <1>0. session \in [epoch : Nat, live : BOOLEAN] /\ settling \in Seq({"end", "discard"})
    BY DEF DocInv, RowTypes, TeardownTypes
  <1>1. CASE startSession
    <2>1. /\ session'.epoch = session.epoch + 1 /\ session'.live /\ project /\ session.epoch < 1
          /\ owed' = owed /\ settling' = settling /\ client' = client
      BY <1>1 DEF startSession, teardown, tabs
    <2>2. session.epoch = 0 /\ session'.epoch = 1
      BY <1>0, <2>1
    <2>3. owed' = {} /\ settling' = <<>> /\ \A c \in Client : client'[c] \notin Within
      BY <2>1, <2>2 DEF Lone
    <2> QED BY <2>2, <2>3 DEF Lone, SessionsApart
  <1>2. CASE ~startSession
    <2>1. session'.epoch = session.epoch /\ (session'.live => session.live) /\ (project' => project)
          /\ ((session'.live \/ project') => (owed' \subseteq owed \/ (session.live /\ ~session'.live)))
      <3>1. CASE endSessionService \/ deleteProject \/ patchLyrics \/ \E s \in Save : collabSessionBlocks(s)
        BY <1>0, <3>1 DEF endSessionService, deleteProject, patchLyrics, collabSessionBlocks, database, teardown
      <3>2. ASSUME NEW c \in Client,
                   \/ Knock(c) \/ PassGate(c) \/ resolvePrincipal(c) \/ Admit(c) \/ Leave(c)
                   \/ \E e \in Edit : edit(c, e)
            PROVE  session' = session /\ project' = project /\ owed' = owed
        BY <3>2 DEF Knock, PassGate, resolvePrincipal, Admit, Leave, edit, database, teardown
      <3>3. CASE Loading \/ fetchFail
        BY <3>3 DEF Loading, fetchStart, fetchCheck, fetchRefuse, fetchResume, fetchSeed, fetchFail, database, teardown
      <3>4. CASE Storing \/ storeStateFails \/ storeProjectionFails \/ retryDirtyStores \/ unload
        BY <3>4 DEF Storing, storeStart, storeWriteState, storeWriteLyrics, storeWriteVersion, storeStateFails, storeProjectionFails,
           retryDirtyStores, unload, database, teardown
      <3>5. CASE TearingDown \/ removeFails \/ Crash \/ UNCHANGED vars
        BY <3>5 DEF TearingDown, call, endLoaded, removeRead, removeWriteState, removeWriteLyrics, removeWriteVersion, removeDelete,
           discardStart, closePass, closeEnds, discardDelete, removeFails, Crash, vars, finish, database, teardown
      <3> QED BY <1>2, <3>1, <3>2, <3>3, <3>4, <3>5 DEF Next
    <2>2. owed = {} /\ settling = <<>> => settling' = <<>>
      <3> SUFFICES ASSUME owed = {}, settling = <<>>
                   PROVE  settling' = <<>>
        OBVIOUS
      <3>1. CASE startSession \/ endSessionService \/ deleteProject \/ patchLyrics \/ \E s \in Save : collabSessionBlocks(s)
        BY <3>1 DEF startSession, endSessionService, deleteProject, patchLyrics, collabSessionBlocks, teardown
      <3>2. ASSUME NEW c \in Client,
                   \/ Knock(c) \/ PassGate(c) \/ resolvePrincipal(c) \/ Admit(c) \/ Leave(c)
                   \/ \E e \in Edit : edit(c, e)
            PROVE  settling' = settling
        BY <3>2 DEF Knock, PassGate, resolvePrincipal, Admit, Leave, edit, teardown
      <3>3. CASE Loading \/ fetchFail
        BY <3>3 DEF Loading, fetchStart, fetchCheck, fetchRefuse, fetchResume, fetchSeed, fetchFail, teardown
      <3>4. CASE Storing \/ storeStateFails \/ storeProjectionFails \/ retryDirtyStores \/ unload
        BY <3>4 DEF Storing, storeStart, storeWriteState, storeWriteLyrics, storeWriteVersion, storeStateFails, storeProjectionFails,
           retryDirtyStores, unload, teardown
      <3>5. CASE TearingDown \/ removeFails \/ Crash \/ UNCHANGED vars
        BY <3>5 DEF TearingDown, call, endLoaded, removeRead, removeWriteState, removeWriteLyrics, removeWriteVersion, removeDelete,
           discardStart, closePass, closeEnds, discardDelete, removeFails, Crash, vars, Running, teardown
      <3> QED BY <3>1, <3>2, <3>3, <3>4, <3>5 DEF Next
    <2>3. session'.live => session'.epoch = 1 /\ owed' = {} /\ settling' = <<>>
      BY <2>1, <2>2 DEF Lone
    <2>4. session'.epoch = 0 => ~session.live
      BY <2>1 DEF Lone
    <2>5. session'.epoch = 0 => \A c \in Client : client'[c] \notin Within
      BY <2>1, <2>4, EnterLive DEF Lone
    <2>6. session'.epoch = 0 /\ project' => owed' = {} /\ settling' = <<>>
      BY <2>1, <2>2, <2>4 DEF Lone
    <2> QED BY <1>2, <2>1, <2>3, <2>5, <2>6 DEF Lone
  <1> QED BY <1>1, <1>2

(* A project's only session has no other to be apart from (startSession,
   settle), ... *)
THEOREM OneSessionIsApart == Spec => (MaxSessions = 1 => []SessionsApart)
  <1> SUFFICES ASSUME MaxSessions = 1
               PROVE  Spec => []SessionsApart
    OBVIOUS
  <1>1. Init => DocInv /\ SweepInv /\ Turns /\ Lone
    <2>1. Init => Lone
      BY DEF Init, Lone, Within
    <2> QED BY <2>1, DocBegins, SweepBegins, TurnsBegin
  <1>2. (DocInv /\ SweepInv /\ Turns /\ Lone) /\ [Next]_vars => (DocInv /\ SweepInv /\ Turns /\ Lone)'
    BY DocStep, SweepStep, LoneStep, TurnsStep
  <1>3. Turns /\ Lone => SessionsApart
    BY LoneApart
  <1> QED BY <1>1, <1>2, <1>3, PTL DEF Spec

(* ... so of it both hold without that assumption (storeHooks, fetchState). *)
THEOREM OneSessionHolds ==
    Spec => (MaxSessions = 1 => [](Fine => StoredKept) /\ [](One => OneSeed))
  BY OneSessionIsApart, WhatIsStoredStays, LinesAreNotDoubled, PTL
=============================================================================
