---------------------------- MODULE CollabDocStore ----------------------------
(***************************************************************************)
(* The life of the shared document of one project (collab.server.ts): it   *)
(* is loaded from the stored CollabDoc or seeded from Lyrics, edited by    *)
(* the connected clients, stored and projected back into Lyrics, unloaded, *)
(* and torn down when its session ends or its project is deleted; with     *)
(* failing database writes and crashes of the process in between.          *)
(*                                                                         *)
(* Content is the set of edits (and solo saves) it contains.  A seed mints *)
(* new Yjs items, so a document also carries the seeds its items are from: *)
(* one that merged two has every line twice.  Every awaited database call  *)
(* is a step of its own.                                                   *)
(***************************************************************************)
EXTENDS Naturals, FiniteSets, Sequences

CONSTANTS
    Client,       \* browser tabs
    Edit,         \* edits made in the document, each once
    Save,         \* saves of the project's lyrics made outside of it
    None,         \* the absent document, copy, record
    MaxSessions,  \* bounds: sessions started,
    MaxSeeds,     \*   seeds minted,
    MaxFaults,    \*   database writes that fail,
    MaxCrashes    \*   crashes of the process

ASSUME StoreAssumption ==
    /\ Edit \cap Save = {}
    /\ None \notin Save
    /\ None \notin [seeds : SUBSET Nat, marks : SUBSET (Edit \cup Save)]
    /\ None \notin [seeds : SUBSET Nat, marks : SUBSET (Edit \cup Save), lyricsVersion : Nat]
    /\ None \notin [marks : SUBSET (Edit \cup Save), version : Nat]
    /\ {MaxSessions, MaxSeeds, MaxFaults, MaxCrashes} \subseteq Nat

VARIABLES
    project,   \* the Project exists
    lyrics,    \* Lyrics: [marks, version], None once deleted
    stored,    \* CollabDoc: [seeds, marks, lyricsVersion], 0 when unset, or None
    session,   \* newest CollabSession: [epoch, live], live being endedAt = null
    doc,       \* the loaded Y.Doc: [seeds, marks] or None
    load,      \* the load in progress: where fetchState is and what it read
    store,     \* the store in progress
    pending,   \* a store of the document is due
    dirty,     \* the entry of `dirty`
    discardAfterStore, discarded,
    settling,  \* queued teardowns, the first one running
    step,      \* where that one is
    removing,  \* the CollabDoc a running removeStoredDoc read, or None
    owed,      \* teardowns decided in the database, not yet asked of this process
    client,    \* per tab: where its connection is
    ahead,     \* per tab: teardowns it waits for at the gate
    copy,      \* per tab: the document it holds, connected or not
    seen,      \* per tab: the session it last authenticated for
    saving,    \* a solo save past its collabSessionBlocks check, or None
    used,      \* edits and saves made
    kept,      \* edits a store has written to the CollabDoc
    swept,     \* a discard has deleted the CollabDoc
    budget     \* seeds, faults and crashes left

database == <<project, lyrics, stored, session>>
teardown == <<settling, step, removing, owed>>
tabs == <<client, ahead, copy, seen>>
past == <<used, kept, swept>>
vars == <<database, doc, load, store, pending, dirty, discardAfterStore, discarded,
          teardown, tabs, saving, past, budget>>

Mark == Edit \cup Save

(* Where a tab is: at the gate of onAuthenticate, reading its session,
   past that read, waiting for the load, or attached, writing or read-only. *)
Phases == {"off", "gate", "auth", "read", "loading", "writer", "reader"}

Attached == {c \in Client : client[c] \in {"writer", "reader"}}

Idle == [at |-> "idle"]

Init ==
    /\ project = TRUE
    /\ lyrics = [marks |-> {}, version |-> 1]
    /\ stored = None
    /\ session = [epoch |-> 0, live |-> FALSE]
    /\ doc = None /\ load = Idle /\ store = Idle /\ pending = FALSE
    /\ dirty = "clean" /\ discardAfterStore = FALSE /\ discarded = FALSE
    /\ settling = <<>> /\ step = "start" /\ removing = None /\ owed = {}
    /\ client = [c \in Client |-> "off"]
    /\ ahead = [c \in Client |-> 0]
    /\ copy = [c \in Client |-> None]
    /\ seen = [c \in Client |-> 0]
    /\ saving = None
    /\ used = {} /\ kept = {} /\ swept = FALSE
    /\ budget = [seeds |-> MaxSeeds, faults |-> MaxFaults, crashes |-> MaxCrashes]

Spend(what) ==
    /\ budget[what] > 0
    /\ budget' = [budget EXCEPT ![what] = @ - 1]

-----------------------------------------------------------------------------
(* Sessions and the project, as the services change them in the database. *)

startSession ==
    /\ project /\ ~session.live /\ session.epoch < MaxSessions
    /\ session' = [epoch |-> session.epoch + 1, live |-> TRUE]
    /\ UNCHANGED <<project, lyrics, stored, doc, load, store, pending, dirty, discardAfterStore,
                   discarded, teardown, tabs, saving, past, budget>>

(* endedAt is written first; the call to the collab server follows. *)
endSessionService ==
    /\ session.live /\ "end" \notin owed
    /\ session' = [session EXCEPT !.live = FALSE]
    /\ owed' = owed \cup {"end"}
    /\ UNCHANGED <<project, lyrics, stored, doc, load, store, pending, dirty, discardAfterStore,
                   discarded, settling, step, removing, tabs, saving, past, budget>>

(* One transaction deletes the project and its lyrics and ends its session. *)
deleteProject ==
    /\ project
    /\ project' = FALSE
    /\ lyrics' = None
    /\ session' = [session EXCEPT !.live = FALSE]
    /\ owed' = owed \cup {"discard"}
    /\ UNCHANGED <<stored, doc, load, store, pending, dirty, discardAfterStore,
                   discarded, settling, step, removing, tabs, saving, past, budget>>

(* A solo save: collabSessionBlocks, then the write of Lyrics. *)
isFlushingEnd == discardAfterStore /\ dirty # "clean"

collabSessionBlocks(s) ==
    /\ project /\ saving = None /\ s \notin used
    /\ ~isFlushingEnd
    /\ ~session.live
    /\ saving' = s
    /\ used' = used \cup {s}
    /\ UNCHANGED <<database, doc, load, store, pending, dirty, discardAfterStore, discarded,
                   teardown, tabs, kept, swept, budget>>

(* A save through the project counts the version up; updateLyrics of the
   GraphQL resolvers does not.  Both upsert, a patch of a project that is
   gone excepted: its transaction writes nothing. *)
patchLyrics ==
    /\ saving # None
    /\ saving' = None
    /\ IF lyrics # None
       THEN \E version \in {lyrics.version, lyrics.version + 1} :
                lyrics' = [marks |-> lyrics.marks \cup {saving}, version |-> version]
       ELSE lyrics' \in {None, [marks |-> {saving}, version |-> 1]}
    /\ UNCHANGED <<project, stored, session, doc, load, store, pending, dirty, discardAfterStore,
                   discarded, teardown, tabs, past, budget>>

-----------------------------------------------------------------------------
(* The first sync of some tabs with the document d: what they held merges
   with it, and everyone attached receives the result. *)
attach(C, d) ==
    LET held == {copy[c] : c \in C} \ {None}
        merged == [seeds |-> d.seeds \cup UNION {h.seeds : h \in held},
                   marks |-> d.marks \cup UNION {h.marks : h \in held}]
    IN /\ doc' = merged
       /\ client' = [c \in Client |-> IF c \in C THEN "writer" ELSE client[c]]
       /\ copy' = [c \in Client |-> IF c \in Attached \cup C THEN merged ELSE copy[c]]
       /\ pending' = (pending \/ merged # d)

(* Authentication, up to the point where the document is asked for. *)

(* A tab connects, reloaded or with the copy it still holds and the
   sessionId that goes with it.  It waits for
   `await settling.get(documentName)`: the teardowns queued at that time. *)
Knock(c) ==
    /\ client[c] = "off"
    /\ client' = [client EXCEPT ![c] = IF settling # <<>> THEN "gate"
                                       ELSE IF discarded THEN "off" ELSE "auth"]
    /\ ahead' = [ahead EXCEPT ![c] = Len(settling)]
    /\ \/ UNCHANGED <<copy, seen>>
       \/ copy' = [copy EXCEPT ![c] = None] /\ seen' = [seen EXCEPT ![c] = 0]
    /\ UNCHANGED <<database, doc, load, store, pending, dirty, discardAfterStore, discarded,
                   teardown, saving, past, budget>>

PassGate(c) ==
    /\ client[c] = "gate" /\ ahead[c] = 0
    /\ client' = [client EXCEPT ![c] = IF discarded THEN "off" ELSE "auth"]
    /\ UNCHANGED <<database, doc, load, store, pending, dirty, discardAfterStore, discarded,
                   teardown, ahead, copy, seen, saving, past, budget>>

(* Mutant: the sessionId a reconnecting client sends is not compared. *)
resolvePrincipal_AnySession(c) ==
    LET admitted == session.live
    IN /\ client[c] = "auth"
       /\ client' = [client EXCEPT ![c] = IF admitted THEN "read" ELSE "off"]
       /\ seen' = IF admitted THEN [seen EXCEPT ![c] = session.epoch] ELSE seen
       /\ UNCHANGED <<database, doc, load, store, pending, dirty, discardAfterStore, discarded,
                      teardown, ahead, copy, saving, past, budget>>

(* resolvePrincipal: a live session, and the one the tab's copy is of. *)
resolvePrincipal(c) ==
    LET admitted == session.live /\ (copy[c] = None \/ seen[c] = session.epoch)
    IN /\ client[c] = "auth"
       /\ client' = [client EXCEPT ![c] = IF admitted THEN "read" ELSE "off"]
       /\ seen' = IF admitted THEN [seen EXCEPT ![c] = session.epoch] ELSE seen
       /\ UNCHANGED <<database, doc, load, store, pending, dirty, discardAfterStore, discarded,
                      teardown, ahead, copy, saving, past, budget>>

(* "A new session reached a doc still waiting on its predecessor's final
   store: it carries on from that doc."  The connection attaches at once
   if the document is loaded; else it joins the load, or begins one. *)
Admit(c) ==
    /\ client[c] = "read"
    /\ discardAfterStore' = (discardAfterStore /\ (discarded \/ settling # <<>>))
    /\ IF doc = None \/ discarded
       THEN /\ client' = [client EXCEPT ![c] = IF discarded THEN "off" ELSE "loading"]
            /\ load' = IF load = Idle /\ ~discarded THEN [at |-> "asked"] ELSE load
            /\ UNCHANGED <<doc, copy, pending>>
       ELSE attach({c}, doc) /\ UNCHANGED load
    /\ UNCHANGED <<database, store, dirty, discarded, teardown, ahead, seen, saving,
                   past, budget>>

-----------------------------------------------------------------------------
(* Loading: fetchState. *)

(* Mutant: fetchState compares versions with > instead of >=. *)
current_Strict(d, ly) == d # None /\ d.lyricsVersion > ly.version

(* The stored document is resumed unless Lyrics moved past it, and then if
   Lyrics holds just what the document does. *)
current(d, ly) == d # None /\ d.lyricsVersion >= ly.version

docMatchesLyrics(d, ly) == d # None /\ d.marks = ly.marks

(* What a load of the document would come back with. *)
Loadable == IF current(stored, lyrics) \/ docMatchesLyrics(stored, lyrics)
            THEN stored.marks ELSE lyrics.marks

Loaders == {c \in Client : client[c] = "loading"}

fetchStart ==
    /\ load.at = "asked"
    /\ load' = [at |-> "read", stored |-> stored, lyrics |-> lyrics, refused |-> discarded]
    /\ UNCHANGED <<database, doc, store, pending, dirty, discardAfterStore, discarded,
                   teardown, tabs, saving, past, budget>>

(* "Checked after the read, so a delete or an end landing during it is
   seen." *)
fetchCheck ==
    /\ load.at = "read"
    /\ load' = [load EXCEPT !.at = "checked", !.refused = @ \/ ~project \/ ~session.live]
    /\ UNCHANGED <<database, doc, store, pending, dirty, discardAfterStore, discarded,
                   teardown, tabs, saving, past, budget>>

Refused == [c \in Client |-> IF c \in Loaders THEN "off" ELSE client[c]]

(* A tombstone by the time the state is there refuses it all the same. *)
handOut(d) ==
    IF discarded THEN client' = Refused /\ UNCHANGED <<doc, copy, pending>>
    ELSE attach(Loaders, d)

Resumes == current(load.stored, load.lyrics) \/ docMatchesLyrics(load.stored, load.lyrics)

(* No state, because of the check or because the project is gone when the
   seed reads it: everyone waiting is refused. *)
fetchRefuse ==
    /\ load.at = "checked"
    /\ load.refused \/ (~load.refused /\ ~Resumes /\ ~project)
    /\ load' = Idle
    /\ client' = Refused
    /\ UNCHANGED <<database, doc, store, pending, dirty, discardAfterStore, discarded,
                   teardown, ahead, copy, seen, saving, past, budget>>

fetchResume ==
    /\ load.at = "checked" /\ ~load.refused /\ Resumes
    /\ handOut([seeds |-> load.stored.seeds, marks |-> load.stored.marks])
    /\ stored' = IF current(load.stored, load.lyrics) \/ stored = None THEN stored
                 ELSE [stored EXCEPT !.lyricsVersion = load.lyrics.version]
    /\ load' = Idle
    /\ UNCHANGED <<project, lyrics, session, store, dirty, discardAfterStore, discarded,
                   teardown, ahead, seen, saving, past, budget>>

(* The seed is upserted before it is returned, whatever was deleted since
   the check. *)
fetchSeed ==
    LET seed == 1 + MaxSeeds - budget.seeds
    IN /\ load.at = "checked" /\ ~load.refused /\ ~Resumes
       /\ Spend("seeds")
       /\ stored' = [seeds |-> {seed}, marks |-> load.lyrics.marks,
                     lyricsVersion |-> load.lyrics.version]
       /\ handOut([seeds |-> {seed}, marks |-> load.lyrics.marks])
       /\ load' = Idle
       /\ UNCHANGED <<project, lyrics, session, store, dirty, discardAfterStore, discarded,
                      teardown, ahead, seen, saving, past>>

(* A failed read or write: the load is off. *)
fetchFail ==
    /\ load # Idle
    /\ Spend("faults")
    /\ load' = Idle
    /\ client' = Refused
    /\ UNCHANGED <<database, doc, store, pending, dirty, discardAfterStore, discarded,
                   teardown, ahead, copy, seen, saving, past>>

edit(c, e) ==
    /\ client[c] = "writer" /\ e \notin used
    /\ used' = used \cup {e}
    /\ doc' = [doc EXCEPT !.marks = @ \cup {e}]
    /\ copy' = [d \in Client |-> IF d \in Attached THEN doc' ELSE copy[d]]
    /\ pending' = TRUE
    /\ UNCHANGED <<database, load, store, dirty, discardAfterStore, discarded,
                   teardown, client, ahead, seen, saving, kept, swept, budget>>

Leave(c) ==
    /\ c \in Attached
    /\ client' = [client EXCEPT ![c] = "off"]
    /\ UNCHANGED <<database, doc, load, store, pending, dirty, discardAfterStore, discarded,
                   teardown, ahead, copy, seen, saving, past, budget>>

-----------------------------------------------------------------------------
(* Storing: the debounced store, one at a time per document. *)

(* The state is encoded as the store starts.  A tombstone makes it a no-op. *)
storeStart ==
    /\ pending /\ doc # None /\ store = Idle
    /\ pending' = FALSE
    /\ IF discarded
       THEN /\ UNCHANGED store
            /\ step' = IF step = "flush" THEN "close" ELSE step
       ELSE /\ store' = [at |-> "state", seeds |-> doc.seeds, marks |-> doc.marks]
            /\ step' = IF step = "flush" THEN "flushing" ELSE step
    /\ UNCHANGED <<database, doc, load, dirty, discardAfterStore, discarded, settling, removing, owed,
                   tabs, saving, past, budget>>

(* The end of a store, which is what a teardown's storeNow waits for. *)
storeEnds(outcome) ==
    /\ dirty' = outcome
    /\ store' = Idle
    /\ step' = IF step = "flushing" THEN "close" ELSE step

storeWriteState ==
    /\ store.at = "state"
    /\ stored' = [seeds |-> store.seeds, marks |-> store.marks,
                  lyricsVersion |-> IF stored = None THEN 0 ELSE stored.lyricsVersion]
    /\ kept' = kept \cup (store.marks \cap Edit)
    /\ store' = [at |-> "lyrics"]
    /\ UNCHANGED <<project, lyrics, session, doc, load, pending, dirty, discardAfterStore,
                   discarded, teardown, tabs, saving, used, swept, budget>>

storeStateFails ==
    /\ store.at = "state"
    /\ Spend("faults")
    /\ storeEnds("state")
    /\ UNCHANGED <<database, doc, load, pending, discardAfterStore, discarded, settling, removing, owed,
                   tabs, saving, past>>

(* The projection is of the document as it is by now.  No upsert: a
   deleted project's lyrics stay deleted. *)
storeWriteLyrics ==
    /\ store.at = "lyrics"
    /\ IF lyrics = None
       THEN /\ storeEnds("clean")
            /\ UNCHANGED lyrics
       ELSE /\ lyrics' = [marks |-> doc.marks, version |-> lyrics.version + 1]
            /\ store' = [at |-> "version", version |-> lyrics'.version]
            /\ UNCHANGED <<dirty, step>>
    /\ UNCHANGED <<project, stored, session, doc, load, pending, discardAfterStore, discarded,
                   settling, removing, owed, tabs, saving, past, budget>>

storeWriteVersion ==
    /\ store.at = "version"
    /\ stored' = IF stored = None THEN None
                 ELSE [stored EXCEPT !.lyricsVersion = store.version]
    /\ storeEnds("clean")
    /\ UNCHANGED <<project, lyrics, session, doc, load, pending, discardAfterStore, discarded,
                   settling, removing, owed, tabs, saving, past, budget>>

storeProjectionFails ==
    /\ store.at \in {"lyrics", "version"}
    /\ Spend("faults")
    /\ storeEnds("projection")
    /\ UNCHANGED <<database, doc, load, pending, discardAfterStore, discarded, settling, removing, owed,
                   tabs, saving, past>>

retryDirtyStores ==
    /\ dirty # "clean" /\ store = Idle /\ ~pending
    /\ pending' = TRUE
    /\ UNCHANGED <<database, doc, load, store, dirty, discardAfterStore, discarded,
                   teardown, tabs, saving, past, budget>>

(* Mutant: a failed projection never keeps the document loaded. *)
isUnstored_StateOnly ==
    /\ ~discarded
    /\ dirty = "state"

isUnstored ==
    /\ ~discarded
    /\ dirty = "state" \/ (dirty # "clean" /\ discardAfterStore)

(* Nobody is connected and nothing is left to store: the document goes,
   and with it, after the final store of a session, the stored one. *)
unload ==
    /\ doc # None /\ Attached = {} /\ ~pending /\ store = Idle
    /\ ~isUnstored
    /\ doc' = None
    /\ dirty' = "clean"
    /\ discarded' = (discarded /\ settling # <<>>)
    /\ discardAfterStore' = FALSE
    /\ \/ /\ stored' = IF discardAfterStore THEN None ELSE stored
          /\ UNCHANGED budget
       \/ /\ discardAfterStore
          /\ Spend("faults")
          /\ UNCHANGED stored
    /\ UNCHANGED <<project, lyrics, session, load, store, pending,
                   teardown, tabs, saving, past>>

-----------------------------------------------------------------------------
(* Teardowns, one at a time per document (settle). *)

call(kind) ==
    /\ kind \in owed
    /\ owed' = owed \ {kind}
    /\ settling' = Append(settling, kind)
    /\ discarded' = (discarded \/ kind = "discard")
    /\ UNCHANGED <<database, doc, load, store, pending, dirty, discardAfterStore, step, removing,
                   tabs, saving, past, budget>>

Running(kind) == settling # <<>> /\ Head(settling) = kind

finish ==
    /\ settling' = Tail(settling)
    /\ step' = "start"
    /\ removing' = None
    /\ ahead' = [c \in Client |-> IF ahead[c] = 0 THEN 0 ELSE ahead[c] - 1]
    /\ UNCHANGED owed

(* endSession: a load in progress is waited out.  Read-only first, then
   the final store. *)
endLoaded ==
    /\ Running("end") /\ step = "start" /\ load = Idle /\ doc # None
    /\ discardAfterStore' = TRUE
    /\ client' = [c \in Client |-> IF c \in Attached THEN "reader" ELSE client[c]]
    /\ pending' = TRUE
    /\ step' = "flush"
    /\ UNCHANGED <<database, doc, load, store, dirty, discarded, settling, removing, owed,
                   ahead, copy, seen, saving, past, budget>>

(* Mutant: a stored document ahead of Lyrics is dropped unprojected. *)
removeRead_DropAhead ==
    /\ Running("end") /\ step = "start" /\ load = Idle /\ doc = None
    /\ IF stored = None
       THEN finish
       ELSE /\ removing' = stored
            /\ step' = "delete"
            /\ UNCHANGED <<settling, owed, ahead>>
    /\ UNCHANGED <<database, doc, load, store, pending, dirty, discardAfterStore, discarded,
                   client, copy, seen, saving, past, budget>>

(* Not loaded: removeStoredDoc.  A stored document ahead of Lyrics is
   projected first, one behind was overtaken by a solo save. *)
removeRead ==
    /\ Running("end") /\ step = "start" /\ load = Idle /\ doc = None
    /\ IF stored = None
       THEN finish
       ELSE /\ removing' = stored
            /\ step' = IF lyrics # None /\ current(stored, lyrics)
                           /\ ~docMatchesLyrics(stored, lyrics)
                       THEN "state" ELSE "delete"
            /\ UNCHANGED <<settling, owed, ahead>>
    /\ UNCHANGED <<database, doc, load, store, pending, dirty, discardAfterStore, discarded,
                   client, copy, seen, saving, past, budget>>

removeWriteState ==
    /\ Running("end") /\ step = "state"
    /\ step' = "lyrics"
    /\ stored' = [removing EXCEPT !.lyricsVersion =
                    IF stored = None THEN 0 ELSE stored.lyricsVersion]
    /\ UNCHANGED <<project, lyrics, session, doc, load, store, pending, dirty, discardAfterStore,
                   discarded, settling, removing, owed, tabs, saving, past, budget>>

removeWriteLyrics ==
    /\ Running("end") /\ step = "lyrics"
    /\ IF lyrics = None
       THEN /\ step' = "delete"
            /\ UNCHANGED <<lyrics, removing>>
       ELSE /\ step' = "version"
            /\ lyrics' = [marks |-> removing.marks, version |-> lyrics.version + 1]
            /\ removing' = [removing EXCEPT !.lyricsVersion = lyrics'.version]
    /\ UNCHANGED <<project, stored, session, doc, load, store, pending, dirty,
                   discardAfterStore, discarded, settling, owed, tabs, saving, past, budget>>

removeWriteVersion ==
    /\ Running("end") /\ step = "version"
    /\ step' = "delete"
    /\ stored' = IF stored = None THEN None
                 ELSE [stored EXCEPT !.lyricsVersion = removing.lyricsVersion]
    /\ UNCHANGED <<project, lyrics, session, doc, load, store, pending, dirty, discardAfterStore,
                   discarded, settling, removing, owed, tabs, saving, past, budget>>

removeDelete ==
    /\ Running("end") /\ step = "delete"
    /\ stored' = None
    /\ finish
    /\ UNCHANGED <<project, lyrics, session, doc, load, store, pending, dirty,
                   discardAfterStore, discarded, client, copy, seen, saving, past, budget>>

removeFails ==
    /\ Running("end") /\ step \in {"state", "lyrics", "version", "delete"}
    /\ Spend("faults")
    /\ finish
    /\ UNCHANGED <<database, doc, load, store, pending, dirty,
                   discardAfterStore, discarded, client, copy, seen, saving, past>>

(* Mutant: a load in progress is not waited out. *)
discardStart_NoWait ==
    /\ Running("discard") /\ step = "start"
    /\ pending' = (pending \/ doc # None)
    /\ step' = IF doc # None THEN "flush" ELSE "delete"
    /\ UNCHANGED <<database, doc, load, store, dirty, discardAfterStore, discarded,
                   settling, removing, owed, tabs, saving, past, budget>>

(* discardSession: storeNow only waits out a store already writing. *)
discardStart ==
    /\ Running("discard") /\ step = "start" /\ load = Idle
    /\ pending' = (pending \/ doc # None)
    /\ step' = IF doc # None THEN "flush" ELSE "delete"
    /\ UNCHANGED <<database, doc, load, store, dirty, discardAfterStore, discarded,
                   settling, removing, owed, tabs, saving, past, budget>>

(* One pass of closeUntilUnloaded. *)
closePass ==
    /\ settling # <<>> /\ step = "close" /\ doc # None
    /\ Attached # {}
    /\ client' = [c \in Client |-> IF c \in Attached THEN "off" ELSE client[c]]
    /\ UNCHANGED <<database, doc, load, store, pending, dirty, discardAfterStore, discarded,
                   teardown, ahead, copy, seen, saving, past, budget>>

(* Mutant: the connections are closed once, and stragglers are not closed again. *)
closeEnds_OnePass ==
    /\ settling # <<>> /\ step = "close"
    /\ Attached = {} /\ UNCHANGED budget
    /\ IF Head(settling) = "end" THEN finish
       ELSE step' = "delete" /\ UNCHANGED <<settling, removing, owed, ahead>>
    /\ UNCHANGED <<database, doc, load, store, pending, dirty, discardAfterStore, discarded,
                   client, copy, seen, saving, past>>

(* It ends with the document unloaded, kept for a retry, or out of time
   because a store hangs. *)
closeEnds ==
    /\ settling # <<>> /\ step = "close"
    /\ Attached = {}
    /\ \/ (doc = None \/ isUnstored) /\ UNCHANGED budget
       \/ store # Idle /\ Spend("faults")
    /\ IF Head(settling) = "end" THEN finish
       ELSE step' = "delete" /\ UNCHANGED <<settling, removing, owed, ahead>>
    /\ UNCHANGED <<database, doc, load, store, pending, dirty, discardAfterStore, discarded,
                   client, copy, seen, saving, past>>

(* A document that outlived the wait keeps its tombstone. *)
discardDelete ==
    /\ Running("discard") /\ step = "delete"
    /\ \/ stored' = None /\ swept' = TRUE /\ UNCHANGED budget
       \/ Spend("faults") /\ UNCHANGED <<stored, swept>>
    /\ finish
    /\ discarded' = (discarded /\ doc # None)
    /\ UNCHANGED <<project, lyrics, session, doc, load, store, pending, dirty,
                   discardAfterStore, client, copy, seen, saving, used, kept>>

-----------------------------------------------------------------------------
(* The process dies: what it kept in memory is gone, tabs keep theirs. *)
Crash ==
    /\ Spend("crashes")
    /\ doc' = None /\ load' = Idle /\ store' = Idle /\ pending' = FALSE
    /\ dirty' = "clean" /\ discardAfterStore' = FALSE /\ discarded' = FALSE
    /\ settling' = <<>> /\ step' = "start" /\ removing' = None /\ owed' = {}
    /\ client' = [c \in Client |-> "off"]
    /\ ahead' = [c \in Client |-> 0]
    /\ saving' = None
    /\ UNCHANGED <<database, copy, seen, past>>

Loading == fetchStart \/ fetchCheck \/ fetchRefuse \/ fetchResume \/ fetchSeed

Storing == storeStart \/ storeWriteState \/ storeWriteLyrics \/ storeWriteVersion

TearingDown ==
    \/ \E kind \in {"end", "discard"} : call(kind)
    \/ endLoaded \/ removeRead \/ removeWriteState \/ removeWriteLyrics \/ removeWriteVersion \/ removeDelete
    \/ discardStart \/ closePass \/ closeEnds \/ discardDelete

Next ==
    \/ startSession \/ endSessionService \/ deleteProject
    \/ \E s \in Save : collabSessionBlocks(s)
    \/ patchLyrics
    \/ \E c \in Client :
        \/ Knock(c) \/ PassGate(c) \/ resolvePrincipal(c) \/ Admit(c) \/ Leave(c)
        \/ \E e \in Edit : edit(c, e)
    \/ Loading \/ fetchFail
    \/ Storing \/ storeStateFails \/ storeProjectionFails \/ retryDirtyStores \/ unload
    \/ TearingDown \/ removeFails
    \/ Crash

Spec == Init /\ [][Next]_vars

(* Database calls return, timers fire, hooks run; and a teardown decided in
   the database is asked of the process by the request that decided it. *)
Fairness ==
    /\ WF_vars(Loading) /\ WF_vars(Storing) /\ WF_vars(TearingDown)
    /\ WF_vars(retryDirtyStores) /\ WF_vars(unload)

FairSpec == Spec /\ Fairness

(* Sessions one after the other: the next one starts when the teardown of
   the last one is over and nobody that one let in is about. *)
Within == {"read", "loading", "writer", "reader"}

SessionsApart ==
    session.live =>
        /\ owed = {} /\ settling = <<>>
        /\ \A c \in Client : client[c] \in Within => seen[c] = session.epoch

-----------------------------------------------------------------------------
Contents == SUBSET Mark

TypeOK ==
    /\ project \in BOOLEAN
    /\ lyrics \in [marks : Contents, version : Nat] \cup {None}
    /\ stored \in [seeds : SUBSET Nat, marks : Contents, lyricsVersion : Nat] \cup {None}
    /\ session \in [epoch : Nat, live : BOOLEAN]
    /\ doc \in [seeds : SUBSET Nat, marks : Contents] \cup {None}
    /\ dirty \in {"clean", "state", "projection"}
    /\ settling \in Seq({"end", "discard"})
    /\ owed \subseteq {"end", "discard"}
    /\ client \in [Client -> Phases]
    /\ copy \in [Client -> [seeds : SUBSET Nat, marks : Contents] \cup {None}]
    /\ Attached # {} => doc # None
    /\ store # Idle => doc # None

(* Every variable keeps its type, and an edit that a store has written is
   there for whoever comes next: in the document while it is loaded, else
   in what the next load returns.
   (A solo save past the check may replace it: that is a re-seed's point.) *)
StoredKept ==
    TypeOK /\ ((project /\ used \cap Save = {}) =>
        kept \subseteq (IF doc # None THEN doc.marks ELSE Loadable))

(* A document never merges the items of two seeds, which would duplicate
   every line: whoever comes back with a copy finds the document that copy
   is of, or is refused. *)
OneSeed ==
    \A d \in {doc, stored} \ {None} : Cardinality(d.seeds) = 1

(* Once a discard has deleted the stored document of a deleted project, no
   load, store or teardown still under way brings it back. *)
DeletedStaysDeleted == swept => stored = None

(* A session that ended, and whose teardown is over, is not edited. *)
NoWriterAfterEnd ==
    (~session.live /\ owed = {} /\ settling = <<>>) =>
        \A c \in Client : client[c] # "writer"

(* An accepted solo save is not written over. *)
SavesKept == [][lyrics # None /\ lyrics' # None
                  => lyrics.marks \cap Save \subseteq lyrics'.marks]_vars

(* "Lyrics moved past the doc.  Either someone saved outside the session
   (re-seed)": with nothing of a session under way, a solo save is in what
   the next session loads. *)
SoloSaveLoads ==
    (project /\ doc = None /\ ~session.live /\ saving = None /\ owed = {} /\ settling = <<>>)
        => lyrics.marks \cap Save \subseteq Loadable

(* The final store of an ended session lands, however often it failed:
   either in Lyrics, or, where the teardown gave up on a document that was
   not loaded, what it holds is what the next session loads. *)
FinalStoreLands ==
    \A e \in Edit :
        (discardAfterStore /\ doc # None /\ e \in doc.marks)
            ~> (~project \/ session.live \/ e \in lyrics.marks \/ (doc = None /\ e \in Loadable))

=============================================================================
