----------------------------- MODULE ProjectSaves -----------------------------
(***************************************************************************)
(* The solo saves of one project (getProject, patchProject, updateProject  *)
(* of projects.crud.service.ts, updateLyrics of lyrics.resolvers.ts), its  *)
(* publication, and the run that makes projects with untimed lyrics        *)
(* private (privatize-incomplete.service.ts).  A page is read as project   *)
(* and lyrics, each on its own; patchProject writes both in one            *)
(* transaction, against the version its client read if it sent one;        *)
(* updateProject writes them side by side, updateLyrics the lyrics only;   *)
(* the run tells from stamps whether what it read is still what is there.  *)
(***************************************************************************)
EXTENDS Naturals, FiniteSets

CONSTANTS SaveOps,      \* handlers and runs that can be under way at once
          MaxSaves      \* bound: saves, numbered as they start

ASSUME SavesAssumption == MaxSaves \in Nat

VARIABLES
    project,    \* the project: version, content stamp, public, announced once
    lyrics,     \* the lyrics: the save they are of, whether all is timed, and
                \* whether they were written apart from the project
    saves,      \* the saves begun
    told,       \* observed: the first publications announced
    unseen,     \* observed: a save against a version overwrote lyrics not seen
    wronged,    \* observed: a fully timed project was made private
    vops        \* the handlers under way

savesVars == <<project, lyrics, saves, told, unseen, wronged, vops>>

NoSave == [at |-> "idle"]
VGo(o, op) == vops' = [vops EXCEPT ![o] = op]
VTo(o, at) == vops' = [vops EXCEPT ![o].at = at]
VEnd(o) == vops' = [vops EXCEPT ![o] = NoSave]

SavesInit ==
    /\ project = [version |-> 0, stamp |-> 0, public |-> FALSE, first |-> FALSE,
                  clear |-> TRUE]
    /\ lyrics = [stamp |-> 0, timed |-> FALSE, apart |-> FALSE]
    /\ saves = 0 /\ told = 0
    /\ unseen = FALSE /\ wronged = FALSE
    /\ vops = [o \in SaveOps |-> NoSave]

-----------------------------------------------------------------------------
(* getProject reads project and lyrics at once, in whichever order.  A
   page is torn when its lyrics are from before a save its version counts. *)
openProject(o) ==
    /\ vops[o].at = "idle" /\ saves < MaxSaves
    /\ VGo(o, [at |-> "half", knew |-> {[version |-> project.version, text |-> lyrics.stamp, torn |-> FALSE]}])
    /\ UNCHANGED <<project, lyrics, saves, told, unseen, wronged>>

readsOther(o) ==
    /\ vops[o].at = "half"
    /\ \E page \in vops[o].knew :
         \/ VGo(o, [at |-> "page", knew |-> {[page EXCEPT !.text = lyrics.stamp]}])
         \/ VGo(o, [at |-> "page", knew |-> {[page EXCEPT !.version = project.version,
                                                        !.torn = page.version # project.version]}])
    /\ UNCHANGED <<project, lyrics, saves, told, unseen, wronged>>

(* patchProject, with the version of the page open or with none; `public'
   is what it sends, if anything. *)
patchProject(o, public, timed) ==
    /\ vops[o].at \in {"idle", "page"} /\ saves < MaxSaves
    /\ saves' = saves + 1
    /\ VGo(o, [at |-> "patch", id |-> saves + 1, knew |-> IF vops[o].at = "page" THEN vops[o].knew ELSE {},
               public |-> public, timed |-> timed,
               publishing |-> public = {TRUE} /\ ~project.public])
    /\ UNCHANGED <<project, lyrics, told, unseen, wronged>>

(* Mutant: the version was compared when the project was read. *)
Matches_Read(save) == TRUE
Matches(save) == \A page \in save.knew : page.version = project.version

Seen(page) == page.text = lyrics.stamp \/ page.torn \/ lyrics.apart

(* The transaction.  Lyrics are sent with `timed', a content stamp with
   lyrics. *)
writePatch(o) ==
    LET save == vops[o]
        text == save.timed # {} IN
    /\ save.at = "patch"
    /\ Matches(save)
    /\ project' = [project EXCEPT
         !.version = @ + 1,
         !.stamp = IF text THEN save.id ELSE @,
         !.public = IF save.public = {} THEN @ ELSE TRUE \in save.public,
         !.clear = IF save.public = {TRUE} /\ ~save.publishing /\ ~project.public THEN FALSE ELSE @]
    /\ lyrics' = IF text THEN [stamp |-> save.id, timed |-> TRUE \in save.timed, apart |-> FALSE] ELSE lyrics
    /\ unseen' = (unseen \/ (text /\ \E page \in save.knew : ~Seen(page)))
    /\ IF save.publishing THEN VTo(o, "claim") ELSE VEnd(o)
    /\ UNCHANGED <<saves, told, wronged>>

patchConflicts(o) ==
    /\ vops[o].at = "patch" /\ ~Matches(vops[o])
    /\ VEnd(o)
    /\ UNCHANGED <<project, lyrics, saves, told, unseen, wronged>>

(* The first publication is claimed by one conditional write, and told. *)
FirstPublish == ~project.first

claimFirstPublish(o) ==
    /\ vops[o].at = "claim"
    /\ IF FirstPublish
       THEN project' = [project EXCEPT !.first = TRUE] /\ told' = told + 1
       ELSE UNCHANGED <<project, told>>
    /\ VEnd(o)
    /\ UNCHANGED <<lyrics, saves, unseen, wronged>>

(* updateProject: no version, two writes in either order, and nothing told
   of a publication. *)
updateProject_(o, public, timed) ==
    /\ vops[o].at = "idle" /\ saves < MaxSaves
    /\ saves' = saves + 1
    /\ VGo(o, [at |-> "put", id |-> saves + 1, public |-> public, timed |-> timed,
               todo |-> {"project"} \cup (IF timed = {} THEN {} ELSE {"lyrics"})])
    /\ UNCHANGED <<project, lyrics, told, unseen, wronged>>

(* updateLyrics: no write to the project. *)
updateLyrics(o, timed) ==
    /\ vops[o].at = "idle" /\ saves < MaxSaves
    /\ saves' = saves + 1
    /\ VGo(o, [at |-> "put", id |-> saves + 1, public |-> {}, timed |-> timed, todo |-> {"lyrics"}])
    /\ UNCHANGED <<project, lyrics, told, unseen, wronged>>

putProject(o) ==
    LET save == vops[o] IN
    /\ save.at = "put" /\ "project" \in save.todo
    /\ project' = [project EXCEPT
         !.version = @ + 1,
         !.stamp = IF save.timed # {} THEN save.id ELSE @,
         !.public = IF save.public = {} THEN @ ELSE TRUE \in save.public,
         !.clear = IF save.public = {TRUE} THEN FALSE ELSE @]
    /\ IF save.todo = {"project"} THEN VEnd(o) ELSE vops' = [vops EXCEPT ![o].todo = {"lyrics"}]
    /\ UNCHANGED <<lyrics, saves, told, unseen, wronged>>

putLyrics(o) ==
    LET save == vops[o] IN
    /\ save.at = "put" /\ "lyrics" \in save.todo
    /\ lyrics' = [stamp |-> save.id, timed |-> TRUE \in save.timed, apart |-> TRUE]
    /\ vops' = [q \in SaveOps |->
         IF q = o THEN (IF save.todo = {"lyrics"} THEN NoSave ELSE [save EXCEPT !.todo = @ \ {"lyrics"}])
         ELSE IF vops[q].at = "hide" THEN [vops[q] EXCEPT !.beside = TRUE] ELSE vops[q]]
    /\ UNCHANGED <<project, saves, told, unseen, wronged>>

-----------------------------------------------------------------------------
(* privatizeIncomplete: a public project's stamp, then its lyrics' ... *)
scanProject(o) ==
    /\ vops[o].at = "idle" /\ project.public
    /\ VGo(o, [at |-> "scan", stamp |-> project.stamp])
    /\ UNCHANGED <<project, lyrics, saves, told, unseen, wronged>>

scanLyrics(o) ==
    /\ vops[o].at = "scan"
    /\ IF lyrics.timed THEN VEnd(o)
       ELSE VGo(o, [at |-> "again", stamp |-> vops[o].stamp, text |-> lyrics.stamp, beside |-> FALSE])
    /\ UNCHANGED <<project, lyrics, saves, told, unseen, wronged>>

(* ... and before the write the lyrics' again. *)
Unchanged(run) == run.text = lyrics.stamp

rereadLyrics(o) ==
    /\ vops[o].at = "again"
    /\ IF Unchanged(vops[o]) THEN VTo(o, "hide") ELSE VEnd(o)
    /\ UNCHANGED <<project, lyrics, saves, told, unseen, wronged>>

privatize(o) ==
    LET hit == project.public /\ project.stamp = vops[o].stamp IN
    /\ vops[o].at = "hide"
    /\ project' = IF hit THEN [project EXCEPT !.public = FALSE] ELSE project
    /\ wronged' = (wronged \/ (hit /\ lyrics.timed /\ ~vops[o].beside))
    /\ VEnd(o)
    /\ UNCHANGED <<lyrics, saves, told, unseen>>

Sends == {{}, {TRUE}, {FALSE}}
SavesNext == \E o \in SaveOps :
    \/ \E public \in Sends, timed \in Sends :
         updateProject_(o, public, timed) \/ patchProject(o, public, timed)
    \/ \E timed \in Sends \ {{}} : updateLyrics(o, timed)
    \/ openProject(o) \/ readsOther(o)
    \/ writePatch(o) \/ patchConflicts(o) \/ claimFirstPublish(o)
    \/ putProject(o) \/ putLyrics(o)
    \/ scanProject(o) \/ scanLyrics(o) \/ rereadLyrics(o) \/ privatize(o)
SavesSpec == SavesInit /\ [][SavesNext]_savesVars

-----------------------------------------------------------------------------
(* However saves overlap, the first publication is announced once: at most
   once in all, and with nobody at work a public project has been, unless
   a whole save published it or it was unpublished between a save's read
   and its write.  A save sent with the version of a page replaces no
   lyrics other than the page's, though its version is the project's and
   the lyrics are another document: unless they were written apart from
   the project, which no version counts, or the page itself was torn.  And
   a project whose lyrics are all timed is not made private for what they
   were before, unless they were written apart after the run's second look
   (patchProject, privatizeIncomplete). *)
Working(o) == vops[o].at \notin {"idle", "half", "page"}
SavesHonest ==
    /\ told <= 1 /\ (told = 1 <=> project.first)
    /\ (\A o \in SaveOps : ~Working(o)) /\ project.clear /\ project.public => told = 1
    /\ ~unseen
    /\ ~wronged
=============================================================================
