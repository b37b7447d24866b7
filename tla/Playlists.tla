------------------------------ MODULE Playlists ------------------------------
(***************************************************************************)
(* One playlist of its owner (playlist.resolvers.ts, playlists.service.ts):*)
(* projects are added, removed and put in an order, and others save it.    *)
(* A mutation reads the playlist, may read a project, and then writes;     *)
(* additions and removals are updates of the array in the database, an     *)
(* order is written whole by a save that asks for the version it read,     *)
(* which the updates do not count up.                                      *)
(***************************************************************************)
EXTENDS Integers, Sequences, FiniteSets

CONSTANTS ListOps,      \* handlers at a time
          Songs,        \* the projects
          Savers,
          MaxVersion    \* bound: orders ever saved

ASSUME PlaylistAssumption == IsFiniteSet(ListOps) /\ IsFiniteSet(Songs) /\ MaxVersion \in Nat

VARIABLES
    list,       \* the row: exists, public, mode, the songs in order, __v
    alive,      \* the projects that exist
    savedBy,      \* the rows of those who saved it
    savedCount,
    plops,       \* the handlers
    kept,       \* observed: the songs whose last addition or removal says so
    crossed     \* observed: an order, a deletion or an unpublishing crossed

playlistVars == <<list, alive, savedBy, savedCount, plops, kept, crossed>>

NoListOp == [at |-> "idle"]
SongsOf(row) == {row.songs[i] : i \in 1 .. Len(row.songs)}
Orders(S) == {s \in [1 .. Cardinality(S) -> S] : \A i, j \in DOMAIN s : i # j => s[i] # s[j]}

PlaylistInit ==
    /\ list = [on |-> TRUE, public |-> TRUE, mode |-> "MANUAL", songs |-> <<>>, v |-> 0]
    /\ alive = Songs /\ savedBy = {} /\ savedCount = 0
    /\ plops = [o \in ListOps |-> NoListOp]
    /\ kept = {} /\ crossed = [order |-> FALSE, save |-> FALSE]

LFree(o) == plops[o] = NoListOp
LTo(o, op) == plops' = [plops EXCEPT ![o] = op]
LEnd(o) == LTo(o, NoListOp)
LUnder(at) == {o \in ListOps : plops[o].at \in at}

-----------------------------------------------------------------------------
(* addProjectToPlaylist, removeProjectFromPlaylist: the playlist and the
   project are found, then the update; a project that is gone cannot be
   removed any more. *)
findBoth(o, song, adds) ==
    /\ LFree(o) /\ list.on /\ song \in alive
    /\ LTo(o, [at |-> IF adds THEN "add" ELSE "remove", song |-> song])
    /\ UNCHANGED <<list, alive, savedBy, savedCount, kept, crossed>>

addToList(o) ==
    /\ plops[o].at = "add" /\ LEnd(o)
    /\ IF list.on
       THEN /\ list' = [list EXCEPT !.songs = IF plops[o].song \in SongsOf(list) THEN @
                                              ELSE Append(@, plops[o].song)]
            /\ kept' = kept \cup {plops[o].song}
            /\ crossed' = [crossed EXCEPT !.order = @ \/ LUnder({"order"}) # {}]
       ELSE UNCHANGED <<list, kept, crossed>>
    /\ UNCHANGED <<alive, savedBy, savedCount>>

(* $pull: every place the song has. *)
Without(songs, song) ==
    LET left[n \in 0 .. Len(songs)] ==
          IF n = 0 THEN <<>> ELSE IF songs[n] = song THEN left[n - 1] ELSE Append(left[n - 1], songs[n])
    IN  left[Len(songs)]

removeFromList(o) ==
    /\ plops[o].at = "remove" /\ LEnd(o)
    /\ IF list.on
       THEN /\ list' = [list EXCEPT !.songs = Without(@, plops[o].song)]
            /\ kept' = kept \ {plops[o].song}
            /\ crossed' = [crossed EXCEPT !.order = @ \/ LUnder({"order"}) # {}]
       ELSE UNCHANGED <<list, kept, crossed>>
    /\ UNCHANGED <<alive, savedBy, savedCount>>

(* reorderPlaylist: the projects sent exist and are those it read. *)
Reorderable(songs) ==
    /\ Len(list.songs) = Len(songs)
    /\ {songs[i] : i \in 1 .. Len(songs)} = SongsOf(list)
readOrder(o, songs) ==
    /\ LFree(o) /\ list.on /\ list.mode = "MANUAL" /\ list.v < MaxVersion
    /\ Reorderable(songs)
    /\ LTo(o, [at |-> "order", songs |-> songs, read |-> list.songs, v |-> list.v])
    /\ UNCHANGED <<list, alive, savedBy, savedCount, kept, crossed>>

(* The same order writes nothing; another asks for the version. *)
saveOrder(o) ==
    /\ plops[o].at = "order" /\ LEnd(o)
    /\ list' = IF list.on /\ list.v = plops[o].v /\ plops[o].songs # plops[o].read
               THEN [list EXCEPT !.songs = plops[o].songs, !.v = @ + 1] ELSE list
    /\ UNCHANGED <<alive, savedBy, savedCount, kept, crossed>>

(* updatePlaylist: the fields that differ from what was read. *)
readUpdate(o, public, mode) ==
    /\ LFree(o) /\ list.on
    /\ LTo(o, [at |-> "update", public |-> public, mode |-> mode,
               setPublic |-> public # list.public, setMode |-> mode # list.mode])
    /\ UNCHANGED <<list, alive, savedBy, savedCount, kept, crossed>>
updatePlaylist(o) ==
    /\ plops[o].at = "update" /\ LEnd(o)
    /\ list' = IF ~list.on THEN list
               ELSE [list EXCEPT !.public = IF plops[o].setPublic THEN plops[o].public ELSE @,
                                 !.mode = IF plops[o].setMode THEN plops[o].mode ELSE @]
    /\ UNCHANGED <<alive, savedBy, savedCount, kept, crossed>>

(* A project deleted (removeFromList) stays in the playlists that list it. *)
projectGone(song) ==
    /\ song \in alive /\ alive' = alive \ {song}
    /\ UNCHANGED <<list, savedBy, savedCount, plops, kept, crossed>>

-----------------------------------------------------------------------------
(* savePlaylist: the playlist is read, the row made (it may be there), the
   count raised; unsavePlaylist the other way round, never below zero. *)
readToSave(o, u) ==
    /\ LFree(o) /\ list.on /\ list.public
    /\ LTo(o, [at |-> "save", by |-> u])
    /\ UNCHANGED <<list, alive, savedBy, savedCount, kept, crossed>>

createSave(o) ==
    /\ plops[o].at = "save"
    /\ IF plops[o].by \in savedBy THEN LEnd(o) /\ UNCHANGED savedBy
       ELSE LTo(o, [at |-> "count"]) /\ savedBy' = savedBy \cup {plops[o].by}
    /\ crossed' = [crossed EXCEPT !.save = @ \/ ~list.on]
    /\ UNCHANGED <<list, alive, savedCount, kept>>

countSave(o) ==
    /\ plops[o].at = "count" /\ LEnd(o)
    /\ savedCount' = IF list.on THEN savedCount + 1 ELSE savedCount
    /\ UNCHANGED <<list, alive, savedBy, kept, crossed>>

unsavePlaylist(o, u) ==
    /\ LFree(o) /\ u \in savedBy
    /\ savedBy' = savedBy \ {u}
    /\ LTo(o, [at |-> "uncount"])
    /\ UNCHANGED <<list, alive, savedCount, kept, crossed>>

uncountSave(o) ==
    /\ plops[o].at = "uncount" /\ LEnd(o)
    /\ savedCount' = IF list.on /\ savedCount > 0 THEN savedCount - 1 ELSE savedCount
    /\ crossed' = [crossed EXCEPT !.save = @ \/ (list.on /\ savedCount = 0)]
    /\ UNCHANGED <<list, alive, savedBy, kept>>

(* deletePlaylist and removePlaylist: the saves first, then the playlist. *)
deletePlaylist(o) ==
    /\ LFree(o) /\ list.on
    /\ LTo(o, [at |-> "savedBy"])
    /\ UNCHANGED <<list, alive, savedBy, savedCount, kept, crossed>>
deleteSaves(o) ==
    /\ plops[o].at = "savedBy"
    /\ LTo(o, [at |-> "list"])
    /\ savedBy' = {}
    /\ UNCHANGED <<list, alive, savedCount, kept, crossed>>
deleteList(o) ==
    /\ plops[o].at = "list" /\ LEnd(o)
    /\ list' = [list EXCEPT !.on = FALSE]
    /\ crossed' = [crossed EXCEPT !.save = @ \/ savedBy # {}]
    /\ UNCHANGED <<alive, savedBy, savedCount, kept>>

Listing(o) ==
    \/ \E song \in Songs, adds \in BOOLEAN : findBoth(o, song, adds)
    \/ addToList(o) \/ removeFromList(o) \/ saveOrder(o) \/ updatePlaylist(o)
    \/ \E S \in SUBSET alive : \E songs \in Orders(S) : readOrder(o, songs)
    \/ \E mode \in {"MANUAL", "STARS"} : readUpdate(o, list.public, mode)
    \/ \E song \in Songs : projectGone(song)
Saving(o) ==
    \/ \E u \in Savers : readToSave(o, u) \/ unsavePlaylist(o, u)
    \/ createSave(o) \/ countSave(o) \/ uncountSave(o)
    \/ \E public \in BOOLEAN : readUpdate(o, public, list.mode)
    \/ updatePlaylist(o)
    \/ deletePlaylist(o) \/ deleteSaves(o) \/ deleteList(o)

PlaylistNext == \E o \in ListOps : Listing(o) \/ Saving(o)
PlaylistSpec == PlaylistInit /\ [][PlaylistNext]_playlistVars

-----------------------------------------------------------------------------
(* No song is listed twice; what was added is listed until it is removed,
   and nothing else, however orders are saved beside, unless an addition
   or a removal was answered while an order waited to be saved; when no
   handler is under way, the count is that of the saves, and no save is
   left of a playlist that is gone, unless a save crossed the deletion or
   an unsave came before the count of its save. *)
PlaylistsAgree ==
    /\ \A i, j \in 1 .. Len(list.songs) : i # j => list.songs[i] # list.songs[j]
    /\ list.on /\ ~crossed.order => SongsOf(list) = kept
    /\ (\A o \in ListOps : LFree(o)) /\ ~crossed.save =>
         IF list.on THEN savedCount = Cardinality(savedBy) ELSE savedBy = {}
=============================================================================
