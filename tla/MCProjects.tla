------------------------------ MODULE MCProjects ------------------------------
(* The components share no variable: a behaviour is of one of them. *)
EXTENDS ProjectLibrary, ProjectSaves, MediaSweep, Playlists, TLC

VARIABLE focus
Foci == {"library", "counts", "updates", "stars", "shares", "views", "saves", "media", "lists", "savers"}
ProjectsInit ==
    /\ focus \in Foci
    /\ LibraryInit /\ StarInit /\ SavesInit /\ MediaInit /\ PlaylistInit

LibraryFocus == \E o \in LibraryOps :
    \/ focus = "library" /\ (Forking(o) \/ Keeping(o))
    \/ focus = "updates" /\ (Keeping(o) \/ Updating(o))
    \/ focus = "counts" /\ (Keeping(o) \/ Ranking(o) \/ (Forking(o) /\ Cardinality(forks') <= 1))
StarFocus ==
    \/ projectDeleted
    \/ focus = "views" /\ midnight
    \/ \E o \in StarOps :
         \/ focus = "views" /\ ViewSteps(o)
         \/ (focus = "stars" /\ Starring(o))
         \/ (focus = "shares" /\ SharingSteps(o))
PlaylistFocus == \E o \in ListOps : (focus = "lists" /\ Listing(o)) \/ (focus = "savers" /\ Saving(o))
ProjectsNext ==
    /\ UNCHANGED focus
    /\ \/ LibraryFocus /\ UNCHANGED <<starVars, savesVars, mediaVars, playlistVars>>
       \/ focus \in {"stars", "shares", "views"} /\ StarFocus /\ UNCHANGED <<libraryVars, savesVars, mediaVars, playlistVars>>
       \/ focus = "saves" /\ SavesNext /\ UNCHANGED <<libraryVars, starVars, mediaVars, playlistVars>>
       \/ focus = "media" /\ MediaNext /\ UNCHANGED <<libraryVars, starVars, savesVars, playlistVars>>
       \/ PlaylistFocus /\ UNCHANGED <<libraryVars, starVars, savesVars, mediaVars>>
ProjectsSpec == ProjectsInit /\ [][ProjectsNext]_<<focus, libraryVars, starVars, savesVars, mediaVars, playlistVars>>
Symmetry == Permutations(LibraryOps) \cup Permutations(Owners)

(* The counts beside projects, forks, stars and shares are those of the
   rows, and a playlist lists what was put there (LibraryAgrees,
   StarsAgree and PlaylistsAgree, of which no two share a variable). *)
CountsAgree == LibraryAgrees /\ StarsAgree /\ PlaylistsAgree
=============================================================================
