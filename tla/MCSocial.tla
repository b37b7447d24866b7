------------------------------ MODULE MCSocial ------------------------------
(* The social components share no variable: a behaviour is of one of them. *)
EXTENDS WallThreads, Reports, Follows, TextFormats

VARIABLE focus

Foci == {"threads", "purges", "likes", "edits", "moderation", "pins", "reports", "follows", "blocks", "readers",
         "credits", "files"}
NoCredits == artistText = <<>> /\ titleText = <<>> /\ credited = <<>>
Init ==
    /\ focus \in Foci /\ WallInit /\ ReportsInit /\ FollowsInit
    /\ IF focus = "readers" THEN ViewsInit ELSE wall = <<>> /\ viewer = Owner /\ blockedSet = {}
    /\ IF focus = "credits" THEN CreditsInit ELSE NoCredits
    /\ FilesInit /\ (focus # "files" => fileWith.precision = "hundredths")

Simple == Posting({"plain"}, {FALSE})
WallFocus ==
    \/ focus = "threads" /\ (Simple \/ Deleting)
    \/ focus = "purges" /\ ((posted < 2 /\ Simple) \/ Deleting \/ Purging)
    \/ focus = "likes" /\ ((posted < 2 /\ Simple) \/ Deleting \/ Liking)
    \/ focus = "edits" /\ ((posted < 2 /\ Simple) \/ Editing \/ Deleting)
    \/ focus = "moderation" /\ ((posted < 1 /\ Posting({"plain", "muted"}, BOOLEAN))
                                 \/ Editing \/ Moderating \/ Deleting)
    \/ focus = "pins" /\ ((posted < 2 /\ Simple) \/ Pinning \/ Deleting)
Next ==
    /\ UNCHANGED <<focus, creditVars>>
    /\ focus # "files" => UNCHANGED fileVars
    /\ \/ WallFocus /\ UNCHANGED <<reportVars, followVars, viewVars>>
       \/ focus = "reports" /\ ReportsNext /\ UNCHANGED <<wallVars, followVars, viewVars>>
       \/ ((focus = "follows" /\ Cardinality(met) <= 1 /\ (Severing \/ FollowEdges)) \/ (focus = "blocks" /\ (Severing \/ Caching)))
          /\ UNCHANGED <<wallVars, reportVars, viewVars>>
       \/ focus = "readers" /\ ViewsNext /\ UNCHANGED <<wallVars, reportVars, followVars>>
       \/ focus = "files" /\ addLine /\ UNCHANGED <<wallVars, reportVars, followVars, viewVars>>

Spec == Init /\ [][Next]_<<focus, wallVars, reportVars, followVars, viewVars, creditVars, fileVars>>
Symmetry == Permutations(WallOps) \cup Permutations(Accounts)

(* What people wrote is read back whole: a wall read in batches, the names
   in a text, lyrics in a file (ViewsHold, CreditsAgree and FilesHold, of
   which no two share a variable, each asked about where there are any). *)
ReadAsWritten ==
    /\ focus = "readers" => ViewsHold
    /\ focus = "credits" => CreditsAgree
    /\ focus = "files" => FilesHold
=============================================================================
