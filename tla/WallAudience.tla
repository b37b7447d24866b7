----------------------------- MODULE WallAudience -----------------------------
(***************************************************************************)
(* Who hears of one comment on a wall (addComment, announce, editComment,  *)
(* moderateComment, setThreadMute and setSubscription of wall.service.ts): *)
(* the owner, the subscribers, whoever is answered or tagged, and the      *)
(* owners of tagged projects.  announce runs after the answer was sent,    *)
(* and awaits before everyone it tells; subscriptions, mutes, edits and    *)
(* approvals fall in between.                                              *)
(***************************************************************************)
EXTENDS Naturals, FiniteSets, TLC

CONSTANTS TellOps,      \* handlers that can be under way at once
          Public,       \* accounts
          WallsOwner,   \* whose wall it is
          Commenters,   \* who may be its author
          MentionsOff,  \* who switched mentions off
          Projects,     \* public projects ...
          ProjectOwner, \* ... and whose they are
          MAX_TAGS_PER_COMMENT,
          MaxTurns      \* bound: subscriptions, mutes, approvals and edits

ASSUME AudienceAssumption ==
    /\ WallsOwner \in Public /\ Commenters \subseteq Public /\ MentionsOff \subseteq Public
    /\ ProjectOwner \in [Projects -> Public] /\ MAX_TAGS_PER_COMMENT \in Nat

VARIABLES
    comment,        \* the comment, or NoText
    subscribers,    \* WallSubscription
    muters,         \* WallThreadMute of its thread
    shut,           \* who is in a block relationship with the wall's owner
    shunned,        \* who is in one with the author
    tellers,        \* the handlers under way
    heard,          \* observed: how often each was told of the comment itself
    owned,          \* observed: how often a project's owner was told it is tagged in it
    seen,           \* observed: whether it was visible, was edited, met an approval
    since,          \* observed: who subscribed too late, who muted in time
    turns           \* counter of MaxTurns
audienceVars == <<comment, subscribers, muters, shut, shunned, tellers, heard, owned, seen, since, turns>>

NoText == [status |-> "none"]
NoTeller == [at |-> "free"]
Unanswered == "nobody"
TellerAt(o, at) == tellers[o].at = at
Turn(o, op) == tellers' = [tellers EXCEPT ![o] = op]
Step(o, at) == Turn(o, [tellers[o] EXCEPT !.at = at])
AnotherTurn == turns < MaxTurns /\ turns' = turns + 1
Posted == comment # NoText

AudienceInit ==
    /\ comment = NoText
    /\ subscribers \in SUBSET (Public \ {WallsOwner}) /\ muters = {}
    /\ shut \in SUBSET (Public \ ({WallsOwner} \cup Commenters)) /\ shunned = {}
    /\ tellers = [o \in TellOps |-> NoTeller]
    /\ heard = [p \in Public |-> 0] /\ owned = [project \in Projects |-> 0]
    /\ seen = [visible |-> FALSE, edited |-> FALSE, twice |-> FALSE]
    /\ since = [late |-> {}, muted |-> {}]
    /\ turns = 0

(* Each notice is refused to its author, to someone blocked, and where the
   preference is off. *)
Reached(p) == p # comment.author /\ p \notin shunned
TellEach(S) == heard' = [p \in Public |-> IF p \in S /\ Reached(p) THEN heard[p] + 1 ELSE heard[p]]

-----------------------------------------------------------------------------
(* addComment: the owner's blocks are asked for, and those of whoever is
   answered; a comment of the owner is never held. *)
addComment(o, a, answered, tags, projects, held) ==
    /\ tellers[o] = NoTeller /\ ~Posted /\ \A x \in TellOps : tellers[x] = NoTeller
    /\ a \in Commenters \ shut
    /\ held => a # WallsOwner
    /\ Turn(o, [at |-> "create", author |-> a, answered |-> answered, tags |-> tags,
                projects |-> projects, held |-> held])
    /\ UNCHANGED <<comment, subscribers, muters, shut, shunned, heard, owned, seen, since, turns>>

createText(o) ==
    LET op == tellers[o] IN
    /\ TellerAt(o, "create")
    /\ comment' = [status |-> IF op.held THEN "pending" ELSE "visible",
                   author |-> op.author, answered |-> op.answered, tags |-> op.tags, projects |-> op.projects]
    /\ seen' = [seen EXCEPT !.visible = ~op.held]
    /\ shunned' \in SUBSET (Public \ {op.author, op.answered, WallsOwner})
    /\ since' = [since EXCEPT !.muted = muters]
    /\ Step(o, "subscribe")
    /\ UNCHANGED <<subscribers, muters, shut, heard, owned, turns>>

(* Commenting subscribes. *)
subscribes(o) ==
    /\ TellerAt(o, "subscribe")
    /\ subscribers' = subscribers \cup ({comment.author} \ {WallsOwner})
    /\ Step(o, "listen")
    /\ UNCHANGED <<comment, muters, shut, shunned, heard, owned, seen, since, turns>>

(* An announcement as it begins: to whom it is not news. *)
Announcement(skip) ==
    [at |-> IF comment.answered = Unanswered THEN "mentions" ELSE "mutes",
     told |-> {comment.author} \cup skip, list |-> subscribers,
     tags |-> comment.tags, projects |-> comment.projects, owners |-> {}, edit |-> FALSE]

(* A held comment is news to the owner only. *)
listen(o) ==
    /\ TellerAt(o, "listen")
    /\ IF tellers[o].held THEN TellEach({WallsOwner}) /\ Turn(o, NoTeller)
       ELSE Turn(o, Announcement({})) /\ UNCHANGED heard
    /\ UNCHANGED <<comment, subscribers, muters, shut, shunned, owned, seen, since, turns>>

-----------------------------------------------------------------------------
(* announce.  Who muted the thread hears nothing, unless tagged ... *)
mutes(o) ==
    LET op == tellers[o] IN
    /\ TellerAt(o, "mutes")
    /\ Turn(o, [op EXCEPT !.at = "mentions", !.told = @ \cup (muters \ op.tags)])
    /\ UNCHANGED <<comment, subscribers, muters, shut, shunned, heard, owned, seen, since, turns>>

(* ... who is tagged hears that, unless they cannot open the wall ... *)
Mentionable(p) == Reached(p) /\ p \notin MentionsOff
mentions(o) ==
    LET op == tellers[o] IN
    /\ TellerAt(o, "mentions")
    /\ IF op.tags = {} THEN Step(o, "projects") /\ UNCHANGED heard
       ELSE \E p \in op.tags :
              LET tells == p \notin op.told /\ p \notin shut /\ Mentionable(p) IN
              /\ heard' = [heard EXCEPT ![p] = IF tells THEN @ + 1 ELSE @]
              /\ Turn(o, [op EXCEPT !.tags = @ \ {p},
                                    !.told = IF tells \/ p \in shut THEN @ \cup {p} ELSE @])
    /\ UNCHANGED <<comment, subscribers, muters, shut, shunned, owned, seen, since, turns>>

(* ... then the owners of tagged projects, once for each project: whom the
   others have been told of is looked up in what was told before the loop
   (notifyProjectOwners, which an edit calls too) ... *)
projectOwners(o) ==
    LET op == tellers[o] IN
    /\ TellerAt(o, "projects")
    /\ IF op.projects = {} THEN
            /\ Turn(o, IF op.edit THEN NoTeller
                       ELSE [op EXCEPT !.at = "answered", !.told = @ \cup op.owners, !.owners = {}])
            /\ UNCHANGED owned
       ELSE \E project \in op.projects :
              LET p == ProjectOwner[project]
                  tells == p \notin op.told \cup shut /\ Reached(p) IN
              /\ owned' = [owned EXCEPT ![project] = IF tells THEN @ + 1 ELSE @]
              /\ Turn(o, [op EXCEPT !.projects = @ \ {project},
                                    !.owners = IF tells THEN @ \cup {p} ELSE @])
    /\ UNCHANGED <<comment, subscribers, muters, shut, shunned, heard, seen, since, turns>>

(* ... then whoever is answered, the wall's owner, and the subscribers. *)
AfterOne(op) == IF op.at = "answered" THEN "owner" ELSE "subscribers"
One(op) == IF op.at = "answered" THEN comment.answered ELSE WallsOwner
tellsOne(o) ==
    LET op == tellers[o] one == {One(op)} \cap Public IN
    /\ op.at \in {"answered", "owner"}
    /\ TellEach(one \ op.told)
    /\ Turn(o, [op EXCEPT !.at = AfterOne(op), !.told = @ \cup one])
    /\ UNCHANGED <<comment, subscribers, muters, shut, shunned, owned, seen, since, turns>>

tellsSubscribers(o) ==
    /\ TellerAt(o, "subscribers")
    /\ TellEach(tellers[o].list \ tellers[o].told)
    /\ Turn(o, NoTeller)
    /\ UNCHANGED <<comment, subscribers, muters, shut, shunned, owned, seen, since, turns>>

-----------------------------------------------------------------------------
(* moderateComment: the status is read, then written, then the comment is
   announced to whoever subscribes by then; the owner has already heard. *)
approve(o) ==
    /\ tellers[o] = NoTeller /\ Posted /\ comment.status = "pending" /\ AnotherTurn
    /\ Turn(o, [at |-> "approve"])
    /\ UNCHANGED <<comment, subscribers, muters, shut, shunned, heard, owned, seen, since>>

approves(o) ==
    /\ TellerAt(o, "approve")
    /\ comment' = [comment EXCEPT !.status = "visible"]
    /\ seen' = [seen EXCEPT !.visible = TRUE, !.twice = (@ \/ comment.status = "visible")]
    /\ Step(o, "list")
    /\ UNCHANGED <<subscribers, muters, shut, shunned, heard, owned, since, turns>>

relists(o) ==
    /\ TellerAt(o, "list")
    /\ Turn(o, Announcement({WallsOwner}))
    /\ UNCHANGED <<comment, subscribers, muters, shut, shunned, heard, owned, seen, since, turns>>

(* editComment: who is newly tagged is told, whatever the status, then the
   owners of projects newly tagged; an edit that brings in a muted word
   sends the comment back for approval. *)
editComment(o, tags, projects, held) ==
    /\ tellers[o] = NoTeller /\ Posted /\ AnotherTurn
    /\ held => comment.status = "visible" /\ comment.author # WallsOwner
    /\ Turn(o, [at |-> "edit", tags |-> tags, projects |-> projects, held |-> held,
                added |-> tags \ comment.tags, addedProjects |-> projects \ comment.projects])
    /\ UNCHANGED <<comment, subscribers, muters, shut, shunned, heard, owned, seen, since>>

edits(o) ==
    LET op == tellers[o] IN
    /\ TellerAt(o, "edit")
    /\ comment' = [comment EXCEPT !.tags = op.tags, !.projects = op.projects, !.status = IF op.held THEN "pending" ELSE @]
    /\ seen' = [seen EXCEPT !.edited = TRUE]
    /\ Step(o, "added")
    /\ UNCHANGED <<subscribers, muters, shut, shunned, heard, owned, since, turns>>

added(o) ==
    LET op == tellers[o] IN
    /\ TellerAt(o, "added")
    /\ TellEach({p \in op.added : p \notin shut /\ Mentionable(p)})
    /\ Turn(o, [at |-> "projects", told |-> op.added, list |-> {}, tags |-> {},
                projects |-> op.addedProjects, owners |-> {}, edit |-> TRUE])
    /\ UNCHANGED <<comment, subscribers, muters, shut, shunned, owned, seen, since, turns>>

-----------------------------------------------------------------------------
(* setSubscription, which someone blocked may not switch on, and
   setThreadMute. *)
Hears(p) == heard[p] > 0 \/ \E project \in Projects : ProjectOwner[project] = p /\ owned[project] > 0
Listed(p) == \E o \in TellOps : "list" \in DOMAIN tellers[o] /\ p \in tellers[o].list
BeforeList == \E o \in TellOps : tellers[o].at \in {"create", "subscribe", "listen", "approve", "list"}
setSubscription(p) ==
    /\ AnotherTurn /\ p # WallsOwner
    /\ p \in shut => p \in subscribers
    /\ subscribers' = IF p \in subscribers THEN subscribers \ {p} ELSE subscribers \cup {p}
    /\ since' = IF Posted /\ comment.status = "visible" /\ ~BeforeList /\ ~Listed(p) /\ ~Hears(p) /\ p \notin subscribers
                THEN [since EXCEPT !.late = @ \cup {p}] ELSE since
    /\ UNCHANGED <<comment, muters, shut, shunned, tellers, heard, owned, seen>>

setThreadMute(p) ==
    /\ AnotherTurn /\ p \notin shut
    /\ muters' = IF p \in muters THEN muters \ {p} ELSE muters \cup {p}
    /\ since' = [since EXCEPT !.muted = @ \cap muters']
    /\ UNCHANGED <<comment, subscribers, shut, shunned, tellers, heard, owned, seen>>

Announcing(o) ==
    \/ createText(o) \/ subscribes(o) \/ listen(o)
    \/ mutes(o) \/ mentions(o) \/ projectOwners(o) \/ tellsOne(o) \/ tellsSubscribers(o)
    \/ approve(o) \/ approves(o) \/ relists(o)
(* checkTags: a comment tags so many. *)
Taggable(tags, projects) == Cardinality(tags) + Cardinality(projects) <= MAX_TAGS_PER_COMMENT
Comments(o, tags, projects) ==
    \E a \in Commenters, answered \in {Unanswered} \cup Public, held \in BOOLEAN :
        a # answered /\ Taggable(tags, projects) /\ addComment(o, a, answered, tags, projects, held)
Edits(o, tags, projects) ==
    \/ edits(o) \/ added(o)
    \/ \E held \in BOOLEAN : Taggable(tags, projects) /\ editComment(o, tags, projects, held)
Settings == \E p \in Public : setSubscription(p) \/ setThreadMute(p)
AudienceNext ==
    \/ Settings
    \/ \E o \in TellOps : Announcing(o)
    \/ \E o \in TellOps, tags \in SUBSET Public, projects \in SUBSET Projects :
         Comments(o, tags, projects) \/ Edits(o, tags, projects)
AudienceSpec == AudienceInit /\ [][AudienceNext]_audienceVars

-----------------------------------------------------------------------------
(* Each is told of a comment once, however many reasons there are and
   whether it was held or not, but that its owner is told once of each
   project it tags, and then of nothing else (notifyProjectOwners); unless
   an edit tells those it tags or sends it back, or two approvals overlap.
   Nobody but the wall's owner hears of a comment that was never on the
   wall, unless an edit tags them; who muted the thread before a reply
   came and was not tagged hears nothing of it, unless it waits for them;
   who subscribed after it came and was not tagged hears nothing; and its
   author is never told (addComment, announce, editComment). *)
Tagged(p) == p \in comment.tags \/ \E project \in comment.projects : ProjectOwner[project] = p
AudienceHolds ==
    Posted =>
      /\ \A project \in Projects : owned[project] > 0 =>
           (owned[project] = 1 /\ heard[ProjectOwner[project]] = 0) \/ seen.edited \/ seen.twice
      /\ \A p \in Public :
          /\ heard[p] <= 1 \/ seen.edited \/ seen.twice
          /\ Hears(p) /\ ~seen.visible => p = WallsOwner \/ seen.edited
          /\ p \in since.muted /\ comment.answered # Unanswered /\ p \notin comment.tags /\ Hears(p)
             => p = WallsOwner \/ seen.edited
          /\ p \in since.late /\ Hears(p) => seen.edited \/ p \in {WallsOwner, comment.answered} \/ Tagged(p)
          /\ p = comment.author => ~Hears(p)
=============================================================================
