----------------------------- MODULE WallThreads -----------------------------
(***************************************************************************)
(* The comments of one wall (modules/wall/wall.service.ts): threads of     *)
(* replies, deletion (a placeholder or the whole thread), purges, likes,   *)
(* edits, moderation and the pinned comment; and, further down, a wall as  *)
(* one viewer reads it.                                                    *)
(*                                                                         *)
(* A handler reads a comment, checks what it read, and then writes by id;  *)
(* a record of `ops' is between two of these steps.  Who may comment       *)
(* (blocks, the owner's policy, restrictions, the rate limit) is decided   *)
(* on that first read and is left out: a handler that is refused is one    *)
(* that does not start.                                                    *)
(***************************************************************************)
EXTENDS Naturals, Sequences, FiniteSets, SequencesExt, TLC

CONSTANTS WallOps,      \* handlers that can be under way at once
          Owner,        \* whose wall it is
          Authors,      \* who comments on it, the owner among them
          Staff,        \* a moderator
          WALL_MAX_DEPTH,
          MaxComments   \* bound: comments ever posted

ASSUME WallAssumption ==
    /\ Owner \in Authors /\ Staff \notin Authors
    /\ WALL_MAX_DEPTH \in Nat \ {0} /\ MaxComments \in Nat

VARIABLES
    comments,   \* id -> the document, or NoComment
    posted,     \* how many were posted
    likes,      \* id -> "no", or whether the like met other handlers
    ops         \* the handlers under way

wallVars == <<comments, posted, likes, ops>>

CommentIds == 1 .. MaxComments
NoComment == [exists |-> FALSE]
Idle == [at |-> "idle", met |-> FALSE]

(* What a write leaves on the document of who wrote it: observed only. *)
Mark(o) == IF ops[o].met THEN "met" ELSE "alone"

Exists(c) == c \in CommentIds /\ comments[c].exists
Live(c) == Exists(c) /\ comments[c].deleted = "no"
ChildrenOf(s) == {c \in CommentIds : Exists(c) /\ comments[c].parent \in s}

Active(o) == ops[o].at # "idle"
(* A handler as it begins, with whether it has met another. *)
Having(met, op) == [f \in DOMAIN op \cup {"met"} |-> IF f = "met" THEN met ELSE op[f]]
(* Two handlers under way at once have met, and both know. *)
Start(o, op) ==
    /\ ~Active(o)
    /\ ops' = [x \in WallOps |->
         IF x = o THEN Having(\E y \in WallOps : Active(y), op)
         ELSE IF Active(x) THEN [ops[x] EXCEPT !.met = TRUE] ELSE ops[x]]
Goto(o, op) == ops' = [ops EXCEPT ![o] = op]
Finish(o) == ops' = [ops EXCEPT ![o] = Idle]
At(o, at) == ops[o].at = at

WallInit ==
    /\ comments = [c \in CommentIds |-> NoComment]
    /\ posted = 0
    /\ likes = [c \in CommentIds |-> "no"]
    /\ ops = [o \in WallOps |-> Idle]

-----------------------------------------------------------------------------
(* addComment: the comment answered is read; a reply to one at the deepest
   level sits beside it. *)

Parent(c) == IF comments[c].depth >= WALL_MAX_DEPTH THEN comments[c].parent ELSE c

(* holdReason: a muted word, or the owner's hold setting, whatever it is. *)
holdReason(a, text, hold) == a # Owner /\ (text = "muted" \/ hold)

addComment(o, a, text, hold, c) ==
    /\ c # 0 => Live(c) /\ (Parent(c) # 0 => Exists(Parent(c)))
    /\ Start(o, [at |-> "post", author |-> a, text |-> text,
                 held |-> holdReason(a, text, hold),
                 parent |-> IF c = 0 THEN 0 ELSE Parent(c),
                 depth |-> IF c = 0 THEN 0 ELSE comments[Parent(c)].depth + 1])
    /\ UNCHANGED <<comments, posted, likes>>

createComment(o) ==
    /\ At(o, "post")
    /\ posted < MaxComments
    /\ posted' = posted + 1
    /\ comments' = [comments EXCEPT ![posted + 1] =
         [exists |-> TRUE, author |-> ops[o].author, parent |-> ops[o].parent,
          depth |-> ops[o].depth, text |-> ops[o].text,
          status |-> IF ops[o].held THEN "pending" ELSE "visible",
          deleted |-> "no", pinned |-> "no", cleared |-> FALSE, by |-> Mark(o)]]
    /\ Finish(o)
    /\ UNCHANGED likes

-----------------------------------------------------------------------------
(* deleteComment. *)

MayDelete(viewer, c) == viewer \in {comments[c].author, Owner, Staff}

(* `self': its author deletes it; `todo': what a purge deletes after it. *)
Deletion(self, c, todo) ==
    LET keep == self /\ ChildrenOf({c}) # {}
    IN [at |-> IF keep THEN "wipe" ELSE "doom", self |-> self, todo |-> todo,
        doomed |-> {c}, level |-> comments[c].depth,
        parent |-> IF keep THEN 0 ELSE comments[c].parent, above |-> 0]

deleteComment(o, viewer, c) ==
    /\ Live(c) /\ MayDelete(viewer, c)
    /\ Start(o, Deletion(viewer = comments[c].author, c, {}))
    /\ UNCHANGED <<comments, posted, likes>>

(* The author's own words, with replies under them: a placeholder. *)
Wiped(c, mark) == [c EXCEPT !.deleted = mark, !.text = "none", !.pinned = "no"]
wipe(o) ==
    /\ At(o, "wipe")
    /\ comments' = [c \in CommentIds |->
         IF c \in ops[o].doomed /\ Exists(c) THEN Wiped(comments[c], Mark(o)) ELSE comments[c]]
    /\ Goto(o, [ops[o] EXCEPT !.at = "unlike"])
    /\ UNCHANGED <<posted, likes>>

(* Otherwise the whole thread: its levels are read one by one, each from
   the comments the last reading found, until one finds none ...
   Mutant: a comment goes without its replies. *)
Deepest_Itself == 0
Deepest == WALL_MAX_DEPTH
collect(o) ==
    LET op == ops[o] below == {c \in ChildrenOf(op.doomed) : comments[c].depth = op.level + 1} IN
    /\ At(o, "doom")
    /\ op.level < Deepest
    /\ Goto(o, [op EXCEPT !.doomed = @ \cup below, !.level = IF below = {} THEN Deepest ELSE @ + 1])
    /\ UNCHANGED <<comments, posted, likes>>

(* ... then deleted together, then their likes and reactions. *)
deleteThread(o) ==
    /\ At(o, "doom")
    /\ ops[o].level >= Deepest
    /\ comments' = [c \in CommentIds |-> IF c \in ops[o].doomed THEN NoComment ELSE comments[c]]
    /\ Goto(o, [ops[o] EXCEPT !.at = "unlike"])
    /\ UNCHANGED <<posted, likes>>

AfterDeletion(o) ==
    IF ops[o].todo = {} THEN Idle ELSE [at |-> "purge", met |-> ops[o].met,
                                        self |-> ops[o].self, todo |-> ops[o].todo]
deleteLikes(o) ==
    /\ At(o, "unlike")
    /\ likes' = [c \in CommentIds |-> IF c \in ops[o].doomed THEN "no" ELSE likes[c]]
    /\ ops' = [ops EXCEPT ![o] =
         IF @.parent = 0 THEN AfterDeletion(o) ELSE [@ EXCEPT !.at = "climb"]]
    /\ UNCHANGED <<comments, posted>>

(* A placeholder above that was only kept for this reply goes too. *)
Above(c) == comments[c].parent
climb(o) ==
    LET p == ops[o].parent IN
    /\ At(o, "climb")
    /\ ops' = [ops EXCEPT ![o] =
         IF Exists(p) /\ ~Live(p) /\ ChildrenOf({p}) = {}
         THEN [@ EXCEPT !.at = "drop", !.above = Above(p)] ELSE AfterDeletion(o)]
    /\ UNCHANGED <<comments, posted, likes>>

dropPlaceholder(o) ==
    /\ At(o, "drop")
    /\ comments' = [comments EXCEPT ![ops[o].parent] = NoComment]
    /\ Goto(o, [ops[o] EXCEPT !.at = "climb", !.parent = ops[o].above])
    /\ UNCHANGED <<posted, likes>>

(* purgeAuthorComments: what the author wrote, shallowest first. *)
purgeAuthorComments(o, viewer, a) ==
    LET theirs == {c \in CommentIds : Exists(c) /\ comments[c].author = a} IN
    /\ viewer \in {Owner, Staff} /\ theirs # {}
    /\ Start(o, [at |-> "purge", self |-> viewer = a, todo |-> theirs])
    /\ UNCHANGED <<comments, posted, likes>>

purgeNext(o) ==
    /\ At(o, "purge")
    /\ \E c \in ops[o].todo :
        LET rest == ops[o].todo \ {c} IN
        /\ \A d \in ops[o].todo : Exists(d) /\ Exists(c) => comments[c].depth <= comments[d].depth
        /\ ops' = [ops EXCEPT ![o] =
             IF Live(c) THEN Having(@.met, Deletion(@.self, c, rest))
             ELSE IF rest = {} THEN Idle ELSE [@ EXCEPT !.todo = rest]]
    /\ UNCHANGED <<comments, posted, likes>>

(* setLike and setReaction: the comment is read, then the row is upserted. *)
setLike(o, c) ==
    /\ Live(c)
    /\ Start(o, [at |-> "like", comment |-> c])
    /\ UNCHANGED <<comments, posted, likes>>

insertLike(o) ==
    /\ At(o, "like")
    /\ likes' = [likes EXCEPT ![ops[o].comment] = IF @ = "no" THEN Mark(o) ELSE @]
    /\ Finish(o)
    /\ UNCHANGED <<comments, posted>>

unlike(c) ==
    /\ Live(c)
    /\ likes' = [likes EXCEPT ![c] = "no"]
    /\ UNCHANGED <<comments, posted, ops>>

-----------------------------------------------------------------------------
(* editComment: an edit that brings a muted word into a visible comment
   sends it back for approval. *)

(* Mutant: an edit is never held. *)
HeldByEdit_Never(c, text) == FALSE
HeldByEdit(c, text) ==
    comments[c].status = "visible" /\ comments[c].author # Owner /\ text = "muted"

editComment(o, c, text) ==
    /\ Live(c) /\ comments[c].text # text
    /\ Start(o, [at |-> "edit", comment |-> c, text |-> text, held |-> HeldByEdit(c, text)])
    /\ UNCHANGED <<comments, posted, likes>>

(* A text that met other handlers is `cleared': nothing is asked of it. *)
Edited(c, op, mark) ==
    [c EXCEPT !.text = op.text,
              !.status = IF op.held THEN "pending" ELSE @,
              !.cleared = op.met,
              !.deleted = IF @ = "no" THEN @ ELSE mark]
saveEdit(o) ==
    LET c == ops[o].comment IN
    /\ At(o, "edit")
    /\ comments' = IF ~Exists(c) THEN comments
                   ELSE [comments EXCEPT ![c] = Edited(@, ops[o], Mark(o))]
    /\ Finish(o)
    /\ UNCHANGED <<posted, likes>>

(* moderateComment, by the owner or a moderator. *)
Moderated(action) == IF action = "hide" THEN "hidden" ELSE "visible"
moderateComment(o, c, action) ==
    /\ Exists(c)
    /\ action = "approve" => comments[c].status = "pending"
    /\ action = "unhide" => comments[c].status = "hidden"
    /\ Start(o, [at |-> "moderate", comment |-> c, status |-> Moderated(action)])
    /\ UNCHANGED <<comments, posted, likes>>

Decided(c, status) == [c EXCEPT !.status = status, !.cleared = (@ \/ status = "visible")]
saveModeration(o) ==
    LET c == ops[o].comment IN
    /\ At(o, "moderate")
    /\ comments' = IF ~Exists(c) THEN comments
                   ELSE [comments EXCEPT ![c] = Decided(@, ops[o].status)]
    /\ Finish(o)
    /\ UNCHANGED <<posted, likes>>

rejectComment(o, viewer, c) ==
    /\ viewer \in {Owner, Staff}
    /\ Live(c) /\ comments[c].status = "pending"
    /\ Start(o, Deletion(viewer = comments[c].author, c, {}))
    /\ UNCHANGED <<comments, posted, likes>>

(* setPin: the others are unpinned, then this one is pinned. *)
setPin(o, c) ==
    /\ Exists(c) /\ comments[c].parent = 0
    /\ Start(o, [at |-> "unpin", comment |-> c])
    /\ UNCHANGED <<comments, posted, likes>>

unpinOthers(o) ==
    /\ At(o, "unpin")
    /\ comments' = [c \in CommentIds |->
         IF Exists(c) THEN [comments[c] EXCEPT !.pinned = "no"] ELSE comments[c]]
    /\ Goto(o, [ops[o] EXCEPT !.at = "pin"])
    /\ UNCHANGED <<posted, likes>>

pin(o) ==
    LET c == ops[o].comment IN
    /\ At(o, "pin")
    /\ comments' = IF Exists(c) THEN [comments EXCEPT ![c].pinned = Mark(o)] ELSE comments
    /\ Finish(o)
    /\ UNCHANGED <<posted, likes>>

unpin(c) ==
    /\ Exists(c)
    /\ comments' = [comments EXCEPT ![c].pinned = "no"]
    /\ UNCHANGED <<posted, likes, ops>>

-----------------------------------------------------------------------------
Posting(texts, holds) ==
    \E o \in WallOps :
        \/ \E a \in Authors, text \in texts, hold \in holds, c \in {0} \cup CommentIds :
            addComment(o, a, text, hold, c)
        \/ createComment(o)

Deleting ==
    \E o \in WallOps :
        \/ \E c \in CommentIds, viewer \in Authors \cup {Staff} : deleteComment(o, viewer, c)
        \/ wipe(o) \/ collect(o) \/ deleteThread(o) \/ deleteLikes(o) \/ climb(o) \/ dropPlaceholder(o)

Purging ==
    \E o \in WallOps :
        \/ \E viewer \in {Owner, Staff}, a \in Authors : purgeAuthorComments(o, viewer, a)
        \/ purgeNext(o)

Liking ==
    \/ \E o \in WallOps :
        \/ \E c \in CommentIds : setLike(o, c)
        \/ insertLike(o)
    \/ \E c \in CommentIds : unlike(c)

Editing ==
    \E o \in WallOps :
        \/ \E c \in CommentIds, text \in {"plain", "muted"} : editComment(o, c, text)
        \/ saveEdit(o)

Moderating ==
    \E o \in WallOps :
        \/ \E c \in CommentIds, action \in {"approve", "hide", "unhide"} : moderateComment(o, c, action)
        \/ \E c \in CommentIds, viewer \in {Owner, Staff} : rejectComment(o, viewer, c)
        \/ saveModeration(o)

Pinning ==
    \/ \E o \in WallOps :
        \/ \E c \in CommentIds : setPin(o, c)
        \/ unpinOthers(o) \/ pin(o)
    \/ \E c \in CommentIds : unpin(c)

WallNext ==
    \/ Posting({"plain", "muted"}, BOOLEAN)
    \/ Deleting \/ Purging \/ Liking \/ Editing \/ Moderating \/ Pinning

WallSpec == WallInit /\ [][WallNext]_wallVars

-----------------------------------------------------------------------------
(* Properties. *)

Marks == {"no", "alone", "met"}

(* The shape of the documents; a reply is one level below its parent
   (addComment: no reply sits deeper than the deepest level). *)
WallTypeOK ==
    /\ posted \in 0 .. MaxComments
    /\ likes \in [CommentIds -> Marks]
    /\ \A c \in CommentIds : comments[c] # NoComment =>
        /\ comments[c].depth \in 0 .. WALL_MAX_DEPTH
        /\ comments[c].status \in {"visible", "pending", "hidden"}
        /\ comments[c].deleted \in Marks /\ comments[c].pinned \in Marks
        /\ comments[c].text \in {"plain", "muted", "none"}
        /\ (comments[c].depth = 0) = (comments[c].parent = 0)
        /\ Exists(comments[c].parent) =>
            comments[c].depth = comments[comments[c].parent].depth + 1

(* A deletion takes the thread with it: a reply whose parent is gone was
   being posted while another handler ran (deleteComment reads the thread
   level by level before it deletes it, addComment reads the parent before
   it creates the reply). *)
NoOrphans ==
    \A c \in CommentIds : Exists(c) /\ comments[c].parent # 0 =>
        Exists(comments[c].parent) \/ comments[c].by = "met"

(* A placeholder keeps no text, and is there for the replies below it: it
   goes with the last of them, unless it was made, or written to, while
   another handler ran, or the deletion of that last one is still on its
   way up (deleteComment, and the IWallComment comment on deletedAt). *)
PlaceholdersHold ==
    \A c \in CommentIds : Exists(c) /\ comments[c].deleted = "alone" =>
        /\ comments[c].text = "none"
        /\ \/ ChildrenOf({c}) # {}
           \/ \E o \in WallOps : ops[o].at \in {"unlike", "climb", "drop"} /\ ops[o].parent = c

(* Two comments are pinned only when two pins met (setPin). *)
OnePin ==
    LET pins == {c \in CommentIds : Exists(c) /\ comments[c].pinned # "no"}
    IN Cardinality(pins) <= 1 \/ \E c \in pins : comments[c].pinned = "met"

(* A like nothing ran beside is of a comment that is there, until the
   deletion of the comment gets to its likes. *)
LikesOfLive ==
    \A c \in CommentIds : likes[c] = "alone" =>
        Live(c) \/ \E o \in WallOps : At(o, "unlike") /\ c \in ops[o].doomed

(* The rules of threads, placeholders, likes and the pin, for what no
   other handler interfered with (addComment, deleteComment, setLike,
   setPin and the purge). *)
WallTidy == WallTypeOK /\ NoOrphans /\ PlaceholdersHold /\ OnePin /\ LikesOfLive

(* Someone else's comment that holds a muted word is on the wall only
   because the owner or a moderator let it through, or because its edit
   and a decision about it met (holdReason, editComment, moderateComment). *)
MutedWait ==
    \A c \in CommentIds :
        Exists(c) /\ comments[c].status = "visible" /\ comments[c].author # Owner
            /\ comments[c].text = "muted" => comments[c].cleared

-----------------------------------------------------------------------------
(***************************************************************************)
(* Reading: what one viewer sees of a wall (getWall, buildViews,           *)
(* getReplies and getComment of wall.service.ts): pages of top-level       *)
(* comments, the pinned one beside the first page, each comment with the   *)
(* first of its replies, the others in batches, and one comment alone for  *)
(* live updates.                                                           *)
(*                                                                         *)
(* This wall changes one operation at a time (the handlers above overlap), *)
(* and is read in between.  The operations are cut to what reading shows.  *)
(***************************************************************************)
CONSTANTS ViewOwner,      \* whose wall it is
          Writers,        \* who comments on it
          Readers,        \* who reads it: the owner (or a moderator), a writer, a stranger
          VIEW_MAX_DEPTH, \* WALL_MAX_DEPTH
          REPLY_PREVIEW, PAGE_SIZE,
          MaxWall,        \* bound: comments ever posted
          MaxMarks        \* bound: comments hidden, deleted or pinned at once

ASSUME ViewsAssumption == REPLY_PREVIEW \in Nat /\ PAGE_SIZE \in Nat \ {0}

VARIABLES
    wall,       \* the comments, by creation
    viewer,     \* who reads
    blockedSet  \* whom the reader is in a block relationship with
viewVars == <<wall, viewer, blockedSet>>

ViewsInit == wall = <<>> /\ viewer \in Readers /\ blockedSet \in SUBSET (Writers \ {viewer, ViewOwner})

Ids == {c \in DOMAIN wall : wall[c].gone # "removed"}
InOrder(S) == SetToSortSeq(S, LAMBDA c, d : c < d)
Marked == {c \in DOMAIN wall : wall[c].status = "hidden" \/ wall[c].gone # "no" \/ wall[c].pinned}
MayMark(c) == Cardinality(Marked \cup {c}) <= MaxMarks
Beneath(c) == {d \in Ids : wall[d].parent = c}

-----------------------------------------------------------------------------
(* The operations.  A reply to a comment at the deepest level sits beside
   it and names it. *)
addView(a, c) ==
    LET beside == c # 0 /\ wall[c].depth >= VIEW_MAX_DEPTH IN
    /\ Len(wall) < MaxWall
    /\ c # 0 => wall[c].gone = "no"
    /\ wall' = Append(wall,
         [author |-> a, parent |-> IF beside THEN wall[c].parent ELSE c,
          replyTo |-> IF beside THEN c ELSE 0,
          depth |-> IF c = 0 THEN 0 ELSE IF beside THEN wall[c].depth ELSE wall[c].depth + 1,
          status |-> "visible", gone |-> "no", pinned |-> FALSE])
    /\ UNCHANGED <<viewer, blockedSet>>

setHidden(c) ==
    /\ MayMark(c)
    /\ wall' = [wall EXCEPT ![c].status = IF @ = "visible" THEN "hidden" ELSE "visible"]
    /\ UNCHANGED <<viewer, blockedSet>>

Thread(c) == {d \in Ids : c = d \/ wall[d].parent = c \/ (wall[d].parent # 0 /\ wall[wall[d].parent].parent = c)}
deleteView(c, self) ==
    /\ wall[c].gone = "no" /\ MayMark(c)
    /\ wall' = IF self /\ Beneath(c) # {}
               THEN [wall EXCEPT ![c].gone = "wiped", ![c].pinned = FALSE]
               ELSE [d \in DOMAIN wall |->
                      IF \/ d \in Thread(c)
                         \/ wall[d].gone = "wiped" /\ Beneath(d) \subseteq Thread(c)
                      THEN [wall[d] EXCEPT !.gone = "removed"] ELSE wall[d]]
    /\ UNCHANGED <<viewer, blockedSet>>

pinView(c) ==
    /\ wall[c].parent = 0 /\ MayMark(c)
    /\ wall' = [d \in DOMAIN wall |-> [wall[d] EXCEPT !.pinned = (d = c)]]
    /\ UNCHANGED <<viewer, blockedSet>>

ViewsNext ==
    \/ \E a \in Writers, c \in {0} \cup Ids : addView(a, c)
    \/ \E c \in Ids : setHidden(c) \/ pinView(c) \/ \E self \in BOOLEAN : deleteView(c, self)
ViewsSpec == ViewsInit /\ [][ViewsNext]_viewVars

-----------------------------------------------------------------------------
(* A conversation at the deepest level reads in order: a reply to a
   sibling comes right after it. *)
orderSiblings(s) ==
    LET answers(c) == SelectSeq(s, LAMBDA d : wall[d].replyTo = c)
        visit[c \in ToSet(s)] ==
            <<c>> \o FlattenSeq([i \in DOMAIN answers(c) |-> visit[answers(c)[i]]])
        roots == SelectSeq(s, LAMBDA c : wall[c].replyTo \notin ToSet(s))
    IN  FlattenSeq([i \in DOMAIN roots |-> visit[roots[i]]])

statusFilter(c) == viewer = ViewOwner \/ wall[c].status = "visible" \/ wall[c].author = viewer
MayRead(c) == wall[c].author \notin blockedSet /\ statusFilter(c)

(* build: whether there is a view of a comment.  A placeholder is there
   for the replies it shows. *)
built[c \in 1 .. MaxWall] ==
    /\ c \in Ids /\ MayRead(c)
    /\ wall[c].gone = "wiped" => \E d \in Beneath(c) : built[d]

(* All the children are ordered, then those that are shown are kept ... *)
repliesOf(c) == SelectSeq(orderSiblings(InOrder(Beneath(c))), LAMBDA d : built[d])
Preview(c) == SubSeq(repliesOf(c), 1, IF Len(repliesOf(c)) < REPLY_PREVIEW THEN Len(repliesOf(c)) ELSE REPLY_PREVIEW)
descendantCount[c \in 1 .. MaxWall] ==
    FoldFunction(LAMBDA d, n : n + 1 + descendantCount[d], 0, repliesOf(c))

(* ... and in a batch those that are shown are kept, then ordered. *)
getReplies(c, offset) ==
    LET views == orderSiblings(SelectSeq(InOrder(Beneath(c)), LAMBDA d : built[d]))
    IN  SubSeq(views, offset + 1, Len(views))

(* One page.  The first has the pinned comment above it. *)
TopFilter_WithPinned == {c \in Ids : wall[c].parent = 0 /\ statusFilter(c)}
TopFilter == {c \in Ids : wall[c].parent = 0 /\ ~wall[c].pinned /\ statusFilter(c)}
Sorted(sort) == IF sort = "oldest" THEN InOrder(TopFilter) ELSE Reverse(InOrder(TopFilter))
Pinned(page) == InOrder({c \in Ids : wall[c].pinned /\ statusFilter(c) /\ page = 0})
getWall(page, sort) ==
    LET tops == Sorted(sort)
        last == IF (page + 1) * PAGE_SIZE < Len(tops) THEN (page + 1) * PAGE_SIZE ELSE Len(tops)
    IN  SelectSeq(Pinned(page) \o SubSeq(tops, page * PAGE_SIZE + 1, last), LAMBDA c : built[c])

(* The page a linked comment is on, and what is sent in full. *)
Top(c) == IF wall[c].parent = 0 THEN c
          ELSE IF wall[wall[c].parent].parent = 0 THEN wall[c].parent ELSE wall[wall[c].parent].parent
focusPage(c) ==
    IF wall[Top(c)].pinned THEN 0
    ELSE Cardinality({d \in TopFilter : d > Top(c)}) \div PAGE_SIZE

(* getComment: built on its own, whatever is above it. *)
getComment(c) == built[c]

-----------------------------------------------------------------------------
(* What is read when every page is turned and every batch asked for after
   the replies already there. *)
readIn[c \in 1 .. MaxWall] ==
    LET below == Preview(c) \o getReplies(c, Len(Preview(c)))
    IN  <<c>> \o FlattenSeq([i \in DOMAIN below |-> readIn[below[i]]])
Browsed(sort) ==
    LET pages == FlattenSeq([p \in 1 .. MaxWall |-> getWall(p - 1, sort)])
    IN  FlattenSeq([i \in DOMAIN pages |-> readIn[pages[i]]])

shown[c \in 1 .. MaxWall] == built[c] /\ (wall[c].parent = 0 \/ shown[wall[c].parent])
Shown == {c \in Ids : shown[c]}
(* Someone answers a sibling that is there and not shown to the viewer:
   the preview and the batches are in two orders. *)
TwoOrders == \E c \in Ids : wall[c].replyTo \in {d \in Ids : ~built[d]}

(* Turning the pages in either order and asking for the replies that are
   left shows a viewer each comment once, and none under one that is not
   shown, unless a reply answers a sibling that viewer does not see; a
   link leads to the page its comment is on; the count beneath a comment
   is that of what can be read beneath it (getWall, buildViews, getReplies) *)
ViewsHold ==
    /\ \A sort \in {"newest", "oldest"} :
        LET read == Browsed(sort) IN
        TwoOrders \/ (ToSet(read) = Shown /\ Len(read) = Cardinality(Shown))
    /\ \A c \in Shown : wall[c].parent = 0 => c \in ToSet(getWall(focusPage(c), "newest"))
    /\ \A c \in Shown : Top(c) \in ToSet(getWall(focusPage(c), "newest"))
    /\ TwoOrders \/ \A c \in Shown : descendantCount[c] + 1 = Len(readIn[c])
=============================================================================
