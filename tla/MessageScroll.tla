----------------------------- MODULE MessageScroll ----------------------------
(***************************************************************************)
(* Where the reader is in a conversation (MessageList): the pin to the     *)
(* newest message, the place kept while older ones are loaded, the jump to *)
(* a message, and what the scroll handler asks for.                        *)
(*                                                                         *)
(* The conversation is 1 .. total, of which lo .. hi is loaded; a reaction *)
(* whose message is loaded has no row of its own.  All rows are one unit   *)
(* high: pos is the first row on the screen, View rows fit.  The code's    *)
(* distances (100 and 150 pixels, rows of 64) become 1 and 2 rows.         *)
(*                                                                         *)
(* Circumstances of a world: "reactions" - the conversation has some;      *)
(* "between" - a message arrives between a gesture and its scroll event.   *)
(***************************************************************************)
EXTENDS Integers, Sequences, FiniteSets, SequencesExt, FiniteSetsExt, TLC

CONSTANTS Worlds, MaxTotal, MaxMoves

VARIABLE ui

View == 3
PageRows == 7
FrameBudget == 3

\* What reacts to what.
ReactsTo == (4 :> 3) @@ (9 :> 2)

\* attachOpenReactionsAtRender, sorted: the rows of what is loaded.
Rows(u) ==
  LET Attached(i) == "reactions" \in u.world /\ i \in DOMAIN ReactsTo /\ ReactsTo[i] \in u.lo .. u.hi
  IN  SelectSeq([k \in 1 .. u.hi - u.lo + 1 |-> u.lo + k - 1], LAMBDA i : ~Attached(i))

Empty(u) == u.hi < u.lo
Mounted(u) == ~u.loading /\ ~Empty(u)
LastPos(u) == Max({0, Len(Rows(u)) - View})
OnScreen(u) == {Rows(u)[k] : k \in (u.pos + 1) .. Min({u.pos + View, Len(Rows(u))})}
AtBottom(u) == u.pos = LastPos(u)

Init ==
  \E w \in Worlds :
    ui = [world |-> w, total |-> 11, lo |-> 1, hi |-> 0, loading |-> TRUE,
          fetch |-> "latest", older |-> FALSE, newer |-> FALSE, mid |-> FALSE, target |-> 0, unread |-> 2,
          dismissed |-> FALSE, pos |-> 0, measured |-> FALSE, stale |-> FALSE, pending |-> FALSE,
          frames |-> 0, applied |-> -1, initial |-> TRUE, prevLen |-> 0, known |-> FALSE, nearTop |-> FALSE,
          nearBottom |-> TRUE, following |-> TRUE, away |-> FALSE, moves |-> 0, reached |-> 0]

-----------------------------------------------------------------------------
(* The effects of a render.                                                *)

\* scrollToIndex: the offset of a row, as far as the list can scroll.
ScrollTo(u, index) ==
  LET p == Max({0, Min({index, LastPos(u)})})
  IN  IF p = u.pos THEN u ELSE [u EXCEPT !.pos = p, !.stale = TRUE]

\* requestBottomScroll
RequestBottom(u) == [u EXCEPT !.pending = TRUE, !.frames = 0, !.applied = -1]

\* The layout effect that handles the position after a render; the count it
\* compares is that of the messages, not of the rows.
PlaceView(u) ==
  LET added == (u.hi - u.lo + 1) - u.prevLen
      v == IF u.initial \/ ~u.known
             THEN LET first == [u EXCEPT !.initial = FALSE]
                  IN  IF u.target = 0 THEN RequestBottom(first) ELSE first
           ELSE IF added <= 0 \/ u.prevLen = 0 THEN u
           ELSE IF u.nearTop THEN ScrollTo(u, added)
           ELSE IF u.nearBottom /\ ~u.mid THEN RequestBottom(u)
           ELSE u
  IN  [v EXCEPT !.known = TRUE, !.prevLen = u.hi - u.lo + 1]

\* The layout effect of the target: it is centred, and the owner is told,
\* which clears it.
ReachTarget(u) ==
  LET found == {k \in DOMAIN Rows(u) : Rows(u)[k] = u.target}
  IN  IF u.target = 0 \/ found = {} THEN u
      ELSE [ScrollTo([u EXCEPT !.initial = FALSE, !.pending = FALSE], Max(found) - 2)
              EXCEPT !.target = 0, !.reached = u.target]

\* The effect that forgets the conversation when the list is emptied.
Forget(u) ==
  IF ~Empty(u) THEN u
  ELSE [u EXCEPT !.initial = TRUE, !.prevLen = 0, !.known = FALSE, !.nearTop = FALSE, !.nearBottom = TRUE]

\* A commit: a container that appears starts at its top, one that shrank is
\* scrolled no further than its end.
Commit(u) ==
  LET shown == IF Mounted(u) /\ ~Mounted(ui) THEN [u EXCEPT !.pos = 0, !.measured = FALSE]
               ELSE [u EXCEPT !.pos = Min({@, LastPos(u)})]
  IN  Forget(IF Mounted(u) THEN ReachTarget(PlaceView(shown)) ELSE shown)

-----------------------------------------------------------------------------
(* Frames, and the scroll handler.                                         *)

\* One frame of the pin: rows not measured yet leave it short of the end.
\* The loop ends at the bottom, when its budget is spent, or when somebody
\* else has scrolled up.
Frame ==
  /\ ui.pending /\ Mounted(ui)
  /\ LET goal == IF ui.measured THEN LastPos(ui) ELSE LastPos(ui) - 1
         u == [ScrollTo(ui, goal) EXCEPT !.measured = TRUE, !.frames = @ + 1]
     IN  ui' = IF ui.applied > ui.pos THEN [ui EXCEPT !.pending = FALSE]
               ELSE [u EXCEPT !.pending = ~(AtBottom(u) \/ u.frames >= FrameBudget), !.applied = u.pos]

\* What handleScroll remembers and asks for.
HandleScroll ==
  /\ ui.stale /\ Mounted(ui)
  /\ ui' = [ui EXCEPT !.stale = FALSE, !.nearTop = ui.pos <= 2, !.nearBottom = LastPos(ui) - ui.pos <= 1,
                       !.older = @ \/ (ui.pos <= 1 /\ ui.lo > 1),
                       !.newer = @ \/ (ui.mid /\ LastPos(ui) - ui.pos <= 1)]

Moved == ui.moves < MaxMoves

\* The reader scrolls: wheel, touch and keys cancel the pin, and the scroll
\* event follows.
Gesture(p) ==
  /\ Mounted(ui) /\ Moved /\ p # ui.pos /\ p \in 0 .. LastPos(ui)
  /\ ui' = [ui EXCEPT !.moves = @ + 1, !.reached = 0, !.pending = FALSE, !.pos = p, !.stale = TRUE,
                       !.following = p = LastPos(ui), !.away = LastPos(ui) - p > 1]

\* The button at the bottom (scrollToBottom).
ScrollToBottom ==
  /\ Mounted(ui) /\ Moved /\ LastPos(ui) - ui.pos > 1
  /\ ui' = IF ui.mid
           THEN Commit([ui EXCEPT !.moves = @ + 1, !.reached = 0, !.mid = FALSE, !.loading = TRUE, !.lo = 1, !.hi = 0,
                                  !.fetch = "latest", !.older = FALSE, !.newer = FALSE,
                                  !.following = TRUE, !.away = FALSE])
           ELSE ScrollTo([ui EXCEPT !.moves = @ + 1, !.reached = 0, !.following = TRUE, !.away = FALSE], LastPos(ui))

-----------------------------------------------------------------------------
(* The unread divider and the jump to it.                                  *)

Outside == ui.unread # 0 /\ ui.unread \notin ToSet(Rows(ui))
JumpOffered == ui.unread # 0 /\ ~ui.dismissed /\ ui.unread \notin OnScreen(ui)

\* Outside what is loaded, the messages around it are asked for; inside, it
\* is scrolled to.  A click comes after the first frame.
JumpToUnread ==
  /\ Mounted(ui) /\ JumpOffered /\ Moved
  /\ ui.pending /\ ui.applied = -1 => "between" \in ui.world
  /\ LET u == [ui EXCEPT !.moves = @ + 1, !.reached = 0, !.dismissed = TRUE, !.following = FALSE, !.away = FALSE]
         k == CHOOSE k \in DOMAIN Rows(ui) : Rows(ui)[k] = ui.unread
     IN  ui' = IF Outside
               THEN Commit([u EXCEPT !.target = ui.unread, !.loading = TRUE, !.lo = 1, !.hi = 0,
                                     !.fetch = "around", !.older = FALSE, !.newer = FALSE])
               ELSE ScrollTo(u, k - 2)

DismissJump ==
  /\ Mounted(ui) /\ JumpOffered
  /\ ui' = [ui EXCEPT !.dismissed = TRUE]

-----------------------------------------------------------------------------
(* What arrives.                                                           *)

\* A scroll event comes within a frame: what arrives first is rare.
Between == ui.stale => "between" \in ui.world

FetchArrives ==
  /\ ui.fetch # "none"
  /\ LET lo == IF ui.fetch = "latest" THEN Max({1, ui.total - PageRows + 1}) ELSE Max({1, ui.target - 2})
         hi == IF ui.fetch = "latest" THEN ui.total ELSE Min({ui.total, ui.target + 6})
     IN  ui' = Commit([ui EXCEPT !.fetch = "none", !.loading = FALSE, !.lo = lo, !.hi = hi,
                                 !.mid = hi < ui.total, !.newer = FALSE])

OlderArrives ==
  /\ ui.older /\ Mounted(ui) /\ Between
  /\ ui' = Commit([ui EXCEPT !.older = FALSE, !.lo = Max({1, @ - PageRows})])

NewerArrives ==
  /\ ui.newer /\ Mounted(ui) /\ Between
  /\ LET hi == Min({ui.total, ui.hi + PageRows})
     IN  ui' = Commit([ui EXCEPT !.newer = FALSE, !.hi = hi, !.mid = hi < ui.total])

\* A message is received or sent; one that arrives while the reader is back
\* in the history is left for the pages to come.
Receive ==
  /\ ui.total < MaxTotal /\ Mounted(ui) /\ Between
  /\ ui' = IF ui.mid THEN [ui EXCEPT !.total = @ + 1]
           ELSE Commit([ui EXCEPT !.total = @ + 1, !.hi = @ + 1])

Next ==
  \/ Frame
  \/ HandleScroll
  \/ \E p \in 0 .. MaxTotal : Gesture(p)
  \/ ScrollToBottom
  \/ JumpToUnread
  \/ DismissJump
  \/ FetchArrives
  \/ OlderArrives
  \/ NewerArrives
  \/ Receive

-----------------------------------------------------------------------------
(* Properties.                                                             *)

TypeOK ==
  /\ ui.pos \in 0 .. MaxTotal /\ ui.total \in 0 .. MaxTotal /\ ui.frames \in 0 .. FrameBudget
  /\ ui.lo \in 1 .. MaxTotal /\ ui.hi \in 0 .. ui.total /\ ui.moves \in 0 .. MaxMoves

Settled == Mounted(ui) /\ ~ui.pending /\ ~ui.stale /\ ~ui.older /\ ~ui.newer

\* Once the frames and events have run, a reader who had not left the newest
\* messages sees the newest, however many arrived, were sent or were loaded
\* (pendingBottomScrollRef and the layout effect).
NewestFollowed ==
  "between" \notin ui.world /\ Settled /\ ui.following /\ ~ui.mid =>
    Rows(ui)[Len(Rows(ui))] \in OnScreen(ui)

\* A reader who went back in the history keeps some of what they are reading
\* whatever is received: no pin drags them away, not even one asked for before.
ReadingKept ==
  ui.away /\ Mounted(ui) /\ Mounted(ui)' /\ "between" \notin ui.world
  /\ ui'.moves = ui.moves /\ ui.newer = ui'.newer /\ ui.lo = ui'.lo =>
    OnScreen(ui) \cap OnScreen(ui)' # {}

\* When an older page arrives for a reader near the top, the row that was the
\* first one is on top (the anchor by index of the layout effect).
OlderKeepsPlace ==
  "reactions" \notin ui.world /\ Mounted(ui) /\ Mounted(ui)' /\ ui.nearTop /\ ~ui.stale /\ ~ui.pending
  /\ ui.older /\ ~ui'.older /\ ui'.lo < ui.lo =>
    Rows(ui)'[ui'.pos + 1] = Rows(ui)[1]

\* A jump ends at its message: when the messages around it have come it is on
\* the screen, and it stays there until the reader moves.
TargetShown ==
  ui.reached # 0 /\ Mounted(ui) => ui.reached \in OnScreen(ui)
=============================================================================
