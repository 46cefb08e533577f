----------------------------- MODULE TracePath -----------------------------
(***************************************************************************)
(* The trace tool (TracePane): a path is put together from repeaters and   *)
(* from hops given by their hash, sent over the air, and its result shown; *)
(* the paths and the repeaters of successful traces are remembered.        *)
(*                                                                         *)
(* A hop is a repeater or a hash of one or two bytes (the code's third     *)
(* width, four, is what a path without hashes uses).  A run is the promise *)
(* of one trace; it is told apart by its token.                            *)
(***************************************************************************)
EXTENDS Integers, Sequences, FiniteSets, SequencesExt

CONSTANTS MaxHops,    \* hops of a path
          MaxRecent,  \* MAX_RECENT_TRACES
          MaxNodes,   \* MAX_RECENT_NODES
          MaxRuns,    \* traces sent in a behaviour
          MaxClicks   \* clicks of a behaviour

VARIABLE ui

Repeaters == {"r1", "r2"}

Widths == {1, 2}

Hash(width) == IF width = 1 THEN "h1" ELSE "h2"

Custom == {Hash(w) : w \in Widths}

Width(hop) == IF hop = "h1" THEN 1 ELSE 2

Init ==
  ui = [draft |-> <<>>, token |-> 0, loading |-> FALSE, runs |-> {}, shown |-> <<>>, outcome |-> "none",
        dialog |-> FALSE, dialogWidth |-> 1, traces |-> <<>>, nodes |-> <<>>, sent |-> 0, clicks |-> 0,
        done |-> <<>>]

Click == ui.clicks < MaxClicks

Clicked == [ui EXCEPT !.clicks = @ + 1]

\* The list of repeaters and the rows of the path, behind no dialog.
RepeaterList == Click /\ ~ui.dialog /\ Len(ui.draft) < MaxHops

PathRows == Click /\ ~ui.dialog

-----------------------------------------------------------------------------
(* The path *)

\* customHopBytesLocked: the width of the first hash in the path, 0 without.
Locked(hops) ==
  LET custom == SelectSeq(hops, LAMBDA h : h \in Custom)
  IN IF custom = <<>> THEN 0 ELSE Width(custom[1])

\* effectiveHopHashBytes
EffectiveHopHashBytes(hops) == IF Locked(hops) = 0 THEN 4 ELSE Locked(hops)

\* clearPendingResult
ClearPendingResult(u) ==
  [u EXCEPT !.token = @ + 1, !.loading = FALSE, !.shown = <<>>, !.outcome = "none"]

\* The repeaters the list offers: all of them or, sorted by trace, those
\* traced before (the search and the distance sort only narrow it further).
FilteredRepeaters(mode) == IF mode = "traced" THEN ToSet(ui.nodes) ELSE Repeaters

HandleAddRepeater ==
  \E mode \in {"alpha", "traced"} : \E r \in FilteredRepeaters(mode) :
    /\ RepeaterList
    /\ ui' = ClearPendingResult([Clicked EXCEPT !.draft = Append(@, r)])

\* The dialog starts from the path's width, or from one byte.
OpenCustomDialog ==
  /\ Click /\ ~ui.dialog
  /\ ui' = [Clicked EXCEPT !.dialog = TRUE, !.dialogWidth = IF Locked(ui.draft) = 0 THEN 1 ELSE Locked(ui.draft)]

CustomDialog ==
  /\ Click /\ ui.dialog
  /\ \/ ui' = [Clicked EXCEPT !.dialog = FALSE]
     \/ \E w \in Widths : Locked(ui.draft) \in {0, w} /\ w # ui.dialogWidth /\ ui' = [Clicked EXCEPT !.dialogWidth = w]

\* A hash of the right length for the width in force joins the path.
HopBytes == IF Locked(ui.draft) = 0 THEN ui.dialogWidth ELSE Locked(ui.draft)

HandleAddCustomHop ==
  /\ Click /\ ui.dialog /\ Len(ui.draft) < MaxHops
  /\ ui' = ClearPendingResult([Clicked EXCEPT !.draft = Append(@, Hash(HopBytes)), !.dialog = FALSE])

HandleRemoveHop ==
  \E i \in DOMAIN ui.draft :
    /\ PathRows
    /\ ui' = ClearPendingResult([Clicked EXCEPT !.draft = RemoveAt(@, i)])

\* moveHop
HandleMoveHop ==
  \E i \in 2..Len(ui.draft) :
    /\ PathRows
    /\ ui' = ClearPendingResult([Clicked EXCEPT !.draft = [@ EXCEPT ![i] = ui.draft[i - 1], ![i - 1] = ui.draft[i]]])

\* The way back starts at the hop before the last.
ReverseLink(hops) == hops \o Tail(Reverse(hops))

HandleReverseLink ==
  /\ Click /\ ~ui.dialog /\ Len(ui.draft) >= 2 /\ 2 * Len(ui.draft) - 1 <= MaxHops
  /\ ui' = ClearPendingResult([Clicked EXCEPT !.draft = ReverseLink(@)])

ClearPath ==
  /\ Click /\ ~ui.dialog /\ ui.draft # <<>>
  /\ ui' = ClearPendingResult([Clicked EXCEPT !.draft = <<>>])

-----------------------------------------------------------------------------
(* A trace *)

\* handleRunTrace and handleLoadRecentTrace up to the request.
Run(u, hops) ==
  [u EXCEPT !.draft = hops, !.token = @ + 1, !.loading = TRUE, !.shown = <<>>, !.outcome = "none", !.sent = @ + 1,
            !.runs = @ \cup {[token |-> u.token + 1, hops |-> hops, width |-> EffectiveHopHashBytes(hops)]}]

MaySend == Click /\ ~ui.loading /\ ui.sent < MaxRuns

HandleRunTrace ==
  /\ MaySend /\ ~ui.dialog /\ ui.draft # <<>>
  /\ ui' = Run(Clicked, ui.draft)

HandleLoadRecentTrace ==
  \E i \in DOMAIN ui.traces :
    /\ MaySend /\ ~ui.dialog
    /\ ui' = Run(Clicked, ui.traces[i])

\* The list of repeaters of a path, each once.
RepeaterKeysFromHops(hops) ==
  FoldLeft(LAMBDA acc, h : IF h \in Repeaters /\ h \notin ToSet(acc) THEN Append(acc, h) ELSE acc, <<>>, hops)

Capped(seq, n) == SubSeq(seq, 1, IF Len(seq) < n THEN Len(seq) ELSE n)

\* saveRecentTrace: the path moves to the front.
SaveRecentTrace(traces, hops) == Capped(<<hops>> \o SelectSeq(traces, LAMBDA t : t # hops), MaxRecent)

\* saveRecentNodeKeys
SaveRecentNodeKeys(nodes, hops) ==
  LET fresh == RepeaterKeysFromHops(hops)
  IN Capped(fresh \o SelectSeq(nodes, LAMBDA n : n \notin ToSet(fresh)), MaxNodes)

\* The trace came back: only the current run is shown and remembered.
TraceAnswered ==
  \E run \in ui.runs :
    LET u == [ui EXCEPT !.runs = @ \ {run}]
    IN ui' = IF run.token # ui.token THEN u
             ELSE [u EXCEPT !.loading = FALSE, !.shown = run.hops, !.outcome = "result",
                            !.traces = SaveRecentTrace(@, run.hops),
                            !.nodes = SaveRecentNodeKeys(@, run.hops),
                            !.done = run.hops]

TraceFailed ==
  \E run \in ui.runs :
    LET u == [ui EXCEPT !.runs = @ \ {run}]
    IN ui' = IF run.token # ui.token THEN u
             ELSE [u EXCEPT !.loading = FALSE, !.shown = run.hops, !.outcome = "error"]

DismissResult ==
  /\ Click /\ ui.outcome # "none"
  /\ ui' = [Clicked EXCEPT !.shown = <<>>, !.outcome = "none"]

Next ==
  HandleAddRepeater \/ OpenCustomDialog \/ CustomDialog \/ HandleAddCustomHop \/ HandleRemoveHop \/ HandleMoveHop
    \/ HandleReverseLink \/ ClearPath \/ HandleRunTrace \/ HandleLoadRecentTrace \/ TraceAnswered \/ TraceFailed
    \/ DismissResult

-----------------------------------------------------------------------------
(* What is promised *)

\* The tool's state is well formed.
TypeOK ==
  /\ Len(ui.draft) <= MaxHops /\ ToSet(ui.draft) \subseteq Repeaters \cup Custom
  /\ ui.sent \in 0..MaxRuns /\ ui.clicks \in 0..MaxClicks
  /\ ui.outcome \in {"none", "result", "error"}

\* A result or an error on display is that of the path on display: an answer
\* to a path that was changed meanwhile is dropped, and the spinner turns
\* exactly while the answer to the current path is awaited.
ResultForPath ==
  /\ ui.outcome # "none" => ui.shown = ui.draft
  /\ ui.loading <=> \E run \in ui.runs : run.token = ui.token

\* A trace goes out with one hash width, and all the hashes of its path have
\* it: however the path was put together, rearranged or taken from the
\* remembered ones.
OneWidth ==
  \A run \in ui.runs : \A h \in ToSet(run.hops) : h \in Custom => Width(h) = run.width

\* The remembered paths are distinct, the last successful one first, and so
\* are the remembered repeaters.
RecentTrue ==
  /\ IsInjective(ui.traces) /\ IsInjective(ui.nodes)
  /\ ui.done # <<>> => ui.traces[1] = ui.done
  /\ \A i, j \in DOMAIN ui.nodes :
       ui.nodes[i] \in ToSet(ui.done) /\ ui.nodes[j] \notin ToSet(ui.done) => i < j

\* "Reverse" makes a way out and back: the path reads the same both ways.
OutAndBack ==
  HandleReverseLink => ui'.draft = Reverse(ui'.draft)
=============================================================================
