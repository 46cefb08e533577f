--------------------------- MODULE ChannelFinder ---------------------------
(***************************************************************************)
(* The search for the names of hashtag channels (CrackerPanel): packets    *)
(* nobody could read are queued, a loop takes one at a time, tries the     *)
(* known names and then the names up to a length, and offers what it finds *)
(* as a channel.                                                           *)
(*                                                                         *)
(* A packet is its channel's name length, the moment it was sent (old or   *)
(* recent) and whether the name is a known one.  An action is the code up  *)
(* to the next await, with the commit of its state updates.                *)
(*                                                                         *)
(* Circumstances: "errors", the search engine may fail; "hurries", the     *)
(* search may be started again while the engine still winds down from the  *)
(* stop before.                                                            *)
(***************************************************************************)
EXTENDS Integers, Sequences, FiniteSets, SequencesExt

CONSTANTS Worlds,     \* the sets of circumstances considered
          LengthCap,  \* the hard cap on the length of a name
          MaxTimers,  \* timers of the loop armed at once
          MaxClicks   \* clicks of a behaviour

VARIABLE ui

Packets == {"a1", "a2", "b", "junk"}

\* Two packets of one channel, one of a channel with a known name, and one
\* that is no readable group text.
Facts ==
  [a1   |-> [room |-> "a", length |-> 2, old |-> FALSE, known |-> FALSE, text |-> TRUE],
   a2   |-> [room |-> "a", length |-> 2, old |-> TRUE,  known |-> FALSE, text |-> TRUE],
   b    |-> [room |-> "b", length |-> 3, old |-> FALSE, known |-> TRUE, text |-> TRUE],
   junk |-> [room |-> "none", length |-> 1, old |-> FALSE, known |-> FALSE, text |-> FALSE]]

Rooms == {"a", "b"}

\* What is heard while the page is open, and what the server kept from before.
Live == {"a1", "junk"}

Samples == {"a1", "a2", "b"}

\* extractGroupTextFields
ExtractGroupTextFields(p) == Facts[p].text

NoWork == [packet |-> "none", at |-> "idle", target |-> 0, older |-> FALSE, retry |-> FALSE]

Init ==
  \E w \in Worlds :
    ui = [world |-> w, clicks |-> 0, visible |-> TRUE, stored |-> {},
          running |-> FALSE, loading |-> FALSE, timers |-> 0, aborted |-> FALSE,
          engine |-> "idle", work |-> NoWork, queue |-> <<>>, seen |-> {},
          maxLength |-> 1, retryFailed |-> FALSE, historical |-> FALSE, older |-> FALSE,
          adopted |-> {}, found |-> {}, unsaved |-> {}]

Click == ui.clicks < MaxClicks

Clicked == ui.clicks + 1

-----------------------------------------------------------------------------
(* The queue *)

Queued(queue) == {queue[i].packet : i \in DOMAIN queue}

\* enqueuePackets: every payload is queued once for as long as the page lives.
Enqueue(u, packets, historical) ==
  LET fresh == SetToSeq({p \in packets : ExtractGroupTextFields(p) /\ p \notin u.seen})
  IN [u EXCEPT !.queue = @ \o [i \in DOMAIN fresh |->
                  [packet |-> fresh[i], historical |-> historical, last |-> 0, status |-> "pending"]],
               !.seen = @ \cup ToSet(fresh)]

\* The update of one queued item, if it is still there.
Mark(queue, p, status) ==
  [i \in DOMAIN queue |-> IF queue[i].packet = p THEN [queue[i] EXCEPT !.status = status] ELSE queue[i]]

Tried(queue, p, status, target) ==
  [i \in DOMAIN queue |->
    IF queue[i].packet = p THEN [queue[i] EXCEPT !.status = status, !.last = target] ELSE queue[i]]

\* The items of a found channel leave the queue, whatever their age.
Purge(queue, room) ==
  SelectSeq(queue, LAMBDA item : Facts[item.packet].room # room)

\* The first item waiting; with the retries on, otherwise the failed one tried
\* least far (the sort is stable).
Candidates(u) ==
  LET pending == {i \in DOMAIN u.queue : u.queue[i].status = "pending"}
      failed == {i \in DOMAIN u.queue : u.queue[i].status = "failed" /\ u.queue[i].last < LengthCap}
      least == {i \in failed : \A j \in failed : u.queue[i].last <= u.queue[j].last}
      first(S) == {i \in S : \A j \in S : i <= j}
  IN IF pending # {} THEN first(pending)
     ELSE IF u.retryFailed THEN first(least) ELSE {}

-----------------------------------------------------------------------------
(* The loop *)

\* processNext up to the search.
ProcessNext(u) ==
  IF u.work.at # "idle" \/ ~u.running THEN u
  ELSE IF Candidates(u) = {} THEN [u EXCEPT !.timers = @ + 1]
  ELSE LET item == u.queue[CHOOSE i \in Candidates(u) : TRUE]
       IN [u EXCEPT !.queue = Mark(@, item.packet, "cracking"), !.engine = "searching",
                    !.work = [packet |-> item.packet, at |-> "search", retry |-> item.last > 0,
                              target |-> IF item.last > 0 THEN item.last + 1 ELSE u.maxLength,
                              older |-> item.historical /\ u.older]]

\* The end of a round: the loop is armed again while the search runs.
Rest(u) ==
  [u EXCEPT !.work = NoWork, !.engine = "idle", !.timers = IF u.running THEN @ + 1 ELSE @]

\* tryHashtagName on the packet's own name: the age filter may refuse it.
TryHashtagName(p, useTimestampFilter, older) ==
  useTimestampFilter /\ Facts[p].old => older

\* What the search of the names up to the target (of exactly that length in a
\* retry) comes to.
Finds(u) ==
  LET p == u.work.packet
  IN /\ TryHashtagName(p, TRUE, u.work.older)
     /\ \/ Facts[p].known
        \/ IF u.work.retry THEN Facts[p].length = u.work.target ELSE Facts[p].length <= u.work.target

\* The search comes back to a stopped panel: the item waits as before.
Stopped(u) ==
  [u EXCEPT !.aborted = FALSE, !.work = NoWork, !.engine = "idle",
            !.queue = Mark(@, u.work.packet, "pending")]

\* The found channel is announced and its items leave the queue.
Discovered(u, room) == Rest([u EXCEPT !.queue = Purge(@, room)])

Timer ==
  /\ ui.timers > 0
  /\ ui' = ProcessNext([ui EXCEPT !.timers = @ - 1])

\* The search has run to its end.
SearchDone ==
  /\ ui.work.at = "search" /\ ui.engine = "searching"
  /\ LET room == Facts[ui.work.packet].room
         p == ui.work.packet
     IN \/ /\ Finds(ui)
           /\ ui' = IF room \in ui.adopted
                    THEN Discovered([ui EXCEPT !.found = @ \cup {room}], room)
                    ELSE [ui EXCEPT !.found = @ \cup {room}, !.work.at = "create", !.engine = "idle",
                                    !.queue = Tried(@, p, "cracked", ui.work.target)]
        \/ /\ ~Finds(ui)
           /\ ui' = Rest([ui EXCEPT !.queue = Tried(@, p, "failed", ui.work.target)])

\* The engine obeyed the stop; a panel started again takes it for a failure.
SearchAborted ==
  /\ ui.work.at = "search" /\ ui.engine = "stopping"
  /\ ui' = IF ui.aborted THEN Stopped(ui)
           ELSE Rest([ui EXCEPT !.queue = Tried(@, ui.work.packet, "failed", ui.work.target)])

SearchFailed ==
  /\ "errors" \in ui.world
  /\ ui.work.at = "search"
  /\ ui' = Rest([ui EXCEPT !.queue = Tried(@, ui.work.packet, "failed", ui.work.target)])

\* onChannelCreate answered.
CreateAnswered ==
  /\ ui.work.at = "create"
  /\ LET room == Facts[ui.work.packet].room
     IN \/ ui' = Discovered([ui EXCEPT !.adopted = @ \cup {room}], room)
        \/ ui' = Rest([ui EXCEPT !.queue = Tried(@, ui.work.packet, "failed", ui.work.target),
                                 !.unsaved = @ \cup {ui.work.packet}])

-----------------------------------------------------------------------------
(* The panel *)

\* The end of handleStart.
Begin(u) == [u EXCEPT !.running = TRUE, !.loading = FALSE, !.aborted = FALSE, !.timers = @ + 1]

MayBegin == ui.engine = "stopping" => "hurries" \in ui.world

\* The button says "stop" while the search runs and waits for the samples.
StartButton == Click /\ ~ui.running /\ ~ui.loading

HandleStart ==
  /\ StartButton /\ ui.timers < MaxTimers
  /\ ui.historical \/ MayBegin
  /\ ui' = IF ui.historical THEN [ui EXCEPT !.loading = TRUE, !.clicks = Clicked]
           ELSE Begin([ui EXCEPT !.clicks = Clicked])

\* getGroupTextSamples answered, or failed: the search starts either way.
SamplesAnswered ==
  /\ ui.loading /\ MayBegin
  /\ \/ ui' = Begin(Enqueue(ui, Samples, TRUE))
     \/ ui' = Begin(ui)

HandleStop ==
  /\ Click /\ ui.running
  /\ ui' = [ui EXCEPT !.running = FALSE, !.aborted = TRUE, !.clicks = Clicked,
                      !.engine = IF @ = "searching" THEN "stopping" ELSE @]

\* The maximum length field, the checkboxes and the panel's visibility.
Controls ==
  /\ Click
  /\ \/ \E n \in 1..LengthCap : n # ui.maxLength /\ ui' = [ui EXCEPT !.maxLength = n, !.clicks = Clicked]
     \/ ui' = [ui EXCEPT !.retryFailed = ~@, !.clicks = Clicked]
     \/ ui' = [ui EXCEPT !.historical = ~@, !.clicks = Clicked]
     \/ ui.historical /\ ui' = [ui EXCEPT !.older = ~@, !.clicks = Clicked]
     \/ ui' = LET u == [ui EXCEPT !.visible = ~@, !.clicks = Clicked]
              IN IF u.visible THEN Enqueue(u, u.stored, FALSE) ELSE u

\* A packet is recorded; a visible panel subscribes to the packets and queues
\* the unread ones.
Overhear ==
  \E p \in Live \ ui.stored :
    LET u == [ui EXCEPT !.stored = @ \cup {p}]
    IN ui' = IF ui.visible THEN Enqueue(u, u.stored, FALSE) ELSE u

Loop == Timer \/ SearchDone \/ SearchAborted \/ CreateAnswered

Next == Loop \/ SearchFailed \/ HandleStart \/ SamplesAnswered \/ HandleStop \/ Controls \/ Overhear

-----------------------------------------------------------------------------
(* What is promised *)

Statuses == {"pending", "cracking", "cracked", "failed"}

\* The panel's state is well formed.
TypeOK ==
  /\ ui.world \in Worlds
  /\ ui.timers \in 0..(MaxTimers + 1) /\ ui.clicks \in 0..MaxClicks
  /\ \A i \in DOMAIN ui.queue :
       /\ ui.queue[i].packet \in ui.seen
       /\ ui.queue[i].status \in Statuses /\ ui.queue[i].last \in 0..LengthCap
  /\ ui.seen \subseteq Packets /\ ui.found \subseteq Rooms /\ ui.adopted \subseteq ui.found
  /\ ui.engine \in {"idle", "searching", "stopping"} /\ ui.work.at \in {"idle", "search", "create"}

\* The running loop cannot die: while the panel says it searches, a round is
\* on its way or a timer will start one (processNext, setTimeout), through any
\* stops, starts, failures and idle waits.
NeverStalls == ui.running => ui.timers > 0 \/ ui.work.at # "idle"

\* One packet is searched at a time, it is the one marked so, and no other is
\* left marked when the search stops (isProcessingRef, the aborted branch).
OneAtATime ==
  /\ \A i, j \in DOMAIN ui.queue : ui.queue[i].packet = ui.queue[j].packet => i = j
  /\ {ui.queue[i].packet : i \in {j \in DOMAIN ui.queue : ui.queue[j].status = "cracking"}}
       = IF ui.work.at = "search" THEN {ui.work.packet} ELSE {}

\* The retries leave no length out: an item given up at some length has a
\* longer name, for any stops, starts and changes of the maximum between its
\* attempts.  Left out: old packets (the age filter refuses them), items whose
\* channel could not be saved, a failing engine and hurried starts.
LengthsCovered ==
  ui.world = {} =>
    \A i \in DOMAIN ui.queue :
      LET item == ui.queue[i]
      IN (item.status \in {"failed", "pending"} /\ ~Facts[item.packet].old /\ item.packet \notin ui.unsaved)
           => Facts[item.packet].length > item.last

\* No sample is forgotten: a payload that was queued stays queued until its
\* own channel has been found (the purge by tryHashtagName).
NoneForgotten == \A p \in ui.seen : p \in Queued(ui.queue) \/ Facts[p].room \in ui.found

\* A panel left running gets to every sample: again and again the search is
\* stopped, or no item waits.
AllTried == ui.running => \A i \in DOMAIN ui.queue : ui.queue[i].status # "pending"
=============================================================================
