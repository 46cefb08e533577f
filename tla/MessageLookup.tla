---------------------------- MODULE MessageLookup ---------------------------
(***************************************************************************)
(* Looking messages up: the search, and the observers that heard one.      *)
(***************************************************************************)
EXTENDS Integers, Sequences, FiniteSets, SequencesExt

CONSTANTS SearchWorlds,   \* the sets of circumstances looked at
          PageSize,       \* SEARCH_PAGE_SIZE
          MaxMessages,    \* messages that match the first query
          MaxSearchTurns, \* changes of the query or the block list, failed requests
          ReachWorlds,    \* the sets of circumstances looked at
          MaxReachTurns   \* scrolling, leaving the conversation, the setting, failed requests

VARIABLE ui

-----------------------------------------------------------------------------
(***************************************************************************)
(* The search page (SearchView.tsx): a query is searched once the reader   *)
(* pauses, older pages are added on demand, and what is on its way for an  *)
(* older query is aborted. An aborted request answers at once, with its    *)
(* `finally`. A result carries the query and the version of the block list *)
(* it was asked with, and its number: the higher, the newer. In the world  *)
(* "clears" the reader may empty the query while an older page is on its   *)
(* way.                                                                    *)
(***************************************************************************)
Queries == {"", "tea", "oak"}
Idle == [on |-> FALSE, q |-> "", ver |-> 0, more |-> FALSE, offset |-> 0]

SearchInit ==
  \E w \in SearchWorlds :
    ui = [world |-> w, query |-> "", timer |-> FALSE, debounced |-> "", version |-> 0, results |-> <<>>, loading |-> FALSE,
          hasMore |-> FALSE, offset |-> 0, call |-> Idle, held |-> PageSize + 1, turns |-> 0]

SearchTurn(u) == [u EXCEPT !.turns = @ + 1]

\* api.getMessages: the matches, newest first, from an offset. One message matches
\* the other query.
Held(u, q) == IF q = "tea" THEN u.held ELSE 1
Page(u, c) ==
  LET top == Held(u, c.q) - c.offset
      n   == IF top < PageSize THEN IF top < 0 THEN 0 ELSE top ELSE PageSize IN
  [i \in 1..n |-> [q |-> c.q, ver |-> c.ver, id |-> top - i + 1]]

\* The results of before are kept until the new ones come.
ResetKept(u) == [u EXCEPT !.offset = 0, !.hasMore = FALSE, !.loading = IF u.debounced # "" THEN TRUE ELSE @]

\* The render that sees another query or block list empties the page.
Reset(u) == [u EXCEPT !.results = <<>>, !.offset = 0, !.hasMore = FALSE, !.loading = IF u.debounced # "" THEN TRUE ELSE @]

\* An aborted request rejects, and its finally says that nothing is loading.
Abort(u) == IF u.call.on THEN [u EXCEPT !.call = Idle, !.loading = FALSE] ELSE u

\* The effect's cleanup aborts the search of before, not an older page.
AbortFirst(u) == IF u.call.more THEN u ELSE Abort(u)

Ask(u, more) ==
  [u EXCEPT !.call = [on |-> TRUE, q |-> u.debounced, ver |-> u.version, more |-> more, offset |-> IF more THEN u.offset ELSE 0]]

\* The effect on the searched query and the block list.
Search(u) ==
  LET v == AbortFirst(Reset(u)) IN
  IF u.debounced = "" THEN v ELSE Ask(Abort(v), FALSE)

\* Without the pause of a timer there is nothing to clear.
Settle(u, q) == IF q = u.debounced THEN u ELSE Search([u EXCEPT !.debounced = q])

MayClear(u, q) == q = "" /\ u.call.more => "clears" \in u.world

TypeQuery ==
  \E q \in Queries \ {ui.query} :
    /\ ui.turns < MaxSearchTurns
    /\ ui' = SearchTurn([ui EXCEPT !.query = q, !.timer = TRUE])

\* The timer of the last keystroke runs out.
SearchDebounce ==
  /\ ui.timer /\ MayClear(ui, ui.query)
  /\ ui' = Settle([ui EXCEPT !.timer = FALSE], ui.query)

\* Another view asks for a query: no pause.
Prefill ==
  \E q \in Queries \ {""} :
    /\ ui.turns < MaxSearchTurns
    /\ ui' = Settle(SearchTurn([ui EXCEPT !.query = q, !.timer = ui.timer \/ ui.query # q]), q)

\* visibilityVersion: somebody was blocked or unblocked.
BlockListChanges == ui.turns < MaxSearchTurns /\ ui.version = 0 /\ ui' = Search(SearchTurn([ui EXCEPT !.version = 1]))

\* A message that matches is received meanwhile.
MessageArrives == ui.held < MaxMessages /\ ui' = [ui EXCEPT !.held = @ + 1]

\* loadMore, offered while there is more and nothing is loading.
LoadMoreOf(u) == Ask([Abort(u) EXCEPT !.loading = TRUE], TRUE)
LoadMore ==
  /\ ui.hasMore /\ ~ui.loading /\ ui.debounced # ""
  /\ ui' = LoadMoreOf(ui)

FirstPage(u, data) == [u EXCEPT !.results = data, !.hasMore = Len(data) >= PageSize, !.offset = Len(data)]

\* An older page: what is shown already is left out, and counts for the offset.
NextPage(u, data) ==
  LET unique == SelectSeq(data, LAMBDA r : r.id \notin {x.id : x \in Range(u.results)}) IN
  [u EXCEPT !.results = @ \o unique, !.hasMore = Len(data) >= PageSize, !.offset = @ + Len(data)]

Answered(u) ==
  LET v == [u EXCEPT !.call = Idle, !.loading = FALSE] IN
  IF u.call.more THEN NextPage(v, Page(u, u.call)) ELSE FirstPage(v, Page(u, u.call))

SearchAnswers == ui.call.on /\ ui' = Answered(ui)

\* A failed request is only logged.
SearchFailed(u) == [u EXCEPT !.call = Idle, !.loading = FALSE]
SearchFails == ui.call.on /\ ui.turns < MaxSearchTurns /\ ui' = SearchFailed(SearchTurn(ui))

SearchNext ==
  \/ TypeQuery \/ SearchDebounce \/ Prefill \/ BlockListChanges \/ MessageArrives \/ LoadMore \/ SearchAnswers \/ SearchFails

-----------------------------------------------------------------------------
\* The state is well formed.
SearchTypeOK == ui.query \in Queries /\ ui.debounced \in Queries /\ ui.turns \in 0..MaxSearchTurns /\ ui.offset \in 0..(2 * MaxMessages)

\* What is listed was asked for with the query and the block list that stand
\* now, whatever was on its way when they changed; unless the query was emptied
\* while an older page was on its way, which the effect does not abort.
ResultsBelong ==
  "clears" \notin ui.world => \A r \in Range(ui.results) : r.q = ui.debounced /\ r.ver = ui.version

\* The pages join: no message between two listed ones is missing or listed twice,
\* and at the end of the list none older is missing, though messages arrive
\* between two pages and shift the offsets.
PagesJoin ==
  LET ids == {r.id : r \in Range(ui.results)} IN
  /\ Cardinality(ids) = Len(ui.results)
  /\ ui.debounced # "" =>
       /\ \A a, b \in ids : a..b \subseteq ids
       /\ ids # {} /\ ~ui.hasMore => 1 \in ids

\* The page comes to rest on the query in the field, with nothing on its way and
\* no sign of loading, though requests fail or are aborted.
SearchSettled == ui.debounced = ui.query /\ ~ui.call.on /\ ~ui.loading

-----------------------------------------------------------------------------
(***************************************************************************)
(* How many observers heard a message (useVisibleObserverReach.ts and      *)
(* observerReach.ts): the counts of the messages on screen are asked for   *)
(* after a pause, again and again while the message is young, less often   *)
(* later, and never once the count is sealed; drops of the live rain add   *)
(* to them. One effect owns the pause, the request and the next wake-up,   *)
(* and starts anew whenever what is on screen changes. The conversation    *)
(* holds two messages, the first older than the second. A tick is the poll *)
(* interval of a young message. In the world "slow" an answer may take     *)
(* longer than a tick.                                                     *)
(***************************************************************************)
Hashes == {"h1", "h2"}
Never == 3          \* no request was answered yet
Unheard == -2
ReachFailed == -1
MaxFailures == 2
MaxCount == 2

Entry == [state |-> Unheard, sealed |-> FALSE, failures |-> 0]

ReachInit ==
  \E w \in ReachWorlds :
    ui = [world |-> w, on |-> TRUE, visible |-> Hashes, age |-> 0, cache |-> [h \in Hashes |-> Entry],
          since |-> [h \in Hashes |-> Never], seen |-> {}, counts |-> [h \in Hashes |-> Unheard], timer |-> TRUE, wake |-> Unheard,
          asked |-> {}, turns |-> 0]

ReachTurn(u) == [u EXCEPT !.turns = @ + 1]

\* 0 a young message, 1 a message of the last minutes, 2 an older one.
Stage(u, h) == IF h = "h1" THEN u.age ELSE IF u.age = 0 THEN 0 ELSE u.age - 1

\* retryBackoffMs: doubled with every answer that is not the last, to a limit.
Backoff(failures) == IF failures < MaxFailures THEN 1 ELSE 2

\* observerReachPollIntervalMs, or the backoff.
Interval(u, h) ==
  IF Stage(u, h) = 0 THEN 1 ELSE IF Stage(u, h) = 1 THEN 2 ELSE Backoff(u.cache[h].failures)

Due(u, h) == ~u.cache[h].sealed /\ (u.since[h] = Never \/ u.since[h] >= Interval(u, h))

\* The effect's cleanup: what is on its way is not applied, the timers stop.
Cancel(u) == [u EXCEPT !.asked = {}, !.wake = Unheard, !.timer = FALSE]

\* The effect starts: 250 ms later it looks at what is on screen.
Start(u) == IF u.on /\ u.visible # {} THEN [Cancel(u) EXCEPT !.timer = TRUE] ELSE Cancel(u)

\* nextWakeMs: a wait that is over is not considered.
Waits(u) ==
  {IF u.since[h] = Never THEN 0 ELSE Interval(u, h) - u.since[h] : h \in {h \in u.visible : ~u.cache[h].sealed /\
     (u.since[h] = Never \/ Interval(u, h) > u.since[h])}}
NextWake(u) == CHOOSE w \in Waits(u) : \A x \in Waits(u) : w <= x

\* scheduleWake
ScheduleWake(u) == IF Waits(u) = {} THEN u ELSE [u EXCEPT !.wake = NextWake(u)]

\* What is known is shown, due or not.
FromCache(u) ==
  [u EXCEPT !.counts = [h \in Hashes |-> IF h \in u.visible /\ u.cache[h].state # Unheard THEN u.cache[h].state ELSE @[h]]]

\* The pause is over.
ReachDebounce ==
  /\ ui.timer
  /\ LET v == FromCache([ui EXCEPT !.timer = FALSE])
         due == {h \in v.visible : Due(v, h)} IN
     ui' = IF due = {} THEN ScheduleWake(v) ELSE [v EXCEPT !.asked = due]

\* The wake-up: delayTick starts the effect anew.
WakeUp == ui.wake = 0 /\ ui' = Start(ui)

Apply(u, h, state, final) ==
  [u EXCEPT !.cache[h] = [state |-> state, sealed |-> final,
                          failures |-> IF final THEN 0 ELSE IF u.cache[h].failures < MaxFailures THEN u.cache[h].failures + 1 ELSE MaxFailures],
            !.since[h] = 0, !.counts[h] = state]

ApplyAll(u, hs, state, sealed) ==
  FoldSet(LAMBDA h, v : Apply(v, h, state, h \in sealed /\ state # ReachFailed), u, hs)

\* finally schedules the next wake-up, after an answer and after a failure.
Answer(u, state, sealed) == ScheduleWake([ApplyAll(u, u.asked, state, sealed) EXCEPT !.asked = {}])

\* The older a message, the sooner the server seals its count.
ReachAnswers ==
  \E sealed \in SUBSET {h \in ui.asked : Stage(ui, h) > 0} : ui.asked # {} /\ ui' = Answer(ui, 1, sealed)

\* The request fails, or the directory says that it is disabled.
ReachFails == ui.asked # {} /\ ui.turns < MaxReachTurns /\ ui' = Answer(ReachTurn(ui), ReachFailed, {})

\* noteSeenEar and bumpVisibleCount.
Bump(u, h) ==
  LET n == IF u.cache[h].state >= 0 THEN IF u.cache[h].state < MaxCount THEN u.cache[h].state + 1 ELSE MaxCount ELSE 1 IN
  [u EXCEPT !.seen = @ \cup {h}, !.cache[h].state = n, !.counts[h] = n]

\* A drop of the rain, of an ear not counted before, for a young message on screen.
EarHears ==
  \E h \in ui.visible \ ui.seen : ui.on /\ Stage(ui, h) = 0 /\ ui' = Bump(ui, h)

\* The list scrolls, or the reader leaves the conversation and comes back: the
\* list of messages is another, and the counts shown start empty with it.
Scroll ==
  \E set \in SUBSET Hashes : set # ui.visible /\ ui.turns < MaxReachTurns /\ ui' = Start(ReachTurn([ui EXCEPT !.visible = set]))
Reopen ==
  ui.turns < MaxReachTurns /\ ui' = Start(ReachTurn([ui EXCEPT !.visible = Hashes, !.counts = [h \in Hashes |-> Unheard]]))

SetDirectory == ui.turns < MaxReachTurns /\ ui' = Start(ReachTurn([ui EXCEPT !.on = ~@]))

\* Time passes. A pause and a wake-up are not missed.
Tick ==
  /\ ~ui.timer /\ ui.wake # 0 /\ (ui.asked # {} => "slow" \in ui.world)
  /\ ui' = [ui EXCEPT !.since = [h \in Hashes |-> IF @[h] < 2 THEN @[h] + 1 ELSE @[h]],
                      !.wake = IF @ > 0 THEN @ - 1 ELSE @]

Age == ui.age < 3 /\ (ui.asked # {} => "slow" \in ui.world) /\ ui' = [ui EXCEPT !.age = @ + 1]

ReachNext ==
  ReachDebounce \/ WakeUp \/ ReachAnswers \/ ReachFails \/ EarHears \/ Scroll \/ Reopen \/ SetDirectory \/ Tick \/ Age

-----------------------------------------------------------------------------
\* The state is well formed.
ReachTypeOK == ui.visible \subseteq Hashes /\ ui.wake \in {Unheard, 0, 1, 2} /\ \A h \in Hashes : ui.counts[h] \in Unheard..MaxCount

\* Once the pause is over, what stands beside a message on screen is what is
\* known of it, through drops of the rain, answers, failures and scrolling, and
\* when the conversation is opened again.
ShownIsKnown ==
  ui.on /\ ~ui.timer => \A h \in ui.visible : ui.cache[h].state # Unheard => ui.counts[h] = ui.cache[h].state

\* A count the server has sealed is not asked for again, and not lost to an
\* answer that fails later.
SealedIsFinal ==
  \A h \in Hashes : ui.cache[h].sealed => h \notin ui.asked /\ ui.cache[h].state >= 0

\* A message that stays on screen with the directory on is asked for again and
\* again until its count is sealed, though requests fail; if answers come within
\* the shortest interval (a wait that ends while another's answer is on its way
\* is passed over by nextWakeMs).
Polled(h) ==
  h \in ui.visible /\ ui.on /\ "slow" \notin ui.world => h \in ui.asked \/ ui.cache[h].sealed
=============================================================================
