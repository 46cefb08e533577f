----------------------------- MODULE RadioTools -----------------------------
(***************************************************************************)
(* Tools that use the radio: the mesh test and the locator.                *)
(***************************************************************************)
EXTENDS Integers, Sequences, FiniteSets, SequencesExt

CONSTANTS TestWorlds,     \* the sets of circumstances looked at
          MaxRuns,        \* floods sent
          MaxTestTurns,   \* comings and goings, refreshes, changes of the contacts, failures
          LocateWorlds,   \* the sets of circumstances looked at
          MaxLocateTurns  \* typing, going back, the directory setting, failures

VARIABLE ui

-----------------------------------------------------------------------------
(***************************************************************************)
(* The radio test page (MeshTestView.tsx, meshTest.ts): one flood is sent, *)
(* and who heard it is asked again and again for ten minutes. The run is   *)
(* kept for the tab, so that leaving the page does not lose it. A run is a *)
(* number, 0 none. Its age is 0 while it is polled often, 1 while it is    *)
(* polled at all, 2 when the ten minutes are over. The path of a run's     *)
(* packet has one hop that nobody here knows, named by the run's number.   *)
(* In the world "returns" the reader may come back to the page before a    *)
(* flood sent from it is answered.                                         *)
(***************************************************************************)
Runs == 1..MaxRuns

\* Ears: one that reports where it is, one that rounds it, one whose key, and one
\* of whom only the name, is a contact's; the last has a key no contact has, and a
\* contact's name.
Ears == {"own", "rounded", "keyed", "named", "stranger"}
Reports == {{}, {"own", "rounded"}, Ears}  \* who has heard, as the minutes pass
Contacts == {"keyed", "named", "twin"}
Km(e) == CASE e = "own" -> 1 [] e = "keyed" -> 2 [] OTHER -> 3

NoPoll == [st |-> "idle", run |-> 0]

TestInit ==
  \E w \in TestWorlds :
    ui = [world |-> w, open |-> FALSE, stored |-> 0, kept |-> 0, run |-> 0, ages |-> <<>>, sending |-> FALSE, floods |-> {},
          detail |-> 0, ears |-> {}, sealed |-> FALSE, failed |-> FALSE, poll |-> NoPoll, lookup |-> 0, hits |-> {},
          contacts |-> {"keyed", "named"}, turns |-> 0]

TestTurn(u) == [u EXCEPT !.turns = @ + 1]

\* The poll effect: what is on its way for the run before is dropped.
StartPoll(u) == [u EXCEPT !.poll = IF u.run = 0 THEN NoPoll ELSE [st |-> "asking", run |-> u.run]]

\* The hop lookup's effect, whenever the detail or the contacts are new objects.
StartLookup(u) == IF u.detail = 0 THEN [u EXCEPT !.lookup = 0, !.hits = {}] ELSE [u EXCEPT !.lookup = u.detail]

Cleared(u) == StartLookup([u EXCEPT !.detail = 0, !.ears = {}, !.sealed = FALSE, !.failed = FALSE, !.hits = {}])

\* The page opens with the run of the tab.
Open ==
  /\ ~ui.open /\ ui.turns < MaxTestTurns /\ (ui.floods # {} => "returns" \in ui.world)
  /\ ui' = StartPoll(TestTurn([ui EXCEPT !.open = TRUE, !.run = ui.stored]))

\* Another page, or Community turned off.
Leave ==
  /\ ui.open
  /\ ui' = [Cleared(ui) EXCEPT !.open = FALSE, !.run = 0, !.sending = FALSE, !.poll = NoPoll,
                               !.floods = {[f EXCEPT !.live = FALSE] : f \in @}]

\* handleRun: the window is timed from before the request.
RunTest ==
  /\ ui.open /\ ~ui.sending /\ Len(ui.ages) < MaxRuns
  /\ ui' = [ui EXCEPT !.sending = TRUE, !.ages = Append(@, 0), !.floods = @ \cup {[id |-> Len(ui.ages) + 1, live |-> TRUE]}]

\* saveMeshTestRun, whether the page is still there or not.
SaveRun(u, f) == [u EXCEPT !.stored = f.id]

\* A new run begins with nothing heard.
ShowRun(u, f) == StartPoll([Cleared(u) EXCEPT !.run = f.id, !.sending = FALSE])

FloodAnswers ==
  \E f \in ui.floods :
    LET v == SaveRun([ui EXCEPT !.floods = @ \ {f}, !.kept = f.id], f) IN
    ui' = IF f.live THEN ShowRun(v, f) ELSE v

FloodFails ==
  \E f \in ui.floods :
    /\ ui.turns < MaxTestTurns
    /\ ui' = TestTurn([ui EXCEPT !.floods = @ \ {f}, !.sending = IF f.live THEN FALSE ELSE @])

\* After an answer or a failure: another poll while there is an interval left.
PollAgain(u) == IF u.ages[u.poll.run] < 2 THEN [u EXCEPT !.poll.st = "timer"] ELSE [u EXCEPT !.poll = NoPoll]

PollAnswers ==
  \E ears \in {r \in Reports : ui.ears \subseteq r} :
    /\ ui.poll.st = "asking"
    /\ LET v == StartLookup([ui EXCEPT !.detail = ui.poll.run, !.ears = ears, !.failed = FALSE]) IN
       ui' = PollAgain(v)

\* The packet's reach is sealed, which takes ten minutes.
PollSeals ==
  /\ ui.poll.st = "asking" /\ ui.ages[ui.poll.run] = 2
  /\ ui' = [StartLookup([ui EXCEPT !.detail = ui.poll.run, !.failed = FALSE]) EXCEPT !.sealed = TRUE, !.poll = NoPoll]

PollFails ==
  /\ ui.poll.st = "asking" /\ ui.turns < MaxTestTurns
  /\ ui' = PollAgain(TestTurn([ui EXCEPT !.failed = TRUE]))

PollTimer == ui.poll.st = "timer" /\ ui' = [ui EXCEPT !.poll.st = "asking"]

\* meshTestListenState
Listening(u) == u.run # 0 /\ ~u.sealed /\ u.ages[u.run] < 2

Refresh == ui.open /\ ui.run # 0 /\ ~Listening(ui) /\ ui.turns < MaxTestTurns /\ ui' = StartPoll(TestTurn(ui))

Forget == ui.run # 0 /\ ui' = StartPoll([Cleared(ui) EXCEPT !.stored = 0, !.kept = 0, !.run = 0])

LookupAnswers == ui.lookup # 0 /\ ui' = [ui EXCEPT !.hits = {ui.lookup}, !.lookup = 0]
LookupFails == ui.lookup # 0 /\ ui.turns < MaxTestTurns /\ ui' = TestTurn([ui EXCEPT !.hits = {}, !.lookup = 0])

\* An advert comes in, or a contact goes.
ContactChanges ==
  \E c \in Contacts :
    /\ ui.open /\ ui.turns < MaxTestTurns
    /\ ui' = StartLookup(TestTurn([ui EXCEPT !.contacts = IF c \in @ THEN @ \ {c} ELSE @ \cup {c}]))

TimePasses ==
  /\ \E r \in DOMAIN ui.ages : ui.ages[r] < 2
  /\ ui' = [ui EXCEPT !.ages = [r \in DOMAIN @ |-> IF @[r] < 2 THEN @[r] + 1 ELSE 2]]

TestNext ==
  \/ Open \/ Leave \/ RunTest \/ FloodAnswers \/ FloodFails \/ PollAnswers \/ PollSeals \/ PollFails \/ PollTimer \/ Refresh
  \/ Forget \/ LookupAnswers \/ LookupFails \/ ContactChanges \/ TimePasses

-----------------------------------------------------------------------------
\* contactCoordinatesByName: the only one of that name.
ByName(u) == "named" \in u.contacts /\ "twin" \notin u.contacts

\* placedObserverCoordinates: reported, else the contact of that key, else, without
\* a key of its own, the one contact of that name.
Placed(u, e) ==
  CASE e \in {"own", "rounded"} -> "gps"
    [] e = "keyed" -> IF "keyed" \in u.contacts THEN "gps" ELSE "none"
    [] e = "named" -> IF ByName(u) THEN "byName" ELSE "none"
    [] OTHER -> "none"

\* meshTestObserverDistanceKm
HasDistance(u, e) == Placed(u, e) = "gps" /\ e # "rounded"

\* meshTestSummary's farthest ear.
Farthest(u) == LET kms == {Km(e) : e \in {e \in u.ears : HasDistance(u, e)}} IN IF kms = {} THEN 0 ELSE Max(kms)

\* The state is well formed.
TestTypeOK == ui.run \in 0..MaxRuns /\ ui.poll.st \in {"idle", "asking", "timer"} /\ ui.turns \in 0..MaxTestTurns

\* A flood that was sent is not lost: the page shows the last run the radio
\* accepted and the reader has not forgotten, however they came and went
\* meanwhile; if they do not come back before the answer (an open page does not
\* read what another instance of it stored).
RunKept == ui.open /\ "returns" \notin ui.world => ui.run = ui.kept

\* What the page reports, and the sealed flag, are of the run it shows, and the
\* hops it names are of that report, whatever was on its way for another run.
ReportBelongs ==
  /\ ui.detail # 0 => ui.detail = ui.run
  /\ ui.sealed \/ ui.ears # {} => ui.detail # 0
  /\ ui.hits \subseteq {ui.detail}

\* An ear that rounds its position, or is placed by its name only, never makes
\* the farthest distance, as contacts come and go.
FarthestIsExact == Farthest(ui) <= 2

\* The listening ends: the page stops asking, whatever fails, unless the reader
\* asks for more.
ListeningEnded == ui.poll.st = "idle"

-----------------------------------------------------------------------------
(***************************************************************************)
(* Locating a node (LocatePane.tsx, locateOverlay.ts): the reader types a  *)
(* name or a key, picks a node among contacts and directory hits, and the  *)
(* server's answer is completed with what the directory knows of the       *)
(* node's reach and of the first hops its packets took. "one" is the name  *)
(* of a contact, "A"; "net" and "web" are names only the directory knows,  *)
(* of one node and of two. In the world "hurries" the reader may submit a  *)
(* query before the directory has answered for it, in "backs" go back to   *)
(* the empty page before the server has answered.                          *)
(***************************************************************************)
Texts == {"", "one", "net", "web"}
Local(q) == IF q = "one" THEN {"A"} ELSE {}
Known(q) == IF q = "net" THEN {"N"} ELSE IF q = "web" THEN {"W", "V"} ELSE {}
Nodes == {"A", "N", "W", "V"}

\* What the server answers: a first-hop anchor and an ear for "A", nothing for the
\* other nodes, a choice for a name that is nobody's key.
Anchor(kind, key, src, prefix) == [kind |-> kind, key |-> key, src |-> src, prefix |-> prefix]
Payload(k) ==
  [of |-> k,
   anchors    |-> IF k = "A" THEN <<Anchor("ear", "E", "local", ""), Anchor("hop", "P", "local", "p4")>> ELSE <<>>,
   unresolved |-> IF k = "A" THEN {"u4", "s2"} ELSE {},
   source     |-> IF k = "A" THEN "local" ELSE "none"]
NoResult == [of |-> "", anchors |-> <<>>, unresolved |-> {}, source |-> "none"]

NoCall == [on |-> FALSE, key |-> "", base |-> NoResult]
NoSearch == [needle |-> "", asked |-> FALSE]

LocateInit ==
  \E w \in LocateWorlds, d \in BOOLEAN :
    ui = [world |-> w, dir |-> d, key |-> "", query |-> "", loading |-> FALSE, pending |-> FALSE, communityError |-> FALSE,
          error |-> FALSE, result |-> NoResult, candidates |-> {}, hits |-> {}, call |-> NoCall, search |-> NoSearch,
          apt |-> TRUE, turns |-> 0]

LocateTurn(u) == [u EXCEPT !.turns = @ + 1]

\* directorySearchActive: nobody here is called that, and the query is no key.
Searching(u) == u.dir /\ u.query \in {"net", "web"}

\* The directory search effect and the render before it: an older search is
\* aborted, what it found goes only when there is nothing to search any more.
Research(u) ==
  LET v == IF Searching(u) THEN u ELSE [u EXCEPT !.hits = {}] IN
  [v EXCEPT !.search = IF Searching(u) THEN [needle |-> u.query, asked |-> FALSE] ELSE NoSearch]
Query(u, q) == IF q = u.query THEN u ELSE Research([u EXCEPT !.query = q])

\* The render that sees another node or setting, and the effect: what was on its
\* way is dropped, and the node asked for.
Locate(u) ==
  IF u.key = ""
  THEN [u EXCEPT !.result = NoResult, !.candidates = {}, !.error = FALSE, !.pending = FALSE, !.communityError = FALSE, !.call = NoCall]
  ELSE [u EXCEPT !.loading = TRUE, !.error = FALSE, !.candidates = {}, !.pending = FALSE, !.communityError = FALSE,
                 !.call = [on |-> TRUE, key |-> u.key, base |-> NoResult]]
Select(u, k) == IF k = u.key THEN u ELSE Locate(Query([u EXCEPT !.key = k], k))

TypeText ==
  \E q \in Texts \ {ui.query} : ui.turns < MaxLocateTurns /\ ui' = Query(LocateTurn(ui), q)

\* The browser's Back, to the page without a node.
GoBack ==
  /\ ui.key # "" /\ ui.turns < MaxLocateTurns /\ (ui.loading => "backs" \in ui.world)
  /\ ui' = Select(LocateTurn(ui), "")

SetDirectory ==
  /\ ui.turns < MaxLocateTurns
  /\ ui' = Research(Locate(LocateTurn([ui EXCEPT !.dir = ~@])))

\* The 300 ms are over; the directory answers, or fails.
SearchAsks == ui.search.needle # "" /\ ~ui.search.asked /\ ui' = [ui EXCEPT !.search.asked = TRUE]
SearchAnswers == ui.search.asked /\ ui' = [ui EXCEPT !.hits = Known(ui.search.needle), !.search = NoSearch]
SearchFails == ui.search.asked /\ ui.turns < MaxLocateTurns /\ ui' = LocateTurn([ui EXCEPT !.hits = {}, !.search = NoSearch])

\* A choice of several.
Choice(u) == IF Local(u.query) # {} THEN Local(u.query) ELSE u.hits

\* What the pick is for: a node of the query typed, or the text itself.
Apt(u, k) == k = u.query \/ k \in Local(u.query) \cup Known(u.query)

\* handleSubmit: the one match is taken, several are offered, and without any the
\* text goes to the server.
Submit ==
  /\ ui.query # "" /\ ~ui.loading
  /\ ui.search.needle # "" => "hurries" \in ui.world
  /\ LET c == Choice(ui) IN
     ui' = IF Cardinality(c) > 1 THEN [ui EXCEPT !.candidates = c]
           ELSE LET k == IF c = {} THEN ui.query ELSE CHOOSE x \in c : TRUE IN
                Select([ui EXCEPT !.apt = Apt(ui, k)], k)

\* pickList
PickList(u) == IF u.candidates # {} THEN u.candidates ELSE IF u.key = "" THEN Choice(u) ELSE {}
Pick == \E k \in PickList(ui) : ui' = Select(ui, k)

-----------------------------------------------------------------------------
\* dedupeAnchors: the first of a kind, node and place.
Dedupe(s) ==
  FoldLeft(LAMBDA out, a : IF \E i \in 1..Len(out) : out[i].kind = a.kind /\ out[i].key = a.key THEN out ELSE Append(out, a), <<>>, s)

\* sourceBadge
Badge(s) ==
  LET srcs == {s[i].src : i \in 1..Len(s)} IN
  IF s = <<>> THEN "none" ELSE IF srcs = {"local"} THEN "local" ELSE IF srcs = {"community"} THEN "community" ELSE "mixed"

Finished(r, anchors, unresolved) ==
  [r EXCEPT !.anchors = Dedupe(anchors), !.unresolved = unresolved, !.source = Badge(Dedupe(anchors))]

\* What the directory knows of a node's reach: an ear, a first hop that is an ear
\* too, another one, and one it cannot place.
Reach == [ears |-> {"D"}, hops |-> {"E", "Q"}, unresolved |-> {"u4", "v4"}]

\* mergeReachOverlay: an ear is not also a first hop.
MergeReach(r) ==
  LET extra == SetToSeq({Anchor("ear", k, "community", "") : k \in Reach.ears})
      ears  == {a.key : a \in {a \in Range(r.anchors \o extra) : a.kind = "ear"}}
      hops  == SetToSeq({Anchor("hop", k, "community", "q4") : k \in Reach.hops \ ears}) IN
  Finished(r, r.anchors \o extra \o hops, r.unresolved \cup Reach.unresolved)

\* firstHopPrefixes: hops of two or three bytes.
Prefixes4(r) ==
  (r.unresolved \cap {"u4", "v4"}) \cup {a.prefix : a \in {a \in Range(r.anchors) : a.kind = "hop" /\ a.prefix \in {"p4", "q4"}}}

\* applyHopOverlay: an asked hop stands where the directory says, or is unresolved.
ApplyHops(r, asked, hits) ==
  LET kept  == SelectSeq(r.anchors, LAMBDA a : a.kind # "hop" \/ a.prefix \notin asked)
      gone  == {a.prefix : a \in {a \in Range(r.anchors) : a.kind = "hop" /\ a.prefix \in asked}}
      found == {p \in hits : p \in r.unresolved \cup gone} IN
  Finished(r, kept \o SetToSeq({Anchor("hop", p, "community", p) : p \in found}), (r.unresolved \cup gone) \ hits)

-----------------------------------------------------------------------------
\* The server's answer is shown at once; the community is asked if there is a node.
Shown(u) ==
  LET r == Payload(u.call.key) IN
  [u EXCEPT !.result = r, !.loading = FALSE,
            !.pending = u.dir, !.call = IF u.dir THEN [@ EXCEPT !.base = r] ELSE NoCall]

LocateAnswers == ui.call.on /\ ui.call.base.of = "" /\ ui.call.key \in Nodes /\ ui' = Shown(ui)

\* 409: the text is several nodes' name.
LocateAmbiguous ==
  /\ ui.call.on /\ ui.call.base.of = "" /\ ui.call.key \notin Nodes
  /\ ui' = [ui EXCEPT !.loading = FALSE, !.result = NoResult, !.candidates = {"N", "W"}, !.call = NoCall]

LocateFailed(u) == [u EXCEPT !.loading = FALSE, !.result = NoResult, !.error = TRUE, !.call = NoCall]
LocateFails == ui.call.on /\ ui.call.base.of = "" /\ ui.turns < MaxLocateTurns /\ ui' = LocateFailed(LocateTurn(ui))

\* Reach and hops are asked together; each may fail, and counts as nothing.
Overlay(r, reach, hops, hits) ==
  LET m == IF reach THEN MergeReach(r) ELSE r IN
  IF hops THEN ApplyHops(m, Prefixes4(r), hits) ELSE m

CommunityAnswers ==
  \E reach, hops \in BOOLEAN, hits \in SUBSET {"p4", "u4"} :
    /\ ui.call.base.of # ""
    /\ (~hops => hits = {}) /\ (hops => Prefixes4(ui.call.base) # {}) /\ hits \subseteq Prefixes4(ui.call.base)
    /\ ui' = [ui EXCEPT !.result = Overlay(ui.call.base, reach, hops, hits), !.pending = FALSE,
                        !.communityError = ~reach /\ ~hops, !.call = NoCall]

LocateNext ==
  \/ TypeText \/ GoBack \/ SetDirectory \/ SearchAsks \/ SearchAnswers \/ SearchFails \/ Submit \/ Pick \/ LocateAnswers
  \/ LocateAmbiguous \/ LocateFails \/ CommunityAnswers

-----------------------------------------------------------------------------
\* The state is well formed.
LocateTypeOK == ui.key \in Texts \cup Nodes /\ ui.query \in Texts \cup Nodes /\ ui.turns \in 0..MaxLocateTurns

\* The page shows, once it has loaded, what was found of the node it is about,
\* whatever was on its way when the reader chose another.
ResultBelongs ==
  /\ ~ui.loading /\ ui.result.of # "" => ui.result.of = ui.key
  /\ ui.pending => ui.call.base = ui.result

\* No hop is lost on the way: each hop the server named, first hop of a packet or
\* hop it could not place, is an anchor or an unplaced hop of what is shown, and an
\* ear stays an ear, whatever the directory knows and fails to answer. The badge
\* says whose anchors they are, and no node is an anchor of one kind twice.
NoHopLost ==
  LET r == ui.result
      a == Range(r.anchors) IN
  r.of = "A" =>
    /\ {"p4", "u4", "s2"} \subseteq r.unresolved \cup {x.prefix : x \in a}
    /\ \E x \in a : x.key = "E" /\ x.kind = "ear"
    /\ r.source = Badge(r.anchors)
    /\ \A i, j \in 1..Len(r.anchors) : r.anchors[i].key = r.anchors[j].key => i = j

\* Submitting takes a node of what is typed, or the text itself, if the reader
\* waits for the directory's answer (until then the hits of the text before stand).
SubmitTakesTyped == "hurries" \notin ui.world => ui.apt

\* The page stops loading and waiting for the community, whatever fails, if the
\* reader does not go back while it loads.
LocateSettled == "backs" \notin ui.world => ~ui.loading /\ ~ui.pending
=============================================================================
