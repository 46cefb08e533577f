------------------------------ MODULE LivePage ------------------------------
(***************************************************************************)
(* The live page: its relay session, and what its map is framed on.        *)
(***************************************************************************)
EXTENDS Integers, FiniteSets

CONSTANTS SessionWorlds,
          MaxTurns,      \* openings, closings and choices
          MaxBeats,      \* heartbeats on their way at once
          MaxChoices     \* choices of regions and turns of Community

VARIABLE ui

-----------------------------------------------------------------------------
(***************************************************************************)
(* The session the live page keeps with the relay (LiveView.tsx): opened   *)
(* with the page or with Community, kept alive by a heartbeat that carries *)
(* the chosen regions, closed on leaving.  The relay (community_live.py)   *)
(* forgets a session it has not heard from, or when it restarts, and       *)
(* answers a heartbeat of an unknown session with a new one.               *)
(* Circumstances: "forgets" (the relay forgets a session in use),          *)
(* "hurries" (the page is left while a heartbeat is on its way).           *)
(***************************************************************************)
Selections == {"A", "B"}
Ids == 1..8

SessionInit ==
  \E w \in SessionWorlds :
    ui = [world |-> w, open |-> FALSE, ready |-> TRUE, sel |-> "A", session |-> 0, relay |-> {}, wire |-> {},
          turns |-> 0, forgets |-> 0, risk |-> 0]

-----------------------------------------------------------------------------
(* Requests *)

Beats(u) == {m \in u.wire : m.op = "beat"}

\* subscribeCommunityLive, with or without a session, and unsubscribeCommunityLive;
\* n tells two equal requests apart.
Send(u, op, id, sel) ==
  [u EXCEPT !.wire = @ \cup {[op |-> op, id |-> id, sel |-> sel, mine |-> TRUE, got |-> 0,
                             n |-> CHOOSE k \in 1..3 : \A m \in u.wire : m.op = op => m.n # k]}]

\* The effect of the page: it asks for a session while Community is on.
Subscribe(u) == IF u.open /\ u.ready THEN Send(u, "sub", 0, u.sel) ELSE u

\* Its cleanup: the session is closed, a request still on its way is marked.
Unsubscribe(u) ==
  LET marked == {[m EXCEPT !.mine = FALSE] : m \in {x \in u.wire : x.op = "sub"}}
      v      == [u EXCEPT !.wire = {m \in @ : m.op # "sub"} \cup marked, !.session = 0, !.risk = @ + Cardinality(Beats(u))] IN
  IF u.session = 0 THEN v ELSE Send(v, "unsub", u.session, "none")

\* refreshLiveSession: nothing to refresh before the session is known.
Refresh(u) == IF u.session = 0 THEN u ELSE Send(u, "beat", u.session, u.sel)

-----------------------------------------------------------------------------
(* The page *)

Turn == ui.turns < MaxTurns /\ Cardinality({m \in ui.wire : m.op # "beat"}) < 2

Open == /\ ~ui.open /\ Turn
        /\ ui' = Subscribe([ui EXCEPT !.open = TRUE, !.turns = @ + 1])

Leave == /\ ui.open /\ Turn
         /\ Beats(ui) # {} => "hurries" \in ui.world
         /\ ui' = Unsubscribe([ui EXCEPT !.open = FALSE, !.turns = @ + 1])

\* Community turned on or off: the cleanup, then the effect.
ToggleCommunity ==
  /\ ui.open /\ Turn
  /\ Beats(ui) # {} => "hurries" \in ui.world
  /\ ui' = Subscribe([Unsubscribe(ui) EXCEPT !.ready = ~@, !.turns = @ + 1])

\* changeIataSelection: the choice reaches the relay at once.
SessionChooseRegions ==
  /\ ui.open /\ Turn /\ Cardinality(Beats(ui)) < MaxBeats
  /\ ui' = Refresh([ui EXCEPT !.sel = CHOOSE s \in Selections : s # @, !.turns = @ + 1])

\* Every 30 seconds.
Beat == /\ ui.open /\ ui.ready /\ ui.session # 0 /\ Beats(ui) = {}
        /\ ui' = Refresh(ui)

-----------------------------------------------------------------------------
(* The relay *)

Known(u, id) == \E s \in u.relay : s.id = id

FreshId(u) ==
  CHOOSE i \in Ids : ~Known(u, i) /\ i # u.session /\ \A m \in u.wire : i \notin {m.id, m.got}

\* CommunityLiveRelay.subscribe: a known session is refreshed, any other is new.
Served(u, m) ==
  LET id == IF m.op = "beat" /\ Known(u, m.id) THEN m.id ELSE FreshId(u) IN
  [u EXCEPT !.relay = {s \in @ : s.id # id} \cup {[id |-> id, sel |-> m.sel]},
            !.wire = (@ \ {m}) \cup {[m EXCEPT !.got = id]}]

RelaySubscribes == \E m \in ui.wire : m.op # "unsub" /\ m.got = 0 /\ ui' = Served(ui, m)

RelayUnsubscribes ==
  \E m \in ui.wire :
    /\ m.op = "unsub"
    /\ ui' = [ui EXCEPT !.relay = {s \in @ : s.id # m.id}, !.wire = @ \ {m}]

\* No heartbeat for the session's time to live, or a restart.
RelayForgets ==
  /\ "forgets" \in ui.world /\ ui.forgets = 0
  /\ \E s \in ui.relay : ui' = [ui EXCEPT !.relay = @ \ {s}, !.forgets = 1, !.risk = @ + MaxBeats - 1]

-----------------------------------------------------------------------------
(* The answers *)

\* A session for a page that is gone is closed again.
SubscribeAnswer(u, m) ==
  LET v == [u EXCEPT !.wire = @ \ {m}] IN
  IF ~m.mine THEN Send(v, "unsub", m.got, "none") ELSE [v EXCEPT !.session = m.got]

\* "answers with a new id: keep it", unless the session is another by now.
BeatAnswer(u, m) ==
  LET v == [u EXCEPT !.wire = @ \ {m}] IN
  IF u.session = m.id THEN [v EXCEPT !.session = m.got] ELSE v

Subscribed == \E m \in ui.wire :
  /\ m.op = "sub" /\ m.got # 0 /\ Cardinality({x \in ui.wire : x.op = "unsub"}) < 3
  /\ ui' = SubscribeAnswer(ui, m)

Refreshed == \E m \in ui.wire : m.op = "beat" /\ m.got # 0 /\ ui' = BeatAnswer(ui, m)

SessionNext ==
  \/ Open \/ Leave \/ ToggleCommunity \/ SessionChooseRegions \/ Beat
  \/ RelaySubscribes \/ RelayUnsubscribes \/ RelayForgets \/ Subscribed \/ Refreshed

-----------------------------------------------------------------------------
\* The state is well formed.
SessionTypeOK ==
  /\ ui.open \in BOOLEAN /\ ui.ready \in BOOLEAN /\ ui.sel \in Selections
  /\ ui.session \in Ids \cup {0} /\ ui.relay \subseteq [id : Ids, sel : Selections \cup {"none"}]
  /\ Cardinality(Beats(ui)) <= MaxBeats

\* Leaving the page, or turning Community off, closes the session, also one
\* the relay only then hands out: once everything is answered the relay has no
\* session left of this tab.
LeftMeansGone ==
  ui.risk = 0 /\ ui.wire = {} /\ ~(ui.open /\ ui.ready) => ui.relay = {}

Strays == {s \in ui.relay : s.id # ui.session /\ \A m \in ui.wire : s.id \notin {m.id, m.got}}

\* "keep it, or every beat would mint one more session that lingers until its
\* TTL": a relay that forgot the session does not make a session of every beat;
\* one lingers only for a beat that was on its way together with another, or
\* with the leaving.
StraysBounded == Cardinality(Strays) <= ui.risk

\* "The heartbeat carries the regions too, so the relay's union stays right":
\* also for a choice made before the session was known, or that the relay saw
\* in another order, the relay ends up with the regions the page shows.
RegionsSettled ==
  ui.session # 0 => \E s \in ui.relay : s.id = ui.session /\ s.sel = ui.sel

\* A page that stays open gets its session, whatever was turned on and off
\* before, and has it again after the relay forgot it.
SessionStands ==
  ui.open /\ ui.ready => ui.session # 0 /\ Known(ui, ui.session)

-----------------------------------------------------------------------------
(***************************************************************************)
(* What the live map shows before any packet: the pins, from three sources *)
(* that come and go on their own (the contacts, the directory's poll, the  *)
(* nodes heard), and the arrival framing of the chosen regions, which must *)
(* wait for their airports, and for nodes, without taking the map from a   *)
(* reader who moved it (LiveView.tsx, liveMap.ts, liveRender.ts,           *)
(* liveRegionCenters.ts). One node stands for all.  "off" is no pin;       *)
(* otherwise a pin is where the contacts ("local"), the directory or the   *)
(* heard packets have it.                                                  *)
(***************************************************************************)
Choices == {"A", "B", "all"}

\* liveFitPoints, when the focus is decided and there are nodes.
Fits(u) == u.focus.kind # "pending" /\ u.pin # "off"

\* maybeFitNodes: once, and not after the reader moved the map.
MaybeFit(u) ==
  IF u.fitted \/ u.moved \/ ~Fits(u) THEN u ELSE [u EXCEPT !.fitted = TRUE, !.frame = u.focus]

\* setCameraFocus
SetFocus(u, focus, reframe) ==
  MaybeFit([u EXCEPT !.focus = focus, !.moved = @ /\ ~reframe, !.fitted = @ /\ ~reframe])

\* The regions to frame; they are Community's.
Wanted(u) == IF u.enabled THEN u.sel ELSE "all"

\* The effect on a choice, or on Community: "all" at once, regions when their
\* airports are known; what was being looked up is not wanted any more.
FrameChoice(u) ==
  LET v == [u EXCEPT !.lookups = {[sel |-> l.sel, mine |-> FALSE] : l \in @}] IN
  IF Wanted(u) = "all" THEN SetFocus(v, [kind |-> "all", sel |-> "all"], TRUE)
  ELSE [SetFocus(v, [kind |-> "pending", sel |-> u.sel], TRUE) EXCEPT !.lookups = @ \cup {[sel |-> u.sel, mine |-> TRUE]}]

CanvasInit ==
  \E c \in Choices, e \in BOOLEAN :
    ui = FrameChoice([contact |-> "none", directory |-> FALSE, heard |-> FALSE, seen |-> FALSE, tomb |-> FALSE, pin |-> "off",
                      sel |-> c, enabled |-> e, focus |-> [kind |-> "all", sel |-> "all"], frame |-> [kind |-> "none", sel |-> "all"],
                      moved |-> FALSE, fitted |-> FALSE, lookups |-> {}, turns |-> 0])

-----------------------------------------------------------------------------
(* The pins *)

\* localContactsToMapNodes: neither without position nor blocked.
Local(u) == u.contact = "placed"

\* mergeLocalOverDirectory: the heard over the directory, the contacts over
\* both; a contact that was there and is not any more hides the others.
Merge(u, directory, heard, tomb) ==
  IF Local(u) THEN "local" ELSE IF tomb THEN "off" ELSE IF heard THEN "heard" ELSE IF directory THEN "directory" ELSE "off"

\* publishPins, then setDirectoryNodes
PublishPins(u, directory, heard) ==
  LET seen == u.seen \/ Local(u)
      tomb == seen /\ ~Local(u) IN
  MaybeFit([u EXCEPT !.seen = seen, !.tomb = tomb, !.pin = Merge(u, directory, heard, tomb)])

\* A contact comes, goes, moves off the map or is blocked.
ContactChanges ==
  \E c \in {"none", "placed", "blocked"} :
    /\ c # ui.contact
    /\ ui' = PublishPins([ui EXCEPT !.contact = c], ui.directory, ui.heard)

\* considerHeardPin, heardDirectoryPins: the node is named with certainty in a
\* packet of the window, or no longer is.
HeardChanges == ui' = PublishPins([ui EXCEPT !.heard = ~@], ui.directory, ~ui.heard)

\* The poll of the directory: its nodes, none when it fails.
DirectoryAnswer(u, listed) == PublishPins([u EXCEPT !.directory = listed], listed, u.heard)

DirectoryArrives == \E listed \in BOOLEAN : ui' = DirectoryAnswer(ui, listed)

-----------------------------------------------------------------------------
(* The camera *)

CanvasChooseRegions ==
  \E c \in Choices :
    /\ c # ui.sel /\ ui.turns < MaxChoices
    /\ ui' = FrameChoice([ui EXCEPT !.sel = c, !.turns = @ + 1])

TurnCommunity ==
  /\ ui.turns < MaxChoices
  /\ ui' = FrameChoice([ui EXCEPT !.enabled = ~@, !.turns = @ + 1])

\* locateLiveRegions: the airports, or nothing.
Located(u, l, found) ==
  LET v == [u EXCEPT !.lookups = @ \ {l}] IN
  IF ~l.mine THEN v ELSE SetFocus(v, [kind |-> IF found THEN "regions" ELSE "all", sel |-> l.sel], FALSE)

LookupAnswers == \E l \in ui.lookups, found \in BOOLEAN : ui' = Located(ui, l, found)

\* Only the reader's own moves count.
MoveMap == ui' = [ui EXCEPT !.moved = TRUE]

CanvasNext ==
  \/ ContactChanges \/ HeardChanges \/ DirectoryArrives
  \/ CanvasChooseRegions \/ TurnCommunity \/ LookupAnswers \/ MoveMap

-----------------------------------------------------------------------------
\* The state is well formed.
CanvasTypeOK ==
  /\ ui.contact \in {"none", "placed", "blocked"} /\ ui.pin \in {"off", "local", "heard", "directory"}
  /\ ui.focus.kind \in {"all", "pending", "regions"} /\ ui.frame.kind \in {"none", "all", "regions"}

\* "whichever lands second applies the nodes, so the payload is never dropped":
\* whatever came last, the pin is the contact's when there is one, none when
\* the contact was there and was removed or blocked, and otherwise where it was
\* heard or, failing that, where the directory has it.
PinsCurrent ==
  ui.pin = IF ui.contact = "placed" THEN "local"
           ELSE IF ui.seen THEN "off"
           ELSE IF ui.heard THEN "heard" ELSE IF ui.directory THEN "directory" ELSE "off"

\* The map is framed for the regions chosen now: never for those of an earlier
\* choice whose airports were found late, nor for regions once Community is off.
FrameIsChoice == ui.fitted => ui.frame.sel = Wanted(ui)

\* A reader who moved the map keeps their view until they choose again.
MovedIsKept ==
  ui.moved /\ ui'.frame # ui.frame => ui'.turns # ui.turns

\* A map with nodes that nobody moved is framed in the end, also when the
\* airports are not found.
Framed == ui.pin # "off" /\ ~ui.moved => ui.fitted
=============================================================================
