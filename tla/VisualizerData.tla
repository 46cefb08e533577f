--------------------------- MODULE VisualizerData ---------------------------
(***************************************************************************)
(* What the packet visualizer draws: the graph, and the packets waiting    *)
(* for copies.                                                             *)
(***************************************************************************)
EXTENDS Integers, Sequences, FiniteSets, SequencesExt

CONSTANTS MaxArrivals,   \* packets heard
          MaxWindow,     \* packets the store keeps
          MaxProcessed,  \* observation keys remembered before they are cut to MaxWindow
          MaxTime,       \* ticks of the clock
          MaxTurns,      \* settings changed, contacts changed, resets
          PendingWorlds, \* "late": a timer may fire after its time
          MaxHeard,      \* observations
          Window,        \* observationWindowSec, in ticks
          MaxPending,    \* entries before the oldest are dropped
          MaxResets      \* resets, and the document hidden or shown

VARIABLE ui

-----------------------------------------------------------------------------
(***************************************************************************)
(* The packet visualizer's graph (packetNetworkGraph.ts,                   *)
(* visualizerUtils.ts and the hook useVisualizerData3D.ts): packets are    *)
(* resolved to nodes, hop by hop, into a graph that is mutated in place,   *)
(* pruned every second, emptied when a setting changes how hops resolve,   *)
(* and projected for the scene under what the reader wants to see. A node  *)
(* is <<kind, name, next>>: a known key, a sender's name, or a hop that    *)
(* could be several, possibly split by where it sends to.                  *)
(***************************************************************************)
Self == <<"self", "", "">>
Key(c) == <<"key", c, "">>
Hop(t, next) == <<"hop", t, next>>

\* MIN_OBSERVATIONS_TO_SPLIT sources per next hop, pruneStaleMinutes.
MinToSplit == 1
StaleAfter == 1

\* The contacts, by key, with the hop token they are known by.
Contacts(u) ==
  {[id |-> "r1", type |-> "repeater", token |-> "p"], [id |-> "r2", type |-> "repeater", token |-> "q"], [id |-> "c1", type |-> "client", token |-> "s"],
   [id |-> "c2", type |-> "client", token |-> "t"], [id |-> "c3", type |-> "client", token |-> "t"]}
  \cup (IF u.third THEN {[id |-> "r3", type |-> "repeater", token |-> "q"]} ELSE {})

\* What is heard: the source, and the path.
GraphPackets ==
  {[n |-> 1, kind |-> "advert", src |-> "c1", path |-> <<"p">>], [n |-> 2, kind |-> "group", src |-> "Bob", path |-> <<"q", "p">>],
   [n |-> 3, kind |-> "text", src |-> "t", path |-> <<"q">>], [n |-> 4, kind |-> "advert", src |-> "r2", path |-> <<>>]}

GraphInit ==
  \E hints, split \in BOOLEAN :
    ui = [third |-> TRUE, hints |-> hints, split |-> split, paths |-> TRUE, senders |-> TRUE, collapse |-> TRUE,
          window |-> <<>>, processed |-> <<>>, nodes |-> {[id |-> Self, type |-> "self", amb |-> FALSE, last |-> 0, probable |-> "none"]},
          links |-> {}, neighbors |-> {}, obs |-> <<>>, traffic |-> {}, rendered |-> [nodes |-> {Self}, links |-> {}],
          now |-> 0, got |-> 0, turns |-> 0]

Node(u, id) == CHOOSE n \in u.nodes : n.id = id
Has(u, id) == \E n \in u.nodes : n.id = id

-----------------------------------------------------------------------------
(* Resolving *)

\* addOrUpdateNode: type and ambiguity are those of the first time; the activity
\* is when the packet was received, also when it is read again later.
AddNode(u, at, id, type, amb, probable) ==
  IF Has(u, id)
  THEN LET n == Node(u, id) IN [u EXCEPT !.nodes = (@ \ {n}) \cup {[n EXCEPT !.last = IF at > @ THEN at ELSE @, !.probable = IF amb THEN probable ELSE @]}]
  ELSE [u EXCEPT !.nodes = @ \cup {[id |-> id, type |-> type, amb |-> amb, last |-> at, probable |-> probable]}]

\* recordTrafficObservation, analyzeRepeaterTraffic: every source has one next
\* hop, every next hop has sources enough.
Traffic(u, token, src, next) == u.traffic \cup {[hop |-> token, src |-> src, next |-> next]}
ShouldSplit(traffic, token) ==
  LET seen  == {t \in traffic : t.hop = token}
      nexts == {t.next : t \in seen} IN
  /\ Cardinality(nexts) > 1
  /\ \A a, b \in seen : a.src = b.src => a.next = b.next
  /\ \A n \in nexts : Cardinality({t.src : t \in {x \in seen : x.next = n}}) >= MinToSplit

\* pickLikelyRepeaterByAdvertPath: adverts of r2 were heard straight, twice.
Likely(u, candidates, next) ==
  IF u.hints /\ next = "" /\ \E c \in candidates : c.id = "r2" THEN "r2" ELSE "none"

\* A hop that several contacts, or none, could be.
Ambiguous(acc, token, isRepeater, candidates, next, src) ==
  LET u       == acc.u
      traffic == IF u.split /\ isRepeater /\ src # <<>> THEN Traffic(u, token, src, next) ELSE u.traffic
      id      == IF u.split /\ isRepeater /\ next # "" /\ ShouldSplit(traffic, token) THEN Hop(token, next) ELSE Hop(token, "")
      likely  == IF isRepeater THEN Likely(u, candidates, next) ELSE "none" IN
  [at |-> acc.at, u |-> AddNode([u EXCEPT !.traffic = traffic], acc.at, id, IF isRepeater THEN "repeater" ELSE "client", TRUE, likely), path |-> Append(acc.path, id)]

Known(acc, c) == [at |-> acc.at, u |-> AddNode(acc.u, acc.at, Key(c.id), c.type, FALSE, "none"), path |-> Append(acc.path, Key(c.id))]

\* resolveNode for a prefix: the only contact; else the only one of the kind
\* wanted; a sender that nobody can be is left out, a hop is kept as unknown.
ResolvePrefix(acc, token, isRepeater, next, src) ==
  LET matches  == {c \in Contacts(acc.u) : c.token = token}
      filtered == {c \in matches : isRepeater <=> c.type = "repeater"} IN
  IF Cardinality(matches) = 1 THEN Known(acc, CHOOSE c \in matches : TRUE)
  ELSE IF Cardinality(filtered) = 1 THEN Known(acc, CHOOSE c \in filtered : TRUE)
  ELSE IF filtered = {} /\ ~isRepeater THEN acc
  ELSE Ambiguous(acc, token, isRepeater, filtered, next, src)

ResolveSource(u, at, p) ==
  LET acc == [at |-> at, u |-> u, path |-> <<>>]
      of  == {c \in Contacts(u) : c.id = p.src} IN
  CASE p.kind = "advert" -> [at |-> at, u |-> AddNode(u, at, Key(p.src), IF \E c \in of : c.type = "repeater" THEN "repeater" ELSE "client", FALSE, "none"), path |-> <<Key(p.src)>>]
    [] p.kind = "group" -> [at |-> at, u |-> AddNode(u, at, <<"name", p.src, "">>, "client", FALSE, "none"), path |-> <<<<"name", p.src, "">>>>]
    [] OTHER -> ResolvePrefix(acc, p.src, FALSE, "", <<>>)

DedupeConsecutive(s) ==
  FoldLeft(LAMBDA acc, x : IF acc # <<>> /\ Last(acc) = x THEN acc ELSE Append(acc, x), <<>>, s)

\* buildCanonicalPathForPacket: the source, the hops, this radio.
CanonicalPath(u, at, p) ==
  LET first == ResolveSource(u, at, p)
      src   == first.path
      hops  == FoldLeft(LAMBDA acc, i : ResolvePrefix(acc, p.path[i], TRUE, IF i < Len(p.path) THEN p.path[i + 1] ELSE "", src),
                        first, [i \in DOMAIN p.path |-> i]) IN
  [u |-> hops.u, path |-> DedupeConsecutive(IF hops.path = <<>> THEN <<>> ELSE Append(hops.path, Self))]

Steps(path) == {{path[i], path[i + 1]} : i \in 1..(Len(path) - 1)}

\* ingestPacketIntoPacketNetwork
Ingest(u, key, at, p) ==
  LET c == CanonicalPath(u, at, p)
      v == c.u IN
  IF Len(c.path) < 2 THEN v
  ELSE [v EXCEPT !.obs = Append(@, [key |-> key, nodes |-> c.path]),
                 !.links = @ \cup Steps(c.path), !.neighbors = @ \cup {x \in Range(c.path) \X Range(c.path) : {x[1], x[2]} \in Steps(c.path)}]

-----------------------------------------------------------------------------
(* Projecting *)

\* isPacketNetworkNodeVisible
Visible(u, id) ==
  Has(u, id) /\ (Node(u, id).amb => IF Node(u, id).type = "repeater" THEN u.paths ELSE u.senders)

Follows(u, id) ==
  UNION {{path[j + 1] : j \in {j \in 1..(Len(path) - 1) : path[j] = id}} : path \in {o.nodes : o \in Range(u.obs)}}

\* buildKnownSiblingRepeaterAliasMap: an unknown hop that is probably a known
\* repeater, and sends to where that one sends.
Alias(u, id) ==
  IF /\ u.collapse /\ u.paths /\ Has(u, id) /\ Node(u, id).amb /\ Node(u, id).type = "repeater" /\ Node(u, id).probable # "none"
     /\ Has(u, Key(Node(u, id).probable)) /\ Node(u, Key(Node(u, id).probable)).type = "repeater"
     /\ Follows(u, id) \cap Follows(u, Key(Node(u, id).probable)) # {}
  THEN Key(Node(u, id).probable) ELSE id

\* A hidden repeater inside the path leaves a dashed link; a hidden sender does not.
MarksHidden(u, path, i) == ~Visible(u, path[i]) /\ Has(u, path[i]) /\ Node(u, path[i]).type = "repeater" /\ i \in 2..(Len(path) - 1)

\* compactPathSteps
CompactStep(u, path, acc, i) ==
  IF ~Visible(u, path[i])
  THEN [acc EXCEPT !.pending = @ \/ (MarksHidden(u, path, i) /\ acc.nodes # <<>>)]
  ELSE LET id == Alias(u, path[i]) IN
       [nodes |-> IF acc.nodes # <<>> /\ Last(acc.nodes) = id THEN acc.nodes ELSE Append(acc.nodes, id),
        dashed |-> IF acc.pending /\ acc.nodes # <<>> /\ Last(acc.nodes) # id THEN acc.dashed \cup {{Last(acc.nodes), id}} ELSE acc.dashed,
        pending |-> FALSE]

\* projectCanonicalPathWithAliases
ProjectPath(u, path) ==
  FoldLeft(LAMBDA acc, i : CompactStep(u, path, acc, i), [nodes |-> <<>>, dashed |-> {}, pending |-> FALSE], [i \in DOMAIN path |-> i])

\* projectPacketNetwork
Project(u) ==
  LET shown == {x \in {ProjectPath(u, u.obs[i].nodes) : i \in DOMAIN u.obs} : Len(x.nodes) > 1} IN
  [nodes |-> {Self} \cup UNION {Range(x.nodes) : x \in shown},
   links |-> {[ends |-> e, direct |-> \E x \in shown : e \in Steps(x.nodes) \ x.dashed, hidden |-> \E x \in shown : e \in x.dashed] :
                e \in UNION {Steps(x.nodes) : x \in shown}}]

\* rebuildRenderProjection
Rebuild(u) == [u EXCEPT !.rendered = Project(u)]

-----------------------------------------------------------------------------
(* The hook *)

\* Only the latest keys are remembered once there are too many.
TrimProcessed(s) == IF Len(s) > MaxProcessed THEN SubSeq(s, Len(s) - MaxWindow + 1, Len(s)) ELSE s

\* The effect on the packets: those not processed yet.
GraphProcess(u) ==
  LET step(v, x) == IF Contains(v.processed, x.key) THEN v
                    ELSE Ingest([v EXCEPT !.processed = TrimProcessed(Append(@, x.key))], x.key, x.at, x.p) IN
  Rebuild(FoldLeft(step, u, u.window))

GraphPacketArrives ==
  \E p \in GraphPackets :
    /\ ui.got < MaxArrivals
    /\ LET next == Append(ui.window, [key |-> ui.got + 1, at |-> ui.now, p |-> p]) IN
       ui' = GraphProcess([ui EXCEPT !.got = @ + 1, !.window = IF Len(next) > MaxWindow THEN Tail(next) ELSE next])

\* clearPacketNetworkState
Cleared(u) ==
  [u EXCEPT !.nodes = {[id |-> Self, type |-> "self", amb |-> FALSE, last |-> u.now, probable |-> "none"]}, !.links = {}, !.neighbors = {},
            !.obs = <<>>, !.traffic = {}, !.processed = <<>>, !.rendered = [nodes |-> {Self}, links |-> {}]]

Turn == ui.turns < MaxTurns

\* clearAndReset: the packets of the window come back with the next one.
GraphClearAndReset == Turn /\ ui' = Cleared([ui EXCEPT !.turns = @ + 1])

\* A setting that resolves hops differently: all is forgotten, and read again.
GraphSetResolving ==
  /\ Turn
  /\ \E f \in {"hints", "split"} : ui' = GraphProcess(Cleared([ui EXCEPT !.turns = @ + 1, ![f] = ~@]))

\* A setting of what is shown.
SetVisibility ==
  /\ Turn
  /\ \E f \in {"paths", "senders", "collapse"} : ui' = Rebuild([ui EXCEPT !.turns = @ + 1, ![f] = ~@])

\* The contacts change: what was resolved stays as it was.
ContactsChange == Turn /\ ui' = GraphProcess([ui EXCEPT !.turns = @ + 1, !.third = ~@])

-----------------------------------------------------------------------------
(* Pruning *)

\* prunePacketNetworkState
Prune(u) ==
  LET nodes == {n \in u.nodes : n.id = Self \/ n.last >= u.now - StaleAfter}
      ids   == {n.id : n \in nodes}
      links == {l \in u.links : l \subseteq ids} IN
  IF nodes = u.nodes THEN u
  ELSE Rebuild([u EXCEPT !.nodes = nodes, !.links = links, !.obs = SelectSeq(@, LAMBDA o : Range(o.nodes) \subseteq ids),
                         !.neighbors = {p \in ids \X ids : {p[1], p[2]} \in links}])

\* Time passes, and the interval prunes.
GraphTick == ui.now < MaxTime /\ ui' = Prune([ui EXCEPT !.now = @ + 1])

GraphNext == GraphPacketArrives \/ GraphClearAndReset \/ GraphSetResolving \/ SetVisibility \/ ContactsChange \/ GraphTick

-----------------------------------------------------------------------------
\* The state is well formed.
GraphTypeOK ==
  /\ Len(ui.window) <= MaxWindow /\ Len(ui.processed) <= MaxProcessed
  /\ \A n \in ui.nodes : n.type \in {"self", "repeater", "client"} /\ n.last \in 0..MaxTime

\* After any mixture of packets, pruning and resets the graph is closed: every
\* link and every observation is between nodes that are there, and the
\* neighbours are those of the links.
GraphClosed ==
  LET ids == {n.id : n \in ui.nodes} IN
  /\ Self \in ids /\ Cardinality(ids) = Cardinality(ui.nodes)
  /\ \A l \in ui.links : l \subseteq ids
  /\ \A i \in DOMAIN ui.obs : Range(ui.obs[i].nodes) \subseteq ids /\ \A s \in Steps(ui.obs[i].nodes) : s \in ui.links
  /\ ui.neighbors = {p \in ids \X ids : {p[1], p[2]} \in ui.links}

\* The scene shows the graph as it is, under the settings as they are: no
\* change of either leaves the projection behind.
RenderedCurrent == ui.rendered = Project(ui)

\* A link is solid only when the two were heard next to each other; a repeater
\* hidden between them leaves it dashed.
SolidIsHeard ==
  \A l \in ui.rendered.links : l.direct =>
    \E i \in DOMAIN ui.obs : LET path == ui.obs[i].nodes IN
      \E j \in 1..(Len(path) - 1) : {Alias(ui, path[j]), Alias(ui, path[j + 1])} = l.ends

\* Between two resets an observation enters the graph once, although the keys
\* processed are cut down while the packets are still in the window.
IngestedOnce ==
  \A i, j \in DOMAIN ui.obs : ui.obs[i].key = ui.obs[j].key => i = j

-----------------------------------------------------------------------------
(***************************************************************************)
(* The visualizer collects the copies of one packet for a while before it  *)
(* animates them together (useVisualizerData3D.ts): a pending entry per    *)
(* packet, a timer per entry, a cap, and the packet the reader came for,   *)
(* which is animated at once. An observation is a number; its packet is    *)
(* one of Packets. Times are what is left of them.                         *)
(***************************************************************************)
PendingPackets == {"a", "b"}
NoPacket == "none"

PendingInit ==
  \E world \in PendingWorlds, focus \in {"none", "a"} :
    ui = [world |-> world, focus |-> focus, heard |-> <<>>, processed |-> {}, pending |-> [k \in PendingPackets |-> [paths |-> {}, left |-> 0]], order |-> <<>>,
          timers |-> [k \in PendingPackets |-> 0], timeouts |-> {}, hidden |-> FALSE, drawn |-> {}, twice |-> FALSE, dropped |-> {}, resets |-> 0]

IsPending(u, k) == Contains(u.order, k)
FreshId(u) == CHOOSE i \in 1..8 : (\A t \in u.timeouts : t.id # i) /\ \A j \in 1..(i - 1) : \E t \in u.timeouts : t.id = j

\* clearTimeout of the timer known for a packet
ClearTimer(u, k) == [u EXCEPT !.timeouts = {t \in @ : t.id # u.timers[k]}]

\* publishPacket: the entry goes, the timer is forgotten but not cleared; what
\* is collected is drawn unless nobody looks.
Publish(u, k) ==
  IF ~IsPending(u, k) THEN u
  ELSE LET paths == u.pending[k].paths IN
       [u EXCEPT !.pending[k] = [paths |-> {}, left |-> 0], !.order = Remove(@, k), !.timers[k] = 0,
                 !.drawn = IF u.hidden THEN @ ELSE @ \cup paths, !.twice = @ \/ (~u.hidden /\ paths \cap u.drawn # {}),
                 !.dropped = IF u.hidden THEN @ \cup paths ELSE @]

\* A new entry: the timer of an older one is cleared; the packet the reader came
\* for needs none.
NewEntry(u, k, i, isFocus) ==
  LET v == ClearTimer(u, k)
      id == FreshId(v)
      w == [v EXCEPT !.pending[k] = [paths |-> {i}, left |-> Window], !.order = Append(Remove(@, k), k)] IN
  IF isFocus THEN w ELSE [w EXCEPT !.timers[k] = id, !.timeouts = @ \cup {[id |-> id, key |-> k, left |-> Window]}]

Collect(u, k, i, isFocus) ==
  IF IsPending(u, k) /\ u.pending[k].left > 0 THEN [u EXCEPT !.pending[k].paths = @ \cup {i}] ELSE NewEntry(u, k, i, isFocus)

\* Too many entries: the oldest half and their timers go.
DropOldest(u) ==
  IF Len(u.order) <= MaxPending THEN u
  ELSE LET k == Head(u.order)
           v == ClearTimer(u, k) IN
       [v EXCEPT !.timers[k] = 0, !.order = Tail(@), !.pending[k] = [paths |-> {}, left |-> 0], !.dropped = @ \cup u.pending[k].paths]

\* The effect on the packets, for one of them.
ProcessOne(u, i) ==
  LET k == u.heard[i]
      isFocus == k = u.focus
      v == Collect([u EXCEPT !.processed = @ \cup {i}], k, i, isFocus) IN
  IF i \in u.processed THEN u
  ELSE DropOldest(IF isFocus THEN Publish(v, k) ELSE v)

PendingProcess(u) == FoldLeft(ProcessOne, u, [i \in DOMAIN u.heard |-> i])

\* A timer fires when it is due; unless it may be late, before anything else.
Due(u) == {t \in u.timeouts : t.left = 0}
OnTime == "late" \in ui.world \/ Due(ui) = {}

PendingPacketArrives ==
  \E k \in PendingPackets : Len(ui.heard) < MaxHeard /\ OnTime /\ ui' = PendingProcess([ui EXCEPT !.heard = Append(@, k)])

TimerFires == \E t \in Due(ui) : ui' = Publish([ui EXCEPT !.timeouts = @ \ {t}], t.key)

PendingTick ==
  /\ OnTime
  /\ \E t \in ui.timeouts : t.left > 0
  /\ LET less(n) == IF n > 0 THEN n - 1 ELSE 0 IN
     ui' = [ui EXCEPT !.pending = [k \in PendingPackets |-> [@[k] EXCEPT !.left = less(@)]],
                      !.timeouts = {[t EXCEPT !.left = less(@)] : t \in @}]

\* Everything pending and every timer known goes.
Forget(u) ==
  [u EXCEPT !.timeouts = {t \in @ : \A k \in PendingPackets : u.timers[k] # t.id}, !.timers = [k \in PendingPackets |-> 0], !.order = <<>>,
            !.pending = [k \in PendingPackets |-> [paths |-> {}, left |-> 0]],
            !.processed = {}, !.drawn = {}, !.dropped = {}, !.twice = FALSE]

\* clearAndReset
PendingClearAndReset == OnTime /\ ui.resets < MaxResets /\ ui' = Forget([ui EXCEPT !.resets = @ + 1])

\* A setting that resolves hops differently: the packets are read again.
PendingSetResolving == OnTime /\ ui.resets < MaxResets /\ ui' = PendingProcess(Forget([ui EXCEPT !.resets = @ + 1]))

HideOrShow == OnTime /\ ui.resets < MaxResets /\ ui' = [ui EXCEPT !.resets = @ + 1, !.hidden = ~@]

PendingNext == PendingPacketArrives \/ TimerFires \/ PendingTick \/ PendingClearAndReset \/ PendingSetResolving \/ HideOrShow

-----------------------------------------------------------------------------
\* The state is well formed.
PendingTypeOK ==
  /\ Range(ui.order) \subseteq PendingPackets /\ \A k \in PendingPackets : ui.pending[k].left \in 0..Window
  /\ \A t \in ui.timeouts : t.key \in PendingPackets /\ t.left \in 0..Window

\* Whatever is collected has a timer under way that will publish it, although
\* publishing forgets timers that still run and a reset forgets entries.
PendingArmed == \A k \in PendingPackets : IsPending(ui, k) => \E t \in ui.timeouts : t.key = k

\* No observation is animated twice between two resets, although a timer that
\* was forgotten still fires.
AnimatedOnce == ~ui.twice

\* When timers keep their time, every copy collected is animated, unless nobody
\* looked or there were too many: none is lost between two entries of a packet.
CopiesKept ==
  "late" \notin ui.world => \A i \in ui.processed : i \in ui.drawn \cup ui.dropped \cup UNION {ui.pending[k].paths : k \in PendingPackets}
=============================================================================
