--------------------------- MODULE VisualizerView ---------------------------
(***************************************************************************)
(* How the packet visualizer shows it: names, focus and scene.             *)
(***************************************************************************)
EXTENDS Integers, Sequences, FiniteSets, SequencesExt, FiniteSetsExt

CONSTANTS MaxNamesTurns, \* turning the directory on or off, contacts changing, asking failing
          MaxFocusTurns, \* what the reader does
          MaxHeard,      \* packets heard while the view is open, and dropped from the store
          MaxChanges,    \* changes of the graph, resets
          MaxClicks,     \* clicks, moves of the mouse
          MaxParticles

VARIABLE ui

-----------------------------------------------------------------------------
(***************************************************************************)
(* Names from the Community directory over the visualizer's nodes          *)
(* (visualizerDirectoryNames.ts and useVisualizerData3D.ts): prefixes of   *)
(* nodes nobody here knows are collected, asked for once after a pause, in *)
(* chunks, and shown while the reader wants them and the contacts do not   *)
(* know better. "hop" is an unknown hop, "key" a node known by its key     *)
(* whose prefix has two lengths, "sky" the directory's other bearer of the *)
(* short one.                                                              *)
(***************************************************************************)
NamesNodes == {"hop", "key"}

\* directoryPrefixesForLookup: the hop itself; six digits of a key, then four.
PrefixesFor(n) == IF n = "hop" THEN <<"h4">> ELSE <<"k6", "k4">>
HopPrefixes == {"h4", "k6", "k4"}

\* What the directory knows: the short prefix is somebody else's.
Directory(p) == IF p = "h4" THEN "tower" ELSE IF p = "k6" THEN "oak" ELSE "sky"
KeyOf(name) == IF name = "oak" THEN "key" ELSE name

\* DIRECTORY_RESOLVE_HOPS_MAX
ChunkSize == 2

NamesInit ==
  ui = [graph |-> {}, contacts |-> {}, enabled |-> FALSE, pending |-> {}, requested |-> {}, timer |-> FALSE, asks |-> {},
        hits |-> {}, names |-> {}, turns |-> 0]

\* isEligibleForDirectoryName: nobody among the contacts is known by it.
Eligible(u, n) == n \notin u.contacts

Collected(u) == UNION {Range(PrefixesFor(n)) : n \in {n \in u.graph : Eligible(u, n)}}

\* scheduleDirectoryResolve: what is neither asked nor waiting waits; one timer.
Schedule(u) ==
  LET prefixes == (Collected(u) \ u.requested) \ u.pending IN
  IF ~u.enabled \/ prefixes = {} THEN u ELSE [u EXCEPT !.pending = @ \cup prefixes, !.timer = TRUE]

\* applyDirectoryName: the longest prefix whose bearer has the node's key.
NameOf(u, n) ==
  LET found == SelectSeq(PrefixesFor(n), LAMBDA p : p \in u.hits /\ (n = "hop" \/ KeyOf(Directory(p)) = n)) IN
  IF found = <<>> THEN {} ELSE {<<n, Directory(Head(found))>>}

\* buildCommunityNames
Names(u) == IF u.enabled THEN UNION {NameOf(u, n) : n \in {n \in u.graph : Eligible(u, n)}} ELSE {}

\* rebuildRenderProjection, which ends by asking for what is new.
Rebuild(u) == Schedule([u EXCEPT !.names = Names(u)])

\* ingest and prune: nodes come and go.
NodeComes == \E n \in NamesNodes \ ui.graph : ui' = Rebuild([ui EXCEPT !.graph = @ \cup {n}])
NodeGoes == \E n \in ui.graph : ui.turns < MaxNamesTurns /\ ui' = Rebuild([ui EXCEPT !.graph = @ \ {n}, !.turns = @ + 1])

SetDirectory == ui.turns < MaxNamesTurns /\ ui' = Rebuild([ui EXCEPT !.enabled = ~@, !.turns = @ + 1])

ContactChanges ==
  \E n \in NamesNodes : ui.turns < MaxNamesTurns /\ ui' = Rebuild([ui EXCEPT !.contacts = IF n \in @ THEN @ \ {n} ELSE @ \cup {n}, !.turns = @ + 1])

\* chunkDirectoryPrefixes: answered one after the other.
Chunks(set) ==
  LET s == SetToSeq(set)
      n == (Len(s) + ChunkSize - 1) \div ChunkSize IN
  [i \in 1..n |-> Range(SubSeq(s, (i - 1) * ChunkSize + 1, IF i * ChunkSize > Len(s) THEN Len(s) ELSE i * ChunkSize))]

\* flushPendingDirectoryPrefixes: turned off meanwhile, all that waited is
\* dropped, to be asked when it is turned on again.
Flushed(u) ==
  IF ~u.enabled THEN [u EXCEPT !.timer = FALSE, !.pending = {}]
  ELSE [u EXCEPT !.timer = FALSE, !.pending = {}, !.requested = @ \cup u.pending,
                 !.asks = IF u.pending = {} THEN @ ELSE @ \cup {[left |-> Chunks(u.pending), merged |-> {}]}]

Flush == ui.timer /\ ui' = Flushed(ui)

\* A chunk is answered, or refused: the others are asked all the same, and what
\* was found is shown once the last is done.
ChunkDone(u, a, found) ==
  LET rest   == Tail(a.left)
      merged == a.merged \cup found IN
  IF rest # <<>> THEN [u EXCEPT !.asks = (@ \ {a}) \cup {[left |-> rest, merged |-> merged]}]
  ELSE LET v == [u EXCEPT !.asks = @ \ {a}, !.hits = @ \cup merged] IN
       IF merged = {} THEN v ELSE Rebuild(v)

ChunkAnswers == \E a \in ui.asks : ui' = ChunkDone(ui, a, Head(a.left))
ChunkFails == \E a \in ui.asks : ui.turns < MaxNamesTurns /\ ui' = ChunkDone([ui EXCEPT !.turns = @ + 1], a, {})

NamesNext == NodeComes \/ NodeGoes \/ SetDirectory \/ ContactChanges \/ Flush \/ ChunkAnswers \/ ChunkFails

-----------------------------------------------------------------------------
\* The state is well formed.
NamesTypeOK ==
  /\ ui.pending \subseteq HopPrefixes /\ ui.requested \subseteq HopPrefixes /\ ui.hits \subseteq HopPrefixes
  /\ Cardinality(ui.asks) <= 3

\* A prefix is asked for once: what waits, is asked or was answered is not asked again,
\* so two requests never carry the same prefix.
AskedOnce ==
  \A a, b \in ui.asks : a # b => (UNION Range(a.left)) \cap (UNION Range(b.left)) = {}

\* A directory name stands on a node only while the reader wants such names and
\* the contacts do not know the node, and never is the name of another node that
\* shares the short prefix.
NamesTrue ==
  \A x \in ui.names : ui.enabled /\ x[1] \in ui.graph /\ Eligible(ui, x[1]) /\ x[2] # "sky"

\* A node nobody here knows is asked for in the end, as long as it stays in the
\* graph with the directory on, however often that was turned off before.
Asked(n) ==
  ui.enabled /\ n \in ui.graph /\ Eligible(ui, n) => Range(PrefixesFor(n)) \subseteq ui.requested

-----------------------------------------------------------------------------
(***************************************************************************)
(* From a packet of the feed to its place in the visualizer                *)
(* (visualizerFocusHandoff.ts, VisualizerView.tsx, useVisualizerData3D.ts  *)
(* and useVisualizer3DScene.ts): the handoff goes through session storage  *)
(* and, for the same turn, through memory; the view that opens consumes    *)
(* it, opens the inspector, lights up the path and pins its first node,    *)
(* once. Observations are numbers; 1 and 2 are copies of the packet with   *)
(* hash x.                                                                 *)
(***************************************************************************)
Observations == 1..3
Hash(i) == IF i = 3 THEN "y" ELSE "x"
NoHandoff == [obs |-> 0, hash |-> "none"]

FocusInit ==
  \E works, strict \in BOOLEAN, packets \in {{}, {1}, {1, 3}} :
    ui = [works |-> works, strict |-> strict, stored |-> NoHandoff, remembered |-> NoHandoff, armed |-> FALSE, navigating |-> FALSE, open |-> FALSE,
          handoff |-> NoHandoff, packets |-> packets, processed |-> {}, highlight |-> 0, autoPinned |-> 0, pinned |-> 0, inspector |-> 0, applied |-> FALSE,
          wanted |-> NoHandoff, expected |-> NoHandoff, turns |-> 0, heard |-> 0, clicks |-> 0]

\* rememberHandoff: until the turn ends.
Remember(u, h) == [u EXCEPT !.remembered = h, !.armed = h # NoHandoff]

\* writeStorageHandoff, which may fail silently.
WriteStorage(u, h) == IF u.works THEN [u EXCEPT !.stored = h] ELSE u

\* consumeVisualizerFocusHandoff
Consume(u) ==
  IF u.stored # NoHandoff THEN [Remember(u, u.stored) EXCEPT !.stored = NoHandoff, !.handoff = u.stored]
  ELSE [u EXCEPT !.handoff = u.remembered]

\* packetMatchesVisualizerFocus, findVisualizerFocusPacket (the observation
\* before any other copy).
Matches(h, i) == h # NoHandoff /\ (i = h.obs \/ h.hash = Hash(i))
FoundFocus(u) ==
  IF u.handoff.obs \in u.packets THEN u.handoff.obs
  ELSE LET m == {i \in u.packets : Matches(u.handoff, i)} IN IF m = {} THEN 0 ELSE Min(m)

\* The inspector opens on the packet, once, as soon as it is there.
ApplyInspector(u) ==
  IF u.handoff = NoHandoff \/ u.applied \/ FoundFocus(u) = 0 THEN u
  ELSE [u EXCEPT !.inspector = FoundFocus(u), !.applied = TRUE]

\* The effect on the packets: the last match is the one lit up.
Highlight(u) ==
  LET m == {i \in u.packets : Matches(u.handoff, i)} IN
  [u EXCEPT !.processed = @ \cup u.packets, !.highlight = IF m = {} THEN @ ELSE Max(m)]

\* The scene pins what is lit up, once for each.
AutoPin(u) ==
  IF u.highlight = 0 \/ u.autoPinned = u.highlight THEN u ELSE [u EXCEPT !.autoPinned = u.highlight, !.pinned = u.highlight]

Settle(u) == AutoPin(Highlight(ApplyInspector(u)))

\* The reader acts between turns.
Free == ui.turns < MaxFocusTurns /\ ~ui.armed /\ ~ui.navigating
Turn(u) == [u EXCEPT !.turns = @ + 1]

\* "Show in visualizer" of the feed: written, then navigated to.
ShowInVisualizer ==
  /\ Free /\ ~ui.open
  /\ \E i \in ui.packets, withHash \in BOOLEAN :
       LET h == [obs |-> i, hash |-> IF withHash THEN Hash(i) ELSE "none"] IN
       ui' = [WriteStorage(Remember(Turn(ui), h), h) EXCEPT !.navigating = TRUE, !.wanted = h]

\* The reader turns elsewhere before the view is there.
Elsewhere == ui.navigating /\ ui.turns < MaxFocusTurns /\ ~ui.armed /\ ui' = [Turn(ui) EXCEPT !.navigating = FALSE]

OpenPlain == Free /\ ~ui.open /\ ui' = [Turn(ui) EXCEPT !.navigating = TRUE]

\* The turn ends.
RememberExpires == ui.armed /\ ui' = [ui EXCEPT !.armed = FALSE, !.remembered = NoHandoff]

\* The view mounts; in strict mode its initial state is computed twice.
FocusMount ==
  /\ ui.navigating
  /\ LET once == Consume([ui EXCEPT !.navigating = FALSE, !.open = TRUE, !.inspector = 0, !.applied = FALSE, !.highlight = 0, !.autoPinned = 0, !.pinned = 0,
                                    !.processed = {}, !.expected = ui.wanted, !.wanted = NoHandoff])
         done == IF ui.strict THEN Consume(once) ELSE once IN
     ui' = Settle(done)

FocusUnmount == Free /\ ui.open /\ ui' = [Turn(ui) EXCEPT !.open = FALSE, !.handoff = NoHandoff, !.expected = NoHandoff, !.inspector = 0, !.applied = FALSE,
                                                     !.highlight = 0, !.autoPinned = 0, !.pinned = 0, !.processed = {}]

PacketArrives ==
  /\ ui.open /\ ui.heard < MaxHeard
  /\ \E i \in Observations \ ui.packets : ui' = Settle([ui EXCEPT !.packets = @ \cup {i}, !.heard = @ + 1])

\* The store drops its oldest.
PacketLeaves ==
  /\ ui.heard < MaxHeard /\ Cardinality(ui.packets) > 1
  /\ LET v == [ui EXCEPT !.packets = @ \ {Min(@)}, !.heard = @ + 1] IN ui' = IF ui.open THEN Settle(v) ELSE v

\* clearAndReset: the light goes out until the packets are read again.
FocusClearAndReset == Free /\ ui.open /\ ui' = AutoPin([Turn(ui) EXCEPT !.processed = {}, !.highlight = 0])

\* Clicks: close the inspector, open a packet, pin or unpin.
ClickInspector == Free /\ ui.open /\ \E i \in ui.packets \cup {0} : ui' = [Turn(ui) EXCEPT !.inspector = i, !.clicks = 1 - @]
ClickNode == Free /\ ui.open /\ \E i \in {0, 3} : ui' = [Turn(ui) EXCEPT !.pinned = i, !.clicks = 1 - @]

FocusNext ==
  \/ ShowInVisualizer \/ Elsewhere \/ OpenPlain \/ RememberExpires \/ FocusMount \/ FocusUnmount \/ PacketArrives \/ PacketLeaves \/ FocusClearAndReset
  \/ ClickInspector \/ ClickNode

-----------------------------------------------------------------------------
\* The state is well formed.
FocusTypeOK ==
  /\ {ui.stored.obs, ui.remembered.obs, ui.handoff.obs, ui.highlight, ui.pinned, ui.inspector} \subseteq 0..3
  /\ ui.armed = (ui.remembered # NoHandoff) /\ ~(ui.open /\ ui.navigating)

\* The view focuses the packet last asked for and not shown yet, and nothing when
\* none was asked for: no handoff is used by two openings, and where session
\* storage fails it may only be lost.
FocusIsAsked ==
  ui.open => \/ ui.handoff = ui.expected
             \/ ~ui.works /\ ui.handoff = NoHandoff

\* What the reader closed or unpinned stays so: apart from clicks the inspector
\* opens only for the handoff, once, and a node is pinned only for a path lit up
\* for the first time.
ReaderDecides ==
  (ui.open /\ ui'.open /\ ui'.clicks = ui.clicks) =>
    /\ ui'.inspector # ui.inspector => ~ui.applied /\ ui'.applied
    /\ ui'.pinned # ui.pinned => ui'.autoPinned # ui.autoPinned /\ ui'.pinned = ui'.highlight

-----------------------------------------------------------------------------
(***************************************************************************)
(* The visualizer's scene (useVisualizer3DScene.ts) beside the hook that   *)
(* feeds it: the hook replaces its maps and publishes them to React, the   *)
(* animation loop reads what was committed last, keeps a mesh per node,    *)
(* finds what the mouse is on, lights up links and moves particles in an   *)
(* array both of them hold.                                                *)
(***************************************************************************)
SceneNodes == {"self", "a", "b"}
Nothing == "none"

\* Links between the nodes that are there: solid, or dashed over a hidden hop.
AllLinks == {[ends |-> {"self", "a"}, dashed |-> FALSE], [ends |-> {"a", "b"}, dashed |-> FALSE], [ends |-> {"self", "b"}, dashed |-> TRUE]}
LinksOf(nodes) == {l \in AllLinks : l.ends \subseteq nodes}

\* The hook's maps and array (two arrays are told apart by a bit), the state
\* React holds, and what the loop sees.
SceneInit ==
  ui = [mounted |-> FALSE, hook |-> [nodes |-> {"self"}, array |-> 0, focus |-> {}], state |-> [nodes |-> {"self"}, array |-> 0, focus |-> {}],
        data |-> [nodes |-> {"self"}, array |-> 0, focus |-> {}], arrays |-> [a \in {0, 1} |-> {}], meshes |-> {}, targets |-> {},
        mouse |-> Nothing, hovered |-> Nothing, pinned |-> Nothing, pinnedRef |-> Nothing, autoPinned |-> FALSE, lit |-> {}, changes |-> 0, clicks |-> 0, emitted |-> 0]

Change == ui.changes < MaxChanges

\* rebuildRenderProjection and publishProjection: new maps, the same array.
Publish(u) == [u EXCEPT !.state = u.hook]

GraphChanges ==
  /\ Change
  /\ \E nodes \in {{"self", "a"}, SceneNodes}, focus \in {{}, {"self", "b"}} :
       /\ focus \subseteq nodes
       /\ ui' = Publish([ui EXCEPT !.changes = @ + 1, !.hook.nodes = nodes, !.hook.focus = focus])

\* The reset effect: a new array, published with the rest.
Reset(u) ==
  LET v == [u EXCEPT !.hook = [nodes |-> {"self"}, array |-> 1 - u.hook.array, focus |-> {}], !.arrays[1 - u.hook.array] = {}] IN Publish(v)

SetResolving == Change /\ ui' = Reset([ui EXCEPT !.changes = @ + 1])

\* clearAndReset: the same array, emptied.
SceneClearAndReset ==
  /\ Change
  /\ ui' = Publish([ui EXCEPT !.changes = @ + 1, !.arrays[ui.hook.array] = {}, !.hook.nodes = {"self"}, !.hook.focus = {}])

\* publishPacket: particles go into the hook's array and nothing is published.
ParticleStarts ==
  /\ ui.emitted < MaxParticles
  /\ \E l \in LinksOf(ui.hook.nodes) : ui' = [ui EXCEPT !.emitted = @ + 1, !.arrays[ui.hook.array] = @ \cup {[ends |-> l.ends, progress |-> 0]}]

\* React commits: a focus that is new is pinned while rendering, and the loop
\* sees the latest graph and the latest pin.
Commit ==
  /\ ui.data # ui.state
  /\ LET pins == ui.state.focus # {} /\ ~ui.autoPinned
         pin  == IF pins THEN "b" ELSE ui.pinned IN
     ui' = [ui EXCEPT !.data = ui.state, !.autoPinned = @ \/ pins, !.pinned = pin, !.pinnedRef = pin]

\* The effect that builds the scene.
SceneMount == ~ui.mounted /\ ui.changes < MaxChanges /\ ui' = [ui EXCEPT !.mounted = TRUE]

\* ... and takes it down, with everything that was made in it.
Dispose(u) == [u EXCEPT !.mounted = FALSE, !.meshes = {}, !.targets = {}, !.lit = {}]
SceneUnmount == ui.mounted /\ Change /\ ui' = Dispose([ui EXCEPT !.changes = @ + 1])

MouseMoves == ui.mounted /\ ui.clicks < MaxClicks /\ \E n \in {Nothing, "b"} : ui' = [ui EXCEPT !.clicks = @ + 1, !.mouse = n]

\* onMouseUp without a drag: on the pinned node or beside all it unpins.
Click ==
  /\ ui.mounted /\ ui.clicks < MaxClicks
  /\ LET hit == IF ui.mouse \in ui.targets THEN ui.mouse ELSE Nothing
         pin == IF hit = ui.pinnedRef THEN Nothing ELSE hit IN
     ui' = [ui EXCEPT !.clicks = @ + 1, !.pinned = pin, !.pinnedRef = pin]

-----------------------------------------------------------------------------
(* The loop *)

\* A mesh for every node, none for the nodes that left; a target for every mesh.
SyncMeshes(u) == [u EXCEPT !.meshes = u.data.nodes, !.targets = (@ \cap u.data.nodes) \cup (u.data.nodes \ u.meshes)]

Hover(u) == [u EXCEPT !.hovered = IF u.mouse \in u.targets THEN u.mouse ELSE Nothing]

Active(u) == IF u.pinnedRef # Nothing THEN u.pinnedRef ELSE u.hovered

FocusLinks(u) == IF u.data.focus = {} THEN {} ELSE {l \in AllLinks : l.ends = u.data.focus}

\* The links lit up: those of the active node, and those of the focus (a dashed
\* one only while a node is active).
LitLinks(u) ==
  {l \in LinksOf(u.data.nodes) :
     \/ Active(u) \in l.ends
     \/ l \in FocusLinks(u) /\ (l.dashed => Active(u) # Nothing)}

Light(u) == [u EXCEPT !.lit = LitLinks(u)]

\* Particles move one on; those that arrived leave the array the loop holds.
MoveParticles(u) ==
  [u EXCEPT !.arrays[u.data.array] = {[p EXCEPT !.progress = @ + 1] : p \in {p \in @ : p.progress < 1}}]

Frame == ui.mounted /\ ui' = MoveParticles(Light(Hover(SyncMeshes(ui))))

SceneNext == GraphChanges \/ SetResolving \/ SceneClearAndReset \/ ParticleStarts \/ Commit \/ SceneMount \/ SceneUnmount \/ MouseMoves \/ Click \/ Frame

-----------------------------------------------------------------------------
\* The state is well formed.
SceneTypeOK ==
  /\ ui.meshes \subseteq SceneNodes /\ {ui.hovered, ui.pinned, ui.mouse} \subseteq SceneNodes \cup {Nothing}
  /\ \A a \in {0, 1} : \A p \in ui.arrays[a] : p.progress \in 0..1

\* What can be hit is what is drawn, through nodes that leave and come back and
\* scenes taken down and built again: nothing that left can be pinned by a click.
TargetsDrawn == ui.targets = ui.meshes /\ (~ui.mounted => ui.meshes = {})

\* Particles are drawn to their end: as long as the scene is there, no array the
\* hook pushes them into is left out of the loop.
ParticlesEnded == ui.mounted => ui.arrays[ui.hook.array] = {}

\* In the end the scene shows the hook's graph, and lights what the reader pinned
\* or points at: no commit, frame or reset leaves it behind for good.
SceneSettled ==
  ui.mounted => ui.meshes = ui.hook.nodes /\ ui.lit = LitLinks([ui EXCEPT !.data = ui.hook, !.pinnedRef = ui.pinned])
=============================================================================
