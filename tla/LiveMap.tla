------------------------------- MODULE LiveMap ------------------------------
(***************************************************************************)
(* The live map: lasers in time, and routes in space.                      *)
(***************************************************************************)
EXTENDS Integers, Sequences, FiniteSets, SequencesExt, FiniteSetsExt

CONSTANTS MaxTime,       \* ticks of the wall clock
          MaxConcurrent, \* MAX_CONCURRENT_ANIMS
          MaxPending,    \* MAX_PENDING_ANIMS
          MaxPauses,     \* pauses and filter changes
          RoutesWorlds,
          MaxPackets,    \* frames and packets received
          MaxWindow,     \* MAX_LIVE_COMMUNITY_PACKETS
          MaxIndexed     \* LIVE_PACKET_REGIONS_MAX

VARIABLE ui

-----------------------------------------------------------------------------
(***************************************************************************)
(* LiveMapController: how the packets heard live become lasers on the map. *)
(* Observations of one heard path are held together for a moment and       *)
(* released as one shot; the shots of a wave are spaced, the ones that     *)
(* find no room wait in a queue that sheds its oldest, and animation       *)
(* frames run only while something moves.  The engine has its own clock,   *)
(* which stands still while the map is paused. Times are ticks of the wall *)
(* clock.  Travel, remanence, hold and stagger are lengths in ticks; an    *)
(* observation has its coalescing key, its first hop, whether it has a     *)
(* point to draw, whether it is older than five minutes and whether its    *)
(* origin is only known from its companions.                               *)
(***************************************************************************)
Hold == 1
Stagger == 1
Travel == 1
Remanence == 1
RippleTicks == 1

\* MAX_LIVE_SHOTS
MaxShots == 2 * MaxConcurrent + MaxPending

\* The last packet is one like the others, one with no point to draw or one of
\* the past.
Third == {"d1", "bare", "old"}
Obs == {"a1", "a2", "b1"} \cup Third

\* observationCoalesceKey: the packet, its first hop's token and the ear.
CoalesceKey(o) == IF o \in {"a1", "a2"} THEN "a" ELSE o

\* hopIdentity of the first hop: one token can stand for two nodes.
Hop(o) == IF o = "a2" THEN "hop2" ELSE "hop1"

Stale(o) == o = "old"
Points(o) == IF o = "bare" THEN 0 ELSE 2
OnlyFanout(o) == o = "a2"

LasersInit ==
  ui = [wall |-> 0, pausedAt |-> -1, offset |-> 0, playing |-> TRUE, ready |-> FALSE, raf |-> FALSE, uses |-> 0, shown |-> TRUE,
        seen |-> {}, buckets |-> <<>>, released |-> [k \in {} |-> {}], shots |-> <<>>, pending |-> <<>>,
        ripples |-> {}, nextFree |-> 0, reps |-> {}, started |-> {}, twice |-> {}, dropped |-> {}]

\* The engine's clock: what the wall clock says, less the time spent paused.
Now(u) == (IF u.pausedAt # -1 THEN u.pausedAt ELSE u.wall) - u.offset

-----------------------------------------------------------------------------
(* Shots *)

InFlight(u) == Cardinality({i \in DOMAIN u.shots : u.shots[i].fin = -1 /\ u.shots[i].start <= Now(u)})

\* maxStaggerAheadMs
MaxAhead == (MaxConcurrent - 1) * Stagger

\* allocateStartTime: one wave is spaced; too far ahead there is no start.
Slot(u) == IF u.nextFree > Now(u) THEN u.nextFree ELSE Now(u)

HasSlot(u) == Slot(u) - Now(u) <= MaxAhead

Allocate(u) == IF HasSlot(u) THEN [u EXCEPT !.nextFree = Slot(u) + Stagger] ELSE u

\* startPolylineShot: only the newest shots are kept.
StartShot(u, s, at) ==
  LET shots == Append(u.shots, [id |-> s.id, obs |-> s.obs, start |-> at, fin |-> -1, rippled |-> FALSE])
      over  == Len(shots) - MaxShots IN
  [u EXCEPT !.shots = IF over > 0 THEN SubSeq(shots, over + 1, Len(shots)) ELSE shots, !.started = @ \cup {s.id}, !.twice = @ \cup (u.started \cap {s.id})]

\* enqueuePendingShot: the oldest gives way.
EnqueuePending(u, s) ==
  LET q == Append(u.pending, s) IN
  IF Len(q) > MaxPending THEN [u EXCEPT !.pending = Tail(q), !.dropped = @ \cup {Head(q).id}] ELSE [u EXCEPT !.pending = q]

\* pushPolylineShot: without a point there is nothing to draw; at = -1 is no start.
PushShot(u, s, at) ==
  CASE Points(s.obs) < 1 -> u
    [] Points(s.obs) >= 1 /\ (at = -1 \/ InFlight(u) >= MaxConcurrent) -> EnqueuePending(u, s)
    [] OTHER -> StartShot(u, s, at)

\* drainPendingShots
DrainOne(u, i) ==
  IF InFlight(u) < MaxConcurrent /\ u.pending # <<>> /\ HasSlot(u)
  THEN StartShot([Allocate(u) EXCEPT !.pending = Tail(@)], Head(u.pending), Slot(u)) ELSE u

Drain(u) == FoldLeft(DrainOne, u, [i \in 1..MaxPending |-> i])

-----------------------------------------------------------------------------
(* Buckets *)

\* fanoutFromOrigin: a ray from the origin that the observation's own line does
\* not draw, one per first hop, for hops not drawn before.
NewRay(u, key, o) == OnlyFanout(o) /\ Hop(o) \notin u.released[key]

Fanout(u, key, o, at) ==
  IF NewRay(u, key, o)
  THEN LET v == PushShot(u, [id |-> Hop(o), obs |-> o], at) IN [v EXCEPT !.released[key] = @ \cup {Hop(o)}]
  ELSE u

\* A path that was released already only adds what it has not drawn.
Enqueue(u, o) ==
  LET key == CoalesceKey(o) IN
  CASE key \in DOMAIN u.released -> Fanout(u, key, o, Now(u))
    [] key \notin DOMAIN u.released /\ \E i \in DOMAIN u.buckets : u.buckets[i].key = key ->
         [u EXCEPT !.buckets = [i \in DOMAIN @ |-> IF @[i].key = key THEN [@[i] EXCEPT !.obs = Append(@, o)] ELSE @[i]]]
    [] OTHER -> [u EXCEPT !.buckets = Append(@, [key |-> key, at |-> Now(u), obs |-> <<o>>])]

\* spawnOriginRipple: a shot that starts now or soon ripples at its origin.
OriginRipple(rep, at) == IF at = -1 THEN {} ELSE {[id |-> rep, start |-> at]}

\* releaseBucket: the newest observation stands for the path.
ReleaseBucket(u, b) ==
  LET rep == Last(b.obs)
      at  == IF InFlight(u) < MaxConcurrent /\ HasSlot(u) THEN Slot(u) ELSE -1
      u1  == IF InFlight(u) < MaxConcurrent THEN Allocate(u) ELSE u
      u2  == [u1 EXCEPT !.released = [k \in DOMAIN @ \cup {b.key} |-> IF k = b.key THEN {Hop(rep)} ELSE @[k]], !.reps = @ \cup {rep}, !.ripples = @ \cup OriginRipple(rep, at)] IN
  FoldLeft(LAMBDA v, o : Fanout(v, b.key, o, at), PushShot(u2, [id |-> rep, obs |-> rep], at), b.obs)

\* releaseDueBuckets
Due(u, b) == Now(u) - b.at >= Hold

ReleaseDue(u) ==
  LET due == SelectSeq(u.buckets, LAMBDA b : Due(u, b)) IN
  FoldLeft(ReleaseBucket, [u EXCEPT !.buckets = SelectSeq(@, LAMBDA b : ~Due(u, b))], due)

-----------------------------------------------------------------------------
(* Frames *)

\* One shot in a frame: it finishes when it has travelled, and its hop ripples
\* once when its head gets there and the filters show it.
Advance(u, s) ==
  LET elapsed == Now(u) - s.start IN
  IF elapsed < 0 THEN s
  ELSE [s EXCEPT !.fin = IF @ = -1 /\ elapsed >= Travel THEN Now(u) ELSE @, !.rippled = @ \/ (u.shown /\ 2 * elapsed >= Travel)]

\* maybeRippleHops: the hops the heads have just reached.
HopRipples(u, moved) ==
  {[id |-> moved[i].id, start |-> Now(u)] : i \in {j \in DOMAIN moved : moved[j].rippled /\ ~u.shots[j].rippled}}

Gone(u, s) == s.fin # -1 /\ Now(u) - s.fin >= Remanence

\* draw: nothing before the map is ready.
Draw(u0) ==
  IF ~u0.ready THEN u0 ELSE
  LET u     == ReleaseDue(u0)
      moved == [i \in DOMAIN u.shots |-> Advance(u, u.shots[i])]
      hops  == HopRipples(u, moved)
      v     == Drain([u EXCEPT !.shots = SelectSeq(moved, LAMBDA s : ~Gone(u, s))]) IN
  [v EXCEPT !.ripples = {r \in @ \cup hops : Now(u) - r.start >= 0 /\ Now(u) - r.start < RippleTicks}]

\* hasMovingWork
HasMovingWork(u) ==
  \/ u.buckets # <<>> \/ u.pending # <<>>
  \/ \E r \in u.ripples : Now(u) - r.start < RippleTicks
  \/ \E i \in DOMAIN u.shots : u.shots[i].fin = -1 \/ Now(u) - u.shots[i].fin < Remanence

HasMovingShots(u) == \E i \in DOMAIN u.shots : u.shots[i].fin = -1

\* startLoop: an animation frame is asked for, once, while playing.
StartLoop(u) == IF u.playing THEN [u EXCEPT !.raf = TRUE] ELSE u

Tick ==
  /\ ui.wall < MaxTime
  /\ ui' = [ui EXCEPT !.wall = @ + 1]

\* tick of the loop
Frame ==
  /\ ui.raf
  /\ LET u == Draw([ui EXCEPT !.raf = FALSE]) IN
     ui' = IF HasMovingWork(u) THEN [u EXCEPT !.raf = TRUE] ELSE u

\* The map has loaded.
MapLoads ==
  /\ ~ui.ready
  /\ ui' = StartLoop(Draw([ui EXCEPT !.ready = TRUE]))

\* syncObservations: the view hands over everything it holds at every change,
\* and only what was not seen before counts.
Fresh(u, o) == o \notin u.seen

SyncOne(u, o) ==
  IF ~Fresh(u, o) THEN u
  ELSE LET v == [u EXCEPT !.seen = @ \cup {o}] IN IF Stale(o) THEN v ELSE Enqueue(v, o)

SyncObservations ==
  \E o \in Obs :
    /\ o \notin ui.seen /\ (o \in Third => ui.seen \cap Third = {})
    /\ ui' = StartLoop(Draw(ReleaseDue(FoldLeft(SyncOne, ui, SetToSeq(ui.seen \cup {o})))))

\* setPlaying
Pause ==
  /\ ui.playing /\ ui.uses < MaxPauses
  /\ ui' = Draw([ui EXCEPT !.playing = FALSE, !.pausedAt = ui.wall, !.raf = FALSE, !.uses = @ + 1])

Resume ==
  /\ ~ui.playing
  /\ ui' = StartLoop([ui EXCEPT !.playing = TRUE, !.offset = @ + ui.wall - ui.pausedAt, !.pausedAt = -1])

\* setFilters (and setDirectoryNodes, setLocalRadio) draw at once.
LasersSetFilters ==
  /\ ui.uses < MaxPauses
  /\ ui' = Draw([ui EXCEPT !.shown = ~@, !.uses = @ + 1])

LasersNext == Tick \/ Frame \/ MapLoads \/ SyncObservations \/ Pause \/ Resume \/ LasersSetFilters

-----------------------------------------------------------------------------
\* The state is well formed, and the lists keep their limits.
LasersTypeOK ==
  /\ ui.wall \in 0..MaxTime /\ ui.pausedAt \in -1..MaxTime /\ ui.offset \in 0..MaxTime
  /\ {ui.playing, ui.ready, ui.raf, ui.shown} \subseteq BOOLEAN
  /\ Len(ui.shots) <= MaxShots /\ Len(ui.pending) <= MaxPending
  /\ ui.seen \subseteq Obs

\* The loop that asks for animation frames stops when nothing moves and is
\* started again by what begins to move: while the map plays, a held bucket, a
\* waiting shot or a laser under way always has a frame coming (nothing stays
\* frozen on the map).
LoopAlive == ui.ready /\ ui.playing /\ HasMovingWork(ui) => ui.raf

\* Nothing heard is lost without being counted: a fresh observation is held,
\* or its path was released, and the shot that stands for the path was
\* started, is waiting, or was shed from the full queue (droppedPending).
NothingLost ==
  /\ \A o \in ui.seen : Stale(o) \/ CoalesceKey(o) \in DOMAIN ui.released \/ \E i \in DOMAIN ui.buckets : ui.buckets[i].key = CoalesceKey(o)
  /\ \A o \in ui.reps : \/ Points(o) = 0 \/ o \in ui.dropped
                        \/ o \in ui.started
                        \/ \E i \in DOMAIN ui.pending : ui.pending[i].id = o

\* However often a packet is heard on the same path and however often the view
\* hands it over, the path is drawn once, and so is each ray of its fan-out
\* (released remembers the paths of this visit).
DrawnOnce ==
  /\ ui.twice = {}
  /\ \A o, p \in ui.reps : CoalesceKey(o) = CoalesceKey(p) => o = p

\* "Space one wave of releases": two shots other than a path and its own rays
\* start a stagger apart, and none is scheduled further ahead than the wave.
WaveSpaced ==
  /\ \A i, j \in DOMAIN ui.shots :
       i # j /\ {ui.shots[i].id, ui.shots[j].id} \subseteq ui.reps =>
         ui.shots[i].start - ui.shots[j].start \notin (1 - Stagger)..(Stagger - 1)
  /\ \A i \in DOMAIN ui.shots : ui.shots[i].start - Now(ui) <= MaxAhead

\* A paused map stands still, and goes on from where it stood: the engine's
\* clock moves only with the wall clock of a playing map.
ClockHolds == Now(ui') # Now(ui) => ui.playing /\ ui'.playing /\ ui'.wall # ui.wall

-----------------------------------------------------------------------------
(***************************************************************************)
(* From what is heard to what the live map may say about it: reading a     *)
(* Community frame, placing its hops, drawing the line with the right      *)
(* confidence, finding the origin, and the region filter that follows a    *)
(* packet wherever it was heard (livePackets.ts, liveRender.ts,            *)
(* livePacketStore.ts). A place is a number and 0 no place; two places one *)
(* apart are within the 20 km of LIVE_ORIGIN_ANCHOR_KM.  The world         *)
(* "routes" gives one packet of every form, the world "regions" several    *)
(* plain ones.                                                             *)
(***************************************************************************)
Places == 1..3
Regions == {"R1", "R2"}

-----------------------------------------------------------------------------
(* Packets *)

\* A hop of a frame: named with a place, or not resolved.
Hops == [conf : {"exact", "probable"}, loc : 0..3] \cup {[conf |-> "unresolved", loc |-> 0]}

\* Frames with up to two hops; the origin of an advert, when Community names it.
RouteFrames ==
  {[event |-> "e1", key |-> "p1", iata |-> "R1", hops |-> h, ear |-> e, count |-> c, origin |-> o] :
     h \in UNION {[1..n -> Hops] : n \in 0..2}, e \in {0, 2, 3, 9}, c \in BOOLEAN, o \in {"none", "n1", "n3"}}

RegionFrames ==
  {[event |-> e, key |-> k, iata |-> r, hops |-> <<[conf |-> "exact", loc |-> 1]>>, ear |-> 0, count |-> TRUE, origin |-> "none"] :
     e \in {"e1"}, k \in {"p1", "p2"}, r \in Regions}

\* This radio's contacts, by the prefix of two bytes and more; "short" is the
\* first byte of all of them.
Contacts == {[prefix |-> "one", loc |-> 2], [prefix |-> "two", loc |-> 1], [prefix |-> "two", loc |-> 0], [prefix |-> "blind", loc |-> 0]}
Tokens == {"one", "two", "blind", "short"}

\* The nodes with a position, and the first byte of their keys.
Pins == {[key |-> "n1", loc |-> 1, first |-> "x"], [key |-> "n2", loc |-> 2, first |-> "y"], [key |-> "n3", loc |-> 3, first |-> "x"]}

RoutesInit ==
  \E w \in RoutesWorlds :
    ui = [world |-> w, got |-> 0, window |-> <<>>, obs |-> <<>>, seen |-> {}, regions |-> <<>>, forgotten |-> {}, selected |-> {}, localIata |-> "none"]

-----------------------------------------------------------------------------
(* Reading a frame *)

\* readHop: a hop that is not resolved needs no position, any other does.
ReadableHop(h) == h.conf = "unresolved" \/ h.loc \in Places

\* readEar: none, or one with a position.
ReadableEar(e) == e \in Places \cup {0}

\* asCommunityPacket: one unreadable part refuses the frame.
Readable(f) == f.count /\ ReadableEar(f.ear) /\ \A i \in DOMAIN f.hops : ReadableHop(f.hops[i])

\* recordCommunityPacket: an event is recorded once, and the oldest gives way.
Record(u, f) ==
  LET known == \E i \in DOMAIN u.window : u.window[i] = f
      next  == Append(u.window, f) IN
  IF ~Readable(f) \/ known THEN u
  ELSE [u EXCEPT !.window = IF Len(next) > MaxWindow THEN Tail(next) ELSE next]

-----------------------------------------------------------------------------
(* Placing the path *)

\* buildPrefixIndex: no entry is shorter than two bytes.
PrefixIndex(t) == {c \in Contacts : c.prefix = t}

\* uniqueGpsContact: the only contact with that prefix, when it has a position.
UniqueGpsContact(t) ==
  IF Cardinality(PrefixIndex(t)) # 1 THEN 0 ELSE (CHOOSE c \in PrefixIndex(t) : TRUE).loc

\* The hops of a packet this radio heard.
RawHops(tokens) ==
  [i \in DOMAIN tokens |-> LET loc == UniqueGpsContact(tokens[i]) IN
     IF loc # 0 THEN [conf |-> "exact", loc |-> loc] ELSE [conf |-> "unresolved", loc |-> 0]]

\* hopHasCoords
HasCoords(h) == h.conf \in {"exact", "probable"} /\ h.loc \in Places

\* arrivalConfidence: after a hop that could not be placed, nothing is exact.
ArrivalConfidence(conf, skipped) == IF skipped /\ conf = "exact" THEN "probable" ELSE conf

PlaceHop(acc, x) ==
  IF ~HasCoords(x.h) THEN [acc EXCEPT !.skipped = TRUE]
  ELSE [points |-> Append(acc.points, [loc |-> x.h.loc, kind |-> "hop", conf |-> ArrivalConfidence(x.h.conf, acc.skipped), at |-> x.i]), skipped |-> FALSE]

\* appendEarWaypoint: unless the last hop stands where the ear is.
AppendEar(acc, ear, n) ==
  IF ear = 0 \/ (acc.points # <<>> /\ Last(acc.points).loc = ear) THEN acc.points
  ELSE Append(acc.points, [loc |-> ear, kind |-> "ear", conf |-> IF acc.skipped THEN "probable" ELSE "exact", at |-> n + 1])

\* waypointsFromCommunity, waypointsFromRaw
Waypoints(hops, ear) ==
  AppendEar(FoldLeft(PlaceHop, [points |-> <<>>, skipped |-> FALSE], [i \in DOMAIN hops |-> [i |-> i, h |-> hops[i]]]), ear, Len(hops))

ObservationFromCommunity(f) ==
  [id |-> <<f.event, f.key, f.iata>>, key |-> f.key, iata |-> f.iata, hops |-> f.hops, points |-> Waypoints(f.hops, f.ear), ear |-> f.ear, advert |-> f.origin, src |-> "none", tokens |-> <<>>]

ObservationFromRaw(p) ==
  [id |-> <<"local", p.key, "none">>, key |-> p.key, iata |-> "none", hops |-> RawHops(p.tokens), points |-> Waypoints(RawHops(p.tokens), 3), ear |-> 3, advert |-> "none", src |-> p.src, tokens |-> p.tokens]

-----------------------------------------------------------------------------
(* The origin and the line *)

\* firstHopAnchor: the first placed hop, else the ear.
Anchor(o) ==
  LET hops == SelectSeq(o.points, LAMBDA p : p.kind = "hop") IN
  IF hops # <<>> THEN Head(hops).loc ELSE o.ear

\* findPinByKey
Advertiser(o) == {p.loc : p \in {q \in Pins : q.key = o.advert}}

\* resolveOriginPin: the advertiser's pin; else the only pin near the anchor
\* whose key starts with the source byte.
NearbyPins(o) ==
  IF Anchor(o) = 0 THEN {} ELSE {p \in Pins : p.first = o.src /\ p.loc - Anchor(o) \in -1..1}

OriginOf(o) ==
  IF Advertiser(o) # {} THEN Advertiser(o)
  ELSE IF Cardinality(NearbyPins(o)) = 1 THEN {p.loc : p \in NearbyPins(o)} ELSE {}

\* prependOrigin: the origin is the first point, and no other point stands there.
Line(o) ==
  IF OriginOf(o) = {} THEN o.points
  ELSE LET loc == CHOOSE l \in OriginOf(o) : TRUE IN
       <<[loc |-> loc, kind |-> "origin", conf |-> "exact", at |-> 0]>> \o SelectSeq(o.points, LAMBDA p : p.loc # loc)

\* buildLaserPolyline: an edge has the confidence of the point it arrives at.
Edges(o) == {[from |-> Line(o)[i], to |-> Line(o)[i + 1]] : i \in 1..(Len(Line(o)) - 1)}

-----------------------------------------------------------------------------
(* The region filter *)

\* LivePacketRegionIndex.add: an observation of this radio counts for the
\* radio's region; the packets indexed first are forgotten first.
IndexPacket(u, o) ==
  LET code  == IF o.iata = "none" THEN u.localIata ELSE o.iata
      at    == {i \in DOMAIN u.regions : u.regions[i].key = o.key}
      next  == IF at # {} THEN [i \in DOMAIN u.regions |-> IF i \in at THEN [u.regions[i] EXCEPT !.in = @ \cup {code}] ELSE u.regions[i]]
               ELSE Append(u.regions, [key |-> o.key, in |-> {code}]) IN
  CASE code = "none" -> u
    [] code # "none" /\ Len(next) > MaxIndexed -> [u EXCEPT !.regions = Tail(next), !.forgotten = @ \cup {Head(next).key}]
    [] OTHER -> [u EXCEPT !.regions = next]

\* observationPassesFilters
Passes(u, o) ==
  \/ u.selected = {} \/ o.iata = "none" \/ o.iata \in u.selected
  \/ \E i \in DOMAIN u.regions : u.regions[i].key = o.key /\ u.regions[i].in \cap u.selected # {}

\* syncObservations: what the engine has not seen is indexed.
Sync(u, o) ==
  IF o.id \in u.seen THEN u
  ELSE IndexPacket([u EXCEPT !.seen = @ \cup {o.id}, !.obs = Append(@, [o EXCEPT !.id = <<>>] @@ [home |-> u.localIata])], o)

FrameArrives ==
  \E f \in IF "routes" \in ui.world THEN RouteFrames ELSE RegionFrames :
    /\ ui.got < MaxPackets /\ ("routes" \in ui.world => ui.got = 0)
    /\ LET u == Record(ui, f) IN
       ui' = FoldLeft(Sync, [u EXCEPT !.got = @ + 1], [i \in DOMAIN u.window |-> ObservationFromCommunity(u.window[i])])

RawArrives ==
  \E tokens \in UNION {[1..n -> Tokens] : n \in 0..(IF "routes" \in ui.world THEN 2 ELSE 0)}, src \in {"x", "y"}, key \in {"p1", "p2"} :
    /\ ui.got < MaxPackets /\ ("routes" \in ui.world => ui.got = 0 /\ key = "p1") /\ ("regions" \in ui.world => src = "x")
    /\ ui' = Sync([ui EXCEPT !.got = @ + 1], ObservationFromRaw([key |-> key, tokens |-> tokens, src |-> src]))

\* setLocalIata, when the Community status is known.
LocalIataKnown ==
  /\ ui.localIata = "none" /\ "regions" \in ui.world
  /\ ui' = [ui EXCEPT !.localIata = "R2"]

\* The filter's menu.
RoutesSetFilters ==
  \E s \in SUBSET Regions :
    /\ s # ui.selected /\ "regions" \in ui.world
    /\ ui' = [ui EXCEPT !.selected = s]

RoutesNext == FrameArrives \/ RawArrives \/ LocalIataKnown \/ RoutesSetFilters

-----------------------------------------------------------------------------
\* The state is well formed, and the stores keep their limits.
RoutesTypeOK ==
  /\ ui.got \in 0..MaxPackets /\ Len(ui.window) <= MaxWindow /\ Len(ui.regions) <= MaxIndexed
  /\ ui.selected \subseteq Regions /\ ui.localIata \in Regions \cup {"none"}
  /\ \A i \in DOMAIN ui.obs : \A p \in Range(ui.obs[i].points) : p.loc \in Places

\* The map shows a hop as certain only when it is: an exact edge joins two
\* neighbours of the heard path, and the one it arrives at was named with
\* certainty.  (Left out: an origin that stands where a later hop stands,
\* which takes that hop off the line.)
ExactIsHeard ==
  \A i \in DOMAIN ui.obs : LET o == ui.obs[i] IN
    (\A l \in OriginOf(o) : \A j \in 2..Len(o.hops) : o.hops[j].loc # l) =>
      \A e \in Edges(o) : e.to.conf = "exact" =>
        /\ \A j \in (e.from.at + 1)..(e.to.at - 1) : o.hops[j].loc = e.from.loc
        /\ e.to.kind = "hop" => o.hops[e.to.at].conf = "exact"

\* "0 or 2+ candidates -> no origin": a line begins at a node that was only
\* guessed from one byte when no other node could have sent it from there.
OriginCertain ==
  \A i \in DOMAIN ui.obs : LET o == ui.obs[i] IN
    o.advert = "none" =>
      \A l \in OriginOf(o) : \A p \in Pins : p.first = o.src /\ p.loc - Anchor(o) \in -1..1 => p.loc = l

\* "1-byte prefixes are never first-matched to a contact", and neither is a
\* prefix two contacts share: a hop of a packet this radio heard is drawn where
\* every contact its token could mean is known to be.
PlacedOnce ==
  \A i \in DOMAIN ui.obs : ui.obs[i].iata = "none" =>
    \A p \in Range(ui.obs[i].points) : p.kind = "hop" =>
      \A c \in Contacts : c.prefix = ui.obs[i].tokens[p.at] \/ ui.obs[i].tokens[p.at] = "short" => c.loc = p.loc

\* "once one observation comes from a chosen region, every observation of that
\* packet shows, wherever it was heard", in whatever order they came; and a
\* packet no chosen region heard does not.  (A packet the index has forgotten
\* goes by its own region only.)
RegionFollows ==
  \A i \in DOMAIN ui.obs : LET o == ui.obs[i] IN
    o.key \notin ui.forgotten /\ ui.selected # {} /\ o.iata # "none" =>
      (Passes(ui, o) <=> \E j \in DOMAIN ui.obs :
         ui.obs[j].key = o.key /\ (IF ui.obs[j].iata = "none" THEN ui.obs[j].home ELSE ui.obs[j].iata) \in ui.selected)
=============================================================================
