------------------------------- MODULE AppSync -------------------------------
(***************************************************************************)
(* The contact and channel lists of the web client, kept in step with the  *)
(* server by three means: lists fetched over HTTP, changes sent over the   *)
(* socket, and a fetch after every reconnection that is merged with the    *)
(* changes received while it was under way (useRealtimeAppState).  The     *)
(* socket is the one of WebSocketClient.  A row is its version; the order  *)
(* of a list is left out.                                                  *)
(***************************************************************************)
EXTENDS WebSocketClient, Sequences, FiniteSets

CONSTANTS
  Kinds,        \* the lists: contacts and channels
  Keys,         \* public keys and channel keys
  Versions,     \* what a row may say
  None,         \* no row; an answer not given yet
  MaxChanges,   \* bound: changes on the server
  MaxWire,      \* bound: changes under way
  MaxCloses,    \* bound: times a socket closes
  MaxLoads,     \* bound: lists fetched without a tracker after the first ones
  Worlds        \* sets of circumstances

\* fails: a fetch may fail; late: the server changes while the answer of a fetch
\* without a tracker is on its way, or between the first answers and the first
\* opening of the socket; remounts: the effect is undone and redone; loads: the
\* user does something that ends with a fetch.
Circumstances == {"fails", "late", "remounts", "loads"}

ASSUME SyncAssumption == Worlds \subseteq SUBSET Circumstances

VARIABLES
  world,    \* the circumstances of this behaviour
  server,   \* the rows on the server
  wire,     \* changes sent over the open socket
  lists,    \* contacts and channels in the client
  asked,    \* fetches under way
  gen,      \* reconnectGenerationRef
  changes, closes, loads

dataVars == <<server, wire, lists, asked, gen, changes, closes, loads>>
vars == <<world, sockVars, dataVars>>

Rows == [Keys -> Versions \cup {None}]
NoRows == [k \in Keys |-> None]

\* A fetch: its generation (0 without a tracker), the keys a change touched since
\* it began, and the rows the server answered with.
Fetch(kind, g) == [kind |-> kind, gen |-> g, no |-> loads, touched |-> {}, answer |-> None]

TypeOK ==
  /\ SockTypeOK
  /\ server \in [Kinds -> Rows] /\ lists \in [Kinds -> Rows]
  /\ Len(wire) <= MaxWire
  /\ \A r \in asked : r.gen \in 0..gen /\ r.touched \subseteq Keys

Init ==
  /\ world \in Worlds
  /\ SockInit
  /\ server \in [Kinds -> {NoRows} \cup [Keys -> Versions]]
  /\ wire = <<>> /\ lists = [kind \in Kinds |-> NoRows] /\ asked = {} /\ gen = 0
  /\ changes = 0 /\ closes = 0 /\ loads = 0

-----------------------------------------------------------------------------
(* The server.                                                             *)

Unanswered(kind) == \E r \in asked : r.kind = kind /\ r.gen = 0 /\ r.answer = None

Overtakes ==
  \/ "late" \in world
  \/ /\ \A r \in asked : r.gen = 0 => r.answer = None
     /\ ever \/ ~mounted \/ \A kind \in Kinds : Unanswered(kind)

\* A list, where the rows that a change speaks of replace its own.
Updated(list, rows) == [k \in Keys |-> IF k \in DOMAIN rows THEN rows[k] ELSE list[k]]

\* A change is stored and sent to every open socket.
Change(kind, rows) ==
  /\ changes < MaxChanges /\ Overtakes
  /\ cur = "open" => Len(wire) < MaxWire
  /\ changes' = changes + 1
  /\ server' = [server EXCEPT ![kind] = Updated(@, rows)]
  /\ wire' = IF cur = "open" THEN Append(wire, [kind |-> kind, rows |-> rows]) ELSE wire
  /\ UNCHANGED <<world, sockVars, lists, asked, gen, closes, loads>>

Upsert(kind, k, v) == server[kind][k] # v /\ Change(kind, [x \in {k} |-> v])
Remove(kind, k) == server[kind][k] # None /\ Change(kind, [x \in {k} |-> None])

\* A contact known by a prefix of its key becomes known by the whole key.
Resolve(k, full) ==
  /\ k # full /\ server["contacts"][k] # None
  /\ Change("contacts", [x \in {k, full} |-> IF x = full THEN server["contacts"][k] ELSE None])

Serve(r) ==
  /\ r.answer = None
  /\ asked' = (asked \ {r}) \cup {[r EXCEPT !.answer = server[r.kind]]}
  /\ UNCHANGED <<world, sockVars, server, wire, lists, gen, changes, closes, loads>>

-----------------------------------------------------------------------------
(* The client.                                                             *)

\* noteDelta: every fetch under way remembers the keys, then the row is merged.
NoteDelta(kind, keys) ==
  {IF r.kind = kind /\ r.gen > 0 THEN [r EXCEPT !.touched = @ \cup keys] ELSE r : r \in asked}

\* onContact, onContactResolved, onChannel and the two deletions.
Receive ==
  /\ wire # <<>>
  /\ OnMessage
  /\ LET e == Head(wire) IN
     /\ asked' = NoteDelta(e.kind, DOMAIN e.rows)
     /\ lists' = [lists EXCEPT ![e.kind] = Updated(@, e.rows)]
  /\ wire' = Tail(wire)
  /\ UNCHANGED <<world, server, gen, changes, closes, loads>>

\* Touched rows keep the live value, all others take the snapshot's.
MergeSnapshotKeepingAbsent(snapshot, live, touched) ==
  [k \in Keys |-> IF k \in touched /\ live[k] # None THEN live[k] ELSE snapshot[k]]

MergeSnapshot(snapshot, live, touched) ==
  [k \in Keys |-> IF k \in touched THEN live[k] ELSE snapshot[k]]

IsLatest(r) == r.gen = 0 \/ r.gen = gen

Deliver(r) ==
  /\ r.answer # None
  /\ lists' = IF IsLatest(r)
              THEN [lists EXCEPT ![r.kind] = MergeSnapshot(r.answer, @, r.touched)] ELSE lists
  /\ asked' = asked \ {r}
  /\ UNCHANGED <<world, sockVars, server, wire, gen, changes, closes, loads>>

Fail(r) ==
  /\ "fails" \in world
  /\ asked' = asked \ {r}
  /\ UNCHANGED <<world, sockVars, server, wire, lists, gen, changes, closes, loads>>

\* The first effect of the page: the socket and the two lists.
Start ==
  /\ ~mounted
  /\ ever => "remounts" \in world
  /\ Mount
  /\ asked' = asked \cup {Fetch(kind, 0) : kind \in Kinds}
  /\ UNCHANGED <<world, server, wire, lists, gen, changes, closes, loads>>

\* onopen; onReconnect fetches both lists under a new generation and tracker.
Opened ==
  /\ OnOpen
  /\ asked' = IF ever THEN asked \cup {Fetch(kind, gen + 1) : kind \in Kinds} ELSE asked
  /\ gen' = IF ever THEN gen + 1 ELSE gen
  /\ UNCHANGED <<world, server, wire, lists, changes, closes, loads>>

Closed ==
  /\ closes < MaxCloses /\ closes' = closes + 1
  /\ OnClose
  /\ wire' = <<>>
  /\ UNCHANGED <<world, server, lists, asked, gen, changes, loads>>

Cleanup ==
  /\ "remounts" \in world /\ closes < MaxCloses /\ closes' = closes + 1
  /\ Unmount
  /\ wire' = <<>>
  /\ UNCHANGED <<world, server, lists, asked, gen, changes, loads>>

Timer ==
  /\ StableTimer \/ ReconnectTimer \/ ReconnectNow \/ StaleEvent
  /\ UNCHANGED <<world, dataVars>>

\* Creating, deleting, adopting or refusing, and a reload of everything, end with
\* lists fetched without a tracker.
Load(kind) ==
  /\ "loads" \in world /\ mounted /\ loads < MaxLoads /\ loads' = loads + 1
  /\ asked' = asked \cup {[Fetch(kind, 0) EXCEPT !.no = loads + 1]}
  /\ UNCHANGED <<world, sockVars, server, wire, lists, gen, changes, closes>>

Next ==
  \/ \E kind \in Kinds, k \in Keys :
       Remove(kind, k) \/ \E v \in Versions : Upsert(kind, k, v)
  \/ \E k, full \in Keys : "contacts" \in Kinds /\ Resolve(k, full)
  \/ \E r \in asked : Serve(r) \/ Deliver(r) \/ Fail(r)
  \/ \E kind \in Kinds : Load(kind)
  \/ Receive \/ Start \/ Opened \/ Closed \/ Cleanup \/ Timer

\* Fairness: timers fire and events are handled (the browser's event loop), a
\* socket that is being opened opens or closes (closes are bounded: the server is
\* back for good some day), the server answers, and a page is mounted.
Fairness ==
  /\ WF_vars(Start) /\ WF_vars(Opened) /\ WF_vars(Receive)
  /\ WF_vars(ReconnectTimer /\ UNCHANGED <<world, dataVars>>)
  /\ WF_vars(\E r \in asked : Serve(r)) /\ WF_vars(\E r \in asked : Deliver(r))

Spec == Init /\ [][Next]_vars /\ Fairness

-----------------------------------------------------------------------------
(* Properties.                                                             *)

Quiet == cur = "open" /\ wire = <<>> /\ asked = {}

\* With the socket open and nothing under way the lists are the server's: a slow
\* answer overwrites nothing newer, an answer of an older generation is ignored,
\* and what was missed while the socket was down is made up for.
Mirrored == world \cap {"fails", "late"} = {} /\ Quiet => lists = server

\* However often the socket is lost, the client ends up connected with the
\* server's lists (once the server stays reachable and changes no more).
EventuallyMirrored == world \cap {"fails", "late"} = {} => <>[](cur = "open" /\ lists = server)

=============================================================================
