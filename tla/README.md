# Meshloom in TLA+

A specification of the parts of Meshloom whose correctness depends on the order
in which things happen, with model-checked instances and machine-checked proofs.
Meshloom is a FastAPI server (`app/`) that drives one MeshCore radio and keeps a
SQLite database, and a React client (`frontend/src/`). The server is one asyncio
loop with a half-duplex radio behind a lock and a mesh that loses, delays and
repeats packets. The client is a set of hooks and pages that ask over HTTP, are
told over a WebSocket, and must show one truth from both.

The modules are written from the source. The `map` of `PROJECT.json` gives the
lines a definition stands for; an operator that only names a part of what another
definition models has no entry of its own, and its lines are among those of the
definition that uses it. `PROJECT.json` also lists the components (modelled or
not, with the reason), the runs, the hazards, the findings and the theorems.

## Parts, modules and how they interact

An event of the radio or a raw packet passes the ingest gate, becomes rows and
broadcasts. A request takes the radio operation lock, talks to the radio and
stores what it did. The lifecycle code replaces the radio under all of them. The
client learns of rows by fetches and by broadcasts, in any order of the two.

| Part | Source | Modules |
|---|---|---|
| Send-slot cache of channels | `app/radio.py`, `services/message_send.py`, `routers/tools.py`, `services/backup_radio.py` | `ChannelSlots`, `ChannelSlotsProofs` |
| Radio connection, identity and ingest gate | `app/radio.py`, `services/radio_lifecycle.py`, `services/radio_identity.py`, `services/radio_ingest_gate.py`, `routers/radio.py`, `event_handlers.py` | `RadioLifecycle`, `RadioLifecycleCalls`, `RadioLifecycleProofs`, `RadioLifecycleTypes` |
| Direct messages sent: retries and ACKs | `services/message_send.py`, `services/dm_ack_*.py` | `DirectMessages`, `DirectMessagesStoring`, `DirectMessagesProofs` |
| Direct messages received: placeholder contacts, history | `services/dm_ingest.py`, `packet_processor.py`, `services/contact_reconciliation.py` | `IncomingMessages`, `IncomingMessagesProofs` |
| Live socket and lists | `useWebSocket.ts`, `hooks/useRealtimeAppState.ts` | `LiveLink`, `WebSocketClient`, `AppSync`, `AppSyncProofs` |
| Messages of the open conversation | `hooks/useConversationMessages.ts` | `ConversationMessages` |
| Where the reader is, unread counts, rows and scrolling | `hooks/useConversationRouter.ts`, `hooks/useUnreadCounts.ts`, `components/MessageList.tsx` | `Navigation`, `UnreadCounts`, `MessageScroll`, `MessageRows` |
| Settings pages | `components/settings/` | `FanoutSettings`, `RadioForm`, `TransportPanel`, `AppSettings`, `Notifications`, `AlertRules`, `OssUpdates`, `BackupRestore`, `CommunitySettings` |
| Packets, maps, visualizer | `components/`, `stores/` | `PacketTools`, `LiveMap`, `LivePage`, `VisualizerData`, `VisualizerView` |
| Tools and sheets | `components/` | `Composer`, `MessageLookup`, `RadioTools`, `ChannelFinder`, `RepeaterDashboard`, `TracePath`, `InfoSheets` |

`AppSync` is composed with `WebSocketClient`, whose socket it uses, and
`WebSocketClient` implements `LiveLink`, the abstract link. A module of the client
that names two or three things in its first line holds two or three small
machines that share definitions (`FanoutSettings`: one draft, and the list).

The MC modules instantiate the rest. `MCIncomingMessages` and `MCRadioLifecycle` add
constants and symmetry. `MCStored`, `MCReading` and `MCTools`
put parts that do not interact beside each other: the initial state chooses a
`part`, which never changes, and only that part's steps are taken, so that a run
explores the sum of the parts' states and not their product.

## Conventions

* On the server an atomic step is the code between two awaits; a database
  transaction is one step; `asyncio.Lock` is fair and not reentrant.
* In the client a handler and the commits it causes are one step; a request has
  two ends, when the server answers and when the answer arrives. A page is one
  record, `ui`.
* `world` is a set of circumstances that is chosen at the start and never changes
  ("fails": requests may fail, "hurries": the reader acts before an answer, and so
  on; each module's header says which it has). A property may name the
  circumstances it is promised in. The `*Worlds` of the MC modules are the
  combinations explored.
* Every counter is bounded by a constant in a guard (`MaxEvents`, `MaxClicks`, ...).
* Text, names and payloads are model values or small numbers.
* A definition marked `(mutant)` is the definition after it with a plausible
  fault. No specification uses it; `PROJECT.json` names the property it breaks.

## The runs

| Run | Module | Checks |
|---|---|---|
| `stored` | `MCStored` | slot cache (`EvictionNamed`, `CacheAgrees`, `SendsUnderOwnKey`, `MapsInverse`), received messages (`OneRowPerDm`, `NoDmLost`, `OneConversation`, `HistoryDecrypted`), and the settings pages, packet views, sheets and the restore |
| `reading` | `MCReading` | the message list, navigation, unread counts, scrolling, rows and the resend window |
| `tools` | `MCTools` | the socket (`OneAttemptAtATime`, `ImplementsLink`), the lists (`Mirrored`), and the pages that ask, send, search, poll or draw; with fairness |
| `direct_messages` | `DirectMessages` | `OwnRow`, `OneRowPerTimestamp`, `AckNotLost`, `AckPerCode`, `SendsEnd` |
| `radio_failures` | `MCRadioLifecycle` | `LocksGuard`, `OpensOnNothing` under setup errors, reboots, drops and a cancelled monitor |
| `radio_identity` | `MCRadioLifecycle` | `HistoryOfBound`, `GateShutsIngest`, `UnboundOnlyLegacy` with two radios |
| `radio_settles` | `MCRadioLifecycle` | `Settles`, `PauseHonoured` under fairness |
| `radio_transitions` | `MCRadioLifecycle` | `LockOrder`, `TransitionsEnd`, two requests at a time |
| `slots_mesh_test` | `ChannelSlots` | violated: `SendsUnderOwnKey` |
| `incoming_overlap` | `MCIncomingMessages` | violated: `OneRowPerDm` |
| `radio_pairing` | `MCRadioLifecycle` | violated: `Settles` |
| `radio_cancel` | `MCRadioLifecycle` | violated: `TransitionsEnd` |

The three large runs state what their pages promise under four headings. Each
heading is a conjunction over the parts of properties that are defined, with
their own comments, in the part's module:

* `ShownTrue`: what a page shows is what the server, the radio or the store has,
  or belongs to the question asked last, once the answers it waits for are in.
* `CarriedThrough`: what was begun is done, once: nothing received, sent or queued
  is lost or done twice, no indicator hangs, nothing stops half way.
* `ReaderKept`: what the reader wrote, chose, closed or confirmed stands and goes
  out as they asked, whatever arrives meanwhile.
* `WaitsEnd`: every wait ends, and lists, relay session, frame and scene end up
  right for good.

`PartsTypeOK` is the type invariant of the chosen part.

### The violated runs

* `slots_mesh_test`: a mesh test frees its slot in the cache before it waits for
  the lock (`routers/tools.py:118`); a send queued ahead registers the slot again,
  and the next send uses a slot the test has overwritten.
* `incoming_overlap`: a contact that appears between the fallback's look-up and
  its store leaves the message under the prefix and under the key. With
  `Overlap = TRUE` the other three properties of received messages fail from the
  same window: once both rows exist every claim meets the unique index.
* `radio_pairing`: pairing that keeps a working link closes ingest and nothing
  opens it again (`routers/radio.py:1362`).
* `radio_cancel`: a monitor cancelled inside
  `stop_background_contact_reconciliation` swallows the cancellation and the
  transition waits for ever (`radio_sync.py:1832`).

## The server modules

**ChannelSlots.** The cache (`_channel_slot_by_key`, `_channel_key_by_slot`, the
order of use) beside what the slots of the radio hold. `op` is the holder of the
radio operation lock. Actions: a send, a mesh test, a backup push, the channel
sync, the audit, the disconnect, the identity wipe and the setting that disables
reuse. A command that reports an error may or may not have written the slot.
`stored` has three channels on two slots, the least that give an eviction and a
third channel to hurt, without mesh tests, toggles and unanswered restore writes.
A second instance with every feature, two channels on one slot, is checked for
`MapsInverse`. `Toggles = TRUE`, or `"silent"` in `RestoreReplies`, breaks
`SendsUnderOwnKey`: slots written while reuse is off, and a write that took effect
without an answer, leave stale entries.

**RadioLifecycle.** Each task has a call stack, so that shared coroutines
(`disconnect`, `reconnect`, setup, identity check) are modelled once and called by
the monitor, by requests and by startup. `running` is the task that has the loop
between two awaits. State: the flags of `RadioManager`, the transport (`mc`, `link`,
the library's own reconnect), the ingest gate, the bound key and identity state in
the database, four locks, and `history`, the radios whose rows are stored. Two
events are enough for a failure followed by a request or a drop inside the
handling of another; the identity run has three because a radio must be bound,
replaced and decided upon. Outside the runs' constants: `LibrarySwaps = TRUE`, and
`SlowHandlers` with `adopt`, break `HistoryOfBound`; `private_key` while a setup runs,
or `ReconcileRuns` in the identity run, break `GateShutsIngest`; two `put_transport`
requests break `UnboundOnlyLegacy`.

**DirectMessages.** One conversation and one text, because every table involved is
keyed by that content. The actions follow `send_direct_message_to_contact`: the
timestamp is checked, read against the database, reserved, sent, stored under the
store lock, released, and its ACK code registered; a retry task may follow.
`ApplyAck` and `CountAck` are `apply_dm_ack_code` before and after its await. The echo
of our packet takes the same lock. The run has two sends in one second, one of
them retried once, two ACKs heard and one echo. The code allows three attempts;
two are enough for a code that is superseded. A message can count two ACKs of two
attempts: the first is applied between the retry's last look at `acked` and the
registration of the new code (`dm_ack_tracker.py:82` means to exclude it);
`AckPerCode` allows it. A send that failed may share its timestamp with a later
one; it has no row.

**IncomingMessages.** A direct message is seen by the radio's event (the fallback),
by its raw packets and by the scan of undecrypted packets. The fallback has only a
key prefix and may store under it; the contact's appearance promotes the
placeholder and claims the rows. `stored` and the proofs set `Overlap = FALSE`: the
contact is not inserted, promoted or claimed while a fallback for it is under way.
That is an assumption on timing and not something the code ensures. Two messages
of one sender, two packets (of both, or of one by two routes) and two insertions
cover each pair of observers on one message while another message meets the
contact in a different state. Repeaters, rooms and prefixes that match two
contacts are left out; the private key is taken as exported.

## The client modules

**WebSocketClient, LiveLink, AppSync.** The socket has a reconnect timer with a
growing delay, a timer that calls the link stable, and replaced sockets whose
events still come. `ImplementsLink` is the refinement: for the rest of the client it
is a link that is up or down and asks for a resynchronisation at every opening but
the first. `AppSync` adds the lists, the changes on the wire, and fetches whose
answers are computed at one moment and applied at a later one, with the trackers
of `onReconnect`. `Mirrored` is promised in the worlds without "fails" and "late": the
plain fetches of start-up and of a reload have no tracker, and a change received
between their answer and its arrival is overwritten.

**ConversationMessages.** `hook.st` is the state with every queued update applied,
`hook.ref` what handlers read; `Commit` brings them together. Pages of two messages,
a cache of one conversation and a buffer of one early ACK are at their limits in
most behaviours. In the combinations outside `MCWorlds` the model shows that the
answer of a jump to a message overwrites messages received meanwhile
(`useConversationMessages.ts:832`), and that a flood of events during a fetch leaves
a hole.

**The pages.** Each module's header says what a row, a request and a circumstance
are. Bounds count clicks, edits, jobs and failures; they are the smallest with
which an answer can arrive late for a second question, a failure can come between
two successes, and every cache, window or queue of the page can be full.
The code also does the following, which the `*Worlds` chosen keep out or the
properties allow:

* Settings: a refetch of the destinations wipes what is being typed; a failed
  save of a notification address is still followed by its test; an alert override
  that is removed while others stay comes back, because the page sends no
  `channels` and the server then merges (`telemetry_alerts.py:448`,
  `SettingsAlertsSection.tsx:143`); a refused install leaves the
  dialog open; overlapping fetches of the Wi-Fi state end with the older; editing
  the rail drops `server_label`; two readings of the community status share one
  request and may show the older.
* Reading: a list one row longer than the screen is not followed; at a second
  visit the unread divider uses the old boundary; a tool opened from the rail while
  settings are open is replaced by the popstate (`AppShell.tsx:460`).
* Tools: repeater panes that are queued go on after the panel is left
  (`useRepeaterDashboard.ts:177`); a search engine error counts its length as
  tried; text replacement may expand its own result; a mesh test whose page is
  reopened before the send answered is not kept (`MeshTestView.tsx:46`).
* Maps and packets: a staggered ripple of the live map may be dropped; a
  visualizer lookup that failed is not asked again, and clearing brings back
  packets still in the store; a restart of the feed drops its statistics
  (`rawPacketStore.ts:113`); a restore file chosen before the answer
  about the latest job is in may bring that job back.

## Fairness

`FairSpec` of `RadioLifecycle` and `DirectMessages` is weak fairness of each task:
asyncio resumes every task that is ready. The client's is weak fairness of timers,
of event handlers and of the server's answers: the browser's event loop and a
reachable server. Nothing is assumed of requests, clicks, drops and failures; they
are bounded, so the liveness properties speak of what happens once they end. In
`MCTools` a part has at most ten fair actions; `Fair1` to `Fair10` are the first,
second, ... of every part, which is the same as fairness of each since `part` never
changes.

## What is proved

The proofs are for every value of the constants that the named assumptions allow:
any number of channels and slots, of messages, peers and observers, of sends,
echoes and attempts, of keys and rows, of radios and requests, and any bounds.

**ChannelSlotsProofs.** `SlotsTyped`, `MapsStayInverse`: with every feature on the two
maps are inverse; the induction adds that an operation under way names a real
channel and slot. `EvictionAlwaysNamed` (assuming `~Toggles`): a slot about to be
rewritten is free or its channel is the one named for eviction, mesh tests
included; it rests on a counting argument, that one slot is free while fewer
channels are cached than there are slots (`FreeSlotExists`).
`CachedSlotsHoldTheirKey` and `SendsStayUnderOwnKey` (assuming `Quiet`: no mesh tests,
toggles or unanswered restore writes): `SendsUnderOwnKey` is not inductive; it needs
that the cache agrees with the radio, that a rewritten slot belongs to nobody but
the evicted channel, and that a send about to transmit stands on its slot.

**IncomingMessagesProofs** (assuming `~Overlap`). `DmStoredOnce`, `DmNeverLost`,
`ConversationInOnePlace`, `HistoryNotForgotten`, and the action property
`MessagesNeverDropped`. The invariant `IncomingInv` says three things beyond types
and locks. Placing: once a contact is known no fallback can choose the prefix.
Claiming: whoever is about to store under the full key has claimed the prefix rows
before, so a row under the key means no prefix row is left and a claim never
raises. Scanning: a packet that is not linked is waited for by the advert that
inserted the contact, by the scan that advert started, or by its own task.

**DirectMessagesStoring, DirectMessagesProofs.** `EverySendItsRow`,
`OneRowForSendAndEcho`, `AckCounted`, `AckCountedOnce`, `DirectShape`, and the action
property `RowsOnlyGrow`. The invariant `DirectInv` has four parts. Reserving: a
timestamp is reserved from its choice until its row is there, and whoever reads
the database for a candidate will see the row of any send that had it. Storing:
rows are inserted under the store lock after a look-up that found none. Tracking: a
code is registered once, and from then on it is expected, counted or about to be.
Counting: a row's count is at most the number of its own codes that are spent. The
first module has the invariant, the frames and the steps up to the row; the second
the retries, ACKs, echoes and theorems.

**RadioLifecycleCalls, RadioLifecycleProofs.** `LocksAlwaysGuard`, `NeverOpensOver` and `LocksInOrder`: the
invariants `LocksGuard`, `OpensOnNothing` and `LockOrder`, with every circumstance
on (drops, swaps, reboots, setup that raises or times out, a cancelled monitor) and
any set of requests at a time. None of them is inductive: a frame does not tell
which locks the frames below it hold, so nothing in `LocksGuard` forbids a task that
leaves a guarded frame from having another one deeper down. The invariant `RadioInv`
adds what the code's call graph gives. `Covers` says which frames may be below
which, and `Stacked` that every stack obeys it: a coroutine guarded by a lock is
never called, directly or through others, from code that holds that lock.
`SetupCalled`: a setup has `prepare_connected_radio` below it, so that its timeout has
somewhere to unwind to. `TransitionGuarded`: a request holds the lifecycle lock from
the moment it asks the monitor to stop until its exit, and the monitor stays away
in between, so that the exit may start it anew. `OpensBare`: whoever is about to open
a transport has found none, also while suspended. The proof classifies steps by
what they do to a stack (replace the innermost frame, call, return, start, unwind),
proves once for each class that `RadioInv` is kept (`Kept`, `ResetsNext`, `Begins`),
and shows of each action which class it is in; the first module has the classes and
the coroutines that tasks share, the second the rest and the theorems. It assumes of the constants that
the tasks of requests are neither the monitor nor the library's task, nor `None`.

**RadioLifecycleTypes.** `RadioShape`: `TypeOK` of `RadioLifecycle`. `Typed` adds the types
of the local variables, because a key or a snapshot read before an await is written
to the database after it.

**AppSyncProofs.** `NeverStranded`: a mounted client has exactly one of a socket and a
reconnect timer. `SocketImplementsLink`: the refinement of `LiveLink`, step by step.
`ListsMirrorServer`: `Mirrored` for all kinds, keys and rows.
`Mirrored` speaks of quiet states only, so the invariant `SyncInv` says what holds in
between (`CorrectionsOwed`): a row that differs from the server's is owed a
correction, by a change on the wire or by the answer of the latest fetch (`Owed`);
the last change on the wire about a row is the server's (`WireCurrent`); and no
answer still to come is older than what the client has, unless a change on the
wire makes up for it (`NoSpoiling`). Before the first opening, and for fetches
without a tracker, the simpler `FirstFetches` and `Untracked` hold.

## Only model-checked

* Liveness: `SendsEnd`, `Settles`, `PauseHonoured`, `TransitionsEnd`, `WaitsEnd`. The
  prover has no rule for fairness or ENABLED.
* `RadioLifecycle`: `HistoryOfBound`, `GateShutsIngest` and `UnboundOnlyLegacy` hold
  for the chosen constants and fail for others, as said above: they depend on
  which requests overlap, and there is no theorem for all constants to prove.
* `ConversationMessages` and the pages: their promises are conjunctions over many
  small machines, checked on the instances given. Several use folds and
  filters over sequences, for which the prover has no induction.

## Not modelled

Packet layouts, AES and X25519 are pure functions over byte strings too large to
enumerate. MQTT, webhook, SQS, Apprise, map upload and push modules are formatting
around a client library or a remote service. Channel echoes and resends, flood
scope, contacts on the radio, the clock, the broadcast to sockets, the fan-out
manager, the companion proxy, the server's side of Wi-Fi, community, telemetry,
updates and restore are state machines that could be modelled and are not.
Migrations, views without state of their own, and packaging have no protocol. The
`components` of `PROJECT.json` list each with its reason, and the `hazards` without a
property say what a model of them should answer.
