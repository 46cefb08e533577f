----------------------------- MODULE PacketTools ----------------------------
(***************************************************************************)
(* Packets: the raw feed, its stored history, and the journal of control   *)
(* packets.                                                                *)
(***************************************************************************)
EXTENDS Integers, Sequences, FiniteSets, SequencesExt

CONSTANTS FeedWorlds,        \* the sets of circumstances considered
          MaxFeedPackets,    \* MAX_RAW_PACKETS, the rolling buffer
          MaxObservations,   \* MAX_RAW_PACKET_STATS_OBSERVATIONS
          Window,            \* seconds of the statistics window
          Caps,              \* the display caps offered
          MaxHeard,          \* packets overheard in a behaviour
          MaxNow,            \* seconds of a behaviour
          Periods,           \* the periods offered, in seconds
          Limit,             \* the display cap
          MaxClicks,         \* openings, confirms and choices in a behaviour
          MaxJournalPackets, \* packets kept
          MaxTurns           \* contacts, channels and the radio's key changing, clicks

VARIABLE ui

-----------------------------------------------------------------------------
(***************************************************************************)
(* The raw packet feed of the browser: the store every overheard packet is *)
(* recorded in (rawPacketStore), the derived cache the views decode        *)
(* through (rawPacketDerivedCache) and the view with its pause, its        *)
(* display cap, its lock filter and its session statistics                 *)
(* (RawPacketFeedView, RawPacketList, rawPacketStats). A packet is the     *)
(* server process that heard it, the number that process gave the          *)
(* observation and the second it reached the browser. The number is per    *)
(* process, so it starts again after a restart of the server. An odd       *)
(* packet decodes with any channel list, an even one only with the second  *)
(* list. Circumstances: "bursts", two packets may arrive within one        *)
(* second; "restarts", the server process may restart while the page stays *)
(* open.                                                                   *)
(***************************************************************************)
Filters == {"all", "decrypted", "encrypted"}

ChannelLists == {1, 2}

FeedInit ==
  \E w \in FeedWorlds : \E cap \in Caps :
    ui = [world |-> w, epoch |-> 1, next |-> 1, now |-> 1, log |-> << >>,
          live |-> << >>, packetKeys |-> {},
          observations |-> << >>, observationKeys |-> {}, total |-> 0, trimmed |-> 0,
          mounted |-> FALSE, paused |-> FALSE, snapshot |-> << >>,
          cap |-> cap, filter |-> "all", channels |-> 1, nowSec |-> 1,
          namespace |-> 1, cache |-> {}, source |-> << >>, rows |-> << >>, cards |-> << >>]

-----------------------------------------------------------------------------
(* The store *)

ObservationKey(p) == p.n

ObservationKeys(s) == {ObservationKey(s[i]) : i \in DOMAIN s}

\* appendPacket: the oldest leave when the buffer is full, and their keys with them.
AppendPacket(u, p) ==
  LET updated == Append(u.live, p)
      overflow == Len(updated) - MaxFeedPackets
  IN IF ObservationKey(p) \in u.packetKeys THEN u
     ELSE IF overflow <= 0
     THEN [u EXCEPT !.live = updated, !.packetKeys = @ \cup {ObservationKey(p)}]
     ELSE [u EXCEPT !.live = SubSeq(updated, overflow + 1, Len(updated)),
                    !.packetKeys = (@ \cup {ObservationKey(p)})
                                     \ ObservationKeys(SubSeq(updated, 1, overflow))]

\* observePacket: the same for the session statistics, which also count what they trim.
ObservePacket(u, p) ==
  LET updated == Append(u.observations, p)
      overflow == Len(updated) - MaxObservations
  IN IF ObservationKey(p) \in u.observationKeys THEN u
     ELSE IF overflow <= 0
     THEN [u EXCEPT !.observations = updated, !.total = @ + 1,
                    !.observationKeys = @ \cup {ObservationKey(p)}]
     ELSE [u EXCEPT !.observations = SubSeq(updated, overflow + 1, Len(updated)),
                    !.total = @ + 1, !.trimmed = @ + overflow,
                    !.observationKeys = (@ \cup {ObservationKey(p)})
                                          \ ObservationKeys(SubSeq(updated, 1, overflow))]

\* recordRawPacket: one observation goes into the buffer and into the statistics;
\* the mounted view reads the clock again when the store tells it of a change.
RecordRawPacket(u, p) ==
  LET v == ObservePacket(AppendPacket(u, p), p)
  IN IF v = u \/ ~v.mounted THEN v ELSE [v EXCEPT !.nowSec = v.now]

\* clearRawPackets: a reconnect empties the buffer and keeps the statistics.
ClearRawPackets(u) ==
  IF u.live = << >> THEN u
  ELSE [u EXCEPT !.live = << >>, !.packetKeys = {},
                 !.nowSec = IF u.mounted THEN u.now ELSE @]

\* A reconnect that also forgets which observations were counted.
ClearEverything(u) ==
  IF u.live = << >> THEN u
  ELSE [u EXCEPT !.live = << >>, !.packetKeys = {}, !.observations = << >>,
                 !.observationKeys = {},
                 !.nowSec = IF u.mounted THEN u.now ELSE @]

-----------------------------------------------------------------------------
(* Decoding through the cache *)

\* computeRawPacketDerived: what the packet decodes to with these channel keys.
Compute(p, channels) ==
  [key |-> ObservationKey(p), of |-> <<p.epoch, p.n>>, open |-> p.n % 2 = 1 \/ channels = 2]

\* activateNamespace: another key list starts an empty cache.
ActivateNamespace(u, channels) ==
  IF u.namespace = channels THEN u ELSE [u EXCEPT !.namespace = channels, !.cache = {}]

\* getRawPacketDerived: the entry cached under the packet's key, else a fresh one.
Derived(u, p) ==
  LET cached == {e \in u.cache : e.key = ObservationKey(p)}
  IN IF cached # {} THEN CHOOSE e \in cached : TRUE ELSE Compute(p, u.channels)

\* useRawPacketDerivedCache: every packet of the list through the cache, which then
\* keeps the entries of this list only.
Rows(u, s) == [i \in DOMAIN s |-> [packet |-> s[i], entry |-> Derived(u, s[i])]]

Retained(r) == {r[i].entry : i \in DOMAIN r}

-----------------------------------------------------------------------------
(* The view *)

\* liveDisplaySource: the snapshot while paused, the live buffer otherwise.
DisplaySource(u) == IF u.paused THEN u.snapshot ELSE u.live

\* filteredEntries, by the lock filter.
Matches(u, row) ==
  CASE u.filter = "all" -> TRUE
    [] u.filter = "decrypted" -> row.entry.open
    [] u.filter = "encrypted" -> ~row.entry.open

\* visibleEntries: the last displayCap of the entries that match.
Visible(u, rows) ==
  LET f == SelectSeq(rows, LAMBDA row : Matches(u, row))
  IN SubSeq(f, IF Len(f) > u.cap THEN Len(f) - u.cap + 1 ELSE 1, Len(f))

\* heldPackets: what the store holds beyond the snapshot.
HeldPackets(u) ==
  IF u.paused THEN SelectSeq(u.live, LAMBDA p : ObservationKey(p) \notin ObservationKeys(u.snapshot))
  ELSE << >>

\* A render of the mounted view: the feed derives its rows when its packets or its
\* channels changed, then the list derives the visible ones again.
Render(u) ==
  LET v == ActivateNamespace(u, u.channels)
      src == DisplaySource(v)
      again == src # u.source \/ v.namespace # u.namespace
      rows == IF again THEN Rows(v, src) ELSE u.rows
      w == IF again THEN [v EXCEPT !.cache = Retained(rows)] ELSE v
      vis == Visible(u, rows)
      cards == Rows(w, [i \in DOMAIN vis |-> vis[i].packet])
  IN IF ~u.mounted THEN u
     ELSE [w EXCEPT !.source = src, !.rows = rows, !.cards = cards,
                    !.cache = Retained(cards)]

-----------------------------------------------------------------------------
(* Steps *)

\* The server hears a packet and broadcasts it; the page records it.
Overhear ==
  /\ Len(ui.log) < MaxHeard
  /\ "bursts" \in ui.world \/ \A i \in DOMAIN ui.log : ui.log[i].at # ui.now
  /\ LET p == [epoch |-> ui.epoch, n |-> ui.next, at |-> ui.now]
     IN ui' = Render(RecordRawPacket([ui EXCEPT !.log = Append(@, p), !.next = @ + 1], p))

\* The last packet is delivered once more.
Redeliver ==
  /\ ui.log # << >>
  /\ Last(ui.log).epoch = ui.epoch
  /\ Last(ui.log) \in Range(ui.live)
  /\ ui' = Render(RecordRawPacket(ui, Last(ui.log)))

\* The socket reconnects.
Reconnect == ui' = Render(ClearRawPackets(ui))

\* The server process restarts, and the socket with it.
ServerRestart ==
  /\ "restarts" \in ui.world
  /\ ui.epoch = 1
  /\ ui' = Render(ClearRawPackets([ui EXCEPT !.epoch = 2, !.next = 1]))

\* A second passes.
Tick == ui.now < MaxNow /\ ui' = [ui EXCEPT !.now = @ + 1]

\* The view's own interval reads the clock.
ClockInterval == ui.mounted /\ ui' = [ui EXCEPT !.nowSec = ui.now]

\* The tool is opened: the view's state starts afresh, the cap as stored.
FeedOpenFeed ==
  /\ ~ui.mounted
  /\ ui' = Render([ui EXCEPT !.mounted = TRUE, !.paused = FALSE, !.snapshot = << >>,
                             !.filter = "all", !.nowSec = ui.now,
                             !.source = << >>, !.rows = << >>, !.cards = << >>])

\* The tool is left. The cache is the module's own and stays.
FeedLeaveFeed ==
  /\ ui.mounted
  /\ ui' = [ui EXCEPT !.mounted = FALSE, !.paused = FALSE, !.snapshot = << >>,
                      !.filter = "all", !.source = << >>, !.rows = << >>, !.cards = << >>]

\* handlePausedChange
HandlePausedChange ==
  /\ ui.mounted
  /\ ui' = Render(IF ui.paused THEN [ui EXCEPT !.paused = FALSE, !.snapshot = << >>]
                  ELSE [ui EXCEPT !.paused = TRUE, !.snapshot = ui.live])

\* handleDisplayCapChange
HandleDisplayCapChange ==
  /\ ui.mounted
  /\ \E cap \in Caps \ {ui.cap} : ui' = Render([ui EXCEPT !.cap = cap])

\* The lock filter of the filter controls.
FeedFilterControls ==
  /\ ui.mounted
  /\ \E f \in Filters \ {ui.filter} : ui' = Render([ui EXCEPT !.filter = f])

\* A channel is added or removed elsewhere in the app.
ChannelsChange ==
  \E c \in ChannelLists \ {ui.channels} : ui' = Render([ui EXCEPT !.channels = c])

FeedNext ==
  \/ Overhear \/ Redeliver \/ Reconnect \/ ServerRestart \/ Tick \/ ClockInterval
  \/ FeedOpenFeed \/ FeedLeaveFeed \/ HandlePausedChange \/ HandleDisplayCapChange
  \/ FeedFilterControls \/ ChannelsChange

-----------------------------------------------------------------------------
(* The statistics panel *)

\* buildRawPacketStatsSnapshot, as far as it says which packets a window holds and
\* whether the window is complete. The session starts at second 0.
Windows == {"window", "session"}

WindowStart(u, w) == IF w = "session" THEN 0 ELSE u.nowSec - Window

WindowPackets(u, w) == {i \in DOMAIN u.observations : u.observations[i].at >= WindowStart(u, w)}

DetailedCoverageStart(u) ==
  IF u.trimmed = 0 THEN 0
  ELSE IF u.observations = << >> THEN u.nowSec ELSE u.observations[1].at

WindowFullyCovered(u, w) ==
  IF w = "session" THEN u.trimmed = 0
  ELSE DetailedCoverageStart(u) <= WindowStart(u, w)

-----------------------------------------------------------------------------
(* Properties *)

\* The kinds of values the store, the cache and the view hold.
FeedTypeOK ==
  /\ ui.cap \in Caps /\ ui.filter \in Filters /\ ui.channels \in ChannelLists
  /\ Len(ui.live) <= MaxFeedPackets /\ Len(ui.observations) <= MaxObservations
  /\ ui.total \in 0..MaxHeard /\ ui.trimmed \in 0..MaxHeard /\ ui.nowSec \in 1..MaxNow

Restarted == "restarts" \in ui.world

\* Every packet that reached the page is in the session statistics exactly once: the
\* newest ones retained, in the order they came, and the others counted as trimmed.
\* Overflow, redelivery and the clear on reconnect (recordRawPacket, observePacket,
\* clearRawPackets) never lose or double one.
StatsComplete ==
  ~Restarted =>
    /\ ui.total = Len(ui.log)
    /\ ui.trimmed + Len(ui.observations) = ui.total
    /\ ui.observations = SubSeq(ui.log, ui.trimmed + 1, Len(ui.log))

\* Each packet in the rolling buffer was also counted by the session statistics
\* ("Record one observed packet into both the rolling buffer and the session stats").
RecordedInBoth == \A i \in DOMAIN ui.live : ui.live[i] \in Range(ui.observations)

\* A window the panel calls complete holds every packet of its time that reached the
\* page, however many observations were trimmed before (windowFullyCovered).
CoverageTrue ==
  ~Restarted /\ "bursts" \notin ui.world =>
    \A w \in Windows :
      WindowFullyCovered(ui, w) =>
        Cardinality(WindowPackets(ui, w))
          = Cardinality({i \in DOMAIN ui.log : ui.log[i].at >= WindowStart(ui, w)})

\* What a row or a card says of its packet is what that packet decodes to with the
\* channel keys of now: neither a key that came or went, nor a pause, a reconnect or
\* another visit leaves another packet's or an old decoding on the screen.
DerivedTrue ==
  ~Restarted /\ ui.mounted =>
    /\ \A i \in DOMAIN ui.rows : ui.rows[i].entry = Compute(ui.rows[i].packet, ui.channels)
    /\ \A i \in DOMAIN ui.cards : ui.cards[i].entry = Compute(ui.cards[i].packet, ui.channels)

\* While the view is paused, what it lists changes only by the reader's own cap, filter
\* or channel keys: packets that arrive, the buffer's overflow and a reconnect's clear
\* leave the same cards, and no arrived packet the buffer still has goes uncounted by
\* the held counter.
PausedFrozen ==
  ui.mounted /\ ui.paused /\ ui'.mounted /\ ui'.paused =>
    /\ ui.cards = ui'.cards
         \/ ui.cap # ui'.cap \/ ui.filter # ui'.filter \/ ui.channels # ui'.channels
    /\ ~Restarted /\ Len(ui'.log) > Len(ui.log) => Last(ui'.log) \in Range(HeldPackets(ui'))

-----------------------------------------------------------------------------
(***************************************************************************)
(* The history dialog of the raw packet feed and the replay store it fills *)
(* (HistoryReplayModal and loadHistoryPackets of RawPacketFeedView,        *)
(* rawPacketReplayStore, rawPacketHistoryBounds). The server's stored      *)
(* packets are a sequence of payload types: packet i is the i-th stored,   *)
(* in second i. "Unknown" is a type the server cannot be asked for. A      *)
(* period is a number of seconds before now, so its bounds depend on when  *)
(* they are computed.                                                      *)
(***************************************************************************)
Types == {"Advert", "Ack", "Unknown"}

\* What the server may come to store.
Stream == <<"Ack", "Advert", "Unknown">>

ApiTypes == Types \ {"Unknown"}

NoPreview == [key |-> <<0, 0>>, total |-> 0, error |-> FALSE]

NoLoad == [running |-> FALSE, aborted |-> FALSE, orphan |-> FALSE, types |-> {}, since |-> 0, asked |-> 0,
           pages |-> << >>]

\* resolveHistoryBounds for a preset: from the estimated server time, no upper bound.
ResolveHistoryBounds(u, period) ==
  LET now == Len(u.stored) IN IF now > period THEN now - period ELSE 0

HistoryInit ==
  ui = [stored |-> <<Stream[1]>>, mounted |-> TRUE,
        open |-> FALSE, clicks |-> 0, openEpoch |-> 0, openedAt |-> 0,
        period |-> CHOOSE p \in Periods : \A q \in Periods : q <= p, since |-> 0,
        types |-> Types, result |-> NoPreview, request |-> << >>,
        loading |-> FALSE, load |-> NoLoad,
        replay |-> [active |-> FALSE, packets |-> << >>, types |-> {}, since |-> 0, asked |-> 0]]

-----------------------------------------------------------------------------
(* The server's newest-first page *)

Stored(u, types, since) == {i \in DOMAIN u.stored : u.stored[i] \in types /\ i >= since}

Newest(ids) ==
  {i \in ids : Cardinality({j \in ids : j > i}) < Limit}

NewestFirst(ids) == SetToSortSeq(ids, LAMBDA i, j : i > j)

-----------------------------------------------------------------------------
(* The preview *)

\* previewKey: the opening and the bounds the preview is asked for.
PreviewKey(u) == <<u.openEpoch, u.since>>

\* The preview effect: a new key aborts the request of the old one and asks again.
Preview(u, v) ==
  IF ~v.open THEN [v EXCEPT !.request = << >>]
  ELSE IF u.open /\ PreviewKey(u) = PreviewKey(v) THEN v
  ELSE [v EXCEPT !.request = PreviewKey(v)]

PreviewLoading(u) == u.open /\ u.result.key # PreviewKey(u)

-----------------------------------------------------------------------------
(* The dialog *)

Clicking == ui.clicks < MaxClicks

\* The history button: another opening, with bounds computed now.
OpenDialog ==
  /\ ui.mounted /\ ~ui.open /\ Clicking
  /\ LET v == [ui EXCEPT !.open = TRUE, !.clicks = @ + 1, !.openEpoch = @ + 1,
                         !.openedAt = Len(ui.stored),
                         !.since = ResolveHistoryBounds(ui, ui.period)]
     IN ui' = Preview(ui, v)

\* handleOpenChange(false): the running load is aborted. The bounds are read only while
\* the dialog is open.
Close(u) ==
  Preview(u, [u EXCEPT !.open = FALSE, !.load.aborted = u.load.running,
                       !.since = 0, !.openedAt = 0])

HandleOpenChange == ui.open /\ ui' = Close(ui)

\* The period radio buttons.
SetPeriod ==
  /\ ui.open /\ Clicking
  /\ \E p \in Periods \ {ui.period} :
       ui' = Preview(ui, [ui EXCEPT !.clicks = @ + 1, !.period = p,
                                     !.since = ResolveHistoryBounds(ui, p)])

\* handleToggleType
HandleToggleType ==
  /\ ui.open /\ Clicking
  /\ \E t \in Types :
       ui' = [ui EXCEPT !.clicks = @ + 1,
                        !.types = IF t \in @ THEN @ \ {t} ELSE @ \cup {t}]

\* handleToggleAll
HandleToggleAll ==
  /\ ui.open /\ Clicking
  /\ ui' = [ui EXCEPT !.clicks = @ + 1, !.types = IF @ = Types THEN {} ELSE Types]

\* The preview answers, with the packets stored by then, or fails.
PreviewAnswered ==
  /\ ui.request # << >>
  /\ \/ ui' = [ui EXCEPT !.request = << >>,
                         !.result = [key |-> ui.request, error |-> FALSE,
                                     total |-> Cardinality(Stored(ui, Types, ui.since))]]
     \/ ui' = [ui EXCEPT !.request = << >>,
                         !.result = [key |-> ui.request, error |-> TRUE, total |-> 0]]

-----------------------------------------------------------------------------
(* The load *)

\* The pages loadHistoryPackets asks for: one of everything when every type is wanted
\* or an unknown one is, else one per type.
Pages(types) ==
  IF types = Types \/ "Unknown" \in types THEN {Types} ELSE {{t} : t \in types \cap ApiTypes}

\* handleConfirm up to its await.
HandleConfirm ==
  /\ ui.open /\ ~ui.loading /\ Clicking /\ ui.types # {}
  /\ ui' = [ui EXCEPT !.loading = TRUE, !.clicks = @ + 1,
                      !.load = [running |-> TRUE, aborted |-> FALSE, orphan |-> FALSE,
                                types |-> ui.types,
                                since |-> ui.since, asked |-> Len(ui.stored),
                                pages |-> [p \in Pages(ui.types) |-> {0}]]]

\* One page arrives; each reads the packets stored by then.
PageAnswered ==
  /\ ui.load.running /\ ~ui.load.aborted
  /\ \E p \in DOMAIN ui.load.pages :
       /\ ui.load.pages[p] = {0}
       /\ ui' = [ui EXCEPT !.load.pages[p] = Newest(Stored(ui, p, ui.load.since))]

\* What the pages amount to: merged by id, newest first, capped; the types the server
\* was not asked for are kept or dropped here.
Merge(u) ==
  LET got == UNION {u.load.pages[p] : p \in DOMAIN u.load.pages}
  IN NewestFirst(Newest({i \in got : u.stored[i] \in u.load.types}))

\* All pages are in: the replay store is filled and the dialog closes.
LoadDone ==
  /\ ui.load.running /\ ~ui.load.aborted
  /\ \A p \in DOMAIN ui.load.pages : ui.load.pages[p] # {0}
  /\ LET v == [ui EXCEPT !.load = NoLoad, !.loading = FALSE,
                         !.replay = [active |-> TRUE, packets |-> Merge(ui),
                                     types |-> ui.load.types, since |-> ui.load.since,
                                     asked |-> ui.load.asked]]
     IN ui' = IF ui.open THEN Close(v) ELSE v

\* A page fails, or the aborted load's rejection is seen.
LoadFailed ==
  /\ ui.load.running
  /\ ui' = [ui EXCEPT !.load = NoLoad, !.loading = FALSE]

\* Leave history: clearReplayPackets.
ClearReplayPackets ==
  /\ ui.mounted /\ ui.replay.active
  /\ ui' = [ui EXCEPT !.replay = [active |-> FALSE, packets |-> << >>, types |-> {},
                                  since |-> 0, asked |-> 0]]

\* The tool is left: the dialog's state goes, a running load does not. The tool is
\* reopened after that load has ended.
HistoryLeaveFeed ==
  /\ ui.mounted
  /\ ui' = [ui EXCEPT !.mounted = FALSE, !.open = FALSE, !.openEpoch = 0, !.openedAt = 0,
                      !.since = 0, !.types = Types, !.result = NoPreview, !.request = << >>,
                      !.loading = FALSE, !.load.orphan = ui.load.running]

HistoryOpenFeed ==
  /\ ~ui.mounted
  /\ ~ui.load.running
  /\ ui' = [ui EXCEPT !.mounted = TRUE]

\* The server stores another packet.
Store ==
  /\ Len(ui.stored) < Len(Stream)
  /\ ui' = [ui EXCEPT !.stored = Append(@, Stream[Len(@) + 1])]

HistoryNext ==
  \/ OpenDialog \/ HandleOpenChange \/ SetPeriod \/ HandleToggleType \/ HandleToggleAll
  \/ PreviewAnswered \/ HandleConfirm \/ PageAnswered \/ LoadDone \/ LoadFailed
  \/ ClearReplayPackets \/ HistoryLeaveFeed \/ HistoryOpenFeed \/ Store

-----------------------------------------------------------------------------
(* Properties *)

\* The kinds of values the dialog's state and the replay store hold.
HistoryTypeOK ==
  /\ ui.types \subseteq Types /\ ui.period \in Periods
  /\ ui.since \in 0..Len(Stream) /\ ui.clicks \in 0..MaxClicks
  /\ Range(ui.replay.packets) \subseteq DOMAIN ui.stored
  /\ ui.loading => ui.load.running

\* A replay is installed only into a dialog that is still open: closing it while pages
\* are on their way (handleOpenChange's abort) wins over an answer that comes later.
\* (A load whose tool was left is not cancelled and does install its replay.)
LateLoadDropped ==
  ui'.replay # ui.replay /\ ui'.replay.active /\ ~ui.load.orphan =>
    ui.open /\ ~ui.load.aborted

\* A replay is the newest packets of the chosen types and period, as if they had been
\* asked in one query: a packet stored when the load began is in it unless the replay
\* is full of newer ones (loadHistoryPackets). A choice with Unknown among others is
\* filtered from one page only and is left out here.
ReplayNewest ==
  LET r == ui.replay IN
  r.active =>
    /\ \A i \in DOMAIN r.packets : ui.stored[r.packets[i]] \in r.types
    /\ Len(r.packets) <= Limit
    /\ r.types = Types \/ "Unknown" \notin r.types =>
         \A i \in Stored(ui, r.types, r.since) :
           i <= r.asked /\ i \notin Range(r.packets) =>
             /\ Len(r.packets) = Limit
             /\ \A j \in Range(r.packets) : j > i

\* The number of packets the open dialog announces was counted for the bounds it shows
\* and after it was opened: no preview of an earlier opening or period is left standing.
PreviewTrue ==
  ui.open /\ ~PreviewLoading(ui) /\ ~ui.result.error =>
    /\ ui.result.total <= Cardinality(Stored(ui, Types, ui.since))
    /\ ui.result.total >= Cardinality({i \in Stored(ui, Types, ui.since) : i <= ui.openedAt})

-----------------------------------------------------------------------------
(***************************************************************************)
(* The control journal (ControlJournalView.tsx): the control packets among *)
(* the last ones received, filed by whom they are for, a request beside    *)
(* its answer. All of it is computed anew whenever packets, contacts,      *)
(* channels or the radio's own key change; only the thread and the packet  *)
(* the reader looks at are state. A packet carries one byte of the key it  *)
(* is for: "r" begins the keys of two repeaters, "u" those of this radio,  *)
(* of a person and of a repeater.                                          *)
(***************************************************************************)
\* Types as received (the decoder's name, or the server's, in any spelling).
Packets == {"ask", "askAgain", "answer", "login", "datum", "advert"}
PacketType(p) ==
  CASE p \in {"ask", "askAgain"} -> "Request" [] p = "answer" -> "Response" [] p = "login" -> "AnonRequest"
    [] p = "datum" -> "GroupData" [] OTHER -> "Advert"

\* isControlJournalPayloadType
IsJournal(p) == PacketType(p) \in {"Request", "Response", "AnonRequest", "GroupData"}

DestHash(p) == IF p = "answer" THEN "u" ELSE IF p = "datum" THEN "" ELSE "r"
Tag(p) == IF p \in {"ask", "askAgain", "answer"} THEN "t1" ELSE ""
Timestamp(p) == CASE p = "ask" -> 1 [] p = "askAgain" -> 2 [] p = "answer" -> 3 [] p = "login" -> 4 [] p = "datum" -> 5 [] OTHER -> 6

Contacts == {"rep", "rep2", "chat", "repu"}
ContactHash(c) == IF c \in {"rep", "rep2"} THEN "r" ELSE "u"
IsRepeater(c) == c # "chat"

JournalInit ==
  ui = [packets |-> <<>>, contacts |-> {"rep"}, channel |-> FALSE, us |-> FALSE, selected |-> "none", inspected |-> "none", turns |-> 0]

Turn(u) == [u EXCEPT !.turns = @ + 1]

-----------------------------------------------------------------------------
\* resolveContactsByPrefix and destMatchesPublicKey.
DestContacts(u, p) == {c \in u.contacts : ContactHash(c) = DestHash(p)}
DestIsUs(u, p) == u.us /\ DestHash(p) = "u"

\* classifyThread: a byte that may be somebody else's is not resolved, except that
\* a person who shares ours does not take our packets.
Thread(u, p) ==
  LET dest   == DestContacts(u, p)
      unique == Cardinality(dest) = 1
      only   == CHOOSE c \in dest : TRUE IN
  IF PacketType(p) = "GroupData" THEN IF u.channel THEN "channel" ELSE "unknownChannel"
  ELSE IF DestIsUs(u, p) /\ dest = {} THEN "us"
  ELSE IF unique /\ IsRepeater(only) THEN IF DestIsUs(u, p) THEN "unresolved" ELSE only
  ELSE IF DestIsUs(u, p) /\ unique THEN "us"
  ELSE "unresolved"

\* buildJournalEntries
Entries(u) == SelectSeq(u.packets, IsJournal)

\* The first answer with the tag of a request, the first request of an answer.
Paired(u, p) ==
  LET others == SelectSeq(Entries(u), LAMBDA q : Tag(q) = Tag(p) /\ {PacketType(p), PacketType(q)} = {"Request", "Response"}) IN
  IF Tag(p) = "" \/ others = <<>> THEN "none" ELSE Head(others)

\* threads: the one that was heard last comes first.
Threads(u) == {Thread(u, p) : p \in Range(Entries(u))}
LastHeard(u, t) == Max({Timestamp(p) : p \in {p \in Range(Entries(u)) : Thread(u, p) = t}})
FirstThread(u) == IF Threads(u) = {} THEN "none" ELSE CHOOSE t \in Threads(u) : \A x \in Threads(u) : LastHeard(u, x) <= LastHeard(u, t)

\* The render: a thread that is gone gives way to the first one.
Rendered(u) == IF u.selected = "none" \/ u.selected \notin Threads(u) THEN [u EXCEPT !.selected = FirstThread(u)] ELSE u

-----------------------------------------------------------------------------
\* The packet store: the oldest gives way.
Kept(s) == IF Len(s) > MaxJournalPackets THEN Tail(s) ELSE s
PacketArrives ==
  \E p \in Packets \ Range(ui.packets) : ui' = Rendered([ui EXCEPT !.packets = Kept(Append(@, p))])

ContactChanges ==
  \E c \in Contacts :
    /\ ui.turns < MaxTurns
    /\ ui' = Rendered(Turn([ui EXCEPT !.contacts = IF c \in @ THEN @ \ {c} ELSE @ \cup {c}]))

ChannelChanges == ui.turns < MaxTurns /\ ui' = Rendered(Turn([ui EXCEPT !.channel = ~@]))
RadioChanges == ui.turns < MaxTurns /\ ui' = Rendered(Turn([ui EXCEPT !.us = ~@]))

ChooseThread == \E t \in Threads(ui) \ {ui.selected} : ui.turns < MaxTurns /\ ui' = Turn([ui EXCEPT !.selected = t])

\* A card of the active thread opens the inspector, which keeps the packet.
Inspect ==
  \E p \in Range(Entries(ui)) :
    /\ Thread(ui, p) = ui.selected /\ ui.inspected = "none" /\ ui.turns < MaxTurns
    /\ ui' = Turn([ui EXCEPT !.inspected = p])
CloseInspector == ui.inspected # "none" /\ ui' = [ui EXCEPT !.inspected = "none"]

JournalNext ==
  PacketArrives \/ ContactChanges \/ ChannelChanges \/ RadioChanges \/ ChooseThread \/ Inspect \/ CloseInspector

-----------------------------------------------------------------------------
\* The state is well formed.
JournalTypeOK == Range(ui.packets) \subseteq Packets /\ ui.turns \in 0..MaxTurns

\* The thread on screen is one of those listed, as long as there is one, though
\* packets fall out of the store and contacts change whom a packet is for.
SelectedStands == IF Threads(ui) = {} THEN ui.selected = "none" ELSE ui.selected \in Threads(ui)

\* A packet is filed under a repeater only if no other contact, and not this radio,
\* could be meant by its byte; and under this radio only if no repeater could.
FiledSurely ==
  \A p \in Range(Entries(ui)) :
    LET t == Thread(ui, p) IN
    /\ t \in Contacts => DestContacts(ui, p) = {t} /\ ~DestIsUs(ui, p)
    /\ t = "us" => \A c \in DestContacts(ui, p) : ~IsRepeater(c)

\* A request is marked answered only by a response that is still in the journal
\* with its tag, and a response only by a request.
PairsTrue ==
  \A p \in Range(Entries(ui)) :
    Paired(ui, p) # "none" =>
      Paired(ui, p) \in Range(ui.packets) /\ {PacketType(p), PacketType(Paired(ui, p))} = {"Request", "Response"}
=============================================================================
