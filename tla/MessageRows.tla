----------------------------- MODULE MessageRows ----------------------------
(***************************************************************************)
(* The rows of a conversation, and the window in which one can be sent     *)
(* again.                                                                  *)
(***************************************************************************)
EXTENDS Integers, Sequences, FiniteSets, SequencesExt, FiniteSetsExt, TLC

CONSTANTS RowsWorlds,
          MaxMessages,
          MaxClicks,
          Clicked,
          Window,
          Tolerance,
          Delay,
          MaxNow,
          MaxRenders

VARIABLE ui

-----------------------------------------------------------------------------
(***************************************************************************)
(* The rows of a conversation (MessageList): which messages have a row and *)
(* which are shown as a badge on another, whose name a row goes under, how *)
(* its text is cut into links and mentions, and its menus and dialogs. A   *)
(* text is a sequence of pieces: words, mentions, links and channel names. *)
(* A reaction names its message by a hash of time, sender and the head of  *)
(* the text; the hash is the triple. Circumstances of a world: "channel",  *)
(* "room" or "direct" - the kind of the conversation; "hurries" - the      *)
(* reader does not wait for a packet.                                      *)
(***************************************************************************)
-----------------------------------------------------------------------------
(* Messages.                                                               *)

Nowhere == "none"
Plain(id, name, key, prefix, text) ==
  [id |-> id, out |-> FALSE, name |-> name, key |-> key, ts |-> 1, prefix |-> prefix, kind |-> "plain",
   reply |-> FALSE, text |-> text, hash |-> <<>>, packet |-> id, signal |-> id = 1]
Reacting(id, prefix, hash) == [Plain(id, Nowhere, Nowhere, prefix, <<"r">>) EXCEPT !.kind = "open", !.hash = hash]

\* parseSenderFromText: what the text of a channel message says before ": ".
ParsedSender(world, m) == IF "channel" \in world THEN m.prefix ELSE Nowhere

Either(a, b) == IF a # Nowhere THEN a ELSE b

\* reactionHashSourceFromFields and computeReactionHash: the reply prefix is
\* part of the text; a direct message leaves its sender out.
Hash(world, m) ==
  <<m.ts, IF "channel" \in world THEN Either(m.name, ParsedSender(world, m)) ELSE Nowhere,
    IF m.reply THEN "@[" ELSE Head(m.text)>>

\* What can arrive: names learned or not, keys known or not, damaged texts,
\* replies, and reactions to a message, to a reaction and to nothing loaded.
Arriving(world) ==
  LET to == Hash(world, Plain(1, "ann", "k1", "ann", <<"hi">>))
      toReaction == Hash(world, Reacting(4, "bob", to))
      all ==
      {Plain(1, "ann", "k1", "ann", <<"hi">>),
       Plain(2, Nowhere, Nowhere, "ann", <<"x", "mention", "url">>),
       [Plain(3, Nowhere, Nowhere, Nowhere, <<"x", "channel", "url", "x">>) EXCEPT !.kind = "ctrl"],
       Reacting(4, "bob", to), Reacting(5, Nowhere, toReaction),
       [Plain(6, "bob", Nowhere, "bob", <<"g">>) EXCEPT !.kind = "gif", !.reply = TRUE],
       [Plain(7, Nowhere, Nowhere, Nowhere, <<"e">>) EXCEPT !.kind = "one"]}
  IN  IF "channel" \in world THEN all ELSE {m \in all : m.id \in {1, 2, 4, 6}}

\* parseReaction, parseMeshCoreOneReaction over richMessageBody.
IsOpenReaction(m) == m.kind = "open"
IsReaction(m) == m.kind \in {"open", "one"}

\* openReactionHashSource: what can be reacted to.
HashSource(m) == ~IsReaction(m)

\* findOpenReactionTargetIndex: the newest message with that hash.
Target(world, msgs, m) ==
  LET found == {i \in DOMAIN msgs : HashSource(msgs[i]) /\ Hash(world, msgs[i]) = m.hash}
  IN  IF IsOpenReaction(m) /\ found # {} THEN Max(found) ELSE 0

\* attachOpenReactionsAtRender: the rows, and the reactions of each.
Rows(u) == SelectSeq(u.msgs, LAMBDA m : Target(u.world, u.msgs, m) = 0)
Badges(u, row) ==
  SelectSeq(u.msgs, LAMBDA m : LET k == Target(u.world, u.msgs, m) IN k # 0 /\ u.msgs[k] = row)

\* groupReactions and uniqueReactorRows: who reacted.
Reactors(u, row) ==
  {IF m.out THEN "you" ELSE Either(Either(m.name, ParsedSender(u.world, m)), "unknown") : m \in ToSet(Badges(u, row))}

-----------------------------------------------------------------------------
(* Texts.                                                                  *)

\* Cuts a text at the pieces of one kind; what lies between goes to Rest.
Cut(text, kind, Rest(_)) ==
  LET step(acc, piece) ==
        IF piece = kind
        THEN [parts |-> acc.parts \o (IF acc.open = <<>> THEN <<>> ELSE Rest(acc.open)) \o <<<<kind>>>>, open |-> <<>>]
        ELSE [acc EXCEPT !.open = Append(@, piece)]
      end == FoldLeft(step, [parts |-> <<>>, open |-> <<>>], text)
  IN  end.parts \o (IF end.open = <<>> THEN <<>> ELSE Rest(end.open))

\* Cutting only up to the last link.
LinkifyText(text, Rest(_)) ==
  LET last == Max({0} \cup {i \in DOMAIN text : text[i] = "url"})
  IN  IF last = 0 THEN Rest(text) ELSE Cut(SubSeq(text, 1, last), "url", Rest)

RenderChannelReferences(text) == Cut(text, "channel", LAMBDA t : <<t>>)
Linkify(text) == Cut(text, "url", RenderChannelReferences)
RenderTextWithMentions(text) == Cut(text, "mention", Linkify)

\* renderMeshcoreOpenPayload: a payload shown whole, after the mention of a
\* reply if there is one; otherwise the text.  Reactions can be switched off.
Shown(m, rich) ==
  LET payload == m.kind \in {"gif", "location"} \/ (rich /\ IsReaction(m))
      mention == IF m.reply THEN <<<<"mention">>>> ELSE <<>>
  IN  IF payload THEN mention \o <<m.text>> ELSE mention \o RenderTextWithMentions(m.text)

-----------------------------------------------------------------------------
(* Senders.                                                                *)

IsRoom(world) == "room" \in world
Private(world) == "channel" \notin world

\* isCorruptUnnamedChannelMessage
Corrupt(world, m) ==
  ~Private(world) /\ ~m.out /\ m.name = Nowhere /\ m.key = Nowhere /\ m.prefix = Nowhere /\ m.kind = "ctrl"

DirectSender(world, m) == IF IsRoom(world) THEN m.name ELSE Nowhere
ChannelSender(world, m) == IF Private(world) THEN Nowhere ELSE Either(m.name, m.prefix)

DisplaySender(world, m) ==
  IF m.out THEN "you"
  ELSE Either(DirectSender(world, m),
         Either(IF IsRoom(world) THEN m.key ELSE Nowhere,
           IF Private(world) THEN "contact"
           ELSE Either(ChannelSender(world, m), IF Corrupt(world, m) THEN "corrupt" ELSE "conversation")))

\* getSenderKey
SenderKey(world, m, name, corrupt) ==
  IF m.out THEN <<"out">>
  ELSE IF m.key # Nowhere THEN <<"key", m.key>>
  ELSE IF name # Nowhere THEN <<"name", name>>
  ELSE IF Private(world) THEN <<"conversation">>
  ELSE IF corrupt THEN <<"corrupt", m.id>>
  ELSE <<"unknown">>

\* The key of a row, and the key its successor computes for it.
CurrentKey(world, m) ==
  SenderKey(world, m, Either(DirectSender(world, m), ChannelSender(world, m)), Corrupt(world, m))
PreviousKey(world, m) ==
  LET parsed == ParsedSender(world, m)
      name == IF IsRoom(world) THEN m.name ELSE IF ~Private(world) THEN Either(m.name, parsed) ELSE parsed
  IN  SenderKey(world, m, name, Corrupt(world, m))

FirstInGroup(u, i) ==
  i = 1 \/ CurrentKey(u.world, Rows(u)[i]) # PreviousKey(u.world, Rows(u)[i - 1])

\* What a row goes by with the reader: its name, at the head of its group.
HeadOf(u, i) == Max({j \in 1 .. i : FirstInGroup(u, j)})

\* getSenderInfo: who the path of a message is drawn from.
SenderInfo(u, m) ==
  IF Private(u.world) /\ ~IsRoom(u.world) THEN "contact"
  ELSE LET name == Either(m.name, IF Private(u.world) THEN Nowhere ELSE m.prefix)
       IN  IF m.key \in u.contacts THEN m.key
           ELSE IF name \in u.contacts THEN name
           ELSE Either(name, Either(m.key, "conversation"))

-----------------------------------------------------------------------------
(* The conversation and its menus.                                         *)

RowsInit ==
  \E w \in RowsWorlds :
    ui = [world |-> w, contacts |-> {"ann", "k1"}, msgs |-> <<>>, rich |-> TRUE, menu |-> 0, react |-> 0, press |-> 0,
          deleting |-> 0, picker |-> 0, deletes |-> {}, sends |-> {}, path |-> 0, from |-> Nowhere,
          inspector |-> 0, signal |-> 0, asks |-> <<>>, cache |-> {}, asked |-> 0, clicks |-> 0, made |-> {}]

Click(u) == [u EXCEPT !.clicks = @ + 1]
Message(id) == CHOOSE m \in ToSet(ui.msgs) : m.id = id
Row(id) == \E m \in ToSet(Rows(ui)) : m.id = id
Modal == ui.deleting # 0 \/ ui.picker # 0 \/ ui.path # 0 \/ ui.inspector # 0
Free == ui.clicks < MaxClicks /\ ~Modal

Receive(m) ==
  /\ Len(ui.msgs) < MaxMessages /\ m.id \notin {k.id : k \in ToSet(ui.msgs)} \cup ui.made
  /\ ui' = [ui EXCEPT !.msgs = Append(@, m), !.made = @ \cup {m.id}]

\* A click outside closes the menus (the pointerdown listener); the button of
\* a menu opens it and closes the other.
CloseMenus(u) == [u EXCEPT !.menu = 0, !.react = 0]
ToggleMenu(id) ==
  /\ Free /\ Row(id)
  /\ ui' = [CloseMenus(Click(ui)) EXCEPT !.menu = IF ui.menu = id THEN 0 ELSE id]
ToggleReact(id) ==
  /\ Free /\ Row(id) /\ ~Message(id).out /\ HashSource(Message(id))
  /\ ui' = [CloseMenus(Click(ui)) EXCEPT !.react = IF ui.react = id THEN 0 ELSE id]
ClickOutside == (ui.menu # 0 \/ ui.react # 0) /\ ui' = CloseMenus(ui)

\* A long press opens the menu half a second later.
TouchStart(id) ==
  /\ Free /\ Row(id)
  /\ ui' = [Click(CloseMenus(ui)) EXCEPT !.press = id]
TouchEnd == ui.press # 0 /\ ui' = [ui EXCEPT !.press = 0]

LongPress == ui.press # 0 /\ ui' = [ui EXCEPT !.press = 0, !.react = 0, !.menu = ui.press]

\* The entries of the menu: reply and copy only close it.
MenuOpen == ui.menu # 0 /\ Row(ui.menu) /\ ~Modal
CloseEntry == MenuOpen /\ ui' = [ui EXCEPT !.menu = 0]
Details ==
  /\ MenuOpen
  /\ ui' = [ui EXCEPT !.menu = 0, !.path = ui.menu, !.from = SenderInfo(ui, Message(ui.menu))]
AskDelete == MenuOpen /\ ui' = [ui EXCEPT !.menu = 0, !.deleting = ui.menu]
CancelDelete == ui.deleting # 0 /\ ui' = [ui EXCEPT !.deleting = 0]
ConfirmDelete ==
  /\ ui.deleting # 0
  /\ ui' = [ui EXCEPT !.deleting = 0, !.deletes = @ \cup {ui.deleting}]

\* The answer to DELETE: the conversation drops the message.
DeleteAnswered(id) ==
  /\ id \in ui.deletes
  /\ \E ok \in BOOLEAN :
       ui' = [ui EXCEPT !.deletes = @ \ {id},
                        !.msgs = IF ok THEN SelectSeq(@, LAMBDA m : m.id # id) ELSE @]

\* sendOpenReaction, from the quick row or the picker: what was sent comes
\* back as a message of our own.
ReactOpen == ui.react # 0 /\ Row(ui.react) /\ ~Modal
QuickReact ==
  /\ ReactOpen
  /\ ui' = [ui EXCEPT !.react = 0, !.sends = @ \cup {Hash(ui.world, Message(ui.react))}]
OpenPicker == ReactOpen /\ ui' = [ui EXCEPT !.react = 0, !.picker = ui.react]
Pick ==
  /\ ui.picker # 0
  /\ \E m \in ToSet(ui.msgs) : m.id = ui.picker
  /\ ui' = [ui EXCEPT !.picker = 0, !.sends = @ \cup {Hash(ui.world, Message(ui.picker))}]
ClosePicker == ui.picker # 0 /\ ui' = [ui EXCEPT !.picker = 0]
Sent(h) ==
  /\ h \in ui.sends
  /\ LET own == [Reacting(8, "me", h) EXCEPT !.out = TRUE]
     IN  ui' = [ui EXCEPT !.sends = @ \ {h},
                          !.msgs = IF 8 \in ui.made THEN @ ELSE Append(@, own), !.made = @ \cup {8}]

-----------------------------------------------------------------------------
(* The packet of a message: 0 for no dialog, or one of these, or its id.   *)

Loading == -1
Unavailable == -2

ClosePath == ui.path # 0 /\ ui' = [ui EXCEPT !.path = 0]

\* handleAnalyzePacket
Analyze(id) ==
  [ui EXCEPT !.asked = id, !.path = 0, !.inspector = IF id \in ui.cache THEN id ELSE Loading,
             !.signal = IF Message(id).signal THEN id ELSE 0,
             !.asks = IF id \in ui.cache THEN @ ELSE Append(@, id)]

AnalyzePath ==
  /\ ui.path # 0 /\ ui.inspector = 0
  /\ \E m \in ToSet(ui.msgs) : m.id = ui.path
  /\ ui' = Analyze(ui.path)

PacketAnswered ==
  /\ ui.asks # <<>>
  /\ \E ok \in BOOLEAN :
       ui' = [ui EXCEPT !.asks = Tail(@), !.inspector = IF ok THEN Head(ui.asks) ELSE Unavailable,
                        !.cache = IF ok THEN @ \cup {Head(ui.asks)} ELSE @]

CloseInspector ==
  /\ ui.inspector # 0 /\ (ui.asks = <<>> \/ "hurries" \in ui.world)
  /\ ui' = [ui EXCEPT !.inspector = 0, !.asked = 0, !.signal = 0]

RowsNext ==
  \/ \E m \in Arriving(ui.world) : Receive(m)
  \/ \E id \in Clicked : ToggleMenu(id)
  \/ \E id \in Clicked : ToggleReact(id)
  \/ \E id \in Clicked : TouchStart(id)
  \/ \E id \in 1 .. 8 : DeleteAnswered(id)
  \/ ClickOutside
  \/ TouchEnd
  \/ LongPress
  \/ CloseEntry
  \/ Details
  \/ AskDelete
  \/ CancelDelete
  \/ ConfirmDelete
  \/ QuickReact
  \/ OpenPicker
  \/ Pick
  \/ ClosePicker
  \/ \E h \in ui.sends : Sent(h)
  \/ ClosePath
  \/ AnalyzePath
  \/ PacketAnswered
  \/ CloseInspector

-----------------------------------------------------------------------------
(* Properties.                                                             *)

RowsTypeOK ==
  /\ ui.menu \in 0 .. 8 /\ ui.react \in 0 .. 8 /\ ui.picker \in 0 .. 8 /\ ui.path \in 0 .. 8
  /\ Len(ui.msgs) \in 0 .. MaxMessages + 1 /\ ui.clicks \in 0 .. MaxClicks

\* No message disappears in the rendering: each has a row, or is a badge on a
\* message that has one, whatever reacts to what and whatever was deleted
\* (attachOpenReactionsAtRender).
NothingLost ==
  \A m \in ToSet(ui.msgs) :
    \/ m \in ToSet(Rows(ui))
    \/ \E row \in ToSet(Rows(ui)) : m \in ToSet(Badges(ui, row)) /\ Reactors(ui, row) # {}

\* A row without a name of its own is by the sender whose name stands above
\* it, although row and predecessor compute the key by different paths.
GroupedUnderSender ==
  \A i \in DOMAIN Rows(ui) :
    LET row == Rows(ui)[i]
        head == Rows(ui)[HeadOf(ui, i)]
    IN  DisplaySender(ui.world, row) = DisplaySender(ui.world, head) \/ (row.key = head.key /\ row.key # Nowhere)

\* Cutting a text into mentions, links and channel names loses no piece of it
\* and none is left uncut (renderTextWithMentions, linkifyText).
TextKept ==
  \A m \in ToSet(ui.msgs), rich \in BOOLEAN :
    LET shown == Shown(m, rich)
        text == IF m.reply THEN <<"mention">> \o m.text ELSE m.text
    IN  /\ FlattenSeq(shown) = text
        /\ \A k \in DOMAIN shown : Len(shown[k]) > 1 => ToSet(shown[k]) \cap {"mention", "url", "channel"} = {}

\* The two menus of the rows exclude each other, however they were opened:
\* by their buttons or by a press that matures after another was opened.
OneMenu == ui.menu = 0 \/ ui.react = 0

\* The inspector shows the packet of the message last asked about, with the
\* signal of that message, unless the reader closed it before the answer.
InspectorTrue ==
  "hurries" \notin ui.world =>
    /\ ui.inspector \in {0, Loading, Unavailable, ui.asked}
    /\ ui.signal \in {0, ui.asked}

-----------------------------------------------------------------------------
(***************************************************************************)
(* The window in which a channel message may be resent byte for byte,      *)
(* timed on the browser's clock (resendWindow, MessageList,                *)
(* useConversationActions). Time is counted in ticks of the browser.  The  *)
(* server's clock is skew ticks behind it (ahead when negative); the skew  *)
(* is measured from the live packets while some are buffered.  Of the two  *)
(* messages one is sent: 1 from this tab, or 2 from another device.        *)
(* Sightings are kept for twenty windows, longer than the time modelled.   *)
(***************************************************************************)
Ids == {1, 2}
Never == -9

ResendInit ==
  \E skew \in {-3, -1, 0, 3}, who \in Ids :
    ui = [skew |-> skew, who |-> who, now |-> 0, measured |-> FALSE, started |-> Never, sent |-> [i \in Ids |-> Never],
          seen |-> [i \in Ids |-> Never], shown |-> {}, offered |-> {}, timers |-> [i \in Ids |-> Never],
          renders |-> 0, request |-> <<>>, over |-> {}, live |-> {}, answered |-> FALSE]

Stamp(u, i) == u.sent[i] - u.skew
Offset(u) == IF u.measured THEN u.skew ELSE Never
NoAge == [age |-> Never, authoritative |-> FALSE]

\* resendAge: from a live sighting, from the measured skew, or as it stands.
ResendAge(u, i) ==
  LET raw == u.now - Stamp(u, i)
  IN  IF u.seen[i] # Never THEN [age |-> Max({0, u.now - u.seen[i]}), authoritative |-> TRUE]
      ELSE IF u.measured THEN [age |-> Max({0, raw - Offset(u)}), authoritative |-> TRUE]
      ELSE IF raw < -Tolerance THEN NoAge
      ELSE [age |-> Max({0, raw}), authoritative |-> FALSE]

\* Mutant: the latest sighting counts.
NoteLiveLatest(u, i, at) == [u EXCEPT !.seen[i] = at]

\* noteLiveOutgoingChannelMessage: the earliest sighting counts.
NoteLive(u, i, at) == [u EXCEPT !.seen[i] = IF @ = Never THEN at ELSE Min({@, at})]

\* sendAnchorMs
SendAnchor(u, i) ==
  IF ~u.measured THEN u.now ELSE Min({u.now, Max({u.started, Stamp(u, i) + Offset(u)})})

\* The effect of MessageList on its messages: what is within the window is
\* offered, and a timer is set for the rest of it.
Withdrawn(u, next) == {i \in Ids : i \in u.offered /\ i \notin next}

Render(u) ==
  LET left(i) == Window - ResendAge(u, i).age
      next == {i \in u.shown : ResendAge(u, i) # NoAge /\ left(i) > 0}
  IN  [u EXCEPT !.offered = next, !.timers = [i \in Ids |-> IF i \in next THEN u.now + left(i) ELSE Never],
                !.over = @ \cup Withdrawn(u, next)]

-----------------------------------------------------------------------------
(* Sending.                                                                *)

\* handleSendMessage
Start == ui.who = 1 /\ ui.started = Never /\ ui' = [ui EXCEPT !.started = ui.now]

\* The server stamps the message once it holds the radio.
Stamped(i) ==
  /\ i = ui.who /\ ui.sent[i] = Never /\ (i = 1 => ui.started # Never)
  /\ ui' = [ui EXCEPT !.sent[i] = ui.now]

Late(i) == ui.sent[i] # Never /\ ui.now - ui.sent[i] >= Delay

Answered ==
  /\ ui.sent[1] # Never /\ ~ui.answered
  /\ ui' = [Render([NoteLive(ui, 1, SendAnchor(ui, 1)) EXCEPT !.shown = @ \cup {1}]) EXCEPT !.answered = TRUE]

\* The message event of the socket; only what this tab is connected for.
LiveEvent(i) ==
  /\ ui.sent[i] # Never /\ i \notin ui.live
  /\ ui' = [Render([NoteLive(ui, i, ui.now) EXCEPT !.shown = @ \cup {i}]) EXCEPT !.live = @ \cup {i}]

\* A page of the conversation brings the other device's message; this tab
\* missed the event.
Page ==
  /\ ui.sent[2] # Never /\ 2 \notin ui.shown
  /\ ui' = [Render([ui EXCEPT !.shown = @ \cup {2}]) EXCEPT !.live = @ \cup {2}]

\* Live packets are buffered, or dropped at a reconnect.
Measure == ui.renders < MaxRenders /\ ui' = [ui EXCEPT !.measured = ~@, !.renders = @ + 1]

\* Anything that changes the messages.
Rerender == ui.renders < MaxRenders /\ ui' = [Render(ui) EXCEPT !.renders = @ + 1]

\* The timers of the offers.
Due(i) == ui.timers[i] # Never /\ ui.timers[i] <= ui.now
Withdraw(i) ==
  /\ Due(i)
  /\ ui' = [ui EXCEPT !.offered = @ \ {i}, !.timers[i] = Never, !.over = @ \cup {i}]

\* Time passes; answers and events take at most Delay.
Tick ==
  /\ ui.now < MaxNow /\ \A i \in Ids : ~Due(i)
  /\ Late(1) => ui.answered
  /\ \A i \in Ids : Late(i) => i \in ui.live
  /\ ui' = [ui EXCEPT !.now = @ + 1]

\* handleResendFromModal: the age is taken again, and sent when authoritative.
Resend(i) ==
  /\ i \in ui.offered /\ Len(ui.request) = 0
  /\ LET a == ResendAge(ui, i)
     IN  ui' = [ui EXCEPT !.request = <<[id |-> i, at |-> ui.now, sighted |-> ui.seen[i] # Never,
                                         age |-> IF a.authoritative THEN a.age ELSE Never]>>]

ResendNext ==
  \/ Start
  \/ \E i \in Ids : Stamped(i)
  \/ Answered
  \/ \E i \in Ids : LiveEvent(i)
  \/ Page
  \/ Measure
  \/ Rerender
  \/ \E i \in Ids : Withdraw(i)
  \/ Tick
  \/ \E i \in Ids : Resend(i)

-----------------------------------------------------------------------------
(* Properties.                                                             *)

ResendTypeOK ==
  /\ ui.now \in 0 .. MaxNow /\ ui.renders \in 0 .. MaxRenders
  /\ ui.offered \subseteq ui.shown /\ ui.shown \subseteq Ids

\* The age a resend carries is never more than the message's own age and
\* falls short of it by no more than the delay of the answer or the event,
\* whatever the two clocks say: the server may rely on it for its own window
\* (resendAge, sendAnchorMs).
AgeTrue ==
  \A k \in DOMAIN ui.request :
    LET r == ui.request[k]
    IN  r.age # Never => r.at - ui.sent[r.id] - r.age \in 0 .. Delay

\* A message this tab saw live is offered for resending no longer than the
\* window after that, whatever is rendered and measured meanwhile.
OfferEnds ==
  \A i \in ui.offered : ui.seen[i] # Never /\ ~Due(i) => ui.now - ui.sent[i] < Window + Delay

\* Once withdrawn it is not offered again: no render arms it anew (the reason
\* for giving no age to a stamp of the future).
NotRearmed == \A i \in ui.offered \cap ui.over : ui.seen[i] = Never
=============================================================================
