---------------------------- MODULE UnreadCounts ----------------------------
(***************************************************************************)
(* The unread badges (useUnreadCounts), the divider above the first unread *)
(* message (useChannelUnreadMarker) and the badge of the tab's icon        *)
(* (useFaviconBadge), against the read boundaries the server keeps.        *)
(*                                                                         *)
(* Messages are numbered in the order the server stores them.  Live events *)
(* travel in order over the socket; a fetch of the unread counts is        *)
(* answered from the server's state of the moment it is served and applied *)
(* later; marking as read is a request nobody waits for.  The world holds  *)
(* the circumstances: "overlaps" that requests and messages may cross,     *)
(* "fails" that requests may fail, "stays" that messages arrive            *)
(* in the open conversation, "resolves" that a contact's full key becomes  *)
(* known, "returns" that the divider is asked of a conversation again.     *)
(***************************************************************************)
EXTENDS Integers, Sequences, FiniteSets, FiniteSetsExt

CONSTANTS Worlds, MaxPosts, MaxMoves

VARIABLE ui

Channels == {"chan"}
\* A contact known by a prefix of its key until its full key is resolved.
Contacts == {"prefix", "full"}
Conversations == Channels \cup Contacts

\* What a message is to its reader.
Kinds == {"plain", "mention", "sent"}

NoMessage == 0
Zero == [c \in Conversations |-> 0]

-----------------------------------------------------------------------------
(* The server.                                                             *)

Unread(u, c) == {m \in u.stored[c] : m > u.read[c] /\ u.kinds[m] # "sent"}

\* get_unread_counts: counts, mentions, oldest unread and newest message.
Answer(u) ==
  [counts |-> [c \in Conversations |-> Cardinality(Unread(u, c))],
   mentions |-> {c \in Conversations : \E m \in Unread(u, c) : u.kinds[m] = "mention"},
   first |-> [c \in Conversations |->
                IF Unread(u, c) = {} THEN NoMessage ELSE Min(Unread(u, c))],
   latest |-> [c \in Conversations |->
                 IF u.stored[c] = {} THEN NoMessage ELSE Max(u.stored[c])]]

-----------------------------------------------------------------------------
(* The hook.                                                               *)

\* applyUnreads: the open conversation is being read, so it counts nothing.
ApplyUnreads(u, data) ==
  [u EXCEPT !.counts = [c \in Conversations |-> IF c = u.active THEN 0 ELSE data.counts[c]],
            !.mentions = data.mentions \ {u.active},
            !.first = data.first,
            !.latest = [c \in Conversations |->
                          IF data.latest[c] = NoMessage THEN u.latest[c] ELSE data.latest[c]]]

\* The open conversation is marked read, on viewing it and after a fetch
\* (fetchUnreads; the first answer, taken on mounting, marks nothing).
MarkRead(u) == IF u.active = "none" THEN u ELSE [u EXCEPT !.marks = Append(@, u.active)]

\* incrementUnread seeds the boundary only where there is none.
IncrementUnread(u, c, m) ==
  [u EXCEPT !.counts[c] = @ + 1, !.first[c] = IF @ # NoMessage THEN @ ELSE m,
            !.mentions = IF u.kinds[m] = "mention" THEN @ \cup {c} ELSE @]

\* recordMessageEvent
RecordMessage(u, c, m) ==
  LET noted == [u EXCEPT !.latest[c] = m]
  IN  IF c = u.active \/ u.kinds[m] = "sent" THEN noted ELSE IncrementUnread(noted, c, m)

\* useChannelUnreadMarker, in the render that sees the count before it clears.
Marker(u, c) == IF c \in Channels /\ u.counts[c] > 0 THEN u.first[c] ELSE NoMessage

\* The same channel: a blank divider is filled in, and no other moves.
FillMarker(u) ==
  IF u.active \in Channels /\ u.shown /\ u.marker = NoMessage
    THEN [u EXCEPT !.marker = u.first[u.active]] ELSE u

\* The badge of the conversation being opened clears in the same render.
ClearUnread(u, c) == [u EXCEPT !.counts[c] = 0, !.mentions = @ \ {c}]

\* renameConversationState adds the counts and keeps the new key's boundary.
Rename(u, old, new) ==
  [u EXCEPT
     !.counts = [@ EXCEPT ![new] = @ + u.counts[old], ![old] = 0],
     !.mentions = IF old \in @ THEN (@ \ {old}) \cup {new} ELSE @,
     !.first = [@ EXCEPT ![new] = IF @ # NoMessage THEN @ ELSE u.first[old], ![old] = NoMessage],
     !.latest = [@ EXCEPT ![new] = Max({@, u.latest[old]}), ![old] = NoMessage]]

\* removeConversationState; the time of its newest message stays behind.
Remove(u, c) == [ClearUnread(u, c) EXCEPT !.first[c] = NoMessage]

\* deriveFaviconBadgeState, for a channel that is a favourite.
Badge(u) ==
  CASE u.mentions # {} \/ \E c \in Contacts : u.counts[c] > 0 -> "red"
    [] u.mentions = {} /\ (\A c \in Contacts : u.counts[c] = 0)
         /\ \E c \in Channels : u.counts[c] > 0 -> "green"
    [] OTHER -> "none"

\* useFaviconBadge's effect: a plain icon at once, a badge once the picture
\* is loaded; what was being drawn before is cancelled.
Draw(u) ==
  IF Badge(u) = u.drawing THEN u
  ELSE [u EXCEPT !.drawing = Badge(u),
                 !.pending = IF Badge(u) = "none" THEN {} ELSE {Badge(u)},
                 !.icon = IF Badge(u) = "none" THEN "none" ELSE @]

-----------------------------------------------------------------------------

Init ==
  \E world \in Worlds :
    ui = [world |-> world, stored |-> [c \in Conversations |-> {}], read |-> Zero,
          kinds |-> <<>>, resolved |-> FALSE, moves |-> 0, online |-> TRUE, wire |-> <<>>, marks |-> <<>>,
          fetches |-> <<[served |-> FALSE, remarks |-> FALSE]>>, active |-> "none",
          counts |-> Zero, mentions |-> {}, first |-> Zero, latest |-> Zero,
          marker |-> NoMessage, shown |-> FALSE, opened |-> NoMessage,
          drawing |-> "none", pending |-> {}, icon |-> "none"]

Does(u) == ui' = Draw(FillMarker(u))

\* What the reader does crosses no message or request, unless they overlap.
Move(u) ==
  /\ ui.moves < MaxMoves
  /\ ui.wire # <<>> \/ ui.fetches # <<>> => "overlaps" \in ui.world
  /\ Does([u EXCEPT !.moves = @ + 1])

\* A contact is known by its prefix or by its full key, never by both.
Known(c) == c \in Contacts => (c = "full") = ui.resolved

\* The server stores a message, received or sent elsewhere, and announces it.
Post(c, kind) ==
  /\ Len(ui.kinds) < MaxPosts /\ Known(c)
  /\ ui.fetches # <<>> \/ ui.marks # <<>> => "overlaps" \in ui.world
  /\ c = ui.active => "stays" \in ui.world
  /\ LET m == Len(ui.kinds) + 1
     IN  Does([ui EXCEPT !.kinds = Append(@, kind), !.stored[c] = @ \cup {m},
                         !.wire = IF ui.online THEN Append(@, [conv |-> c, id |-> m]) ELSE @])

\* onMessage
Receive ==
  /\ ui.wire # <<>>
  /\ LET e == Head(ui.wire)
     IN  Does([RecordMessage(ui, e.conv, e.id) EXCEPT !.wire = Tail(@)])

\* The reader opens a conversation: its badge clears in the same render.
Open(c) ==
  /\ c # ui.active /\ ui.stored[c] # {}
  /\ ui.opened # NoMessage => "returns" \in ui.world
  /\ LET shown == [ClearUnread(ui, c) EXCEPT !.active = c, !.marker = Marker(ui, c),
                             !.shown = c \in Channels /\ ui.counts[c] > 0,
                             !.opened = IF Unread(ui, c) = {} THEN NoMessage
                                        ELSE Min(Unread(ui, c))]
     IN  Move(MarkRead(shown))

Close ==
  /\ ui.active # "none"
  /\ Move([ui EXCEPT !.active = "none", !.marker = NoMessage, !.shown = FALSE])

\* dismissChannelUnreadMarker
Dismiss ==
  /\ ui.shown
  /\ Move([ui EXCEPT !.marker = NoMessage, !.shown = FALSE])

\* refreshUnreads: a reconnection, a new conversation, a changed setting.
Fetch ==
  /\ ui.online /\ ui.fetches = <<>>
  /\ ui.marks # <<>> => "overlaps" \in ui.world
  /\ Move([ui EXCEPT !.fetches = Append(@, [served |-> FALSE, remarks |-> TRUE])])

Serve ==
  /\ ui.fetches # <<>> /\ ~Head(ui.fetches).served
  /\ ui.marks # <<>> => "overlaps" \in ui.world
  /\ Does([ui EXCEPT !.fetches[1] = [served |-> TRUE, remarks |-> @.remarks, data |-> Answer(ui)]])

Apply ==
  /\ ui.fetches # <<>> /\ Head(ui.fetches).served
  /\ LET applied == [ApplyUnreads(ui, Head(ui.fetches).data) EXCEPT !.fetches = Tail(@)]
     IN  Does(IF Head(ui.fetches).remarks THEN MarkRead(applied) ELSE applied)

FetchFails ==
  /\ ui.fetches # <<>> /\ "fails" \in ui.world
  /\ LET failed == [ui EXCEPT !.fetches = Tail(@)]
     IN  Does(IF Head(ui.fetches).remarks THEN MarkRead(failed) ELSE failed)

\* The server marks a conversation, or all of them, read up to now.
Marked ==
  /\ ui.marks # <<>>
  /\ LET target == IF Head(ui.marks) = "all" THEN Conversations ELSE {Head(ui.marks)}
     IN  Does([ui EXCEPT !.marks = Tail(@),
                         !.read = [c \in Conversations |->
                                     IF c \in target THEN Len(ui.kinds) ELSE @[c]]])

MarkFails ==
  /\ ui.marks # <<>> /\ "fails" \in ui.world
  /\ Does([ui EXCEPT !.marks = Tail(@)])

\* markAllRead
MarkAllRead ==
  /\ Move([ui EXCEPT !.counts = Zero, !.mentions = {}, !.first = Zero, !.marks = Append(@, "all")])

\* A contact's full key becomes known: the server has moved its messages and
\* the later boundary, the client renames and stays on what it shows.
Resolve ==
  /\ "resolves" \in ui.world /\ ui.wire = <<>> /\ ui.fetches = <<>> /\ ui.marks = <<>>
  /\ ~ui.resolved /\ ui.online
  /\ LET moved == [ui EXCEPT
                     !.resolved = TRUE,
                     !.stored = [@ EXCEPT !["full"] = ui.stored["prefix"], !["prefix"] = {}],
                     !.read["full"] = Max({@, ui.read["prefix"]})]
         renamed == Rename(moved, "prefix", "full")
     IN  Does(IF ui.active # "prefix" THEN renamed
              ELSE MarkRead([ClearUnread(renamed, "full") EXCEPT !.active = "full"]))

\* A conversation is deleted, here or on another screen.
Delete(c) ==
  /\ ui.stored[c] # {} /\ ui.wire = <<>> /\ ui.fetches = <<>>
  /\ Move([Remove(ui, c) EXCEPT !.stored[c] = {}, !.marker = IF c = ui.active THEN NoMessage ELSE @,
                                !.shown = @ /\ c # ui.active,
                                !.active = IF @ = c THEN "none" ELSE @])

\* The socket is lost, and with it what was on it; coming back fetches.
Lose ==
  /\ ui.online /\ ui.moves < MaxMoves
  /\ Does([ui EXCEPT !.moves = @ + 1, !.online = FALSE, !.wire = <<>>])

Reconnect ==
  /\ ~ui.online /\ ui.fetches = <<>>
  /\ Does([ui EXCEPT !.online = TRUE, !.fetches = Append(@, [served |-> FALSE, remarks |-> TRUE])])

\* The picture of the icon is loaded, or could not be.
Painted ==
  /\ ui.pending # {}
  /\ \E icon \in ui.pending \cup (IF "fails" \in ui.world THEN {"none"} ELSE {}) :
       ui' = [ui EXCEPT !.icon = icon, !.pending = {}]

Next ==
  \/ \E c \in Conversations, kind \in Kinds : Post(c, kind)
  \/ Receive
  \/ \E c \in Conversations : Open(c)
  \/ Close
  \/ Dismiss
  \/ Fetch
  \/ Serve
  \/ Apply
  \/ FetchFails
  \/ Marked
  \/ MarkFails
  \/ MarkAllRead
  \/ Resolve
  \/ \E c \in Conversations : Delete(c)
  \/ Lose
  \/ Reconnect
  \/ Painted

-----------------------------------------------------------------------------
(* Properties.                                                             *)

TypeOK ==
  /\ ui.world \in Worlds /\ ui.active \in Conversations \cup {"none"}
  /\ {ui.first, ui.latest, ui.read} \subseteq [Conversations -> 0 .. MaxPosts]
  /\ ui.counts \in [Conversations -> 0 .. 2 * MaxPosts]
  /\ ui.marker \in 0 .. MaxPosts /\ (ui.active = "none" => ui.marker = NoMessage)
  /\ {ui.icon, ui.drawing} \subseteq {"none", "red", "green"}

Quiet == ui.online /\ ui.wire = <<>> /\ ui.fetches = <<>> /\ ui.marks = <<>>

\* Once nothing is under way the badges show the server's unread counts and
\* the list the newest messages, whatever was opened, marked, deleted,
\* resolved or missed offline meanwhile (applyUnreads, recordMessageEvent).
BadgesTrue ==
  Quiet /\ {"overlaps", "fails", "stays"} \cap ui.world = {}
    => /\ ui.counts = Answer(ui).counts
       /\ ui.mentions = Answer(ui).mentions
       /\ \A c \in Conversations : ui.stored[c] # {} => ui.latest[c] = Answer(ui).latest[c]

\* The open conversation never carries a badge, even when a slow answer or a
\* live message arrives while it is read.
OpenUncounted == ui.active # "none" => ui.counts[ui.active] = 0 /\ ui.active \notin ui.mentions

\* The divider stands at the oldest message that was unread when the reader
\* opened the channel (incrementUnread, useChannelUnreadMarker), at the first
\* visit: the boundary of an earlier one is not forgotten.
DividerAtFirstUnread ==
  ui.shown /\ ui.marker # NoMessage /\ {"overlaps", "fails", "stays", "returns"} \cap ui.world = {}
    => ui.marker = ui.opened

\* The icon shows the badge of the counts once nothing is being loaded: a
\* picture loaded for an earlier badge is never put up (useFaviconBadge).
IconTrue == ui.pending = {} => ui.icon = Badge(ui) \/ "fails" \in ui.world
=============================================================================
