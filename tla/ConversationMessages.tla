------------------------ MODULE ConversationMessages ------------------------
(***************************************************************************)
(* The message list of the web client: the hook useConversationMessages    *)
(* with its cache of recent conversations, its buffer of early             *)
(* acknowledgements, its paging requests and its repair after a reconnect, *)
(* against a server that stores, acknowledges and deletes messages.        *)
(*                                                                         *)
(* React applies state updates at a later render, and the refs that event  *)
(* handlers read are written by effects after that render.  `hook.st` is   *)
(* the state with every queued update applied, `hook.ref` what handlers    *)
(* read; Commit brings them together.  A click renders before it returns.  *)
(* A message is its identifier, which also orders it in time; its content  *)
(* key is the identifier too (the server keeps one row per content), and   *)
(* its delivery state is the count of acknowledgements.                    *)
(***************************************************************************)
EXTENDS Integers, Sequences, FiniteSets, FiniteSetsExt, SequencesExt, TLC

CONSTANTS
  Chats,          \* conversations that hold messages
  Tool,           \* a view without messages (map, raw feed, search, ...)
  None,           \* no conversation, no target message, no answer yet
  NMessages,      \* bound: messages the server may ever store
  History,        \* messages stored before the page was opened, all in Home
  Home,           \* the conversation of the stored history
  Prefix,         \* a contact known by a key prefix that turns out to be Home
  PageSize,       \* MESSAGE_PAGE_SIZE and MAX_MESSAGES_PER_ENTRY
  AroundSize,     \* context_size of the server's page around a message
  MaxCached,      \* MAX_CACHED_CONVERSATIONS
  MaxPendingAcks, \* MAX_PENDING_ACKS
  MaxSeen,        \* the size at which the set of content keys is rebuilt
  MaxAck,         \* bound: acknowledgements per message
  MaxWire,        \* bound: socket events under way
  MaxFree,        \* bound: requests of one kind that no controller aborts
  MaxCuts,        \* bound: times the socket is lost
  MaxMoves,       \* bound: what the user does
  Worlds          \* what the surroundings may do, one record per behaviour

\* deferred: renders lag behind the updates they show; hasty: the user acts while
\* requests are under way; floods: more than a page of messages is new; and which
\* of the server's events, the socket's faults and failing requests happen.
\* stale: the server acknowledges or deletes while an answer is on its way.
Circumstances == {"deferred", "hasty", "floods", "acks", "deletes", "resolves", "cuts", "fails",
                  "searches", "sends", "stale"}

ASSUME ConversationAssumption ==
  /\ Home \in Chats /\ Tool \notin Chats /\ None \notin Chats \cup {Tool}
  /\ History \in 0..NMessages /\ PageSize > 0 /\ MaxCached > 0
  /\ Worlds \subseteq SUBSET Circumstances

VARIABLES
  world,    \* the member of Worlds this behaviour lives in; never changes
  log,      \* the server's messages
  up, wire, \* the socket, and the events the server has sent over it
  cuts,     \* times the socket was lost
  moves,    \* what the user has done so far, counted
  hook      \* the hook: state, refs, cache, and the requests it waits for

vars == <<world, log, up, wire, cuts, moves, hook>>

Ids == 1..NMessages
Acks == 0..MaxAck
Row == [conv: Chats \cup {None}, kept: BOOLEAN, ack: Acks]
Empty == [i \in {} |-> 0]
Lists == UNION {[S -> Acks] : S \in SUBSET Ids}

Used == {i \in Ids : log[i].conv # None}
StoredIn(c) == {i \in Ids : log[i].conv = c /\ log[i].kept}
Rows(S) == [i \in S |-> log[i].ack]

\* isMessageConversation: views that are not chats have no messages.
IsMessageConversation(c) == c \in Chats

-----------------------------------------------------------------------------
(* The cache: least recently used first.                                   *)

Newest(S) == {i \in S : Cardinality({j \in S : j > i}) < PageSize}

NormalizeEntry(e) ==
  IF Cardinality(DOMAIN e.messages) > PageSize
  THEN [e EXCEPT !.messages = [i \in Newest(DOMAIN e.messages) |-> e.messages[i]],
                 !.hasOlder = TRUE]
  ELSE e

CacheHas(cache, c) == \E k \in DOMAIN cache : cache[k].conv = c
CacheGet(cache, c) == cache[CHOOSE k \in DOMAIN cache : cache[k].conv = c]
CacheRemove(cache, c) == SelectSeq(cache, LAMBDA e : e.conv # c)

Evict(cache) == IF Len(cache) > MaxCached THEN Tail(cache) ELSE cache

CacheTouch(cache, c) ==
  IF CacheHas(cache, c) THEN Append(CacheRemove(cache, c), CacheGet(cache, c)) ELSE cache

CacheSetUnbounded(cache, e) == Append(CacheRemove(cache, e.conv), NormalizeEntry(e))

CacheSet(cache, e) == Evict(Append(CacheRemove(cache, e.conv), NormalizeEntry(e)))

CacheAddMessage(cache, c, i, ack) ==
  IF ~CacheHas(cache, c)
  THEN Evict(Append(cache, [conv |-> c, messages |-> i :> ack, hasOlder |-> TRUE]))
  ELSE LET e == CacheGet(cache, c) IN
       IF i \in DOMAIN e.messages THEN cache
       ELSE Append(CacheRemove(cache, c),
                   NormalizeEntry([e EXCEPT !.messages = (i :> ack) @@ @]))

CacheUpdateAck(cache, i, ack) ==
  [k \in DOMAIN cache |->
     IF i \in DOMAIN cache[k].messages
     THEN [cache[k] EXCEPT !.messages[i] = Max({@, ack})] ELSE cache[k]]

CacheRename(cache, old, new) ==
  LET o == CacheGet(cache, old)
      n == CacheGet(cache, new)
      merged == [conv |-> new, messages |-> n.messages @@ o.messages,
                 hasOlder |-> n.hasOlder \/ o.hasOlder]
      kept == CacheRemove(cache, old)
  IN IF ~CacheHas(cache, old) THEN cache
     ELSE IF ~CacheHas(cache, new) THEN Append(kept, [o EXCEPT !.conv = new])
     ELSE [k \in DOMAIN kept |-> IF kept[k].conv = new THEN NormalizeEntry(merged) ELSE kept[k]]

CacheRemoveMessage(cache, i) ==
  [k \in DOMAIN cache |->
     [cache[k] EXCEPT !.messages = [j \in DOMAIN @ \ {i} |-> @[j]]]]

-----------------------------------------------------------------------------
(* Acknowledgements that arrive before their message.                      *)

PendingOf(h, i) == {p \in Range(h.pending) : p.id = i}

\* mergePendingAck keeps the larger count; the entry moves to the end.
SetPendingAck(h, i, ack) ==
  LET kept == SelectSeq(h.pending, LAMBDA p : p.id # i)
      best == Max({ack} \cup {p.ack : p \in PendingOf(h, i)})
      all  == Append(kept, [id |-> i, ack |-> best])
  IN [h EXCEPT !.pending = IF Len(all) > MaxPendingAcks THEN Tail(all) ELSE all]

\* applyPendingAck over a list of rows: the rows as they are shown ...
Acknowledged(h, rows) ==
  [i \in DOMAIN rows |-> Max({rows[i]} \cup {p.ack : p \in PendingOf(h, i)})]

\* ... and the buffer without the entries it consumed.
Consumed(h, rows) ==
  [h EXCEPT !.pending = SelectSeq(@, LAMBDA p : p.id \notin DOMAIN rows)]

-----------------------------------------------------------------------------
(* Requests.  `ctl` names the abort controller that owns the request.      *)

Answer == [rows: Lists, older: BOOLEAN, newer: BOOLEAN]

Request(kind, conv, at, no, ctl, loading) ==
  [kind |-> kind, conv |-> conv, at |-> at, no |-> no, ctl |-> ctl,
   loading |-> loading, tag |-> 0, answer |-> None]

FreeTags(rs, kind) == (1..MaxFree) \ {r.tag : r \in {q \in rs : q.kind = kind /\ q.ctl = "free"}}

\* The request sets of h with one more request, if a free one is within bound.
Ask(h, r) ==
  [h EXCEPT !.asked = @ \cup
     {IF r.ctl = "free" THEN [r EXCEPT !.tag = Min(FreeTags(h.asked, r.kind))] ELSE r}]

MayAskFree(h, kind) == FreeTags(h.asked, kind) # {}

\* reconcileConversationMessages returns null when the page adds nothing.
AddsNothing(current, fetched) ==
  \A i \in DOMAIN fetched : i \in DOMAIN current /\ current[i] = fetched[i]

\* setMessages(reconciled list) with the list of the committed render.
Reconciled(h, fetched) ==
  IF AddsNothing(h.ref.messages, fetched) THEN h
  ELSE [h EXCEPT !.st.messages = fetched @@ h.ref.messages]

ReconciledList(h, fetched) ==
  IF AddsNothing(h.ref.messages, fetched) THEN h.ref.messages ELSE fetched @@ h.ref.messages

FetchLatest(h, conv, ctl) ==
  Ask([h EXCEPT !.owed = FALSE, !.st.loading = TRUE, !.st.messages = Empty],
      Request("latest", conv, None, 0, ctl, TRUE))

ReconcileFromBackend(h, conv, ctl) ==
  Ask([h EXCEPT !.latest = @ + 1], Request("reconcile", conv, None, h.latest + 1, ctl, FALSE))

-----------------------------------------------------------------------------
(* Answers.  Each is the continuation of one request, its finally included. *)

Latest(h, r, a) ==
  LET rows == Acknowledged(h, a.rows)
      h1   == Reconciled(Consumed(h, rows), rows)
      h2   == [h1 EXCEPT !.seen = DOMAIN ReconciledList(h, rows),
                         !.st.hasOlder = Cardinality(DOMAIN rows) >= PageSize]
  IN [IF h.fetching = r.conv THEN h2 ELSE h EXCEPT !.st.loading = FALSE]

ReconcileAnyView(h, r, a) ==
  LET rows == Acknowledged(h, a.rows)
  IN [Reconciled(Consumed(h, rows), rows) EXCEPT !.seen = DOMAIN ReconciledList(h, rows)]

Reconcile(h, r, a) ==
  LET rows == Acknowledged(h, a.rows)
      h1   == [Reconciled(Consumed(h, rows), rows)
                 EXCEPT !.st.hasOlder = Cardinality(DOMAIN rows) >= PageSize]
  IN IF h.fetching # r.conv \/ h.latest # r.no THEN h
     ELSE IF AddsNothing(h.ref.messages, rows) THEN h1
     ELSE [h1 EXCEPT !.seen = DOMAIN ReconciledList(h, rows)]

Around(h, r, a) ==
  LET rows == Acknowledged(h, a.rows)
      h1   == [Consumed(h, rows) EXCEPT !.st.messages = rows, !.seen = DOMAIN rows,
                                        !.st.hasOlder = a.older, !.st.hasNewer = a.newer]
  IN [IF h.fetching = r.conv THEN h1 ELSE h EXCEPT !.st.loading = FALSE]

\* React runs the updater of setMessages at once only when nothing is queued,
\* and then not always: `eager` says whether nextMessages was assigned.
Older(h, r, a, eager) ==
  LET rows == Acknowledged(h, a.rows)
      list == h.st.messages @@ rows
      h1   == [Consumed(h, rows) EXCEPT !.st.messages = list,
                                        !.st.hasOlder = Cardinality(DOMAIN rows) >= PageSize]
      h2   == IF eager /\ DOMAIN rows \ DOMAIN h.st.messages # {}
              THEN [h1 EXCEPT !.ref.messages = list, !.seen = DOMAIN list] ELSE h1
  IN [IF h.fetching = r.conv THEN h2 ELSE h
        EXCEPT !.ref.loadingOlder = FALSE, !.st.loadingOlder = FALSE]

Newer(h, r, a) ==
  LET rows  == Acknowledged(h, a.rows)
      fresh == DOMAIN rows \ h.seen
      more  == Cardinality(DOMAIN rows) >= PageSize
      h1    == [Consumed(h, rows)
                  EXCEPT !.st.messages = [i \in fresh |-> rows[i]] @@ @,
                         !.seen = @ \cup fresh, !.st.hasNewer = more]
      h2    == IF ~more /\ h.owed
               THEN ReconcileFromBackend([h1 EXCEPT !.owed = FALSE], r.conv, "free") ELSE h1
  IN [IF h.fetching = r.conv THEN h2 ELSE h
        EXCEPT !.ref.loadingNewer = FALSE, !.st.loadingNewer = FALSE]

FinallyForgetsOlder(h, r) ==
  CASE r.kind = "newer" -> [h EXCEPT !.ref.loadingNewer = FALSE, !.st.loadingNewer = FALSE]
    [] r.loading        -> [h EXCEPT !.st.loading = FALSE]
    [] OTHER            -> h

\* A request that fails runs only its finally, as does one that is aborted.
Finally(h, r) ==
  CASE r.kind = "older" -> [h EXCEPT !.ref.loadingOlder = FALSE, !.st.loadingOlder = FALSE]
    [] r.kind = "newer" -> [h EXCEPT !.ref.loadingNewer = FALSE, !.st.loadingNewer = FALSE]
    [] r.loading        -> [h EXCEPT !.st.loading = FALSE]
    [] OTHER            -> h

-----------------------------------------------------------------------------
(* Live events.                                                            *)

AppendActiveMessageIfNew(h, i, ack) ==
  LET seen == h.seen \cup {i} IN
  IF i \in h.seen THEN h
  ELSE [h EXCEPT
          !.seen = IF Cardinality(seen) > MaxSeen THEN DOMAIN h.ref.messages \cup {i} ELSE seen,
          !.st.messages = IF i \in DOMAIN @ THEN @ ELSE (i :> ack) @@ @]

ObserveMessage(h, conv, i, ack) ==
  LET best == Acknowledged(h, i :> ack)[i]
      h1   == Consumed(h, i :> ack)
  IN IF conv # h.active
     THEN [h1 EXCEPT !.cache = CacheAddMessage(@, conv, i, best)]
     ELSE IF h.ref.hasNewer THEN h1
     ELSE AppendActiveMessageIfNew(h1, i, best)

ReceiveMessageAck(h, i, ack) ==
  LET h1 == [h EXCEPT !.pending = SelectSeq(@, LAMBDA p : p.id # i)]
      h2 == IF i \notin DOMAIN h.ref.messages THEN SetPendingAck(h, i, ack)
            ELSE IF i \in DOMAIN h.st.messages
                 THEN [h1 EXCEPT !.st.messages[i] = Max({@, ack})]
                 ELSE SetPendingAck(h1, i, ack)
  IN [h2 EXCEPT !.cache = CacheUpdateAck(@, i, ack)]

RemoveMessage(h, i) ==
  [h EXCEPT !.st.messages = [j \in DOMAIN @ \ {i} |-> @[j]],
            !.cache = CacheRemoveMessage(@, i)]

ReconcileOnReconnect(h) ==
  IF ~IsMessageConversation(h.active) THEN h
  ELSE IF h.ref.hasNewer THEN [h EXCEPT !.owed = TRUE]
  ELSE ReconcileFromBackend([h EXCEPT !.owed = FALSE], h.active, "free")

-----------------------------------------------------------------------------
(* Renders.                                                                *)

Commit(h) == [h EXCEPT !.ref = h.st]
Settle(h) == IF "deferred" \in world THEN h ELSE Commit(h)

\* The finally blocks of aborted requests, which run when the effect has ended.
Aborted(h, rs) == FoldSet(LAMBDA r, acc : Finally(acc, r), h, rs)

\* The effect of a conversation switch, a target or a reload, after the render
\* has written the refs.  Aborted requests reject once the effect has run.
OpenConversation(h, reload) ==
  LET changed == h.prev # h.active
      handOff == /\ changed /\ h.prev # None
                 /\ h.ref.messages # Empty /\ ~h.ref.hasNewer
      entry   == [conv |-> h.prev, messages |-> h.ref.messages, hasOlder |-> h.ref.hasOlder]
      h1 == [h EXCEPT !.fetching = h.active, !.prev = h.active, !.latest = 0, !.owed = FALSE]
      h2 == [h1 EXCEPT !.st.loadingOlder = FALSE, !.ref.loadingOlder = FALSE,
                       !.st.loadingNewer = FALSE,
                       !.st.hasNewer = IF changed THEN FALSE ELSE @,
                       !.cache = IF handOff THEN CacheSet(@, entry) ELSE @]
      cached == CacheGet(h2.cache, h.active)
  IN IF ~changed /\ h.target = None /\ ~reload THEN h1
     ELSE IF ~IsMessageConversation(h.active)
     THEN [h2 EXCEPT !.st.messages = Empty, !.st.hasOlder = FALSE]
     ELSE IF h.target # None
     THEN Ask([h2 EXCEPT !.st.loading = TRUE, !.st.messages = Empty],
              Request("around", h.active, h.target, 0, "main", TRUE))
     ELSE IF CacheHas(h2.cache, h.active)
     THEN ReconcileFromBackend(
            [h2 EXCEPT !.cache = CacheTouch(@, h.active), !.st.messages = cached.messages,
                       !.seen = DOMAIN cached.messages, !.st.hasOlder = cached.hasOlder,
                       !.st.loading = FALSE], h.active, "main")
     ELSE FetchLatest(h2, h.active, "main")

SwitchEffect(h, reload) ==
  LET owned == {r \in h.asked : r.ctl # "free"}
      h1    == OpenConversation([h EXCEPT !.asked = @ \ owned], reload)
  IN Aborted(h1, owned)

\* A click: queued updates and the new view are rendered, then the effect runs.
Show(h, view, at, reload) ==
  LET h1 == Commit([h EXCEPT !.active = view, !.target = at])
      same == view = h.active /\ at = h.target /\ ~reload
  IN IF same THEN h1 ELSE Settle(SwitchEffect(h1, reload))

-----------------------------------------------------------------------------
(* The server.                                                             *)

Tell(e) == wire' = IF up THEN Append(wire, e) ELSE wire
MayTell == ~up \/ Len(wire) < MaxWire
Live == Used \ 1..History

\* Without floods no more than a page of messages is new since the page opened.
MayStore == /\ Used # Ids /\ MayTell
            /\ "floods" \in world \/ Cardinality(Live) < PageSize

StoreAs(c) ==
  LET i == Cardinality(Used) + 1
  IN /\ log' = [log EXCEPT ![i] = [conv |-> c, kept |-> TRUE, ack |-> 0]]
     /\ Tell([kind |-> "message", id |-> i, conv |-> c, ack |-> 0])

Store(c) ==
  /\ MayStore
  /\ StoreAs(c)
  /\ UNCHANGED <<world, up, cuts, moves, hook>>

\* Without stale answers nothing changes between a snapshot and its delivery.
MayOvertake == "stale" \in world \/ \A r \in hook.asked : r.answer = None

Acknowledge(i) ==
  /\ MayOvertake
  /\ "acks" \in world /\ log[i].kept /\ log[i].ack < MaxAck /\ MayTell
  /\ log' = [log EXCEPT ![i].ack = @ + 1]
  /\ Tell([kind |-> "acked", id |-> i, conv |-> log[i].conv, ack |-> log[i].ack + 1])
  /\ UNCHANGED <<world, up, cuts, moves, hook>>

Delete(i) ==
  /\ MayOvertake
  /\ "deletes" \in world /\ log[i].kept /\ MayTell
  /\ log' = [log EXCEPT ![i].kept = FALSE]
  /\ Tell([kind |-> "deleted", id |-> i, conv |-> log[i].conv, ack |-> 0])
  /\ UNCHANGED <<world, up, cuts, moves, hook>>

\* The full key behind a prefix becomes known: its messages move to the contact.
ResolvePrefix ==
  /\ "resolves" \in world /\ MayTell
  /\ \E i \in Ids : log[i].conv = Prefix
  /\ log' = [i \in Ids |-> IF log[i].conv = Prefix THEN [log[i] EXCEPT !.conv = Home] ELSE log[i]]
  /\ Tell([kind |-> "resolved", id |-> 0, conv |-> Home, ack |-> 0])
  /\ UNCHANGED <<world, up, cuts, moves, hook>>

Oldest(S) == {i \in S : Cardinality({j \in S : j < i}) < PageSize}
Nearest(S, at) == {i \in S : Cardinality({j \in S : (at < j /\ j < i) \/ (i < j /\ j < at)}) < AroundSize}

AnswerTo(r) ==
  LET S == StoredIn(r.conv)
      before == {i \in S : i < r.at}
      after  == {i \in S : i > r.at}
      near   == Nearest(before, r.at) \cup {r.at} \cup Nearest(after, r.at)
      page(T) == [rows |-> Rows(T), older |-> FALSE, newer |-> FALSE]
  IN CASE r.kind = "older" -> page(Newest(before))
       [] r.kind = "newer" -> page(Oldest(after))
       [] r.kind = "around" /\ r.at \in S ->
            [rows |-> Rows(near), older |-> before \ near # {}, newer |-> after \ near # {}]
       [] r.kind = "around" -> page({})
       [] OTHER -> page(Newest(S))

Serve(r) ==
  /\ r.answer = None /\ r.kind # "send"
  /\ hook' = [hook EXCEPT !.asked = (@ \ {r}) \cup {[r EXCEPT !.answer = AnswerTo(r)]}]
  /\ UNCHANGED <<world, log, up, wire, cuts, moves>>

\* POST /messages stores, broadcasts and answers with the new row.
ServeSend(r) ==
  /\ r.answer = None /\ r.kind = "send" /\ MayStore
  /\ StoreAs(r.conv)
  /\ hook' = [hook EXCEPT !.asked = (@ \ {r}) \cup
       {[r EXCEPT !.answer = [rows |-> (Cardinality(Used) + 1) :> 0,
                              older |-> FALSE, newer |-> FALSE]]}]
  /\ UNCHANGED <<world, up, cuts, moves>>

-----------------------------------------------------------------------------
(* The socket and the answers.                                             *)

Cut ==
  /\ "cuts" \in world /\ up /\ cuts < MaxCuts
  /\ up' = FALSE /\ wire' = <<>> /\ cuts' = cuts + 1
  /\ UNCHANGED <<world, log, moves, hook>>

Reconnect ==
  /\ ~up /\ MayAskFree(hook, "reconcile")
  /\ up' = TRUE
  /\ hook' = Settle(ReconcileOnReconnect(hook))
  /\ UNCHANGED <<world, log, wire, cuts, moves>>

OnContactResolved(h) ==
  LET h1 == [h EXCEPT !.cache = CacheRename(@, Prefix, Home)]
  IN IF h.active = Prefix THEN Show(h1, Home, h1.target, FALSE) ELSE Settle(h1)

Receive ==
  /\ up /\ wire # <<>>
  /\ LET e == Head(wire) IN
     hook' = CASE e.kind = "message"  -> Settle(ObserveMessage(hook, e.conv, e.id, e.ack))
               [] e.kind = "acked"    -> Settle(ReceiveMessageAck(hook, e.id, e.ack))
               [] e.kind = "deleted"  -> Settle(RemoveMessage(hook, e.id))
               [] e.kind = "resolved" -> OnContactResolved(hook)
  /\ wire' = Tail(wire)
  /\ UNCHANGED <<world, log, up, cuts, moves>>

Deliver(r) ==
  /\ r.answer # None
  /\ r.kind = "newer" => MayAskFree(hook, "reconcile")
  /\ LET h == [hook EXCEPT !.asked = @ \ {r}]
         i == CHOOSE j \in DOMAIN r.answer.rows : TRUE
     IN \E eager \in IF h.st = h.ref THEN BOOLEAN ELSE {FALSE} :
          hook' = Settle(CASE r.kind = "latest"    -> Latest(h, r, r.answer)
                           [] r.kind = "reconcile" -> Reconcile(h, r, r.answer)
                           [] r.kind = "around"    -> Around(h, r, r.answer)
                           [] r.kind = "older"     -> Older(h, r, r.answer, eager)
                           [] r.kind = "newer"     -> Newer(h, r, r.answer)
                           [] r.kind = "send"      ->
                                IF h.active = r.conv THEN ObserveMessage(h, r.conv, i, 0) ELSE h)
  /\ UNCHANGED <<world, log, up, wire, cuts, moves>>

Fail(r) ==
  /\ "fails" \in world
  /\ hook' = Settle(Finally([hook EXCEPT !.asked = @ \ {r}], r))
  /\ UNCHANGED <<world, log, up, wire, cuts, moves>>

Render ==
  /\ hook.st # hook.ref
  /\ hook' = Commit(hook)
  /\ UNCHANGED <<world, log, up, wire, cuts, moves>>

-----------------------------------------------------------------------------
(* The user.                                                               *)

Move ==
  /\ "hasty" \in world \/ hook.asked = {}
  /\ moves < MaxMoves /\ moves' = moves + 1

\* handleSelectConversationWithTargetReset.
Select(view) ==
  /\ Move
  /\ hook' = Show(hook, view, None, FALSE)
  /\ UNCHANGED <<world, log, up, wire, cuts>>

\* A search result or the unread divider: open the conversation at a message.
NavigateTo(c, i) ==
  /\ "searches" \in world /\ Move /\ i \in StoredIn(c)
  /\ "hasty" \in world \/ \A k \in DOMAIN wire : wire[k].id # i
  /\ hook' = Show(hook, c, i, FALSE)
  /\ UNCHANGED <<world, log, up, wire, cuts>>

\* MessageList reports that the target is on screen.
ReachTarget ==
  /\ hook.target \in DOMAIN hook.ref.messages
  /\ hook' = Show(hook, hook.active, None, FALSE)
  /\ UNCHANGED <<world, log, up, wire, cuts, moves>>

FetchOlderMessages ==
  /\ Move
  /\ IsMessageConversation(hook.active)
  /\ ~hook.ref.loadingOlder /\ hook.ref.hasOlder /\ hook.ref.messages # Empty
  /\ hook' = Settle(Ask([hook EXCEPT !.ref.loadingOlder = TRUE, !.st.loadingOlder = TRUE],
                        Request("older", hook.active, Min(DOMAIN hook.ref.messages), 0, "older", FALSE)))
  /\ UNCHANGED <<world, log, up, wire, cuts>>

FetchNewerMessages ==
  /\ Move
  /\ IsMessageConversation(hook.active)
  /\ ~hook.ref.loadingNewer /\ hook.ref.hasNewer /\ hook.ref.messages # Empty
  /\ hook' = Settle(Ask([hook EXCEPT !.ref.loadingNewer = TRUE, !.st.loadingNewer = TRUE],
                        Request("newer", hook.active, Max(DOMAIN hook.ref.messages), 0, "newer", FALSE)))
  /\ UNCHANGED <<world, log, up, wire, cuts>>

\* Offered while the list is not at the newest message.
JumpToBottom ==
  /\ Move
  /\ IsMessageConversation(hook.active) /\ hook.st.hasNewer /\ MayAskFree(hook, "latest")
  /\ hook' = Commit(FetchLatest([Commit(hook) EXCEPT !.st.hasNewer = FALSE,
                                   !.cache = CacheRemove(@, hook.active)], hook.active, "free"))
  /\ UNCHANGED <<world, log, up, wire, cuts>>

\* A changed block list or a restored backup empties the cache and reloads.
ReloadCurrentConversation ==
  /\ Move
  /\ IsMessageConversation(hook.active)
  /\ hook' = Show([hook EXCEPT !.cache = <<>>, !.st.hasNewer = FALSE],
                   hook.active, hook.target, TRUE)
  /\ UNCHANGED <<world, log, up, wire, cuts>>

HandleSendMessage ==
  /\ "sends" \in world /\ Move
  /\ IsMessageConversation(hook.active) /\ MayAskFree(hook, "send")
  /\ hook' = Ask(hook, Request("send", hook.active, None, 0, "free", FALSE))
  /\ UNCHANGED <<world, log, up, wire, cuts>>

-----------------------------------------------------------------------------
NoView == [messages |-> Empty, loading |-> FALSE, loadingOlder |-> FALSE,
           loadingNewer |-> FALSE, hasOlder |-> FALSE, hasNewer |-> FALSE]

Init ==
  /\ world \in Worlds
  /\ log = [i \in Ids |-> [conv |-> IF i <= History THEN Home ELSE None,
                           kept |-> i <= History, ack |-> 0]]
  /\ up = TRUE /\ wire = <<>> /\ cuts = 0 /\ moves = 0
  /\ hook = [active |-> None, target |-> None, st |-> NoView, ref |-> NoView, seen |-> {},
             pending |-> <<>>, fetching |-> None, prev |-> None, latest |-> 0, owed |-> FALSE,
             cache |-> <<>>, asked |-> {}]

ServerStep == \/ \E c \in Chats : Store(c)
              \/ \E i \in Ids : Acknowledge(i) \/ Delete(i)
              \/ ResolvePrefix
              \/ \E r \in hook.asked : Serve(r) \/ ServeSend(r)

ClientStep == \/ Cut \/ Reconnect \/ Receive \/ Render
              \/ \E r \in hook.asked : Deliver(r) \/ Fail(r)

UserStep == \/ \E v \in Chats \cup {Tool} : Select(v)
            \/ \E c \in Chats, i \in Ids : NavigateTo(c, i)
            \/ ReachTarget \/ FetchOlderMessages \/ FetchNewerMessages
            \/ JumpToBottom \/ ReloadCurrentConversation \/ HandleSendMessage

Next == ServerStep \/ ClientStep \/ UserStep

Spec == Init /\ [][Next]_vars

-----------------------------------------------------------------------------
(* Properties.                                                             *)

\* Every variable keeps its type, and cache and buffer stay within their limits.
TypeOK ==
  /\ log \in [Ids -> Row] /\ up \in BOOLEAN /\ cuts \in 0..MaxCuts /\ moves \in 0..MaxMoves
  /\ Len(wire) <= MaxWire
  /\ hook.st.messages \in Lists /\ hook.ref.messages \in Lists /\ hook.seen \subseteq Ids
  /\ Len(hook.cache) <= MaxCached /\ Len(hook.pending) <= MaxPendingAcks

\* A late answer, a cached list or a live event never puts a message of one
\* conversation into the list of another: fetchingConversationIdRef, the abort
\* controllers and isActiveConversationMessage together keep them apart.  (While
\* renders lag, an answer may be merged with the list of the previous view.)
ShownBelongs ==
  "deferred" \notin world =>
    \A i \in DOMAIN hook.st.messages :
      log[i].conv = hook.active \/ (hook.active = Prefix /\ log[i].conv = Home)

\* fetchNewerMessages appends without looking at the list: the content keys it
\* filters by must cover every message shown, whatever reconciled or reset them.
NoDuplicates ==
  \A r \in hook.asked :
    r.kind = "newer" /\ r.answer # None /\ r.conv = hook.fetching
      => (DOMAIN r.answer.rows \ hook.seen) \cap DOMAIN hook.st.messages = {}

\* A spinner is shown only while a request that will clear it is under way, in
\* whatever order requests are answered, fail or are aborted by a switch.
NoStuckLoading ==
  /\ hook.st.loading => \E r \in hook.asked : r.loading
  /\ hook.st.loadingOlder => \E r \in hook.asked : r.kind = "older"
  /\ hook.st.loadingNewer => \E r \in hook.asked : r.kind = "newer"

\* Nothing is under way and every update has been rendered.
Quiet == up /\ wire = <<>> /\ hook.asked = {} /\ hook.st = hook.ref

\* Once quiet, the open conversation shows every stored message from its oldest
\* shown one on, and everything when it offers no older page: live events, pages,
\* the cache and the repair after a reconnect leave no hole.  A jump to a message,
\* a resolved prefix, a failed request and more than a page of missed messages
\* are the cases in which the code does leave one.
NoHoles ==
  world \cap {"searches", "resolves", "fails", "floods", "deferred"} = {} /\ Quiet
  /\ IsMessageConversation(hook.active) /\ ~hook.st.hasNewer =>
    \A i \in StoredIn(hook.active) :
      \/ i \in DOMAIN hook.st.messages
      \/ hook.st.hasOlder /\ \A j \in DOMAIN hook.st.messages : i < j

\* Once quiet, every shown message carries the server's count, whether it was on
\* screen, in the cache, on another page or not yet received when the
\* acknowledgement came.
AckCurrent ==
  world \cap {"stale", "cuts", "deferred"} = {} /\ Quiet =>
    \A i \in DOMAIN hook.st.messages : hook.st.messages[i] = log[i].ack

\* Once quiet, no deleted message is on screen or waits in the cache.
NoGhosts ==
  world \cap {"stale", "cuts", "deferred"} = {} /\ Quiet =>
    \A m \in {hook.st.messages} \cup {e.messages : e \in Range(hook.cache)} :
      \A i \in DOMAIN m : log[i].kept

\* An answer or a render never takes a message off a list that claims to reach
\* the newest one: a late snapshot does not overwrite what arrived live.
LateSnapshotKeepsLive ==
  [][hook'.active = hook.active /\ moves' = moves /\ wire' = wire /\ ~hook'.st.hasNewer
       => DOMAIN hook.st.messages \subseteq DOMAIN hook'.st.messages]_vars

=============================================================================
