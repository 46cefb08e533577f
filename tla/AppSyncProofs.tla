---------------------------- MODULE AppSyncProofs ----------------------------
(***************************************************************************)
(* The contact and channel lists of the web client, for every set of keys  *)
(* and rows, every number of changes, closes and fetches: with the socket  *)
(* open and nothing under way the lists are the server's.                  *)
(*                                                                         *)
(* The promise speaks of quiet states only, so the invariant says what     *)
(* holds in between: a row that differs from the server's is owed a        *)
(* correction, by a change on the wire or by the answer of a fetch, and no *)
(* answer still to come brings back something older than the client has.   *)
(***************************************************************************)
EXTENDS AppSync, TLAPS

-----------------------------------------------------------------------------
(* The socket of the web client, for every cap of the backoff: it never
   strands, and it implements the link that the lists rely on. *)

SockInv == SockTypeOK /\ OneAttemptAtATime

LEMMA SockInvInit == SockInit => SockInv
<1> SUFFICES ASSUME SockInit PROVE SockInv
  OBVIOUS
<1>1. attempt \in 0..MaxAttempt
  BY AttemptAssumption, SMT DEF SockInit
<1>2. cur \in SocketStates /\ stale \subseteq SocketStates
  BY SMT DEF SockInit, SocketStates
<1>3. /\ mounted \in BOOLEAN /\ timer \in BOOLEAN /\ stable \in BOOLEAN
      /\ ever \in BOOLEAN /\ told \in BOOLEAN
  BY Zenon DEF SockInit
<1>4. OneAttemptAtATime
  BY Zenon DEF SockInit, OneAttemptAtATime
<1> QED
  BY <1>1, <1>2, <1>3, <1>4, Zenon DEF SockInv, SockTypeOK

LEMMA SockInvNext == SockInv /\ [SockNext]_sockVars => SockInv'
<1> SUFFICES ASSUME SockInv, [SockNext]_sockVars PROVE SockInv'
  OBVIOUS
<1> USE AttemptAssumption DEF SockInv, SockTypeOK, OneAttemptAtATime, SocketStates
<1>1. CASE Mount
  BY <1>1 DEF Mount, Connect
<1>2. CASE OnOpen
  BY <1>2 DEF OnOpen
<1>3. CASE OnClose
  <2>1. attempt' \in 0..MaxAttempt
    <3>1. NextAttempt \in 0..MaxAttempt
      BY SMT DEF NextAttempt
    <3> QED
      BY <1>3, <3>1, Zenon DEF OnClose
  <2> QED
    BY <1>3, <2>1, Zenon DEF OnClose
<1>4. CASE OnMessage
  <2>1. attempt' \in 0..MaxAttempt
    BY <1>4, SMT DEF OnMessage
  <2>2. stable' \in BOOLEAN /\ (stable' => stable)
    BY <1>4, Zenon DEF OnMessage
  <2> QED
    BY <1>4, <2>1, <2>2, Zenon DEF OnMessage
<1>5. CASE StableTimer
  <2>1. attempt' \in 0..MaxAttempt
    BY <1>5, SMT DEF StableTimer
  <2> QED
    BY <1>5, <2>1, Zenon DEF StableTimer
<1>6. CASE ReconnectTimer
  BY <1>6 DEF ReconnectTimer, Connect
<1>7. CASE ReconnectNow
  BY <1>7 DEF ReconnectNow, Connect
<1>8. CASE Unmount
  BY <1>8 DEF Unmount
<1>9. CASE StaleEvent
  BY <1>9 DEF StaleEvent
<1>10. CASE UNCHANGED sockVars
  BY <1>10 DEF sockVars
<1> QED
  BY <1>1, <1>2, <1>3, <1>4, <1>5, <1>6, <1>7, <1>8, <1>9, <1>10 DEF SockNext

\* useWebSocket never leaves a mounted client without a socket and without a
\* reconnect timer, and never lets both wait at the same time.
THEOREM NeverStranded == SockSpec => []OneAttemptAtATime
<1>1. SockInv => OneAttemptAtATime
  BY DEF SockInv
<1> QED
  BY <1>1, SockInvInit, SockInvNext, PTL DEF SockSpec

\* useWebSocket implements the link: replaced sockets are inert and every opening
\* of the current one but the first calls onReconnect.
THEOREM SocketImplementsLink == SockSpec => ImplementsLink
<1>1. SockInit => Link!Init
  BY DEF SockInit, Link!Init
<1>2. SockInv /\ [SockNext]_sockVars => [Link!Next]_(Link!linkVars)
  <2> SUFFICES ASSUME SockInv, [SockNext]_sockVars PROVE [Link!Next]_(Link!linkVars)
    OBVIOUS
  <2> USE DEF Link!Next, Link!Open, Link!Lose, Link!linkVars, SockInv, OneAttemptAtATime
  <2>1. CASE Mount
    BY <2>1 DEF Mount, Connect
  <2>2. CASE OnOpen
    BY <2>2 DEF OnOpen
  <2>3. CASE OnClose
    BY <2>3 DEF OnClose
  <2>4. CASE OnMessage
    BY <2>4 DEF OnMessage
  <2>5. CASE StableTimer
    BY <2>5 DEF StableTimer
  <2>6. CASE ReconnectTimer
    BY <2>6 DEF ReconnectTimer, Connect, SockTypeOK
  <2>7. CASE ReconnectNow
    BY <2>7 DEF ReconnectNow, Connect
  <2>8. CASE Unmount
    BY <2>8 DEF Unmount
  <2>9. CASE StaleEvent
    BY <2>9 DEF StaleEvent
  <2>10. CASE UNCHANGED sockVars
    BY <2>10 DEF sockVars
  <2> QED
    BY <2>1, <2>2, <2>3, <2>4, <2>5, <2>6, <2>7, <2>8, <2>9, <2>10 DEF SockNext
<1> QED
  BY <1>1, <1>2, SockInvInit, SockInvNext, PTL DEF SockSpec, ImplementsLink, Link!Spec

-----------------------------------------------------------------------------
(* The lists *)

\* The circumstances in which the lists are promised: no fetch fails, and the
\* server does not change behind the answer of a fetch that has no tracker.
Reliable == world \cap {"fails", "late"} = {}

\* The rows of one list that a change speaks of
SomeRows == UNION {[D -> Versions \cup {None}] : D \in SUBSET Keys}

Deltas == [kind : Kinds, rows : SomeRows]

Fetches == [kind : Kinds, gen : Nat, no : Nat, touched : SUBSET Keys, answer : Rows \cup {None}]

SyncTyped ==
  /\ world \subseteq Circumstances
  /\ server \in [Kinds -> Rows] /\ lists \in [Kinds -> Rows]
  /\ wire \in Seq(Deltas)
  /\ gen \in Nat /\ loads \in Nat
  /\ asked \subseteq Fetches
  /\ \A r \in asked : r.gen <= gen /\ (r.gen = 0 => r.touched = {})

\* Change i under way says something about row k.
Says(i, kind, k) == wire[i].kind = kind /\ k \in DOMAIN wire[i].rows

OnTheWay(kind, k) == \E i \in 1 .. Len(wire) : Says(i, kind, k)

\* The last change under way about a row brings it to what the server has.
WireCurrent ==
  \A kind \in Kinds, k \in Keys, i \in 1 .. Len(wire) :
    Says(i, kind, k) /\ (\A j \in 1 .. Len(wire) : j > i => ~Says(j, kind, k))
      => wire[i].rows[k] = server[kind][k]

\* The answer of r will bring row k to what the server has.
Repairs(r, kind, k) ==
  /\ r.kind = kind /\ IsLatest(r) /\ k \notin r.touched
  /\ r.answer = None \/ r.answer[k] = server[kind][k]

\* Every row that differs from the server's is going to be corrected.
Debts(kind, k) ==
  \/ lists[kind][k] = server[kind][k]
  \/ OnTheWay(kind, k)
  \/ \E r \in asked : Repairs(r, kind, k)

\* No answer of the latest fetch spoils a row: one that is stale in the answer is on
\* its way, and a row touched since is current or on its way.
Harmless(r, k) ==
  /\ k \notin r.touched /\ r.answer # None =>
       r.answer[k] = server[r.kind][k] \/ OnTheWay(r.kind, k)
  /\ k \in r.touched => lists[r.kind][k] = server[r.kind][k] \/ OnTheWay(r.kind, k)

Before(kind) ==
  \/ lists[kind] = server[kind]
  \/ \E r \in asked : r.kind = kind /\ r.gen = 0 /\ r.answer \in {None, server[kind]}

\* An answered fetch without a tracker has the server's rows.
Untracked == \A r \in asked : r.gen = 0 /\ r.answer # None => r.answer = server[r.kind]

\* Before the socket opens for the first time the first fetches are what the lists
\* will be made of.
FirstFetches == ~ever /\ mounted => \A kind \in Kinds : Before(kind)

Owed == \A kind \in Kinds, k \in Keys : Debts(kind, k)

NoSpoiling == \A r \in asked : r.gen = gen /\ gen > 0 => \A k \in Keys : Harmless(r, k)

SyncInv ==
  /\ SyncTyped
  /\ SockInv
  /\ cur = "open" \/ gen > 0 => ever
  /\ cur # "open" => wire = <<>>
  /\ Reliable => Untracked /\ FirstFetches
  /\ Reliable /\ cur = "open" => WireCurrent /\ Owed /\ NoSpoiling

-----------------------------------------------------------------------------
(* The wire *)

LEMMA WireTyped ==
  ASSUME SyncTyped, NEW i \in 1 .. Len(wire)
  PROVE  wire[i] \in Deltas /\ wire[i].kind \in Kinds /\ DOMAIN wire[i].rows \subseteq Keys
<1>1. wire[i] \in Deltas
  BY DEF SyncTyped
<1>2. wire[i].rows \in SomeRows /\ wire[i].kind \in Kinds
  BY <1>1 DEF Deltas
<1>3. PICK D \in SUBSET Keys : wire[i].rows \in [D -> Versions \cup {None}]
  BY <1>2 DEF SomeRows
<1> QED
  BY <1>1, <1>2, <1>3

\* A change that is sent is the last one under way.
LEMMA Sent ==
  ASSUME SyncTyped, NEW e \in Deltas, wire' = Append(wire, e)
  PROVE  /\ wire' \in Seq(Deltas)
         /\ Len(wire') = Len(wire) + 1 /\ Len(wire) \in Nat
         /\ \A i \in 1 .. Len(wire) : wire'[i] = wire[i]
         /\ wire'[Len(wire) + 1] = e
BY DEF SyncTyped

LEMMA SentOnTheWay ==
  ASSUME SyncTyped, NEW e \in Deltas, wire' = Append(wire, e), NEW kind, NEW k
  PROVE  OnTheWay(kind, k)' <=> OnTheWay(kind, k) \/ (e.kind = kind /\ k \in DOMAIN e.rows)
<1>1. /\ Len(wire') = Len(wire) + 1 /\ Len(wire) \in Nat
      /\ \A i \in 1 .. Len(wire) : wire'[i] = wire[i]
      /\ wire'[Len(wire) + 1] = e
  BY Sent
<1>2. \A i \in 1 .. Len(wire') : i \in 1 .. Len(wire) \/ i = Len(wire) + 1
  BY <1>1
<1>3. \A i \in 1 .. Len(wire) : i \in 1 .. Len(wire')
  BY <1>1
<1>4. Len(wire) + 1 \in 1 .. Len(wire')
  BY <1>1
<1> QED
  BY <1>1, <1>2, <1>3, <1>4 DEF OnTheWay, Says

\* What is received was the first under way.
LEMMA Received ==
  ASSUME SyncTyped, wire # <<>>, wire' = Tail(wire)
  PROVE  /\ wire' \in Seq(Deltas)
         /\ Len(wire) \in Nat \ {0} /\ Len(wire') = Len(wire) - 1
         /\ Head(wire) = wire[1]
         /\ \A i \in 1 .. Len(wire') : i + 1 \in 1 .. Len(wire) /\ wire'[i] = wire[i + 1]
BY DEF SyncTyped

LEMMA ReceivedOnTheWay ==
  ASSUME SyncTyped, wire # <<>>, wire' = Tail(wire), NEW kind, NEW k, OnTheWay(kind, k)
  PROVE  \/ OnTheWay(kind, k)'
         \/ Says(1, kind, k) /\ \A j \in 2 .. Len(wire) : ~Says(j, kind, k)
<1>1. /\ Len(wire) \in Nat \ {0} /\ Len(wire') = Len(wire) - 1
      /\ \A i \in 1 .. Len(wire') : i + 1 \in 1 .. Len(wire) /\ wire'[i] = wire[i + 1]
  BY Received
<1>2. PICK i \in 1 .. Len(wire) : Says(i, kind, k)
  BY DEF OnTheWay
<1>3. i = 1 \/ i \in 2 .. Len(wire)
  BY <1>1
<1>4. CASE \E j \in 2 .. Len(wire) : Says(j, kind, k)
  <2>1. PICK j \in 2 .. Len(wire) : Says(j, kind, k)
    BY <1>4
  <2>2. PICK h : h = j - 1
    OBVIOUS
  <2>3. h \in 1 .. Len(wire') /\ wire'[h] = wire[j]
    <3>1. h \in 1 .. Len(wire') /\ h + 1 = j
      BY <1>1, <2>2
    <3> QED
      BY <1>1, <3>1
  <2>4. wire'[h].kind = kind /\ k \in DOMAIN wire'[h].rows
    BY <2>1, <2>3 DEF Says
  <2>5. OnTheWay(kind, k)'
    BY <2>3, <2>4 DEF OnTheWay, Says
  <2> QED
    BY <2>5
<1>5. CASE \A j \in 2 .. Len(wire) : ~Says(j, kind, k)
  <2>1. i = 1
    BY <1>2, <1>3, <1>5
  <2> QED
    BY <1>2, <1>5, <2>1
<1> QED
  BY <1>4, <1>5

-----------------------------------------------------------------------------
(* What a step leaves alone *)

\* A step that touches neither the rows nor the fetches nor the wire preserves what
\* is said of them.
LEMMA DataKept ==
  ASSUME SyncInv, UNCHANGED <<world, server, wire, lists, asked, gen>>
  PROVE  /\ UNCHANGED <<Reliable, WireCurrent, Owed, NoSpoiling, Untracked>>
         /\ \A kind \in Kinds : Before(kind) <=> Before(kind)'
<1>1. UNCHANGED <<Reliable, Untracked>>
  BY DEF Reliable, Untracked
<1>2. UNCHANGED WireCurrent
  BY DEF WireCurrent, Says
<1>3. UNCHANGED Owed
  BY DEF Owed, Debts, OnTheWay, Says, Repairs, IsLatest
<1>4. UNCHANGED NoSpoiling
  BY DEF NoSpoiling, Harmless, OnTheWay, Says
<1>5. \A kind \in Kinds : Before(kind) <=> Before(kind)'
  BY DEF Before
<1> QED
  BY <1>1, <1>2, <1>3, <1>4, <1>5

\* The socket follows its own module in every step.
LEMMA SocketKept ==
  ASSUME SyncInv, [SockNext]_sockVars
  PROVE  SockInv'
BY SockInvNext DEF SyncInv

-----------------------------------------------------------------------------
(* The server *)

\* A list after a change
LEMMA UpdatedRows ==
  ASSUME NEW kind \in Kinds, NEW rows \in SomeRows,
         NEW old \in [Kinds -> Rows], NEW new, new = [old EXCEPT ![kind] = Updated(@, rows)]
  PROVE  /\ new \in [Kinds -> Rows]
         /\ \A c \in Kinds, k \in Keys :
              /\ c = kind /\ k \in DOMAIN rows => new[c][k] = rows[k]
              /\ ~(c = kind /\ k \in DOMAIN rows) => new[c][k] = old[c][k]
<1>1. PICK D \in SUBSET Keys : rows \in [D -> Versions \cup {None}]
  BY DEF SomeRows
<1>2. old[kind] \in [Keys -> Versions \cup {None}]
  BY DEF Rows
<1>3. PICK list : list = Updated(old[kind], rows)
  OBVIOUS
<1>4. new = [old EXCEPT ![kind] = list]
  BY <1>3
<1>5. list \in Rows
  BY <1>1, <1>2, <1>3 DEF Rows, Updated
<1>6. \A k \in Keys : list[k] = IF k \in DOMAIN rows THEN rows[k] ELSE old[kind][k]
  BY <1>3 DEF Updated
<1>7. new \in [Kinds -> Rows] /\ new[kind] = list
      /\ \A c \in Kinds : c # kind => new[c] = old[c]
  BY <1>4, <1>5
<1> QED
  BY <1>6, <1>7

\* Without trouble a change comes only while no fetch without a tracker is answered.
LEMMA ChangedUntracked ==
  ASSUME Reliable, Overtakes
  PROVE  /\ \A r \in asked : r.gen = 0 => r.answer = None
         /\ ~ever /\ mounted => \A kind \in Kinds : Unanswered(kind)
BY DEF Reliable, Overtakes

LEMMA ChangeNext ==
  ASSUME SyncInv, NEW kind \in Kinds, NEW rows \in SomeRows, Change(kind, rows)
  PROVE  SyncInv'
<1>1. PICK e : e = [kind |-> kind, rows |-> rows]
  OBVIOUS
<1>2. e \in Deltas /\ e.kind = kind /\ e.rows = rows
  BY <1>1 DEF Deltas
<1>3. /\ wire' = IF cur = "open" THEN Append(wire, e) ELSE wire
      /\ Overtakes
      /\ UNCHANGED <<world, mounted, cur, ever, lists, asked, gen, loads>>
      /\ UNCHANGED sockVars
  BY <1>1 DEF Change, sockVars
<1>4. SyncTyped
  BY DEF SyncInv
<1>5. /\ server' \in [Kinds -> Rows]
      /\ \A c \in Kinds, k \in Keys :
           /\ c = kind /\ k \in DOMAIN rows => server'[c][k] = rows[k]
           /\ ~(c = kind /\ k \in DOMAIN rows) => server'[c][k] = server[c][k]
  <2>1. server \in [Kinds -> Rows] /\ server' = [server EXCEPT ![kind] = Updated(@, rows)]
    BY <1>4 DEF Change, SyncTyped
  <2> QED
    BY <2>1, UpdatedRows
<1>6. SyncTyped'
  <2>1. wire' \in Seq(Deltas)
    BY <1>2, <1>3, <1>4, Sent DEF SyncTyped
  <2> QED
    BY <1>3, <1>4, <1>5, <2>1 DEF SyncTyped
<1>7. SockInv'
  BY <1>3, SocketKept
<1>8. (cur = "open" \/ gen > 0 => ever)' /\ (cur # "open" => wire = <<>>)'
  BY <1>3 DEF SyncInv
<1>9. ASSUME Reliable' PROVE Untracked' /\ FirstFetches'
  <2>1. Reliable
    BY <1>3, <1>9 DEF Reliable
  <2>2. \A r \in asked : r.gen = 0 => r.answer = None
    BY <1>3, <2>1, ChangedUntracked
  <2>3. ~ever /\ mounted => \A c \in Kinds : Unanswered(c)
    BY <1>3, <2>1, ChangedUntracked
  <2>4. Untracked'
    BY <1>3, <2>2 DEF Untracked
  <2>5. FirstFetches'
    BY <1>3, <2>3 DEF FirstFetches, Before, Unanswered
  <2> QED
    BY <2>4, <2>5
<1>10. ASSUME Reliable', cur' = "open" PROVE WireCurrent' /\ Owed' /\ NoSpoiling'
  <2>1. Reliable /\ cur = "open" /\ wire' = Append(wire, e)
    BY <1>3, <1>10 DEF Reliable
  <2>2. WireCurrent /\ Owed /\ NoSpoiling
    BY <2>1 DEF SyncInv
  <2>3. \A c, k : OnTheWay(c, k)' <=> OnTheWay(c, k) \/ (kind = c /\ k \in DOMAIN rows)
    BY <1>2, <1>4, <2>1, SentOnTheWay
  <2>4. WireCurrent'
    <3> SUFFICES ASSUME NEW c \in Kinds, NEW k \in Keys, NEW i \in 1 .. Len(wire'),
                        Says(i, c, k)',
                        \A j \in 1 .. Len(wire') : j > i => ~Says(j, c, k)'
                 PROVE  wire'[i].rows[k] = server'[c][k]
      BY DEF WireCurrent
    <3>1. /\ Len(wire') = Len(wire) + 1 /\ Len(wire) \in Nat
          /\ \A j \in 1 .. Len(wire) : wire'[j] = wire[j]
          /\ wire'[Len(wire) + 1] = e
      BY <1>2, <1>4, <2>1, Sent
    <3>2. CASE i = Len(wire) + 1
      BY <1>2, <1>5, <3>1, <3>2 DEF Says
    <3>3. CASE i \in 1 .. Len(wire)
      <4>1. ~(c = kind /\ k \in DOMAIN rows)
        BY <1>2, <3>1, <3>3 DEF Says
      <4>2. Says(i, c, k) /\ \A j \in 1 .. Len(wire) : j > i => ~Says(j, c, k)
        BY <3>1, <3>3 DEF Says
      <4>3. wire[i].rows[k] = server[c][k]
        BY <2>2, <3>3, <4>2 DEF WireCurrent
      <4> QED
        BY <1>5, <3>1, <3>3, <4>1, <4>3
    <3> QED
      BY <3>1, <3>2, <3>3
  <2>5. Owed'
    <3> SUFFICES ASSUME NEW c \in Kinds, NEW k \in Keys PROVE Debts(c, k)'
      BY DEF Owed
    <3>1. CASE c = kind /\ k \in DOMAIN rows
      BY <2>3, <3>1 DEF Debts
    <3>2. CASE ~(c = kind /\ k \in DOMAIN rows)
      <4>1. server'[c][k] = server[c][k]
        BY <1>5, <3>2
      <4>2. Debts(c, k)
        BY <2>2 DEF Owed
      <4>3. ASSUME NEW r \in asked, Repairs(r, c, k) PROVE Repairs(r, c, k)'
        BY <1>3, <4>1, <4>3 DEF Repairs, IsLatest
      <4> QED
        BY <1>3, <2>3, <4>1, <4>2, <4>3 DEF Debts
    <3> QED
      BY <3>1, <3>2
  <2>6. NoSpoiling'
    <3> SUFFICES ASSUME NEW r \in asked, r.gen = gen, gen > 0, NEW k \in Keys
                 PROVE  Harmless(r, k)'
      BY <1>3 DEF NoSpoiling
    <3>1. Harmless(r, k)
      BY <2>2 DEF NoSpoiling
    <3>2. r.kind \in Kinds
      BY <1>4 DEF SyncTyped, Fetches
    <3> QED
      BY <1>3, <1>5, <2>3, <3>1, <3>2 DEF Harmless
  <2> QED
    BY <2>4, <2>5, <2>6
<1> QED
  BY <1>6, <1>7, <1>8, <1>9, <1>10 DEF SyncInv

\* The rows that a change speaks of
LEMMA DeltaRows ==
  ASSUME NEW D \in SUBSET Keys, NEW f, f \in [D -> Versions \cup {None}]
  PROVE  f \in SomeRows
BY DEF SomeRows

\* Every change of the server speaks of rows of one list.
LEMMA ServerNext ==
  ASSUME SyncInv,
         \/ \E kind \in Kinds, k \in Keys :
              Remove(kind, k) \/ \E v \in Versions : Upsert(kind, k, v)
         \/ \E k, full \in Keys : "contacts" \in Kinds /\ Resolve(k, full)
  PROVE  SyncInv'
<1>1. ASSUME NEW kind \in Kinds, NEW k \in Keys, Remove(kind, k) PROVE SyncInv'
  <2>1. [x \in {k} |-> None] \in [{k} -> Versions \cup {None}] /\ {k} \in SUBSET Keys
    OBVIOUS
  <2>2. [x \in {k} |-> None] \in SomeRows
    BY <2>1, DeltaRows
  <2>3. Change(kind, [x \in {k} |-> None])
    BY <1>1 DEF Remove
  <2> QED
    BY <2>2, <2>3, ChangeNext
<1>2. ASSUME NEW kind \in Kinds, NEW k \in Keys, NEW v \in Versions, Upsert(kind, k, v)
      PROVE  SyncInv'
  <2>1. [x \in {k} |-> v] \in [{k} -> Versions \cup {None}] /\ {k} \in SUBSET Keys
    OBVIOUS
  <2>2. [x \in {k} |-> v] \in SomeRows
    BY <2>1, DeltaRows
  <2>3. Change(kind, [x \in {k} |-> v])
    BY <1>2 DEF Upsert
  <2> QED
    BY <2>2, <2>3, ChangeNext
<1>3. ASSUME NEW k \in Keys, NEW full \in Keys, "contacts" \in Kinds, Resolve(k, full)
      PROVE  SyncInv'
  <2>1. server["contacts"][k] \in Versions \cup {None}
    BY <1>3 DEF SyncInv, SyncTyped, Rows
  <2>2. PICK rows : rows = [x \in {k, full} |-> IF x = full THEN server["contacts"][k] ELSE None]
    OBVIOUS
  <2>3. rows \in [{k, full} -> Versions \cup {None}] /\ {k, full} \in SUBSET Keys
    BY <2>1, <2>2
  <2>4. rows \in SomeRows
    BY <2>3, DeltaRows
  <2>5. Change("contacts", rows)
    BY <1>3, <2>2 DEF Resolve
  <2> QED
    BY <1>3, <2>4, <2>5, ChangeNext
<1> QED
  BY <1>1, <1>2, <1>3

LEMMA ServeNext ==
  ASSUME SyncInv, NEW r \in asked, Serve(r)
  PROVE  SyncInv'
<1>1. PICK s : s = [r EXCEPT !.answer = server[r.kind]]
  OBVIOUS
<1>2. /\ asked' = (asked \ {r}) \cup {s}
      /\ r.answer = None
      /\ UNCHANGED <<world, mounted, cur, ever, server, wire, lists, gen, loads>>
      /\ UNCHANGED sockVars
  BY <1>1 DEF Serve, sockVars
<1>3. SyncTyped /\ r \in Fetches
  BY DEF SyncInv, SyncTyped
<1>4. r.kind \in Kinds /\ server[r.kind] \in Rows
  BY <1>3 DEF SyncTyped, Fetches
<1>5. /\ s \in Fetches
      /\ s.kind = r.kind /\ s.gen = r.gen /\ s.touched = r.touched /\ s.answer = server[r.kind]
  BY <1>1, <1>3, <1>4 DEF Fetches
<1>6. SyncTyped'
  BY <1>2, <1>3, <1>5 DEF SyncTyped
<1>7. SockInv'
  BY <1>2, SocketKept
<1>8. (cur = "open" \/ gen > 0 => ever)' /\ (cur # "open" => wire = <<>>)'
  BY <1>2 DEF SyncInv
<1>9. ASSUME Reliable' PROVE Untracked' /\ FirstFetches'
  <2>1. Untracked /\ FirstFetches
    BY <1>2, <1>9 DEF Reliable, SyncInv
  <2>2. Untracked'
    BY <1>2, <1>5, <2>1 DEF Untracked
  <2>3. ASSUME NEW kind \in Kinds, Before(kind) PROVE Before(kind)'
    BY <1>2, <1>5, <2>3 DEF Before
  <2> QED
    BY <1>2, <2>1, <2>2, <2>3 DEF FirstFetches
<1>10. ASSUME Reliable', cur' = "open" PROVE WireCurrent' /\ Owed' /\ NoSpoiling'
  <2>1. WireCurrent /\ Owed /\ NoSpoiling
    BY <1>2, <1>10 DEF Reliable, SyncInv
  <2>2. WireCurrent'
    BY <1>2, <2>1 DEF WireCurrent, Says
  <2>3. \A c, k : OnTheWay(c, k)' <=> OnTheWay(c, k)
    BY <1>2 DEF OnTheWay, Says
  <2>4. Owed'
    <3> SUFFICES ASSUME NEW c \in Kinds, NEW k \in Keys PROVE Debts(c, k)'
      BY DEF Owed
    <3>1. Debts(c, k)
      BY <2>1 DEF Owed
    <3>2. ASSUME NEW q \in asked, Repairs(q, c, k) PROVE \E p \in asked' : Repairs(p, c, k)'
      <4>1. CASE q = r
        <5>1. Repairs(s, c, k)'
          BY <1>2, <1>5, <3>2, <4>1 DEF Repairs, IsLatest
        <5> QED
          BY <1>2, <5>1
      <4>2. CASE q # r
        <5>1. Repairs(q, c, k)' /\ q \in asked'
          BY <1>2, <3>2, <4>2 DEF Repairs, IsLatest
        <5> QED
          BY <5>1
      <4> QED
        BY <4>1, <4>2
    <3> QED
      BY <1>2, <2>3, <3>1, <3>2 DEF Debts
  <2>5. NoSpoiling'
    <3> SUFFICES ASSUME NEW q \in asked', q.gen = gen, gen > 0, NEW k \in Keys
                 PROVE  Harmless(q, k)'
      BY <1>2 DEF NoSpoiling
    <3>1. CASE q = s
      <4>1. Harmless(r, k)
        BY <1>5, <2>1, <3>1 DEF NoSpoiling
      <4> QED
        BY <1>2, <1>5, <2>3, <3>1, <4>1 DEF Harmless
    <3>2. CASE q \in asked
      <4>1. Harmless(q, k)
        BY <2>1, <3>2 DEF NoSpoiling
      <4> QED
        BY <1>2, <2>3, <4>1 DEF Harmless
    <3> QED
      BY <1>2, <3>1, <3>2
  <2> QED
    BY <2>2, <2>4, <2>5
<1> QED
  BY <1>6, <1>7, <1>8, <1>9, <1>10 DEF SyncInv

-----------------------------------------------------------------------------
(* The client *)

\* The lists after an answer
LEMMA Merged ==
  ASSUME SyncTyped, NEW r \in asked, r.answer # None,
         lists' = [lists EXCEPT ![r.kind] = MergeSnapshot(r.answer, @, r.touched)]
  PROVE  /\ lists' \in [Kinds -> Rows]
         /\ \A c \in Kinds, k \in Keys :
              lists'[c][k] = IF c = r.kind /\ k \notin r.touched THEN r.answer[k] ELSE lists[c][k]
<1>1. r \in Fetches /\ lists \in [Kinds -> Rows]
  BY DEF SyncTyped
<1>2. r.kind \in Kinds /\ r.answer \in Rows /\ lists[r.kind] \in Rows
  BY <1>1 DEF Fetches
<1>3. PICK kind : kind = r.kind
  OBVIOUS
<1>4. PICK list : list = MergeSnapshot(r.answer, lists[kind], r.touched)
  OBVIOUS
<1>5. list \in Rows
  BY <1>2, <1>3, <1>4 DEF Rows, MergeSnapshot
<1>6. \A k \in Keys : list[k] = IF k \in r.touched THEN lists[kind][k] ELSE r.answer[k]
  BY <1>4 DEF MergeSnapshot
<1>7. lists' = [lists EXCEPT ![kind] = list]
  BY <1>3, <1>4
<1>8. lists' \in [Kinds -> Rows] /\ lists'[kind] = list
      /\ \A c \in Kinds : c # kind => lists'[c] = lists[c]
  BY <1>1, <1>2, <1>3, <1>5, <1>7
<1> QED
  BY <1>3, <1>6, <1>8

\* An answer that is not the latest changes no row; any other leaves every row that
\* was current or on its way so, and brings those it repairs.
LEMMA DeliverNext ==
  ASSUME SyncInv, NEW r \in asked, Deliver(r)
  PROVE  SyncInv'
<1>1. /\ asked' = asked \ {r}
      /\ r.answer # None
      /\ UNCHANGED <<world, mounted, cur, ever, server, wire, gen, loads>>
      /\ UNCHANGED sockVars
  BY DEF Deliver, sockVars
<1>2. SyncTyped /\ r \in Fetches /\ r.kind \in Kinds
  BY DEF SyncInv, SyncTyped, Fetches
<1>3. /\ lists' \in [Kinds -> Rows]
      /\ \A c \in Kinds, k \in Keys :
           lists'[c][k] = IF IsLatest(r) /\ c = r.kind /\ k \notin r.touched
                          THEN r.answer[k] ELSE lists[c][k]
  <2>1. CASE IsLatest(r)
    <3>1. lists' = [lists EXCEPT ![r.kind] = MergeSnapshot(r.answer, @, r.touched)]
      BY <2>1 DEF Deliver
    <3> QED
      BY <1>1, <1>2, <2>1, <3>1, Merged
  <2>2. CASE ~IsLatest(r)
    BY <1>2, <2>2 DEF Deliver, SyncTyped
  <2> QED
    BY <2>1, <2>2
<1>4. SyncTyped'
  BY <1>1, <1>2, <1>3 DEF SyncTyped
<1>5. SockInv'
  BY <1>1, SocketKept
<1>6. (cur = "open" \/ gen > 0 => ever)' /\ (cur # "open" => wire = <<>>)'
  BY <1>1 DEF SyncInv
<1>7. ASSUME Reliable' PROVE Untracked' /\ FirstFetches'
  <2>1. Untracked /\ FirstFetches
    BY <1>1, <1>7 DEF Reliable, SyncInv
  <2>2. Untracked'
    BY <1>1, <2>1 DEF Untracked
  <2>3. ASSUME NEW kind \in Kinds, ~ever, Before(kind) PROVE Before(kind)'
    <3>1. CASE r.kind = kind /\ r.gen = 0
      <4>1. r.answer = server[kind] /\ r.touched = {} /\ IsLatest(r)
        BY <1>1, <1>2, <2>1, <3>1 DEF Untracked, SyncTyped, IsLatest
      <4>2. \A k \in Keys : lists'[kind][k] = server'[kind][k]
        BY <1>1, <1>3, <3>1, <4>1
      <4>3. lists'[kind] \in Rows /\ server'[kind] \in Rows
        BY <1>1, <1>2, <1>3 DEF SyncTyped
      <4>4. lists'[kind] = server'[kind]
        BY <4>2, <4>3 DEF Rows
      <4> QED
        BY <4>4 DEF Before
    <3>2. CASE r.kind # kind
      <4>1. \A k \in Keys : lists'[kind][k] = lists[kind][k]
        BY <1>3, <3>2
      <4>2. lists'[kind] \in Rows /\ lists[kind] \in Rows
        BY <1>2, <1>3 DEF SyncTyped
      <4>3. lists'[kind] = lists[kind]
        BY <4>1, <4>2 DEF Rows
      <4> QED
        BY <1>1, <2>3, <3>2, <4>3 DEF Before
    <3>3. CASE r.kind = kind /\ r.gen # 0
      <4>1. r.gen \in Nat /\ r.gen <= gen /\ gen \in Nat
        BY <1>2 DEF SyncTyped, Fetches
      <4>2. ~(gen > 0)
        BY <2>3 DEF SyncInv
      <4> QED
        BY <3>3, <4>1, <4>2
    <3> QED
      BY <3>1, <3>2, <3>3
  <2> QED
    BY <1>1, <2>1, <2>2, <2>3 DEF FirstFetches
<1>8. ASSUME Reliable', cur' = "open" PROVE WireCurrent' /\ Owed' /\ NoSpoiling'
  <2>1. WireCurrent /\ Owed /\ NoSpoiling /\ Untracked
    BY <1>1, <1>8 DEF Reliable, SyncInv
  <2>2. WireCurrent'
    BY <1>1, <2>1 DEF WireCurrent, Says
  <2>3. \A c, k : OnTheWay(c, k)' <=> OnTheWay(c, k)
    BY <1>1 DEF OnTheWay, Says
  <2>4. ASSUME IsLatest(r), NEW k \in Keys, k \notin r.touched
        PROVE  r.answer[k] = server[r.kind][k] \/ OnTheWay(r.kind, k)
    <3>1. CASE r.gen = 0
      BY <1>1, <2>1, <3>1 DEF Untracked
    <3>2. CASE r.gen # 0
      <4>1. r.gen = gen /\ gen > 0
        BY <1>2, <2>4, <3>2 DEF IsLatest, SyncTyped, Fetches
      <4>2. Harmless(r, k)
        BY <2>1, <4>1 DEF NoSpoiling
      <4> QED
        BY <1>1, <2>4, <4>2 DEF Harmless
    <3> QED
      BY <3>1, <3>2
  <2>5. \A c \in Kinds, k \in Keys :
           lists[c][k] = server[c][k] \/ OnTheWay(c, k)
             => lists'[c][k] = server'[c][k] \/ OnTheWay(c, k)'
    BY <1>1, <1>3, <2>3, <2>4
  <2>6. Owed'
    <3> SUFFICES ASSUME NEW c \in Kinds, NEW k \in Keys PROVE Debts(c, k)'
      BY DEF Owed
    <3>1. Debts(c, k)
      BY <2>1 DEF Owed
    <3>2. ASSUME NEW q \in asked, Repairs(q, c, k) PROVE Debts(c, k)'
      <4>1. CASE q = r
        <5>1. IsLatest(r) /\ r.kind = c /\ k \notin r.touched
          BY <3>2, <4>1 DEF Repairs
        <5>2. lists'[c][k] = server'[c][k] \/ OnTheWay(c, k)'
          BY <1>1, <1>3, <2>3, <2>4, <5>1
        <5> QED
          BY <5>2 DEF Debts
      <4>2. CASE q # r
        <5>1. Repairs(q, c, k)' /\ q \in asked'
          BY <1>1, <3>2, <4>2 DEF Repairs, IsLatest
        <5> QED
          BY <5>1 DEF Debts
      <4> QED
        BY <4>1, <4>2
    <3>3. CASE lists[c][k] = server[c][k] \/ OnTheWay(c, k)
      BY <2>5, <3>3 DEF Debts
    <3> QED
      BY <3>1, <3>2, <3>3 DEF Debts
  <2>7. NoSpoiling'
    <3> SUFFICES ASSUME NEW q \in asked, q.gen = gen, gen > 0, NEW k \in Keys
                 PROVE  Harmless(q, k)'
      BY <1>1 DEF NoSpoiling
    <3>1. Harmless(q, k)
      BY <2>1 DEF NoSpoiling
    <3>2. q.kind \in Kinds
      BY <1>2 DEF SyncTyped, Fetches
    <3> QED
      BY <1>1, <2>3, <2>5, <3>1, <3>2 DEF Harmless
  <2> QED
    BY <2>2, <2>6, <2>7
<1> QED
  BY <1>4, <1>5, <1>6, <1>7, <1>8 DEF SyncInv

LEMMA FailNext ==
  ASSUME SyncInv, NEW r \in asked, Fail(r)
  PROVE  SyncInv'
<1>1. /\ "fails" \in world /\ asked' = asked \ {r}
      /\ UNCHANGED <<world, mounted, cur, ever, server, wire, lists, gen, loads>>
      /\ UNCHANGED sockVars
  BY DEF Fail, sockVars
<1>2. ~Reliable'
  BY <1>1 DEF Reliable
<1>3. SyncTyped'
  BY <1>1 DEF SyncInv, SyncTyped
<1>4. SockInv'
  BY <1>1, SocketKept
<1>5. (cur = "open" \/ gen > 0 => ever)' /\ (cur # "open" => wire = <<>>)'
  BY <1>1 DEF SyncInv
<1> QED
  BY <1>2, <1>3, <1>4, <1>5 DEF SyncInv

\* q is r after a change of some rows of a list
Follows(q, r, kind, keys) ==
  /\ q.kind = r.kind /\ q.gen = r.gen /\ q.answer = r.answer
  /\ q.touched = IF r.kind = kind /\ r.gen > 0 THEN r.touched \cup keys ELSE r.touched

\* The fetches after a change was noted: the tracked ones of its list have touched
\* its rows, the others are as they were.
LEMMA Noted ==
  ASSUME SyncTyped, NEW kind, NEW keys \in SUBSET Keys, asked' = NoteDelta(kind, keys)
  PROVE  /\ asked' \subseteq Fetches
         /\ \A q \in asked' : \E r \in asked : Follows(q, r, kind, keys)
         /\ \A r \in asked : \E q \in asked' : Follows(q, r, kind, keys)
<1>1. asked \subseteq Fetches
  BY DEF SyncTyped
<1> DEFINE Now(r) == IF r.kind = kind /\ r.gen > 0 THEN [r EXCEPT !.touched = @ \cup keys] ELSE r
<1>2. ASSUME NEW r \in asked
      PROVE  /\ Now(r) \in Fetches
             /\ Now(r).kind = r.kind /\ Now(r).gen = r.gen /\ Now(r).answer = r.answer
             /\ Now(r).touched = IF r.kind = kind /\ r.gen > 0 THEN r.touched \cup keys
                                                              ELSE r.touched
  BY <1>1 DEF Fetches
<1>3. asked' = {Now(r) : r \in asked}
  BY DEF NoteDelta
<1> HIDE DEF Now
<1>4. \A r \in asked : Now(r) \in Fetches /\ Follows(Now(r), r, kind, keys)
  BY <1>2 DEF Follows
<1> QED
  BY <1>3, <1>4

LEMMA ReceiveNext ==
  ASSUME SyncInv, Receive
  PROVE  SyncInv'
<1>1. SyncTyped /\ wire # <<>> /\ wire' = Tail(wire)
  BY DEF SyncInv, Receive
<1>2. PICK e : e = wire[1]
  OBVIOUS
<1>3. /\ wire' \in Seq(Deltas)
      /\ Len(wire) \in Nat \ {0} /\ Len(wire') = Len(wire) - 1
      /\ Head(wire) = e
      /\ \A i \in 1 .. Len(wire') : i + 1 \in 1 .. Len(wire) /\ wire'[i] = wire[i + 1]
  BY <1>1, <1>2, Received
<1>4. e \in Deltas /\ e.kind \in Kinds /\ e.rows \in SomeRows /\ DOMAIN e.rows \in SUBSET Keys
  BY <1>1, <1>2, <1>3, WireTyped DEF Deltas
<1>5. /\ asked' = NoteDelta(e.kind, DOMAIN e.rows)
      /\ lists' = [lists EXCEPT ![e.kind] = Updated(@, e.rows)]
      /\ cur = "open"
      /\ UNCHANGED <<world, mounted, cur, ever, server, gen, loads>>
      /\ OnMessage
  BY <1>3 DEF Receive, OnMessage
<1>6. /\ lists' \in [Kinds -> Rows]
      /\ \A c \in Kinds, k \in Keys :
           /\ c = e.kind /\ k \in DOMAIN e.rows => lists'[c][k] = e.rows[k]
           /\ ~(c = e.kind /\ k \in DOMAIN e.rows) => lists'[c][k] = lists[c][k]
  <2>1. lists \in [Kinds -> Rows]
    BY <1>1 DEF SyncTyped
  <2>2. PICK kind, rows : kind = e.kind /\ rows = e.rows
    OBVIOUS
  <2>3. kind \in Kinds /\ rows \in SomeRows /\ lists' = [lists EXCEPT ![kind] = Updated(@, rows)]
    BY <1>4, <1>5, <2>2
  <2>4. /\ lists' \in [Kinds -> Rows]
        /\ \A c \in Kinds, k \in Keys :
             /\ c = kind /\ k \in DOMAIN rows => lists'[c][k] = rows[k]
             /\ ~(c = kind /\ k \in DOMAIN rows) => lists'[c][k] = lists[c][k]
    BY <2>1, <2>3, UpdatedRows
  <2> QED
    BY <2>2, <2>4
<1>7. /\ asked' \subseteq Fetches
      /\ \A q \in asked' : \E r \in asked : Follows(q, r, e.kind, DOMAIN e.rows)
      /\ \A r \in asked : \E q \in asked' : Follows(q, r, e.kind, DOMAIN e.rows)
  <2>1. PICK kind, keys : kind = e.kind /\ keys = DOMAIN e.rows
    OBVIOUS
  <2>2. keys \in SUBSET Keys /\ asked' = NoteDelta(kind, keys)
    BY <1>4, <1>5, <2>1
  <2>3. /\ asked' \subseteq Fetches
        /\ \A q \in asked' : \E r \in asked : Follows(q, r, kind, keys)
        /\ \A r \in asked : \E q \in asked' : Follows(q, r, kind, keys)
    BY <1>1, <2>2, Noted
  <2> QED
    BY <2>1, <2>3
<1>8. SyncTyped'
  <2>1. ASSUME NEW q \in asked' PROVE q.gen <= gen' /\ (q.gen = 0 => q.touched = {})
    <3>1. PICK r \in asked : Follows(q, r, e.kind, DOMAIN e.rows)
      BY <1>7
    <3>2. r.gen <= gen /\ (r.gen = 0 => r.touched = {})
      BY <1>1 DEF SyncTyped
    <3> QED
      BY <1>5, <3>1, <3>2 DEF Follows
  <2> QED
    BY <1>1, <1>3, <1>5, <1>6, <1>7, <2>1 DEF SyncTyped
<1>9. SockInv'
  BY <1>5, SocketKept DEF SockNext
<1>10. (cur = "open" \/ gen > 0 => ever)' /\ (cur # "open" => wire = <<>>)'
  BY <1>5 DEF SyncInv
<1>11. ASSUME Reliable' PROVE Untracked' /\ FirstFetches'
  <2>1. Untracked /\ ever
    BY <1>5, <1>11 DEF Reliable, SyncInv
  <2>2. ASSUME NEW q \in asked', q.gen = 0, q.answer # None PROVE q.answer = server'[q.kind]
    <3>1. PICK r \in asked : Follows(q, r, e.kind, DOMAIN e.rows)
      BY <1>7
    <3> QED
      BY <1>5, <2>1, <2>2, <3>1 DEF Untracked, Follows
  <2>3. Untracked'
    BY <2>2 DEF Untracked
  <2> QED
    BY <1>5, <2>1, <2>3 DEF FirstFetches
<1>12. ASSUME Reliable' PROVE WireCurrent' /\ Owed' /\ NoSpoiling'
  <2>1. WireCurrent /\ Owed /\ NoSpoiling
    BY <1>5, <1>12 DEF Reliable, SyncInv
  <2>2. WireCurrent'
    <3> SUFFICES ASSUME NEW c \in Kinds, NEW k \in Keys, NEW i \in 1 .. Len(wire'),
                        Says(i, c, k)',
                        \A j \in 1 .. Len(wire') : j > i => ~Says(j, c, k)'
                 PROVE  wire'[i].rows[k] = server'[c][k]
      BY DEF WireCurrent
    <3>1. PICK h : h = i + 1
      OBVIOUS
    <3>2. h \in 1 .. Len(wire) /\ wire'[i] = wire[h]
      BY <1>3, <3>1
    <3>3. Says(h, c, k)
      BY <3>2 DEF Says
    <3>4. ASSUME NEW j \in 1 .. Len(wire), j > h PROVE ~Says(j, c, k)
      <4>1. PICK g : g = j - 1
        OBVIOUS
      <4>2. g \in 1 .. Len(wire') /\ g > i /\ g + 1 = j
        BY <1>3, <3>1, <3>4, <4>1
      <4>3. wire'[g] = wire[j] /\ ~Says(g, c, k)'
        BY <1>3, <4>2
      <4> QED
        BY <4>3 DEF Says
    <3>5. wire[h].rows[k] = server[c][k]
      BY <2>1, <3>2, <3>3, <3>4 DEF WireCurrent
    <3> QED
      BY <1>5, <3>2, <3>5
  <2>3. \A c \in Kinds, k \in Keys :
          OnTheWay(c, k) => lists'[c][k] = server'[c][k] \/ OnTheWay(c, k)'
    <3> SUFFICES ASSUME NEW c \in Kinds, NEW k \in Keys, OnTheWay(c, k), ~OnTheWay(c, k)'
                 PROVE  lists'[c][k] = server'[c][k]
      OBVIOUS
    <3>1. Says(1, c, k) /\ \A j \in 2 .. Len(wire) : ~Says(j, c, k)
      BY <1>1, ReceivedOnTheWay
    <3>2. \A j \in 1 .. Len(wire) : j > 1 => ~Says(j, c, k)
      BY <3>1
    <3>3. 1 \in 1 .. Len(wire)
      BY <1>3
    <3>4. wire[1].rows[k] = server[c][k]
      BY <2>1, <3>1, <3>2, <3>3 DEF WireCurrent
    <3>5. c = e.kind /\ k \in DOMAIN e.rows
      BY <1>2, <3>1 DEF Says
    <3> QED
      BY <1>2, <1>5, <1>6, <3>4, <3>5
  <2>4. \A c \in Kinds, k \in Keys :
          c = e.kind /\ k \in DOMAIN e.rows => OnTheWay(c, k)
    BY <1>2, <1>3 DEF OnTheWay, Says
  <2>5. \A c \in Kinds, k \in Keys :
           lists[c][k] = server[c][k] \/ OnTheWay(c, k)
             => lists'[c][k] = server'[c][k] \/ OnTheWay(c, k)'
    BY <1>5, <1>6, <2>3, <2>4
  <2>6. Owed'
    <3> SUFFICES ASSUME NEW c \in Kinds, NEW k \in Keys PROVE Debts(c, k)'
      BY DEF Owed
    <3>1. Debts(c, k)
      BY <2>1 DEF Owed
    <3>2. CASE lists[c][k] = server[c][k] \/ OnTheWay(c, k)
      BY <2>5, <3>2 DEF Debts
    <3>3. CASE ~OnTheWay(c, k) /\ \E r \in asked : Repairs(r, c, k)
      <4>1. PICK r \in asked : Repairs(r, c, k)
        BY <3>3
      <4>2. ~(c = e.kind /\ k \in DOMAIN e.rows)
        BY <2>4, <3>3
      <4>3. PICK q \in asked' : Follows(q, r, e.kind, DOMAIN e.rows)
        BY <1>7
      <4>4. Repairs(q, c, k)'
        BY <1>5, <4>1, <4>2, <4>3 DEF Repairs, IsLatest, Follows
      <4> QED
        BY <4>4 DEF Debts
    <3> QED
      BY <3>1, <3>2, <3>3 DEF Debts
  <2>7. NoSpoiling'
    <3> SUFFICES ASSUME NEW q \in asked', q.gen = gen, gen > 0, NEW k \in Keys
                 PROVE  Harmless(q, k)'
      BY <1>5 DEF NoSpoiling
    <3>1. PICK r \in asked : Follows(q, r, e.kind, DOMAIN e.rows)
      BY <1>7
    <3>2. r.kind \in Kinds /\ r.gen = gen
      BY <1>1, <3>1 DEF SyncTyped, Fetches, Follows
    <3>3. Harmless(r, k)
      BY <2>1, <3>2 DEF NoSpoiling
    <3>4. CASE r.kind = e.kind /\ k \in DOMAIN e.rows
      <4>1. k \in q.touched
        BY <3>1, <3>2, <3>4 DEF Follows
      <4>2. lists'[q.kind][k] = server'[q.kind][k] \/ OnTheWay(q.kind, k)'
        BY <2>3, <2>4, <3>1, <3>2, <3>4 DEF Follows
      <4> QED
        BY <4>1, <4>2 DEF Harmless
    <3>5. CASE ~(r.kind = e.kind /\ k \in DOMAIN e.rows)
      <4>1. k \in q.touched <=> k \in r.touched
        BY <3>1, <3>5 DEF Follows
      <4>2. OnTheWay(r.kind, k) => OnTheWay(r.kind, k)'
        <5>1. ~Says(1, r.kind, k)
          BY <1>2, <3>5 DEF Says
        <5> QED
          BY <1>1, <5>1, ReceivedOnTheWay
      <4>3. lists'[r.kind][k] = lists[r.kind][k]
        BY <1>6, <3>2, <3>5
      <4> QED
        BY <1>5, <3>1, <3>3, <4>1, <4>2, <4>3 DEF Harmless, Follows
    <3> QED
      BY <3>4, <3>5
  <2> QED
    BY <2>2, <2>6, <2>7
<1> QED
  BY <1>8, <1>9, <1>10, <1>11, <1>12 DEF SyncInv

\* A fetch that begins
LEMMA FetchBegun ==
  ASSUME SyncTyped, NEW kind \in Kinds, NEW g \in Nat
  PROVE  /\ Fetch(kind, g) \in Fetches
         /\ Fetch(kind, g).kind = kind /\ Fetch(kind, g).gen = g
         /\ Fetch(kind, g).touched = {} /\ Fetch(kind, g).answer = None
BY DEF SyncTyped, Fetch, Fetches

LEMMA StartNext ==
  ASSUME SyncInv, Start
  PROVE  SyncInv'
<1>1. /\ ~mounted /\ Mount
      /\ asked' = asked \cup {Fetch(kind, 0) : kind \in Kinds}
      /\ UNCHANGED <<world, ever, server, wire, lists, gen, loads>>
      /\ cur' = "connecting"
  BY DEF Start, Mount, Connect
<1>2. SyncTyped /\ cur = "none"
  BY <1>1 DEF SyncInv, SockInv, OneAttemptAtATime
<1>3. \A kind \in Kinds :
        /\ Fetch(kind, 0) \in Fetches
        /\ Fetch(kind, 0).kind = kind /\ Fetch(kind, 0).gen = 0
        /\ Fetch(kind, 0).touched = {} /\ Fetch(kind, 0).answer = None
  BY <1>2, FetchBegun
<1>4. SyncTyped'
  <2>1. asked' \subseteq Fetches
    BY <1>1, <1>2, <1>3 DEF SyncTyped
  <2>2. \A r \in asked' : r.gen <= gen' /\ (r.gen = 0 => r.touched = {})
    BY <1>1, <1>2, <1>3 DEF SyncTyped
  <2> QED
    BY <1>1, <1>2, <2>1, <2>2 DEF SyncTyped
<1>5. SockInv'
  BY <1>1, SocketKept DEF SockNext
<1>6. (cur = "open" \/ gen > 0 => ever)' /\ (cur # "open" => wire = <<>>)'
  BY <1>1, <1>2 DEF SyncInv
<1>7. ASSUME Reliable' PROVE Untracked' /\ FirstFetches'
  <2>1. Untracked
    BY <1>1, <1>7 DEF Reliable, SyncInv
  <2>2. Untracked'
    BY <1>1, <1>3, <2>1 DEF Untracked
  <2>3. ASSUME NEW kind \in Kinds PROVE Before(kind)'
    BY <1>1, <1>3 DEF Before
  <2> QED
    BY <2>2, <2>3 DEF FirstFetches
<1> QED
  BY <1>1, <1>4, <1>5, <1>6, <1>7 DEF SyncInv

\* The first opening finds the first fetches; any other begins tracked fetches of
\* every list, and makes all earlier tracked ones obsolete.
LEMMA OpenedNext ==
  ASSUME SyncInv, Opened
  PROVE  SyncInv'
<1>1. /\ OnOpen /\ cur = "connecting" /\ cur' = "open" /\ ever' = TRUE
      /\ UNCHANGED <<world, mounted, server, wire, lists, loads>>
  BY DEF Opened, OnOpen
<1>2. SyncTyped /\ mounted /\ wire = <<>>
  BY <1>1 DEF SyncInv, SockInv, OneAttemptAtATime
<1>3. SockInv'
  BY <1>1, SocketKept DEF SockNext
<1>4. WireCurrent'
  BY <1>1, <1>2 DEF WireCurrent
<1>5. (cur = "open" \/ gen > 0 => ever)' /\ (cur # "open" => wire = <<>>)'
  BY <1>1
<1>6. FirstFetches'
  BY <1>1 DEF FirstFetches
<1>7. CASE ever
  <2>1. asked' = asked \cup {Fetch(kind, gen + 1) : kind \in Kinds} /\ gen' = gen + 1
    BY <1>7 DEF Opened
  <2>2. gen \in Nat /\ gen + 1 \in Nat
    BY <1>2 DEF SyncTyped
  <2>3. \A kind \in Kinds :
          /\ Fetch(kind, gen + 1) \in Fetches
          /\ Fetch(kind, gen + 1).kind = kind /\ Fetch(kind, gen + 1).gen = gen + 1
          /\ Fetch(kind, gen + 1).touched = {} /\ Fetch(kind, gen + 1).answer = None
    BY <1>2, <2>2, FetchBegun
  <2>4. ASSUME NEW r \in asked'
        PROVE  \/ r \in asked /\ r.gen \in Nat /\ r.gen <= gen
               \/ /\ r \in Fetches /\ r.gen = gen + 1 /\ r.touched = {} /\ r.answer = None
    BY <1>2, <2>1, <2>3 DEF SyncTyped, Fetches
  <2>5. SyncTyped'
    <3>1. asked' \subseteq Fetches
      BY <1>2, <2>4 DEF SyncTyped
    <3>2. \A r \in asked' : r.gen <= gen' /\ (r.gen = 0 => r.touched = {})
      BY <1>2, <2>1, <2>2, <2>4, SMTT(30) DEF SyncTyped
    <3> QED
      BY <1>1, <1>2, <2>1, <2>2, <3>1, <3>2 DEF SyncTyped
  <2>6. Reliable' => Untracked'
    <3>1. Reliable' => Untracked
      BY <1>1 DEF Reliable, SyncInv
    <3> QED
      BY <1>1, <2>2, <2>4, <3>1 DEF Untracked
  <2>7. Owed'
    <3> SUFFICES ASSUME NEW c \in Kinds, NEW k \in Keys PROVE Debts(c, k)'
      BY DEF Owed
    <3>1. PICK r : r = Fetch(c, gen + 1)
      OBVIOUS
    <3>2. r \in asked' /\ Repairs(r, c, k)'
      BY <2>1, <2>3, <3>1 DEF Repairs, IsLatest
    <3> QED
      BY <3>2 DEF Debts
  <2>8. NoSpoiling'
    <3> SUFFICES ASSUME NEW r \in asked', r.gen = gen', NEW k \in Keys PROVE Harmless(r, k)'
      BY DEF NoSpoiling
    <3>1. r.touched = {} /\ r.answer = None
      BY <2>1, <2>2, <2>4
    <3> QED
      BY <3>1 DEF Harmless
  <2> QED
    BY <1>3, <1>4, <1>5, <1>6, <2>5, <2>6, <2>7, <2>8 DEF SyncInv
<1>8. CASE ~ever
  <2>1. UNCHANGED <<asked, gen>> /\ gen = 0
    BY <1>2, <1>8, SMTT(30) DEF Opened, SyncInv, SyncTyped
  <2>2. SyncTyped'
    BY <1>1, <1>2, <2>1 DEF SyncTyped
  <2>3. ASSUME Reliable' PROVE Untracked' /\ Owed'
    <3>1. Untracked /\ FirstFetches
      BY <1>1, <2>3 DEF Reliable, SyncInv
    <3>2. Untracked'
      BY <1>1, <2>1, <3>1 DEF Untracked
    <3>3. ASSUME NEW c \in Kinds, NEW k \in Keys PROVE Debts(c, k)'
      <4>1. Before(c)
        BY <1>2, <1>8, <3>1 DEF FirstFetches
      <4>2. CASE lists[c] = server[c]
        BY <1>1, <4>2 DEF Debts
      <4>3. CASE \E r \in asked : r.kind = c /\ r.gen = 0 /\ r.answer \in {None, server[c]}
        <5>1. PICK r \in asked : r.kind = c /\ r.gen = 0 /\ r.answer \in {None, server[c]}
          BY <4>3
        <5>2. r.touched = {}
          BY <1>2, <5>1 DEF SyncTyped
        <5>3. Repairs(r, c, k)'
          BY <1>1, <5>1, <5>2 DEF Repairs, IsLatest
        <5> QED
          BY <2>1, <5>3 DEF Debts
      <4> QED
        BY <4>1, <4>2, <4>3 DEF Before
    <3> QED
      BY <3>2, <3>3 DEF Owed
  <2>4. NoSpoiling'
    BY <2>1 DEF NoSpoiling
  <2> QED
    BY <1>3, <1>4, <1>5, <1>6, <2>2, <2>3, <2>4 DEF SyncInv
<1> QED
  BY <1>7, <1>8

\* Nothing is promised of the rows while the socket is not open.
LEMMA DownNext ==
  ASSUME SyncInv, [SockNext]_sockVars, cur' # "open", wire' = <<>>, mounted' => mounted,
         UNCHANGED <<world, ever, server, lists, asked, gen, loads>>
  PROVE  SyncInv'
<1>1. SyncTyped'
  BY SMTT(30) DEF SyncInv, SyncTyped
<1>2. SockInv'
  BY SocketKept
<1>3. (gen > 0 => ever)'
  BY DEF SyncInv
<1>4. ASSUME Reliable' PROVE Untracked' /\ FirstFetches'
  <2>1. Untracked /\ FirstFetches
    BY <1>4 DEF Reliable, SyncInv
  <2> QED
    BY <2>1 DEF Untracked, FirstFetches, Before
<1> QED
  BY <1>1, <1>2, <1>3, <1>4 DEF SyncInv

LEMMA ClosedNext ==
  ASSUME SyncInv, Closed \/ Cleanup
  PROVE  SyncInv'
<1>1. CASE Closed
  <2>1. /\ OnClose /\ cur' # "open" /\ wire' = <<>> /\ mounted' = mounted
        /\ UNCHANGED <<world, ever, server, lists, asked, gen, loads>>
    BY <1>1 DEF Closed, OnClose
  <2> QED
    BY <2>1, DownNext DEF SockNext
<1>2. CASE Cleanup
  <2>1. /\ Unmount /\ cur' # "open" /\ wire' = <<>> /\ mounted' = FALSE
        /\ UNCHANGED <<world, ever, server, lists, asked, gen, loads>>
    BY <1>2 DEF Cleanup, Unmount
  <2> QED
    BY <2>1, DownNext DEF SockNext
<1> QED
  BY <1>1, <1>2

\* A step of the socket that leaves it open, or as it was, changes nothing else.
LEMMA SocketNext ==
  ASSUME SyncInv, [SockNext]_sockVars, UNCHANGED <<world, dataVars, cur, mounted, ever>>
  PROVE  SyncInv'
<1>1. UNCHANGED <<world, server, wire, lists, asked, gen, loads>>
  BY DEF dataVars
<1>2. SyncTyped'
  BY <1>1 DEF SyncInv, SyncTyped
<1>3. SockInv'
  BY SocketKept
<1>4. /\ UNCHANGED <<Reliable, WireCurrent, Owed, NoSpoiling, Untracked>>
      /\ \A kind \in Kinds : Before(kind) <=> Before(kind)'
  BY <1>1, DataKept
<1>5. FirstFetches => FirstFetches'
  BY <1>4 DEF FirstFetches
<1> QED
  BY <1>1, <1>2, <1>3, <1>4, <1>5 DEF SyncInv

LEMMA TimerNext ==
  ASSUME SyncInv, Timer
  PROVE  SyncInv'
<1>1. UNCHANGED <<world, dataVars>>
  BY DEF Timer
<1>2. CASE StableTimer \/ StaleEvent
  <2>1. UNCHANGED <<cur, mounted, ever>> /\ [SockNext]_sockVars
    BY <1>2 DEF StableTimer, StaleEvent, SockNext
  <2> QED
    BY <1>1, <2>1, SocketNext
<1>3. CASE ReconnectTimer \/ ReconnectNow
  <2>1. cur = "none"
    BY <1>3 DEF ReconnectTimer, ReconnectNow, SyncInv, SockInv, OneAttemptAtATime
  <2>2. cur' = "connecting" /\ UNCHANGED <<mounted, ever>> /\ [SockNext]_sockVars
    BY <1>3 DEF ReconnectTimer, ReconnectNow, Connect, SockNext
  <2>3. wire = <<>>
    BY <2>1 DEF SyncInv
  <2> QED
    BY <1>1, <2>2, <2>3, DownNext DEF dataVars
<1> QED
  BY <1>2, <1>3 DEF Timer

LEMMA LoadNext ==
  ASSUME SyncInv, NEW kind \in Kinds, Load(kind)
  PROVE  SyncInv'
<1>1. PICK s : s = [Fetch(kind, 0) EXCEPT !.no = loads + 1]
  OBVIOUS
<1>2. /\ asked' = asked \cup {s} /\ loads' = loads + 1
      /\ UNCHANGED <<world, mounted, cur, ever, server, wire, lists, gen>>
      /\ UNCHANGED sockVars
  BY <1>1 DEF Load, sockVars
<1>3. SyncTyped
  BY DEF SyncInv
<1>4. s \in Fetches /\ s.gen = 0 /\ s.touched = {} /\ s.answer = None
  BY <1>1, <1>3 DEF SyncTyped, Fetch, Fetches
<1>5. SyncTyped'
  BY <1>2, <1>3, <1>4, SMTT(30) DEF SyncTyped
<1>6. SockInv'
  BY <1>2, SocketKept
<1>7. (cur = "open" \/ gen > 0 => ever)' /\ (cur # "open" => wire = <<>>)'
  BY <1>2 DEF SyncInv
<1>8. ASSUME Reliable' PROVE Untracked' /\ FirstFetches'
  <2>1. Untracked /\ FirstFetches
    BY <1>2, <1>8 DEF Reliable, SyncInv
  <2>2. Untracked'
    BY <1>2, <1>4, <2>1 DEF Untracked
  <2>3. FirstFetches'
    BY <1>2, <2>1 DEF FirstFetches, Before
  <2> QED
    BY <2>2, <2>3
<1>9. ASSUME Reliable', cur' = "open" PROVE WireCurrent' /\ Owed' /\ NoSpoiling'
  <2>1. WireCurrent /\ Owed /\ NoSpoiling
    BY <1>2, <1>9 DEF Reliable, SyncInv
  <2>2. WireCurrent'
    BY <1>2, <2>1, SMTT(30) DEF WireCurrent, Says
  <2>3. Owed'
    BY <1>2, <2>1, SMTT(30) DEF Owed, Debts, OnTheWay, Says, Repairs, IsLatest
  <2>4. NoSpoiling'
    BY <1>2, <1>4, <2>1 DEF NoSpoiling, Harmless, OnTheWay, Says
  <2> QED
    BY <2>2, <2>3, <2>4
<1> QED
  BY <1>5, <1>6, <1>7, <1>8, <1>9 DEF SyncInv

-----------------------------------------------------------------------------
(* The invariant, and what it says *)

LEMMA SyncInvInit == Init => SyncInv
<1> SUFFICES ASSUME Init PROVE SyncInv
  OBVIOUS
<1>1. /\ world \in Worlds /\ SockInit
      /\ wire = <<>> /\ lists = [kind \in Kinds |-> NoRows] /\ asked = {} /\ gen = 0 /\ loads = 0
      /\ server \in [Kinds -> {NoRows} \cup [Keys -> Versions]]
  BY DEF Init
<1>2. NoRows \in Rows
  BY DEF NoRows, Rows
<1>3. server \in [Kinds -> Rows] /\ lists \in [Kinds -> Rows]
  <2>1. [Keys -> Versions] \subseteq Rows
    BY DEF Rows
  <2> QED
    BY <1>1, <1>2, <2>1
<1>4. world \subseteq Circumstances
  BY <1>1, SyncAssumption
<1>5. SyncTyped
  BY <1>1, <1>3, <1>4, SMTT(30) DEF SyncTyped
<1>6. SockInv
  BY <1>1, SockInvInit
<1>7. cur = "none" /\ ~mounted /\ ~ever
  BY <1>1 DEF SockInit
<1>8. Untracked /\ FirstFetches
  BY <1>1, <1>7 DEF Untracked, FirstFetches
<1> QED
  BY <1>1, <1>5, <1>6, <1>7, <1>8 DEF SyncInv

LEMMA SyncInvNext == SyncInv /\ [Next]_vars => SyncInv'
<1> SUFFICES ASSUME SyncInv, [Next]_vars PROVE SyncInv'
  OBVIOUS
<1>1. CASE \/ \E kind \in Kinds, k \in Keys :
                Remove(kind, k) \/ \E v \in Versions : Upsert(kind, k, v)
           \/ \E k, full \in Keys : "contacts" \in Kinds /\ Resolve(k, full)
  BY <1>1, ServerNext
<1>2. ASSUME NEW r \in asked, Serve(r) \/ Deliver(r) \/ Fail(r) PROVE SyncInv'
  BY <1>2, ServeNext, DeliverNext, FailNext
<1>3. ASSUME NEW kind \in Kinds, Load(kind) PROVE SyncInv'
  BY <1>3, LoadNext
<1>4. CASE Receive
  BY <1>4, ReceiveNext
<1>5. CASE Start
  BY <1>5, StartNext
<1>6. CASE Opened
  BY <1>6, OpenedNext
<1>7. CASE Closed \/ Cleanup
  BY <1>7, ClosedNext
<1>8. CASE Timer
  BY <1>8, TimerNext
<1>9. CASE UNCHANGED vars
  <2>1. UNCHANGED <<world, dataVars, cur, mounted, ever>> /\ UNCHANGED sockVars
    BY <1>9 DEF vars, sockVars
  <2> QED
    BY <2>1, SocketNext
<1> QED
  BY <1>1, <1>2, <1>3, <1>4, <1>5, <1>6, <1>7, <1>8, <1>9 DEF Next

\* In every state a row of the client that differs from the server's is owed a
\* correction, and no answer still to come spoils one (useRealtimeAppState: the
\* snapshot trackers of onReconnect, noteDelta and mergeSnapshot).
THEOREM CorrectionsOwed == Spec => []SyncInv
BY SyncInvInit, SyncInvNext, PTL DEF Spec

\* With the socket open and nothing under way the contact and channel lists are the
\* server's, whatever closes, remounts, slow answers and changes came before
\* (mergeSnapshot keeps what noteDelta touched, onReconnect ignores the answers of
\* an older generation).
THEOREM ListsMirrorServer == Spec => []Mirrored
<1>1. SyncInv => Mirrored
  <2> SUFFICES ASSUME SyncInv, Reliable, Quiet PROVE lists = server
    BY DEF Mirrored, Reliable
  <2>1. cur = "open" /\ wire = <<>> /\ asked = {}
    BY DEF Quiet
  <2>2. Owed /\ SyncTyped
    BY <2>1 DEF SyncInv
  <2>3. \A c \in Kinds, k \in Keys : lists[c][k] = server[c][k]
    <3>1. \A c \in Kinds, k \in Keys : ~OnTheWay(c, k)
      BY <2>1 DEF OnTheWay
    <3> QED
      BY <2>1, <2>2, <3>1 DEF Owed, Debts
  <2>4. \A c \in Kinds : lists[c] = server[c]
    <3> SUFFICES ASSUME NEW c \in Kinds PROVE lists[c] = server[c]
      OBVIOUS
    <3>1. lists[c] \in Rows /\ server[c] \in Rows
      BY <2>2 DEF SyncTyped
    <3> QED
      BY <2>3, <3>1 DEF Rows
  <2> QED
    BY <2>2, <2>4, SMTT(30) DEF SyncTyped
<1> QED
  BY <1>1, CorrectionsOwed, PTL

=============================================================================
