----------------------- MODULE DirectMessagesStoring -----------------------
(***************************************************************************)
(* What holds of DirectMessages for any number of sends, echoes, attempts  *)
(* and ACKs: the inductive invariant DirectInv, the facts and frames its   *)
(* proof uses, and the steps of a send up to its row.                      *)
(*                                                                         *)
(* The argument has four parts.  Reserving: a timestamp is reserved from   *)
(* the moment a send chose it until its row is there, so two sends that    *)
(* store never share one.  Storing: rows are inserted under the store lock *)
(* only after a look-up that found none, so a timestamp has one row.       *)
(* Tracking: a code is registered once, and from then on it is expected,   *)
(* counted or about to be.  Counting: what a row counts, it counts for a   *)
(* code of its own that is spent.                                          *)
(***************************************************************************)
EXTENDS DirectMessages, FiniteSetTheorems, TLAPS

Choosing == {"check", "read", "reserve"}
Storing == {"send", "lock", "look", "create", "release"}
Waiting == {"track", "sleep", "radio", "resend", "reread"}
Through == Waiting \cup {"count", "done"}

\* The sends that hold their timestamp, and those whose timestamp is chosen.
Owner(s) == st[s].pc \in Storing \cup Through
Fixed(s) == Owner(s) \/ st[s].pc = "failed"

Pcs == {"idle", "failed"} \cup Choosing \cup Storing \cup Through
Tasks ==
    [pc : Pcs, ts : Nat,
     attempt : 0 .. DM_SEND_MAX_ATTEMPTS - 1, id : Nat, coded : BOOLEAN]

Types ==
    /\ now \in 1 .. MaxClock
    /\ rows \in Seq([ts : Timestamps, acked : Nat])
    /\ pending \in [Codes -> Nat]
    /\ linked \in [Codes -> Nat]
    /\ buffered \subseteq heard
    /\ heard \subseteq transmitted
    /\ transmitted \subseteq Codes
    /\ applying \subseteq tracked
    /\ tracked \subseteq Codes \X Nat
    /\ st \in [Sends -> Tasks]
    /\ echo \in [Echoes -> [pc : {"idle", "lock", "look", "create", "done"},
                            code : Codes \cup {<<0, 0>>}]]

\* The two locks and their holders.
Locks ==
    /\ \A s \in Sends : (radio = s) <=> st[s].pc \in Choosing \cup {"send", "resend"}
    /\ \A s \in Sends : (dmLock = s) <=> st[s].pc \in {"look", "create"}
    /\ \A e \in Echoes : (dmLock = e) <=> echo[e].pc \in {"look", "create"}

\* A candidate beyond the clock has passed over timestamps that other sends
\* chose, and only chosen timestamps are on air or stored.
Chosen(t) == \E s \in Sends : Fixed(s) /\ st[s].ts = t
Skipping ==
    /\ \A s \in Sends : st[s].pc # "idle" => st[s].ts >= 1
    /\ \A s \in Sends : \A t \in Nat : MaxClock < t /\ t < st[s].ts => Chosen(t)
    /\ \A c \in transmitted : Chosen(c[1])
    /\ \A e \in Echoes : echo[e].pc # "idle" => echo[e].code \in transmitted
    /\ \A id \in DOMAIN rows : Chosen(rows[id].ts)
    /\ \A t \in reserved : Chosen(t)

\* A reservation lasts until the row is there, and no two sends that store
\* hold one timestamp.
Reserving ==
    /\ \A s \in Sends : st[s].pc \in Storing => st[s].ts \in reserved
    /\ \A s, u \in Sends : Owner(s) /\ Owner(u) /\ st[s].ts = st[u].ts => s = u
    /\ \A s, u \in Sends :
           st[s].pc = "read" /\ Owner(u) /\ st[u].ts = st[s].ts => st[u].pc \in Through
    /\ \A s, u \in Sends : st[s].pc = "reserve" /\ Owner(u) => st[u].ts # st[s].ts

\* A send that is through has a row with its timestamp, and a timestamp has one.
Rowed ==
    /\ \A s \in Sends : st[s].id # 0 =>
           /\ st[s].pc \in {"release"} \cup Through
           /\ st[s].id \in DOMAIN rows /\ rows[st[s].id].ts = st[s].ts
    /\ \A s \in Sends : st[s].pc \in Through => st[s].id # 0
    /\ \A c \in Codes : linked[c] # 0 => linked[c] \in DOMAIN rows
    /\ \A i, j \in DOMAIN rows : rows[i].ts = rows[j].ts => i = j
    /\ \A s \in Sends : st[s].pc = "create" => get_by_content(st[s].ts) = {}
    /\ \A e \in Echoes : echo[e].pc = "create" => get_by_content(echo[e].code[1]) = {}

\* A code is registered once, for the row of its packet.
Tracking ==
    /\ \A s \in Sends : st[s].pc \notin Through => st[s].attempt = 0
    /\ \A t \in tracked : t[2] \in DOMAIN rows /\ t[1][1] = rows[t[2]].ts
    /\ \A t \in tracked : \E s \in Sends : st[s].pc \in Through /\ st[s].id = t[2]
    /\ \A s \in Sends : st[s].pc \in Storing \cup Waiting =>
           \A t \in tracked : t[1][1] = st[s].ts => t[1][2] < st[s].attempt
    /\ \A t, u \in tracked : t[1] = u[1] => t = u
    /\ \A c \in Codes : pending[c] # 0 => <<c, pending[c]>> \in tracked

\* The ACKs under way: claimed or taken from the buffer, and not counted yet.
Counts(s, c, id) == st[s].pc = "count" /\ st[s].id = id /\ Code(s) = c
Underway ==
    /\ \A a \in applying : a[1] \in heard /\ pending[a[1]] = 0
    /\ \A s \in Sends : st[s].pc = "count" =>
           <<Code(s), st[s].id>> \in tracked /\ Code(s) \in heard /\ pending[Code(s)] = 0
    /\ \A s \in Sends : \A a \in applying : st[s].pc = "count" => a[1] # Code(s)

\* Until a clean-up drops it, a code heard is buffered before its registration,
\* and after it the row is acknowledged or about to be.
Good(id) ==
    \/ Acked(id)
    \/ \E a \in applying : a[2] = id
    \/ \E s \in Sends : st[s].pc = "count" /\ st[s].id = id
Expecting ==
    /\ \A c \in heard \ expired : c \in buffered \/ \E t \in tracked : t[1] = c
    /\ \A t \in tracked : t[1] \in heard \ expired => pending[t[1]] = 0
    /\ \A t \in tracked : t[1] \notin expired /\ pending[t[1]] = 0 => Good(t[2])

\* The codes a row has counted are among these.
Spent(id) ==
    {c \in heard : /\ <<c, id>> \in tracked
                   /\ pending[c] = 0
                   /\ <<c, id>> \notin applying
                   /\ \A s \in Sends : ~Counts(s, c, id)}
Counting == \A id \in DOMAIN rows : rows[id].acked <= Cardinality(Spent(id))

DirectInv ==
    /\ Types /\ Locks /\ Skipping /\ Reserving /\ Rowed
    /\ Tracking /\ Underway /\ Expecting /\ Counting

-----------------------------------------------------------------------------
(* Facts about the parts. *)

\* The timestamps and codes that can occur are finitely many.
LEMMA FiniteCodes == IsFiniteSet(Codes)
<1>1. Cardinality(Sends) \in Nat
  BY FS_CardinalityType, DirectMessagesAssumption
<1>2. IsFiniteSet(Timestamps) /\ IsFiniteSet(0 .. DM_SEND_MAX_ATTEMPTS - 1)
  <2>1. 1 \in Int /\ MaxClock + Cardinality(Sends) \in Int
    BY <1>1, DirectMessagesAssumption
  <2>2. IsFiniteSet(1 .. MaxClock + Cardinality(Sends))
    BY <2>1, FS_Interval
  <2>3. 0 \in Int /\ DM_SEND_MAX_ATTEMPTS - 1 \in Int
    BY DirectMessagesAssumption
  <2>4. IsFiniteSet(0 .. DM_SEND_MAX_ATTEMPTS - 1)
    BY <2>3, FS_Interval
  <2>5. QED BY <2>2, <2>4 DEF Timestamps
<1>3. QED BY <1>2, FS_Product DEF Codes

\* A candidate never leaves the bound: it passes over timestamps of other
\* sends only, and each send has one.
LEMMA CandidateBound ==
    ASSUME Types, Skipping, NEW s \in Sends, st[s].pc # "idle"
    PROVE  st[s].ts \in Timestamps
<1> DEFINE S == MaxClock + 1 .. st[s].ts
           f == [t \in S |-> IF t = st[s].ts THEN s
                             ELSE CHOOSE u \in Sends : Fixed(u) /\ st[u].ts = t]
<1>1. /\ st[s].ts \in Nat /\ st[s].ts >= 1 /\ MaxClock \in Nat /\ MaxClock >= 1
      /\ Cardinality(Sends) \in Nat /\ IsFiniteSet(Sends)
  BY FS_CardinalityType, DirectMessagesAssumption DEF Types, Tasks, Skipping
<1>2. \A t \in S : f[t] \in Sends /\ st[f[t]].ts = t
  BY <1>1 DEF Skipping, Chosen
<1>3. f \in Injection(S, Sends)
  <2>1. f \in [S -> Sends]
    BY <1>2
  <2>2. \A t, v \in S : f[t] = f[v] => t = v
    <3> HIDE DEF f
    <3>1. QED BY <1>2
  <2>3. QED
    <3> HIDE DEF f, S
    <3>1. QED BY <2>1, <2>2 DEF Injection, IsInjective
<1>4. /\ IsFiniteSet(S)
      /\ Cardinality(S) = IF MaxClock + 1 > st[s].ts THEN 0 ELSE st[s].ts - (MaxClock + 1) + 1
  <2>1. MaxClock + 1 \in Int /\ st[s].ts \in Int
    BY <1>1
  <2>2. QED BY <2>1, FS_Interval
<1>5. Cardinality(S) <= Cardinality(Sends)
  BY <1>1, <1>3, <1>4, FS_Injection
<1>6. QED BY <1>1, <1>4, <1>5 DEF Timestamps

\* What an INSERT leaves.
LEMMA Inserted ==
    ASSUME Types, NEW ts \in Timestamps, InsertRow(ts)
    PROVE  /\ rows' \in Seq([ts : Timestamps, acked : Nat])
           /\ DOMAIN rows' = DOMAIN rows \cup {Len(rows) + 1}
           /\ Len(rows) + 1 \in Nat \ {0} /\ Len(rows) + 1 \notin DOMAIN rows
           /\ \A id \in DOMAIN rows : rows'[id] = rows[id]
           /\ rows'[Len(rows) + 1].ts = ts /\ rows'[Len(rows) + 1].acked = 0
<1> DEFINE row == [ts |-> ts, acked |-> 0]
           R == [ts : Timestamps, acked : Nat]
<1>1. rows \in Seq(R) /\ row \in R /\ rows' = Append(rows, row)
  BY DEF Types, InsertRow
<1>2. HIDE DEF row, R
<1>3. /\ rows' \in Seq(R) /\ DOMAIN rows = 1 .. Len(rows) /\ Len(rows) \in Nat
      /\ DOMAIN rows' = 1 .. Len(rows) + 1
      /\ \A id \in 1 .. Len(rows) : rows'[id] = rows[id]
      /\ rows'[Len(rows) + 1] = row
  BY <1>1
<1>4. row.ts = ts /\ row.acked = 0
  BY DEF row
<1>5. 1 .. Len(rows) + 1 = (1 .. Len(rows)) \cup {Len(rows) + 1}
  BY <1>3
<1>6. QED BY <1>3, <1>4 DEF R

\* What an UPDATE of acked leaves.
LEMMA Incremented ==
    ASSUME Types, NEW id \in DOMAIN rows, increment_ack_count(id)
    PROVE  /\ rows' \in Seq([ts : Timestamps, acked : Nat])
           /\ DOMAIN rows' = DOMAIN rows
           /\ \A i \in DOMAIN rows : rows'[i].ts = rows[i].ts
           /\ \A i \in DOMAIN rows : i # id => rows'[i] = rows[i]
           /\ rows[id].acked \in Nat /\ rows'[id].acked = rows[id].acked + 1
<1> DEFINE R == [ts : Timestamps, acked : Nat]
           row == [rows[id] EXCEPT !.acked = @ + 1]
<1>1. rows \in Seq(R) /\ rows' = [rows EXCEPT ![id] = row]
  BY DEF Types, increment_ack_count
<1>2. rows[id] \in R
  <2> HIDE DEF R
  <2>1. QED BY <1>1
<1>3. /\ row \in R
      /\ row.ts = rows[id].ts
      /\ row.acked = rows[id].acked + 1
      /\ rows[id].acked \in Nat
  BY <1>2
<1>4. HIDE DEF row, R
<1>5. rows' \in Seq(R) /\ DOMAIN rows' = DOMAIN rows
  BY <1>1, <1>3
<1>6. rows'[id] = row /\ \A i \in DOMAIN rows : i # id => rows'[i] = rows[i]
  BY <1>1
<1>7. QED BY <1>3, <1>5, <1>6 DEF R

\* A task with a new pc and timestamp is a task.
LEMMA UpdatedTs ==
    ASSUME NEW r \in Tasks, NEW pc \in Pcs, NEW ts \in Nat
    PROVE  LET task == [r EXCEPT !.pc = pc, !.ts = ts]
           IN  /\ task \in Tasks
               /\ task = [pc |-> pc, ts |-> ts, attempt |-> r.attempt, id |-> r.id, coded |-> r.coded]
<1> DEFINE q == [r EXCEPT !.pc = pc]
<1>1. q \in Tasks /\ q.pc = pc /\ q.ts = r.ts /\ q.attempt = r.attempt
      /\ q.id = r.id /\ q.coded = r.coded
  BY DEF Tasks
<1>2. HIDE DEF q
<1>3. [q EXCEPT !.ts = ts]
        = [pc |-> q.pc, ts |-> ts, attempt |-> q.attempt, id |-> q.id, coded |-> q.coded]
  BY <1>1 DEF Tasks
<1>4. [q EXCEPT !.ts = ts] \in Tasks
  BY <1>1 DEF Tasks
<1>5. QED BY <1>3, <1>4 DEF q

\* A task with a new pc and row is a task.
LEMMA UpdatedId ==
    ASSUME NEW r \in Tasks, NEW pc \in Pcs, NEW id \in Nat
    PROVE  LET task == [r EXCEPT !.pc = pc, !.id = id]
           IN  /\ task \in Tasks
               /\ task = [pc |-> pc, ts |-> r.ts, attempt |-> r.attempt, id |-> id, coded |-> r.coded]
<1> DEFINE q == [r EXCEPT !.pc = pc]
<1>1. q \in Tasks /\ q.pc = pc /\ q.ts = r.ts /\ q.attempt = r.attempt
      /\ q.id = r.id /\ q.coded = r.coded
  BY DEF Tasks
<1>2. HIDE DEF q
<1>3. [q EXCEPT !.id = id]
        = [pc |-> q.pc, ts |-> q.ts, attempt |-> q.attempt, id |-> id, coded |-> q.coded]
  BY <1>1 DEF Tasks
<1>4. [q EXCEPT !.id = id] \in Tasks
  BY <1>1 DEF Tasks
<1>5. QED BY <1>3, <1>4 DEF q

\* A task with a new pc and answer is a task.
LEMMA UpdatedCoded ==
    ASSUME NEW r \in Tasks, NEW pc \in Pcs, NEW coded \in BOOLEAN
    PROVE  LET task == [r EXCEPT !.pc = pc, !.coded = coded]
           IN  /\ task \in Tasks
               /\ task = [pc |-> pc, ts |-> r.ts, attempt |-> r.attempt, id |-> r.id, coded |-> coded]
<1> DEFINE q == [r EXCEPT !.pc = pc]
<1>1. q \in Tasks /\ q.pc = pc /\ q.ts = r.ts /\ q.attempt = r.attempt
      /\ q.id = r.id /\ q.coded = r.coded
  BY DEF Tasks
<1>2. HIDE DEF q
<1>3. [q EXCEPT !.coded = coded]
        = [pc |-> q.pc, ts |-> q.ts, attempt |-> q.attempt, id |-> q.id, coded |-> coded]
  BY <1>1 DEF Tasks
<1>4. [q EXCEPT !.coded = coded] \in Tasks
  BY <1>1 DEF Tasks
<1>5. QED BY <1>3, <1>4 DEF q

\* A task with a new pc and attempt is a task.
LEMMA UpdatedAttempt ==
    ASSUME NEW r \in Tasks, NEW pc \in Pcs, NEW attempt \in 0 .. DM_SEND_MAX_ATTEMPTS - 1
    PROVE  LET task == [r EXCEPT !.attempt = attempt, !.pc = pc]
           IN  /\ task \in Tasks
               /\ task = [pc |-> pc, ts |-> r.ts, attempt |-> attempt, id |-> r.id, coded |-> r.coded]
<1> DEFINE q == [r EXCEPT !.attempt = attempt]
<1>1. q \in Tasks /\ q.pc = r.pc /\ q.ts = r.ts /\ q.attempt = attempt
      /\ q.id = r.id /\ q.coded = r.coded
  BY DEF Tasks
<1>2. HIDE DEF q
<1>3. [q EXCEPT !.pc = pc]
        = [pc |-> pc, ts |-> q.ts, attempt |-> q.attempt, id |-> q.id, coded |-> q.coded]
  BY <1>1 DEF Tasks
<1>4. [q EXCEPT !.pc = pc] \in Tasks
  BY <1>1 DEF Tasks
<1>5. QED BY <1>3, <1>4 DEF q

\* What a step of one task leaves of the others.
LEMMA TaskSet ==
    ASSUME Types, NEW s \in Sends, NEW task \in Tasks, st' = [st EXCEPT ![s] = task]
    PROVE  /\ \A u \in Sends : u # s => st'[u] = st[u]
           /\ st'[s] = task
           /\ st' \in [Sends -> Tasks]
BY DEF Types

\* What moving a task on leaves.
LEMMA Moved ==
    ASSUME Types, NEW s \in Sends, NEW pc \in Pcs, To(s, pc)
    PROVE  /\ \A u \in Sends : u # s => st'[u] = st[u]
           /\ st'[s].pc = pc /\ st'[s].ts = st[s].ts /\ st'[s].attempt = st[s].attempt
           /\ st'[s].id = st[s].id /\ st'[s].coded = st[s].coded
           /\ st' \in [Sends -> Tasks]
<1> DEFINE task == [st[s] EXCEPT !.pc = pc]
<1>1. st[s] \in Tasks
  BY DEF Types
<1>2. /\ task \in Tasks /\ task.pc = pc /\ task.ts = st[s].ts /\ task.attempt = st[s].attempt
      /\ task.id = st[s].id /\ task.coded = st[s].coded
  BY <1>1 DEF Tasks
<1>3. st' = [st EXCEPT ![s] = task]
  BY DEF To
<1>4. HIDE DEF task
<1>5. QED BY <1>2, <1>3, TaskSet

\* What the next candidate leaves.
LEMMA NextCandidateMoved ==
    ASSUME Types, NEW s \in Sends, NextCandidate(s)
    PROVE  /\ \A u \in Sends : u # s => st'[u] = st[u]
           /\ st'[s].pc = "check" /\ st'[s].ts = st[s].ts + 1 /\ st'[s].attempt = st[s].attempt
           /\ st'[s].id = st[s].id
           /\ st' \in [Sends -> Tasks]
<1> DEFINE task == [st[s] EXCEPT !.pc = "check", !.ts = st[s].ts + 1]
<1>1. st[s] \in Tasks /\ "check" \in Pcs /\ st[s].ts + 1 \in Nat
  BY DEF Types, Tasks, Pcs, Choosing
<1>2. task \in Tasks /\ task = [pc |-> "check", ts |-> st[s].ts + 1, attempt |-> st[s].attempt,
                                id |-> st[s].id, coded |-> st[s].coded]
  BY <1>1, UpdatedTs
<1>3. st' = [st EXCEPT ![s] = task]
  BY <1>1 DEF NextCandidate, Types, Tasks
<1>4. HIDE DEF task
<1>5. QED BY <1>2, <1>3, TaskSet

\* What the next attempt leaves.
LEMMA NextAttemptMoved ==
    ASSUME Types, NEW s \in Sends, NextAttempt(s)
    PROVE  /\ \A u \in Sends : u # s => st'[u] = st[u]
           /\ st'[s].ts = st[s].ts /\ st'[s].id = st[s].id
           /\ \/ st'[s].pc = "sleep" /\ st'[s].attempt = st[s].attempt + 1
              \/ st'[s].pc = "done"
           /\ st' \in [Sends -> Tasks]
<1> DEFINE more == st[s].attempt + 1 < DM_SEND_MAX_ATTEMPTS
           attempt == IF more THEN st[s].attempt + 1 ELSE st[s].attempt
           pc == IF more /\ s \in Armed THEN "sleep" ELSE "done"
           task == [st[s] EXCEPT !.attempt = attempt, !.pc = pc]
<1>1. st[s] \in Tasks /\ pc \in Pcs
  BY DEF Types, Pcs, Through, Waiting
<1>2. attempt \in 0 .. DM_SEND_MAX_ATTEMPTS - 1
  BY <1>1, DirectMessagesAssumption DEF Tasks
<1>3. \/ pc = "sleep" /\ attempt = st[s].attempt + 1
      \/ pc = "done"
  OBVIOUS
<1>4. st' = [st EXCEPT ![s] = task]
  BY DEF NextAttempt, Types
<1>5. HIDE DEF pc, attempt
<1>6. task \in Tasks /\ task = [pc |-> pc, ts |-> st[s].ts, attempt |-> attempt, id |-> st[s].id,
                                coded |-> st[s].coded]
  BY <1>1, <1>2, UpdatedAttempt
<1>7. HIDE DEF task
<1>8. QED BY <1>3, <1>4, <1>6, TaskSet

-----------------------------------------------------------------------------
(* Frames: what a step leaves alone.                                       *)

\* A chosen timestamp stays chosen.
LEMMA ChosenStays ==
    ASSUME \A u \in Sends : Fixed(u) => Fixed(u)' /\ st'[u].ts = st[u].ts
    PROVE  \A t : Chosen(t) => Chosen(t)'
BY DEF Chosen

\* The codes a row may have spent are finitely many.
LEMMA SpentFinite ==
    ASSUME Types, NEW id
    PROVE  IsFiniteSet(Spent(id)) /\ Cardinality(Spent(id)) \in Nat
<1>1. Spent(id) \subseteq Codes
  BY DEF Types, Spent
<1>2. QED BY <1>1, FiniteCodes, FS_Subset, FS_CardinalityType

\* Codes that all occur among others are not more than those.
LEMMA FewerCodes ==
    ASSUME NEW S, NEW T \in SUBSET Codes, S \subseteq T
    PROVE  /\ Cardinality(S) \in Nat /\ Cardinality(T) \in Nat
           /\ Cardinality(S) <= Cardinality(T)
<1>1. IsFiniteSet(T)
  BY FiniteCodes, FS_Subset
<1>2. QED BY <1>1, FS_Subset, FS_CardinalityType

\* What the columns of a row hold.
LEMMA RowTyped ==
    ASSUME Types
    PROVE  \A id \in DOMAIN rows : rows[id].acked \in Nat /\ rows[id].ts \in Timestamps
<1> DEFINE R == [ts : Timestamps, acked : Nat]
<1>1. rows \in Seq(R)
  BY DEF Types
<1>2. HIDE DEF R
<1>3. \A id \in DOMAIN rows : rows[id] \in R
  BY <1>1
<1>4. QED BY <1>3 DEF R

\* A row that counts nothing more, with as many codes spent as before.
LEMMA SpentGrows ==
    ASSUME Types', NEW id, Spent(id) \subseteq Spent(id)'
    PROVE  Cardinality(Spent(id)) \in Nat /\ Cardinality(Spent(id)') \in Nat
           /\ Cardinality(Spent(id)) <= Cardinality(Spent(id)')
<1>1. Spent(id)' \subseteq Codes /\ IsFiniteSet(Spent(id)')
  <2>1. Spent(id)' \subseteq Codes
    BY DEF Types, Spent
  <2>2. QED BY <2>1, FiniteCodes, FS_Subset
<1>2. QED BY <1>1, FS_Subset, FS_CardinalityType

\* A row that counts one ACK more, with a code more that is spent.
LEMMA SpentOneMore ==
    ASSUME Types', NEW id, NEW c, c \notin Spent(id), Spent(id) \cup {c} \subseteq Spent(id)'
    PROVE  Cardinality(Spent(id)) \in Nat /\ Cardinality(Spent(id)') \in Nat
           /\ Cardinality(Spent(id)) + 1 <= Cardinality(Spent(id)')
<1> DEFINE S == Spent(id) \cup {c}
<1>1. Spent(id)' \subseteq Codes /\ IsFiniteSet(Spent(id)')
  <2>1. Spent(id)' \subseteq Codes
    BY DEF Types, Spent
  <2>2. QED BY <2>1, FiniteCodes, FS_Subset
<1>2. IsFiniteSet(S) /\ Cardinality(S) <= Cardinality(Spent(id)')
  BY <1>1, FS_Subset
<1>3. IsFiniteSet(Spent(id))
  BY <1>2, FS_Subset
<1>4. Cardinality(S) = Cardinality(Spent(id)) + 1
  BY <1>3, FS_AddElement
<1>5. QED BY <1>1, <1>2, <1>3, <1>4, FS_CardinalityType

\* A step that touches no ACK keeps what holds of them, when tasks only move
\* on and rows only appear.
LEMMA AckFrame ==
    ASSUME DirectInv, Types', UNCHANGED ackVars,
           \A id \in DOMAIN rows : id \in DOMAIN rows' /\ rows'[id] = rows[id],
           \A id \in DOMAIN rows' : id \notin DOMAIN rows => rows'[id].acked = 0,
           \A u \in Sends :
               /\ st[u].pc = "count" \/ st'[u].pc = "count" => st'[u] = st[u]
               /\ st[u].pc \in Through => st'[u].pc \in Through /\ st'[u].id = st[u].id
               /\ st'[u].pc \notin Through => st'[u].attempt = 0
               /\ st'[u].pc \in Storing \cup Waiting =>
                      \A t \in tracked : t[1][1] = st'[u].ts => t[1][2] < st'[u].attempt
    PROVE  Tracking' /\ Underway' /\ Expecting' /\ Counting'
<1> USE DEF DirectInv, ackVars
<1>1. Tracking'
  BY DEF Tracking
<1>2. Underway'
  BY DEF Underway, Code
<1>3. \A id \in DOMAIN rows : Good(id) => Good(id)'
  BY DEF Good, Acked
<1>4. Expecting'
  BY <1>3 DEF Expecting, Tracking
<1>5. \A id : Spent(id)' = Spent(id)
  BY DEF Spent, Counts, Code
<1>6. Counting'
  BY <1>5, SpentFinite DEF Counting
<1>7. QED BY <1>1, <1>2, <1>4, <1>6

\* The same for a step of one send that stores nothing.
LEMMA MoveFrame ==
    ASSUME DirectInv, Types', UNCHANGED <<rows, ackVars>>, NEW s \in Sends,
           \A u \in Sends : u # s => st'[u] = st[u],
           st[s].pc # "count", st'[s].pc # "count",
           st[s].pc \in Through => st'[s].pc \in Through /\ st'[s].id = st[s].id,
           st'[s].pc \notin Through => st'[s].attempt = 0,
           st'[s].pc \in Storing \cup Waiting =>
               \A t \in tracked : t[1][1] = st'[s].ts => t[1][2] < st'[s].attempt
    PROVE  Tracking' /\ Underway' /\ Expecting' /\ Counting'
<1>1. \A u \in Sends :
          /\ st[u].pc = "count" \/ st'[u].pc = "count" => st'[u] = st[u]
          /\ st[u].pc \in Through => st'[u].pc \in Through /\ st'[u].id = st[u].id
          /\ st'[u].pc \notin Through => st'[u].attempt = 0
          /\ st'[u].pc \in Storing \cup Waiting =>
                 \A t \in tracked : t[1][1] = st'[u].ts => t[1][2] < st'[u].attempt
  BY DEF DirectInv, Tracking
<1>2. QED BY <1>1, AckFrame

\* A step that is only about ACKs keeps the timestamps, the rows and the locks.
LEMMA StoreFrame ==
    ASSUME DirectInv, UNCHANGED <<radioVars, dmLock, echoVars>>,
           DOMAIN rows' = DOMAIN rows,
           \A id \in DOMAIN rows : rows'[id].ts = rows[id].ts,
           \A u \in Sends : \/ st'[u] = st[u]
                            \/ /\ st[u].pc \in Through \ {"resend"}
                               /\ st'[u].pc \in Through \ {"resend"}
                               /\ st'[u].ts = st[u].ts /\ st'[u].id = st[u].id
    PROVE  Locks' /\ Skipping' /\ Reserving' /\ Rowed'
<1> USE DEF DirectInv, radioVars, echoVars
<1>1. \A u \in Sends :
          /\ st'[u].ts = st[u].ts /\ st'[u].id = st[u].id
          /\ (st'[u].pc \in Through <=> st[u].pc \in Through)
          /\ st'[u].pc \notin Through => st'[u] = st[u]
          /\ Owner(u)' <=> Owner(u)
          /\ Fixed(u)' <=> Fixed(u)
          /\ st'[u].pc = "resend" <=> st[u].pc = "resend"
  BY DEF Owner, Fixed
<1>2. Locks'
  BY DEF Locks, Choosing, Through, Waiting
<1>3. \A t : Chosen(t) => Chosen(t)'
  BY <1>1, ChosenStays
<1>4. Skipping'
  BY <1>3 DEF Skipping, Through, Waiting
<1>5. Reserving'
  BY <1>1, SMTT(30) DEF Reserving, Storing, Through, Waiting
<1>6. Rowed'
  BY DEF Rowed, get_by_content, Through, Waiting
<1>7. QED BY <1>2, <1>4, <1>5, <1>6

-----------------------------------------------------------------------------
(* send_direct_message_to_contact, step by step.                           *)

\* A step of one send that leaves the rows alone, keeps the id the send holds
\* and does not bring it to its INSERT keeps what is known of rows.
LEMMA RowedFrame ==
    ASSUME Rowed, NEW s \in Sends, UNCHANGED <<rows, echo, linked>>,
           \A u \in Sends : u # s => st'[u] = st[u],
           st'[s].id = st[s].id, st'[s].pc # "create",
           st[s].id # 0 => st'[s].ts = st[s].ts /\ st'[s].pc \in {"release"} \cup Through,
           st'[s].pc \in Through => st[s].id # 0
    PROVE  Rowed'
<1>1. \A t : get_by_content(t)' = get_by_content(t)
  BY DEF get_by_content
<1>2. ASSUME NEW u \in Sends
      PROVE  /\ st'[u].id # 0 => /\ st'[u].pc \in {"release"} \cup Through
                                 /\ st'[u].id \in DOMAIN rows /\ rows[st'[u].id].ts = st'[u].ts
             /\ st'[u].pc \in Through => st'[u].id # 0
             /\ st'[u].pc = "create" => get_by_content(st'[u].ts) = {}
  <2>1. CASE u = s
    BY <2>1 DEF Rowed
  <2>2. CASE u # s
    <3>1. st'[u] = st[u]
      BY <2>2
    <3>2. QED BY <3>1 DEF Rowed
  <2>3. QED BY <2>1, <2>2
<1>3. \A e \in Echoes : echo'[e].pc = "create" => get_by_content(echo'[e].code[1]) = {}
  BY DEF Rowed
<1>4. /\ \A c \in Codes : linked'[c] # 0 => linked'[c] \in DOMAIN rows'
      /\ \A i, j \in DOMAIN rows' : rows'[i].ts = rows'[j].ts => i = j
  BY DEF Rowed
<1>5. QED BY <1>1, <1>2, <1>3, <1>4 DEF Rowed

\* A send that turns to a candidate owns no timestamp, and disturbs no owner.
LEMMA ReservingFrame ==
    ASSUME Reserving, NEW s \in Sends, UNCHANGED reserved,
           \A u \in Sends : u # s => st'[u] = st[u], st'[s].pc = "check"
    PROVE  Reserving'
<1>1. st'[s].pc \notin Storing /\ ~Owner(s)'
  BY DEF Owner, Storing, Through, Waiting
<1>2. \A u \in Sends : u # s => (Owner(u)' <=> Owner(u))
  BY DEF Owner
<1>3. \A u \in Sends : st'[u].pc \in Storing => st'[u].ts \in reserved'
  BY <1>1 DEF Reserving
<1>4. ASSUME NEW u \in Sends, NEW v \in Sends
      PROVE  /\ Owner(u)' /\ Owner(v)' /\ st'[u].ts = st'[v].ts => u = v
             /\ st'[u].pc = "read" /\ Owner(v)' /\ st'[v].ts = st'[u].ts => st'[v].pc \in Through
             /\ st'[u].pc = "reserve" /\ Owner(v)' => st'[v].ts # st'[u].ts
  <2>1. CASE u = s \/ v = s
    BY <1>1, <2>1
  <2>2. CASE u # s /\ v # s
    <3>1. /\ st'[u] = st[u] /\ st'[v] = st[v]
          /\ (Owner(u)' <=> Owner(u)) /\ (Owner(v)' <=> Owner(v))
      BY <1>2, <2>2
    <3>2. QED BY <3>1 DEF Reserving
  <2>3. QED BY <2>1, <2>2
<1>5. QED BY <1>3, <1>4 DEF Reserving

\* The send takes the radio lock and starts from the clock.
LEMMA SendTakesRadioNext ==
    ASSUME DirectInv, NEW s \in Sends, SendTakesRadio(s)
    PROVE  DirectInv'
<1> USE DEF DirectInv
<1>1. /\ st[s].pc = "idle" /\ st'[s].pc = "check" /\ st'[s].ts = now' /\ now' \in 1 .. MaxClock
      /\ st'[s].id = st[s].id /\ st'[s].attempt = st[s].attempt
      /\ \A u \in Sends : u # s => st'[u] = st[u]
      /\ st' \in [Sends -> Tasks]
  <2> DEFINE task == [st[s] EXCEPT !.pc = "check", !.ts = now']
  <2>1. st[s] \in Tasks /\ st[s].pc = "idle" /\ "check" \in Pcs
    BY DEF SendTakesRadio, Types, Pcs, Choosing
  <2>2. now' \in 1 .. MaxClock /\ now' \in Nat
    BY DEF SendTakesRadio, Types
  <2>3. task \in Tasks /\ task = [pc |-> "check", ts |-> now', attempt |-> st[s].attempt,
                                  id |-> st[s].id, coded |-> st[s].coded]
    BY <2>1, <2>2, UpdatedTs
  <2>4. st' = [st EXCEPT ![s] = task]
    BY DEF SendTakesRadio, Types
  <2>5. HIDE DEF task
  <2>6. QED BY <2>1, <2>2, <2>3, <2>4, TaskSet
<1>0. /\ radio = Free /\ radio' = s
      /\ UNCHANGED <<reserved, transmitted, dmLock, rows, ackVars, echoVars>>
  BY DEF SendTakesRadio
<1>2. Types'
  BY <1>0, <1>1 DEF Types, ackVars, echoVars
<1>3. Locks'
  BY <1>0, <1>1, DirectMessagesAssumption DEF Locks, Choosing, echoVars
<1>4. Skipping'
  <2>1. \A t : Chosen(t) => Chosen(t)'
    BY <1>1, ChosenStays DEF Fixed, Owner, Storing, Through, Waiting
  <2>2. QED BY <1>0, <1>1, <2>1, DirectMessagesAssumption, SMTT(30) DEF Skipping, echoVars
<1>5. Reserving' /\ Rowed'
  <2>2. Reserving'
    BY <1>0, <1>1, ReservingFrame
  <2>3. st'[s].pc # "create" /\ st'[s].pc \notin Through /\ st[s].id = 0
    BY <1>1 DEF Rowed, Through, Waiting
  <2>4. Rowed'
    BY <1>0, <1>1, <2>3, RowedFrame DEF echoVars
  <2>5. QED BY <2>2, <2>4
<1>6. st'[s].attempt = 0
  BY <1>1 DEF Tracking, Through, Waiting
<1>7. Tracking' /\ Underway' /\ Expecting' /\ Counting'
  BY <1>0, <1>1, <1>2, <1>6, MoveFrame DEF Storing, Through, Waiting
<1>8. QED BY <1>2, <1>3, <1>4, <1>5, <1>7

\* A candidate that is taken gives way to the next second.
LEMMA NextCandidateNext ==
    ASSUME DirectInv, NEW s \in Sends, st[s].pc \in Choosing, NextCandidate(s), Chosen(st[s].ts),
           UNCHANGED <<radioVars, dmLock, rows, ackVars, echoVars>>
    PROVE  DirectInv'
<1> USE DEF DirectInv
<1>1. /\ \A u \in Sends : u # s => st'[u] = st[u]
      /\ st'[s].pc = "check" /\ st'[s].ts = st[s].ts + 1
      /\ st'[s].id = st[s].id /\ st'[s].attempt = st[s].attempt
      /\ st' \in [Sends -> Tasks] /\ st[s].ts \in Nat
  BY NextCandidateMoved DEF Types, Tasks
<1>2. Types'
  BY <1>1, SMTT(30) DEF Types, radioVars, ackVars, echoVars
<1>3. Locks'
  BY <1>1, SMTT(30) DEF Locks, Choosing, radioVars, echoVars
<1>4. Skipping'
  <2>1. \A t : Chosen(t) => Chosen(t)'
    BY <1>1, ChosenStays DEF Fixed, Owner, Choosing, Storing, Through, Waiting
  <2>2. \A t \in Nat : MaxClock < t /\ t < st[s].ts + 1 => Chosen(t)
    BY <1>1, SMTT(30) DEF Skipping
  <2>3. QED BY <1>1, <2>1, SMTT(30) DEF Skipping, radioVars, echoVars
<1>5. Reserving' /\ Rowed'
  <2>2. Reserving'
    BY <1>1, ReservingFrame DEF radioVars
  <2>3. st'[s].pc # "create" /\ st'[s].pc \notin Through /\ st[s].id = 0
    BY <1>1 DEF Rowed, Choosing, Through, Waiting
  <2>4. Rowed'
    BY <1>1, <2>3, RowedFrame DEF echoVars
  <2>5. QED BY <2>2, <2>4
<1>6. st'[s].attempt = 0
  BY <1>1 DEF Tracking, Choosing, Through, Waiting
<1>7. Tracking' /\ Underway' /\ Expecting' /\ Counting'
  BY <1>1, <1>2, <1>6, MoveFrame DEF Choosing, Storing, Through, Waiting
<1>8. QED BY <1>2, <1>3, <1>4, <1>5, <1>7

\* A candidate that is free so far is checked further.
LEMMA CandidateStays ==
    ASSUME DirectInv, NEW s \in Sends, NEW pc \in {"read", "reserve"},
           st[s].pc \in Choosing, To(s, pc),
           pc = "read" => \A u \in Sends :
               Owner(u) /\ st[u].ts = st[s].ts => st[u].pc \in Through,
           pc = "reserve" => \A u \in Sends : Owner(u) => st[u].ts # st[s].ts,
           UNCHANGED <<radioVars, dmLock, rows, ackVars, echoVars>>
    PROVE  DirectInv'
<1> USE DEF DirectInv
<1>1. /\ \A u \in Sends : u # s => st'[u] = st[u]
      /\ st'[s].pc = pc /\ st'[s].ts = st[s].ts
      /\ st'[s].id = st[s].id /\ st'[s].attempt = st[s].attempt
      /\ st' \in [Sends -> Tasks]
  BY Moved DEF Pcs, Choosing
<1>2. Types'
  BY <1>1 DEF Types, radioVars, ackVars, echoVars
<1>3. Locks'
  BY <1>1 DEF Locks, Choosing, radioVars, echoVars
<1>4. Skipping'
  <2>1. \A t : Chosen(t) => Chosen(t)'
    BY <1>1, ChosenStays DEF Fixed, Owner, Choosing, Through, Waiting
  <2>2. QED BY <1>1, <2>1 DEF Skipping, Choosing, radioVars, echoVars
<1>5. Reserving' /\ Rowed'
  <2>1. \A u \in Sends : Owner(u)' <=> Owner(u)
    BY <1>1 DEF Owner, Choosing, Storing, Through, Waiting
  <2>2. Reserving'
    BY <1>1, <2>1, SMTT(30) DEF Reserving, Owner, Storing, radioVars
  <2>3. Rowed'
    <3>1. st'[s].pc # "create" /\ st'[s].pc \notin Through /\ st[s].id = 0
      BY <1>1 DEF Rowed, Choosing, Through, Waiting
    <3>2. QED BY <1>1, <3>1, RowedFrame DEF echoVars
  <2>4. QED BY <2>2, <2>3
<1>6. st'[s].attempt = 0
  BY <1>1 DEF Tracking, Choosing, Through, Waiting
<1>7. Tracking' /\ Underway' /\ Expecting' /\ Counting'
  BY <1>1, <1>2, <1>6, MoveFrame DEF Choosing, Storing, Through, Waiting
<1>8. QED BY <1>2, <1>3, <1>4, <1>5, <1>7

\* allocate_outgoing_sender_timestamp: who holds the candidate and has no
\* reservation any more is through.
LEMMA AllocateChecksNext ==
    ASSUME DirectInv, NEW s \in Sends, AllocateChecks(s)
    PROVE  DirectInv'
<1>1. CASE st[s].ts \in reserved /\ NextCandidate(s)
  <2>1. Chosen(st[s].ts)
    BY <1>1 DEF DirectInv, Skipping
  <2>2. QED BY <1>1, <2>1, NextCandidateNext DEF AllocateChecks, Choosing
<1>2. CASE st[s].ts \notin reserved /\ To(s, "read")
  <2>1. \A u \in Sends : Owner(u) /\ st[u].ts = st[s].ts => st[u].pc \in Through
    BY <1>2 DEF DirectInv, Reserving, Owner
  <2>2. QED BY <1>2, <2>1, CandidateStays DEF AllocateChecks, Choosing
<1>3. QED BY <1>1, <1>2 DEF AllocateChecks

\* ... and has a row, which the look-up finds.
LEMMA AllocateReadsNext ==
    ASSUME DirectInv, NEW s \in Sends, AllocateReads(s)
    PROVE  DirectInv'
<1>1. CASE get_by_content(st[s].ts) # {} /\ NextCandidate(s)
  <2>1. Chosen(st[s].ts)
    BY <1>1 DEF DirectInv, Skipping, get_by_content
  <2>2. QED BY <1>1, <2>1, NextCandidateNext DEF AllocateReads, Choosing
<1>2. CASE get_by_content(st[s].ts) = {} /\ To(s, "reserve")
  <2>1. \A u \in Sends : Owner(u) => st[u].ts # st[s].ts
    BY <1>2, SMTT(30) DEF DirectInv, Reserving, Rowed, AllocateReads, get_by_content
  <2>2. QED BY <1>2, <2>1, CandidateStays DEF AllocateReads, Choosing
<1>3. QED BY <1>1, <1>2 DEF AllocateReads

\* The candidate becomes the timestamp of the send, and of no other that stores.
LEMMA AllocateReservesNext ==
    ASSUME DirectInv, NEW s \in Sends, AllocateReserves(s)
    PROVE  DirectInv'
<1>1. CASE st[s].ts \in reserved /\ NextCandidate(s) /\ UNCHANGED reserved
  <2>1. Chosen(st[s].ts)
    BY <1>1 DEF DirectInv, Skipping
  <2>2. UNCHANGED <<radioVars, dmLock, rows, ackVars, echoVars>>
    BY <1>1 DEF AllocateReserves, radioVars
  <2>3. QED BY <1>1, <2>1, <2>2, NextCandidateNext DEF AllocateReserves, Choosing
<1>2. CASE st[s].ts \notin reserved /\ reserved' = reserved \cup {st[s].ts} /\ To(s, "send")
  <2> USE DEF DirectInv
  <2>1. /\ \A u \in Sends : u # s => st'[u] = st[u]
        /\ st[s].pc = "reserve" /\ st'[s].pc = "send" /\ st'[s].ts = st[s].ts
        /\ st'[s].id = st[s].id /\ st'[s].attempt = st[s].attempt
        /\ st' \in [Sends -> Tasks]
        /\ UNCHANGED <<now, radio, transmitted, dmLock, rows, ackVars, echoVars>>
    BY <1>2, Moved DEF AllocateReserves, Pcs, Storing
  <2>2. Types'
    BY <2>1 DEF Types, ackVars, echoVars
  <2>3. Locks'
    BY <2>1 DEF Locks, Choosing, echoVars
  <2>4. Skipping'
    <3>1. \A t : Chosen(t) => Chosen(t)'
      BY <2>1, ChosenStays DEF Fixed, Owner, Storing
    <3>2. Chosen(st[s].ts)'
      BY <2>1 DEF Chosen, Fixed, Owner, Storing
    <3>3. \A t \in reserved' : Chosen(t)'
      BY <1>2, <2>1, <3>1, <3>2 DEF Skipping, Chosen
    <3>4. QED BY <2>1, <3>1, <3>3 DEF Skipping, echoVars
  <2>5. Reserving'
    <3>1. \A u \in Sends : Owner(u)' <=> Owner(u) \/ u = s
      BY <2>1 DEF Owner, Storing
    <3>2. \A u \in Sends : st[u].pc \in {"read", "reserve"} => u = s
      BY <2>1 DEF Locks, Choosing
    <3>3. \A u \in Sends : st'[u].pc \notin {"read", "reserve"}
      BY <2>1, <3>2
    <3>4. QED BY <1>2, <2>1, <3>1, <3>3, SMTT(30) DEF Reserving
  <2>6. Rowed'
    <3>1. st'[s].pc # "create" /\ st'[s].pc \notin Through /\ st[s].id = 0
      BY <2>1 DEF Rowed, Through, Waiting
    <3>2. QED BY <2>1, <3>1, RowedFrame DEF echoVars
  <2>7. st'[s].attempt = 0
    BY <2>1 DEF Tracking, Through, Waiting
  <2>8. \A t \in tracked : t[1][1] # st[s].ts
    BY <2>1, SMTT(30) DEF Tracking, Reserving, Rowed, Owner
  <2>9. Tracking' /\ Underway' /\ Expecting' /\ Counting'
    BY <2>1, <2>2, <2>7, <2>8, MoveFrame DEF Through, Waiting
  <2>10. QED BY <2>2, <2>3, <2>4, <2>5, <2>6, <2>9
<1>3. QED BY <1>1, <1>2 DEF AllocateReserves

\* A send on its way from its timestamp to its row keeps the timestamp.
LEMMA StoringMoves ==
    ASSUME DirectInv, UNCHANGED reserved, NEW s \in Sends,
           \A u \in Sends : u # s => st'[u] = st[u],
           st[s].pc \in Storing, st'[s].pc \in Storing,
           st'[s].ts = st[s].ts, st'[s].attempt = st[s].attempt
    PROVE  /\ \A t : Chosen(t) => Chosen(t)'
           /\ Reserving'
           /\ st'[s].attempt = 0
           /\ \A t \in tracked : t[1][1] = st'[s].ts => t[1][2] < st'[s].attempt
<1> USE DEF DirectInv
<1>1. \A u \in Sends : st'[u].ts = st[u].ts /\ (st'[u].pc \in Storing <=> st[u].pc \in Storing)
  OBVIOUS
<1>2. \A u \in Sends :
          /\ st'[u].pc \in Through <=> st[u].pc \in Through
          /\ st'[u].pc = "read" <=> st[u].pc = "read"
          /\ st'[u].pc = "reserve" <=> st[u].pc = "reserve"
          /\ st'[u].pc = "failed" <=> st[u].pc = "failed"
  BY DEF Storing, Through, Waiting
<1>3. \A u \in Sends : (Owner(u)' <=> Owner(u)) /\ (Fixed(u)' <=> Fixed(u))
  BY DEF Owner, Fixed
<1>4. \A t : Chosen(t) => Chosen(t)'
  BY <1>1, <1>3, ChosenStays
<1>5. Reserving'
  BY <1>2, <1>3, SMTT(30) DEF Reserving
<1>6. st[s].pc \notin Through
  BY DEF Storing, Through, Waiting
<1>7. QED BY <1>4, <1>5, <1>6 DEF Tracking

\* send_msg returns: the packet may be on air, and the radio lock is free.
LEMMA SendMsgNext ==
    ASSUME DirectInv, NEW s \in Sends, SendMsg(s)
    PROVE  DirectInv'
<1> USE DEF DirectInv
<1>1. st[s].pc = "send" /\ st[s] \in Tasks /\ {"lock", "release"} \subseteq Pcs
  BY DEF SendMsg, Types, Pcs, Storing
<1>2. /\ \A u \in Sends : u # s => st'[u] = st[u]
      /\ st'[s].pc \in {"lock", "release"}
      /\ st'[s].ts = st[s].ts /\ st'[s].id = st[s].id /\ st'[s].attempt = st[s].attempt
      /\ st' \in [Sends -> Tasks]
  <2>1. ASSUME NEW coded \in BOOLEAN, st' = [st EXCEPT ![s].pc = "lock", ![s].coded = coded]
        PROVE  <1>2!:
    <3> DEFINE task == [st[s] EXCEPT !.pc = "lock", !.coded = coded]
    <3>1. task \in Tasks /\ task = [pc |-> "lock", ts |-> st[s].ts, attempt |-> st[s].attempt,
                                    id |-> st[s].id, coded |-> coded]
      BY <1>1, UpdatedCoded
    <3>2. st' = [st EXCEPT ![s] = task]
      BY <2>1 DEF Types
    <3>3. HIDE DEF task
    <3>4. QED BY <3>1, <3>2, TaskSet
  <2>2. CASE To(s, "release")
    BY <1>1, <2>2, Moved
  <2>3. QED BY <2>1, <2>2 DEF SendMsg
<1>3. /\ radio' = Free
      /\ transmitted \subseteq transmitted' /\ transmitted' \subseteq transmitted \cup {Code(s)}
      /\ UNCHANGED <<now, reserved, dmLock, rows, ackVars, echoVars>>
  BY DEF SendMsg
<1>4. Code(s) \in Codes
  BY <1>1, CandidateBound DEF Code, Codes, Tasks
<1>5. Types'
  BY <1>2, <1>3, <1>4 DEF Types, ackVars, echoVars
<1>6. Locks'
  BY <1>1, <1>2, <1>3, DirectMessagesAssumption DEF Locks, Choosing, echoVars
<1>7. Skipping'
  <2>1. \A t : Chosen(t) => Chosen(t)'
    BY <1>1, <1>2, <1>3, StoringMoves DEF Storing
  <2>2. Code(s)[1] = st[s].ts /\ Chosen(st[s].ts)
    BY <1>1 DEF Code, Chosen, Fixed, Owner, Storing
  <2>3. \A c \in transmitted' : Chosen(c[1])
    BY <1>3, <2>2 DEF Skipping
  <2>4. QED BY <1>1, <1>2, <1>3, <2>1, <2>3 DEF Skipping, echoVars
<1>8. Reserving'
  BY <1>1, <1>2, <1>3, StoringMoves DEF Storing
<1>9. Rowed'
  <2>1. st'[s].pc # "create" /\ st'[s].pc \notin Through /\ st[s].id = 0
    BY <1>1, <1>2 DEF Rowed, Through, Waiting
  <2>2. QED BY <1>2, <1>3, <2>1, RowedFrame DEF echoVars
<1>10. Tracking' /\ Underway' /\ Expecting' /\ Counting'
  <2>1. st'[s].attempt = 0 /\ \A t \in tracked : t[1][1] = st'[s].ts => t[1][2] < st'[s].attempt
    BY <1>1, <1>2 DEF Tracking, Storing, Through, Waiting
  <2>2. QED BY <1>1, <1>2, <1>3, <1>5, <2>1, MoveFrame DEF Through, Waiting
<1>11. QED BY <1>5, <1>6, <1>7, <1>8, <1>9, <1>10

\* A send moves on between taking the store lock and its row.
LEMMA StoreLocksNext ==
    ASSUME DirectInv, NEW s \in Sends, StoreLocks(s)
    PROVE  DirectInv'
<1> USE DEF DirectInv
<1>1. /\ st[s].pc = "lock" /\ dmLock = Free /\ dmLock' = s
      /\ UNCHANGED <<radioVars, rows, ackVars, echoVars>>
  BY DEF StoreLocks
<1>2. /\ \A u \in Sends : u # s => st'[u] = st[u]
      /\ st'[s].pc = "look" /\ st'[s].ts = st[s].ts /\ st'[s].id = st[s].id
      /\ st'[s].attempt = st[s].attempt /\ st' \in [Sends -> Tasks]
  BY Moved DEF StoreLocks, Pcs, Storing
<1>3. Types'
  BY <1>1, <1>2 DEF Types, radioVars, ackVars, echoVars
<1>4. Locks'
  BY <1>1, <1>2, DirectMessagesAssumption DEF Locks, Choosing, radioVars, echoVars
<1>5. Skipping'
  <2>1. \A t : Chosen(t) => Chosen(t)'
    BY <1>1, <1>2, StoringMoves DEF Storing, radioVars
  <2>2. QED BY <1>1, <1>2, <2>1 DEF Skipping, radioVars, echoVars
<1>6. Reserving'
  BY <1>1, <1>2, StoringMoves DEF Storing, radioVars
<1>7. Rowed'
  <2>1. st'[s].pc # "create" /\ st'[s].pc \notin Through /\ st[s].id = 0
    BY <1>1, <1>2 DEF Rowed, Through, Waiting
  <2>2. QED BY <1>1, <1>2, <2>1, RowedFrame DEF echoVars
<1>8. Tracking' /\ Underway' /\ Expecting' /\ Counting'
  <2>1. st'[s].attempt = 0 /\ \A t \in tracked : t[1][1] = st'[s].ts => t[1][2] < st'[s].attempt
    BY <1>1, <1>2 DEF Tracking, Storing, Through, Waiting
  <2>2. QED BY <1>1, <1>2, <1>3, <2>1, MoveFrame DEF Through, Waiting
<1>9. QED BY <1>3, <1>4, <1>5, <1>6, <1>7, <1>8

\* A look-up by content finds the one row there is.
LEMMA FirstFound ==
    ASSUME Types, Rowed, NEW ts, get_by_content(ts) # {}
    PROVE  First(get_by_content(ts)) \in DOMAIN rows /\ rows[First(get_by_content(ts))].ts = ts
<1>1. PICK id \in DOMAIN rows : rows[id].ts = ts
  BY DEF get_by_content
<1>2. get_by_content(ts) = {id} /\ id \in Nat
  BY <1>1, SMTT(30) DEF get_by_content, Rowed, Types
<1>3. First({id}) = id
  BY DEF First
<1>4. QED BY <1>1, <1>2, <1>3

\* create_outgoing_direct_message finds the row an echo has created, or none.
LEMMA StoreLooksUpNext ==
    ASSUME DirectInv, NEW s \in Sends, StoreLooksUp(s)
    PROVE  DirectInv'
<1> USE DEF DirectInv
<1>1. /\ st[s].pc = "look" /\ st[s] \in Tasks /\ {"release", "create"} \subseteq Pcs
      /\ UNCHANGED <<radioVars, rows, ackVars, echoVars>>
  BY DEF StoreLooksUp, Types, Pcs, Storing
<1>2. /\ \A u \in Sends : u # s => st'[u] = st[u]
      /\ st'[s].ts = st[s].ts /\ st'[s].attempt = st[s].attempt
      /\ st' \in [Sends -> Tasks]
      /\ \/ /\ st'[s].pc = "release" /\ dmLock' = Free
            /\ st'[s].id \in DOMAIN rows /\ rows[st'[s].id].ts = st[s].ts
         \/ /\ st'[s].pc = "create" /\ UNCHANGED dmLock
            /\ st'[s].id = st[s].id /\ get_by_content(st[s].ts) = {}
  <2> DEFINE id == First(get_by_content(st[s].ts))
             task == [st[s] EXCEPT !.pc = "release", !.id = id]
  <2>1. CASE /\ get_by_content(st[s].ts) # {}
             /\ st' = [st EXCEPT ![s].pc = "release", ![s].id = id]
             /\ dmLock' = Free
    <3>1. id \in DOMAIN rows /\ rows[id].ts = st[s].ts
      BY <2>1, FirstFound
    <3>2. id \in Nat
      BY <3>1 DEF Types
    <3>3. st' = [st EXCEPT ![s] = task]
      BY <2>1 DEF Types
    <3>4. HIDE DEF id
    <3>5. task \in Tasks /\ task = [pc |-> "release", ts |-> st[s].ts, attempt |-> st[s].attempt,
                                    id |-> id, coded |-> st[s].coded]
      BY <1>1, <3>2, UpdatedId
    <3>6. HIDE DEF task
    <3>7. /\ \A u \in Sends : u # s => st'[u] = st[u]
          /\ st'[s] = task /\ st' \in [Sends -> Tasks]
      BY <3>3, <3>5 DEF Types
    <3>8. /\ task.pc = "release"
          /\ task.ts = st[s].ts
          /\ task.attempt = st[s].attempt
          /\ task.id = id
      BY <3>5
    <3>9. QED BY <2>1, <3>1, <3>7, <3>8
  <2>2. CASE get_by_content(st[s].ts) = {} /\ To(s, "create") /\ UNCHANGED dmLock
    BY <1>1, <2>2, Moved
  <2>3. QED BY <2>1, <2>2 DEF StoreLooksUp
<1>3. Types'
  BY <1>1, <1>2 DEF Types, radioVars, ackVars, echoVars
<1>4. Locks'
  <2>1. radio' = radio /\ echo' = echo
    BY <1>1 DEF radioVars, echoVars
  <2>2. dmLock = s /\ dmLock' \in {s, Free} /\ (dmLock' = s <=> st'[s].pc = "create")
    BY <1>1, <1>2, DirectMessagesAssumption DEF Locks
  <2>3. \A u \in Sends : (radio' = u) <=> st'[u].pc \in Choosing \cup {"send", "resend"}
    <3>1. /\ st[s].pc \notin Choosing \cup {"send", "resend"}
          /\ st'[s].pc \notin Choosing \cup {"send", "resend"}
      BY <1>1, <1>2 DEF Choosing
    <3>2. QED BY <1>2, <2>1, <3>1 DEF Locks
  <2>4. \A u \in Sends : (dmLock' = u) <=> st'[u].pc \in {"look", "create"}
    <3>1. (dmLock' = s) <=> st'[s].pc \in {"look", "create"}
      BY <1>2, <2>2
    <3>2. ASSUME NEW u \in Sends, u # s
          PROVE  dmLock' # u /\ st'[u].pc \notin {"look", "create"}
      BY <1>2, <2>2, <3>2, DirectMessagesAssumption DEF Locks
    <3>3. QED BY <3>1, <3>2
  <2>5. \A e \in Echoes : (dmLock' = e) <=> echo'[e].pc \in {"look", "create"}
    BY <2>1, <2>2, DirectMessagesAssumption DEF Locks
  <2>6. QED BY <2>3, <2>4, <2>5 DEF Locks
<1>5. Skipping'
  <2>1. \A t : Chosen(t) => Chosen(t)'
    BY <1>1, <1>2, StoringMoves DEF Storing, radioVars
  <2>2. \A u \in Sends : st'[u].ts = st[u].ts /\ (st[u].pc = "idle" => st'[u].pc = "idle")
    BY <1>1, <1>2
  <2>3. QED BY <1>1, <2>1, <2>2 DEF Skipping, radioVars, echoVars
<1>6. Reserving'
  BY <1>1, <1>2, StoringMoves DEF Storing, radioVars
<1>7. Rowed'
  <2>1. \A ts : get_by_content(ts)' = get_by_content(ts)
    BY <1>1 DEF get_by_content
  <2>2. \A u \in Sends : st'[u].id # 0 =>
            /\ st'[u].pc \in {"release"} \cup Through
            /\ st'[u].id \in DOMAIN rows /\ rows[st'[u].id].ts = st'[u].ts
    <3>1. SUFFICES ASSUME NEW u \in Sends, st'[u].id # 0
                   PROVE  /\ st'[u].pc \in {"release"} \cup Through
                          /\ st'[u].id \in DOMAIN rows /\ rows[st'[u].id].ts = st'[u].ts
      OBVIOUS
    <3>2. CASE u # s
      <4>1. st'[u] = st[u]
        BY <1>2, <3>2
      <4>2. QED BY <3>1, <4>1 DEF Rowed
    <3>3. CASE u = s
      BY <1>1, <1>2, <3>1, <3>3 DEF Rowed, Through, Waiting
    <3>4. QED BY <3>2, <3>3
  <2>3. \A u \in Sends : st'[u].pc \in Through => st'[u].id # 0
    <3>1. st'[s].pc \notin Through
      BY <1>2 DEF Through, Waiting
    <3>2. \A u \in Sends : u # s => st'[u] = st[u]
      BY <1>2
    <3>3. QED BY <3>1, <3>2 DEF Rowed
  <2>4. \A u \in Sends : st'[u].pc = "create" => get_by_content(st'[u].ts) = {}
    BY <1>2, SMTT(30) DEF Rowed
  <2>5. QED BY <1>1, <2>1, <2>2, <2>3, <2>4 DEF Rowed, echoVars
<1>8. Tracking' /\ Underway' /\ Expecting' /\ Counting'
  <2>1. st'[s].attempt = 0 /\ \A t \in tracked : t[1][1] = st'[s].ts => t[1][2] < st'[s].attempt
    BY <1>1, <1>2 DEF Tracking, Storing, Through, Waiting
  <2>2. QED BY <1>1, <1>2, <1>3, <2>1, MoveFrame DEF Through, Waiting
<1>9. QED BY <1>3, <1>4, <1>5, <1>6, <1>7, <1>8

\* A new row keeps one row a timestamp when a look-up under the lock found none.
LEMMA InsertedAlone ==
    ASSUME DirectInv, NEW ts \in Timestamps, InsertRow(ts), get_by_content(ts) = {}
    PROVE  /\ \A i, j \in DOMAIN rows' : rows'[i].ts = rows'[j].ts => i = j
           /\ \A id \in DOMAIN rows : rows'[id].ts # ts
<1>1. /\ DOMAIN rows' = DOMAIN rows \cup {Len(rows) + 1}
      /\ \A id \in DOMAIN rows : rows'[id] = rows[id]
      /\ rows'[Len(rows) + 1].ts = ts
  BY Inserted DEF DirectInv
<1>2. \A id \in DOMAIN rows : rows[id].ts # ts
  BY DEF get_by_content
<1>3. \A i, j \in DOMAIN rows : rows[i].ts = rows[j].ts => i = j
  BY DEF DirectInv, Rowed
<1>4. QED BY <1>1, <1>2, <1>3

\* create_outgoing_direct_message inserts the row of the send.
LEMMA StoreCreatesNext ==
    ASSUME DirectInv, NEW s \in Sends, StoreCreates(s)
    PROVE  DirectInv'
<1> USE DEF DirectInv
<1>1. /\ st[s].pc = "create" /\ st[s] \in Tasks /\ "release" \in Pcs
      /\ InsertRow(st[s].ts) /\ dmLock' = Free
      /\ UNCHANGED <<radioVars, ackVars, echoVars>>
      /\ get_by_content(st[s].ts) = {}
  BY DEF StoreCreates, Types, Pcs, Storing, Rowed
<1>2. st[s].ts \in Timestamps
  BY <1>1, CandidateBound
<1>3. /\ rows' \in Seq([ts : Timestamps, acked : Nat])
      /\ DOMAIN rows' = DOMAIN rows \cup {Len(rows) + 1}
      /\ Len(rows) + 1 \in Nat \ {0} /\ Len(rows) + 1 \notin DOMAIN rows
      /\ \A id \in DOMAIN rows : rows'[id] = rows[id]
      /\ rows'[Len(rows) + 1].ts = st[s].ts /\ rows'[Len(rows) + 1].acked = 0
  BY <1>1, <1>2, Inserted
<1>4. /\ \A u \in Sends : u # s => st'[u] = st[u]
      /\ st'[s].pc = "release" /\ st'[s].ts = st[s].ts /\ st'[s].attempt = st[s].attempt
      /\ st'[s].id = Len(rows) + 1
      /\ st' \in [Sends -> Tasks]
  <2> DEFINE id == Len(rows) + 1
             task == [st[s] EXCEPT !.pc = "release", !.id = id]
  <2>1. st' = [st EXCEPT ![s] = task]
    BY DEF StoreCreates, Types
  <2>2. id \in Nat
    BY <1>3
  <2>3. HIDE DEF id
  <2>4. task \in Tasks /\ task = [pc |-> "release", ts |-> st[s].ts, attempt |-> st[s].attempt,
                                  id |-> id, coded |-> st[s].coded]
    BY <1>1, <2>2, UpdatedId
  <2>5. HIDE DEF task
  <2>6. /\ \A u \in Sends : u # s => st'[u] = st[u]
        /\ st'[s] = task /\ st' \in [Sends -> Tasks]
    BY <2>1, <2>4 DEF Types
  <2>7. task.pc = "release" /\ task.ts = st[s].ts /\ task.attempt = st[s].attempt /\ task.id = id
    BY <2>4
  <2>8. QED BY <2>6, <2>7 DEF id
<1>5. Types'
  BY <1>1, <1>3, <1>4 DEF Types, radioVars, ackVars, echoVars
<1>6. Locks'
  BY <1>1, <1>4, DirectMessagesAssumption, ZenonT(40) DEF Locks, Choosing, radioVars, echoVars
<1>7. Skipping'
  <2>1. \A t : Chosen(t) => Chosen(t)'
    BY <1>1, <1>4, StoringMoves DEF Storing, radioVars
  <2>2. \A u \in Sends : st'[u].ts = st[u].ts /\ (st[u].pc = "idle" => st'[u].pc = "idle")
    BY <1>1, <1>4
  <2>3. Chosen(st[s].ts)
    BY <1>1 DEF Chosen, Fixed, Owner, Storing
  <2>4. \A id \in DOMAIN rows' : Chosen(rows'[id].ts)
    BY <1>3, <2>3 DEF Skipping
  <2>5. QED BY <1>1, <2>1, <2>2, <2>4 DEF Skipping, radioVars, echoVars
<1>8. Reserving'
  BY <1>1, <1>4, StoringMoves DEF Storing, radioVars
<1>9. Rowed'
  <2>1. /\ \A u \in Sends : st'[u].pc # "create"
        /\ \A e \in Echoes : echo'[e].pc # "create"
    BY <1>1, <1>4, DirectMessagesAssumption, ZenonT(40) DEF Locks, echoVars
  <2>2. \A i, j \in DOMAIN rows' : rows'[i].ts = rows'[j].ts => i = j
    BY <1>1, <1>2, InsertedAlone
  <2>3. \A u \in Sends : st'[u].id # 0 =>
            /\ st'[u].pc \in {"release"} \cup Through
            /\ st'[u].id \in DOMAIN rows' /\ rows'[st'[u].id].ts = st'[u].ts
    <3>1. ASSUME NEW u \in Sends, u # s, st'[u].id # 0
          PROVE  /\ st'[u].pc \in {"release"} \cup Through
                 /\ st'[u].id \in DOMAIN rows' /\ rows'[st'[u].id].ts = st'[u].ts
      <4>1. st'[u] = st[u]
        BY <1>4, <3>1
      <4>2. /\ st[u].pc \in {"release"} \cup Through
            /\ st[u].id \in DOMAIN rows /\ rows[st[u].id].ts = st[u].ts
        BY <3>1, <4>1 DEF Rowed
      <4>3. st[u].id \in DOMAIN rows' /\ rows'[st[u].id] = rows[st[u].id]
        BY <1>3, <4>2
      <4>4. QED BY <4>1, <4>2, <4>3
    <3>2. /\ st'[s].pc \in {"release"} \cup Through
          /\ st'[s].id \in DOMAIN rows' /\ rows'[st'[s].id].ts = st'[s].ts
      BY <1>3, <1>4
    <3>3. QED BY <3>1, <3>2
  <2>4. \A u \in Sends : st'[u].pc \in Through => st'[u].id # 0
    <3>1. st'[s].id # 0
      BY <1>3, <1>4
    <3>2. ASSUME NEW u \in Sends, u # s, st'[u].pc \in Through
          PROVE  st'[u].id # 0
      <4>1. st'[u] = st[u]
        BY <1>4, <3>2
      <4>2. QED BY <3>2, <4>1 DEF Rowed
    <3>3. QED BY <3>1, <3>2
  <2>5. \A c \in Codes : linked'[c] # 0 => linked'[c] \in DOMAIN rows'
    BY <1>1, <1>3 DEF Rowed, echoVars
  <2>6. QED BY <2>1, <2>2, <2>3, <2>4, <2>5 DEF Rowed
<1>10. Tracking' /\ Underway' /\ Expecting' /\ Counting'
  <2>1. st'[s].attempt = 0 /\ \A t \in tracked : t[1][1] = st'[s].ts => t[1][2] < st'[s].attempt
    BY <1>1, <1>4, StoringMoves DEF Storing, radioVars
  <2>2. \A u \in Sends :
            /\ st[u].pc = "count" \/ st'[u].pc = "count" => st'[u] = st[u]
            /\ st[u].pc \in Through => st'[u].pc \in Through /\ st'[u].id = st[u].id
            /\ st'[u].pc \notin Through => st'[u].attempt = 0
            /\ st'[u].pc \in Storing \cup Waiting =>
                   \A t \in tracked : t[1][1] = st'[u].ts => t[1][2] < st'[u].attempt
    BY <1>1, <1>4, <2>1, ZenonT(40) DEF Tracking, Through, Waiting
  <2>3. /\ \A id \in DOMAIN rows : id \in DOMAIN rows' /\ rows'[id] = rows[id]
        /\ \A id \in DOMAIN rows' : id \notin DOMAIN rows => rows'[id].acked = 0
    BY <1>3
  <2>4. QED BY <1>1, <1>5, <2>2, <2>3, AckFrame
<1>11. QED BY <1>5, <1>6, <1>7, <1>8, <1>9, <1>10

\* The finally block frees the timestamp: the row stands for it, or the send
\* has failed.
LEMMA ReleaseTimestampNext ==
    ASSUME DirectInv, NEW s \in Sends, ReleaseTimestamp(s)
    PROVE  DirectInv'
<1> USE DEF DirectInv
<1>1. /\ st[s].pc = "release" /\ reserved' = reserved \ {st[s].ts}
      /\ UNCHANGED <<now, radio, transmitted, dmLock, rows, ackVars, echoVars>>
  BY DEF ReleaseTimestamp
<1>2. /\ \A u \in Sends : u # s => st'[u] = st[u]
      /\ st'[s].pc = IF st[s].id = 0 THEN "failed" ELSE "track"
      /\ st'[s].ts = st[s].ts /\ st'[s].id = st[s].id
      /\ st'[s].attempt = st[s].attempt /\ st' \in [Sends -> Tasks]
  BY Moved DEF ReleaseTimestamp, Pcs, Through, Waiting
<1>3. Types'
  BY <1>1, <1>2 DEF Types, ackVars, echoVars
<1>4. Locks'
  BY <1>1, <1>2 DEF Locks, Choosing, echoVars
<1>5. \A u \in Sends : st'[u].ts = st[u].ts /\ (st[u].pc = "idle" => st'[u].pc = "idle")
  BY <1>1, <1>2
<1>6. Skipping'
  <2>1. \A t : Chosen(t) => Chosen(t)'
    BY <1>2, ChosenStays DEF Fixed, Owner, Through, Waiting
  <2>2. QED BY <1>1, <1>5, <2>1 DEF Skipping, echoVars
<1>7. Reserving'
  <2>1. \A u \in Sends : Owner(u)' => Owner(u)
    BY <1>1, <1>2 DEF Owner, Storing
  <2>2. \A u \in Sends : st'[u].pc \in Storing => u # s /\ st[u].pc \in Storing
    BY <1>2 DEF Storing
  <2>3. \A u \in Sends : st'[u].pc \in Storing => st[u].ts # st[s].ts
    BY <1>1, <2>2 DEF Reserving, Owner, Storing
  <2>4. \A u \in Sends : /\ st'[u].pc = "read" => st[u].pc = "read"
                         /\ st'[u].pc = "reserve" => st[u].pc = "reserve"
                         /\ st[u].pc \in Through => st'[u].pc \in Through
    BY <1>1, <1>2 DEF Through, Waiting
  <2>5. \A u \in Sends : st'[u].pc \in Storing => st'[u].ts \in reserved'
    <3>1. SUFFICES ASSUME NEW u \in Sends, st'[u].pc \in Storing
                   PROVE  st'[u].ts \in reserved'
      OBVIOUS
    <3>2. st[u].ts \in reserved
      BY <2>2, <3>1 DEF Reserving
    <3>3. st[u].ts # st[s].ts /\ st'[u].ts = st[u].ts
      BY <1>5, <2>3, <3>1
    <3>4. QED BY <1>1, <3>2, <3>3
  <2>6. \A u, v \in Sends : Owner(u)' /\ Owner(v)' /\ st'[u].ts = st'[v].ts => u = v
    BY <1>5, <2>1 DEF Reserving
  <2>7. \A u, v \in Sends :
            st'[u].pc = "read" /\ Owner(v)' /\ st'[v].ts = st'[u].ts => st'[v].pc \in Through
    BY <1>5, <2>1, <2>4, SMTT(30) DEF Reserving
  <2>8. \A u, v \in Sends : st'[u].pc = "reserve" /\ Owner(v)' => st'[v].ts # st'[u].ts
    BY <1>5, <2>1, <2>4, SMTT(30) DEF Reserving
  <2>9. QED BY <2>5, <2>6, <2>7, <2>8 DEF Reserving
<1>8. Rowed'
  <2>1. st'[s].pc # "create" /\ (st[s].id # 0 <=> st'[s].pc \in Through)
    BY <1>2 DEF Through, Waiting
  <2>2. QED BY <1>1, <1>2, <2>1, RowedFrame DEF echoVars
<1>9. Tracking' /\ Underway' /\ Expecting' /\ Counting'
  <2>1. st'[s].attempt = 0 /\ \A t \in tracked : t[1][1] = st'[s].ts => t[1][2] < st'[s].attempt
    BY <1>1, <1>2 DEF Tracking, Storing, Through, Waiting
  <2>2. QED BY <1>1, <1>2, <1>3, <2>1, MoveFrame DEF Through, Waiting
<1>10. QED BY <1>3, <1>4, <1>6, <1>7, <1>8, <1>9

=============================================================================
