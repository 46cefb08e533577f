------------------------ MODULE DirectMessagesProofs ------------------------
(***************************************************************************)
(* The theorems about DirectMessages.  The invariant, its parts and the    *)
(* steps of a send up to its row are in DirectMessagesStoring; here are    *)
(* the retries, the ACKs and the echoes.                                   *)
(***************************************************************************)
EXTENDS DirectMessagesStoring

-----------------------------------------------------------------------------
(* The retry task.                                                         *)

\* A send that is through keeps its timestamp and its row, whatever it puts on
\* air.
LEMMA ThroughMoves ==
    ASSUME DirectInv, NEW s \in Sends, UNCHANGED <<reserved, rows, echoVars>>,
           \A u \in Sends : u # s => st'[u] = st[u],
           st[s].pc \in Through, st'[s].pc \in Through,
           st'[s].ts = st[s].ts, st'[s].id = st[s].id,
           transmitted \subseteq transmitted', transmitted' \subseteq transmitted \cup {Code(s)}
    PROVE  Skipping' /\ Reserving' /\ Rowed'
<1> USE DEF DirectInv, echoVars
<1>1. \A u \in Sends :
          /\ st'[u].ts = st[u].ts /\ st'[u].id = st[u].id
          /\ (st'[u].pc \in Through <=> st[u].pc \in Through)
          /\ st'[u].pc \notin Through => st'[u] = st[u]
          /\ st[u].pc = "idle" => st'[u].pc = "idle"
          /\ Owner(u)' <=> Owner(u)
          /\ Fixed(u)' <=> Fixed(u)
  BY DEF Owner, Fixed, Through, Waiting
<1>2. \A t : Chosen(t) => Chosen(t)'
  BY <1>1, ChosenStays
<1>3. \A c \in transmitted' : Chosen(c[1])
  BY DEF Skipping, Chosen, Fixed, Owner, Code
<1>4. Skipping'
  BY <1>1, <1>2, <1>3 DEF Skipping
<1>5. Reserving'
  BY <1>1 DEF Reserving, Storing, Through, Waiting
<1>6. Rowed'
  BY DEF Rowed, get_by_content, Through, Waiting
<1>7. QED BY <1>4, <1>5, <1>6

\* _is_message_acked, before and after the wait for the radio.
LEMMA RetryReadsNext ==
    ASSUME DirectInv, NEW s \in Sends, RetryWakes(s) \/ RetryRereads(s)
    PROVE  DirectInv'
<1> USE DEF DirectInv
<1>1. /\ st[s].pc \in {"sleep", "reread"}
      /\ UNCHANGED <<radioVars, dmLock, rows, ackVars, echoVars>>
      /\ \E pc \in {"done", "radio", "track"} : To(s, pc)
  BY DEF RetryWakes, RetryRereads
<1>2. /\ \A u \in Sends : u # s => st'[u] = st[u]
      /\ st'[s].pc \in {"done", "radio", "track"}
      /\ st'[s].ts = st[s].ts /\ st'[s].id = st[s].id
      /\ st'[s].attempt = st[s].attempt /\ st' \in [Sends -> Tasks]
  <2>1. PICK pc \in {"done", "radio", "track"} : To(s, pc)
    BY <1>1
  <2>2. pc \in Pcs
    BY DEF Pcs, Through, Waiting
  <2>3. QED BY <2>1, <2>2, Moved
<1>3. Types'
  BY <1>1, <1>2 DEF Types, radioVars, ackVars, echoVars
<1>4. Locks' /\ Skipping' /\ Reserving' /\ Rowed'
  <2>1. \A u \in Sends : \/ st'[u] = st[u]
                         \/ /\ st[u].pc \in Through \ {"resend"}
                            /\ st'[u].pc \in Through \ {"resend"}
                            /\ st'[u].ts = st[u].ts /\ st'[u].id = st[u].id
    BY <1>1, <1>2 DEF Through, Waiting
  <2>2. DOMAIN rows' = DOMAIN rows /\ \A id \in DOMAIN rows : rows'[id].ts = rows[id].ts
    BY <1>1
  <2>3. QED BY <1>1, <2>1, <2>2, StoreFrame
<1>5. Tracking' /\ Underway' /\ Expecting' /\ Counting'
  <2>1. \A t \in tracked : t[1][1] = st'[s].ts => t[1][2] < st'[s].attempt
    BY <1>1, <1>2 DEF Tracking, Waiting
  <2>2. QED BY <1>1, <1>2, <1>3, <2>1, MoveFrame DEF Through, Waiting
<1>6. QED BY <1>3, <1>4, <1>5

\* The retry waits for the radio operation lock.
LEMMA RetryTakesRadioNext ==
    ASSUME DirectInv, NEW s \in Sends, RetryTakesRadio(s)
    PROVE  DirectInv'
<1> USE DEF DirectInv
<1>1. /\ st[s].pc = "radio" /\ radio = Free /\ radio' = s
      /\ UNCHANGED <<now, reserved, transmitted, dmLock, rows, ackVars, echoVars>>
  BY DEF RetryTakesRadio
<1>2. /\ \A u \in Sends : u # s => st'[u] = st[u]
      /\ st'[s].pc = "resend" /\ st'[s].ts = st[s].ts /\ st'[s].id = st[s].id
      /\ st'[s].attempt = st[s].attempt /\ st' \in [Sends -> Tasks]
  BY Moved DEF RetryTakesRadio, Pcs, Through, Waiting
<1>3. Types'
  BY <1>1, <1>2 DEF Types, ackVars, echoVars
<1>4. Locks'
  BY <1>1, <1>2, DirectMessagesAssumption DEF Locks, echoVars
<1>5. Skipping' /\ Reserving' /\ Rowed'
  BY <1>1, <1>2, ThroughMoves DEF Through, Waiting
<1>6. Tracking' /\ Underway' /\ Expecting' /\ Counting'
  <2>1. \A t \in tracked : t[1][1] = st'[s].ts => t[1][2] < st'[s].attempt
    BY <1>1, <1>2 DEF Tracking, Waiting
  <2>2. QED BY <1>1, <1>2, <1>3, <2>1, MoveFrame DEF Through, Waiting
<1>7. QED BY <1>3, <1>4, <1>5, <1>6

\* The retry sends the next packet of the message and frees the radio.
LEMMA RetrySendsNext ==
    ASSUME DirectInv, NEW s \in Sends, RetrySends(s)
    PROVE  DirectInv'
<1> USE DEF DirectInv
<1>1. /\ st[s].pc = "resend" /\ radio' = Free /\ st[s] \in Tasks /\ "reread" \in Pcs
      /\ transmitted \subseteq transmitted' /\ transmitted' \subseteq transmitted \cup {Code(s)}
      /\ UNCHANGED <<now, reserved, dmLock, rows, ackVars, echoVars>>
  BY DEF RetrySends, Types, Pcs, Through, Waiting
<1>2. /\ \A u \in Sends : u # s => st'[u] = st[u]
      /\ \/ st'[s].pc = "reread" /\ st'[s].attempt = st[s].attempt
         \/ st'[s].pc = "sleep" /\ st'[s].attempt = st[s].attempt + 1
         \/ st'[s].pc = "done"
      /\ st'[s].ts = st[s].ts /\ st'[s].id = st[s].id /\ st' \in [Sends -> Tasks]
  <2>1. ASSUME NEW coded \in BOOLEAN, st' = [st EXCEPT ![s].pc = "reread", ![s].coded = coded]
        PROVE  <1>2!:
    <3> DEFINE task == [st[s] EXCEPT !.pc = "reread", !.coded = coded]
    <3>1. task \in Tasks /\ task = [pc |-> "reread", ts |-> st[s].ts, attempt |-> st[s].attempt,
                                    id |-> st[s].id, coded |-> coded]
      BY <1>1, UpdatedCoded
    <3>2. st' = [st EXCEPT ![s] = task]
      BY <2>1 DEF Types
    <3>3. HIDE DEF task
    <3>4. /\ \A u \in Sends : u # s => st'[u] = st[u]
          /\ st'[s] = task /\ st' \in [Sends -> Tasks]
      BY <3>1, <3>2 DEF Types
    <3>5. /\ task.pc = "reread" /\ task.ts = st[s].ts /\ task.attempt = st[s].attempt
          /\ task.id = st[s].id
      BY <3>1
    <3>6. QED BY <3>4, <3>5
  <2>2. CASE NextAttempt(s)
    BY <2>2, NextAttemptMoved
  <2>3. QED BY <2>1, <2>2 DEF RetrySends
<1>3. Code(s) \in Codes
  BY <1>1, CandidateBound DEF Code, Codes, Tasks
<1>4. Types'
  BY <1>1, <1>2, <1>3 DEF Types, ackVars, echoVars
<1>5. Locks'
  BY <1>1, <1>2, DirectMessagesAssumption DEF Locks, Choosing, echoVars
<1>6. Skipping' /\ Reserving' /\ Rowed'
  BY <1>1, <1>2, ThroughMoves DEF Through, Waiting
<1>7. Tracking' /\ Underway' /\ Expecting' /\ Counting'
  <2>1. \A t \in tracked : t[1][1] = st[s].ts => t[1][2] < st[s].attempt
    BY <1>1 DEF Tracking, Waiting
  <2>2. \A t \in tracked : t[1][2] \in Nat
    BY DEF Types, Codes
  <2>3. st'[s].pc # "done" =>
            \A t \in tracked : t[1][1] = st'[s].ts => t[1][2] < st'[s].attempt
    BY <1>1, <1>2, <2>1, <2>2 DEF Tasks
  <2>4. QED BY <1>1, <1>2, <1>4, <2>3, MoveFrame DEF Storing, Through, Waiting
<1>8. QED BY <1>4, <1>5, <1>6, <1>7

-----------------------------------------------------------------------------
(* The ACKs.                                                               *)

\* The code of a send that is about to register it was never registered.
LEMMA CodeFresh ==
    ASSUME DirectInv, NEW s \in Sends, st[s].pc = "track"
    PROVE  /\ Code(s) \in Codes /\ pending[Code(s)] = 0
           /\ \A t \in tracked : t[1] # Code(s)
           /\ st[s].id \in DOMAIN rows /\ st[s].id \in Nat \ {0}
           /\ rows[st[s].id].ts = st[s].ts
<1> USE DEF DirectInv
<1>1. Code(s) \in Codes
  BY CandidateBound DEF Code, Codes, Tasks, Types
<1>2. \A t \in tracked : t[1][1] = st[s].ts => t[1][2] < st[s].attempt
  BY DEF Tracking, Waiting
<1>3. st[s].attempt \in Nat /\ st[s].id \in Nat
  BY DEF Types, Tasks
<1>4. \A t \in tracked : t[1] # Code(s)
  BY <1>2, <1>3 DEF Code
<1>5. pending[Code(s)] = 0
  BY <1>1, <1>4 DEF Tracking
<1>6. st[s].id \in DOMAIN rows /\ st[s].id # 0 /\ rows[st[s].id].ts = st[s].ts
  BY DEF Rowed, Through, Waiting
<1>7. QED BY <1>1, <1>3, <1>4, <1>5, <1>6

\* Registering a code, claimed or not, for the row of the send.
LEMMA Registered ==
    ASSUME DirectInv, NEW s \in Sends, st[s].pc = "track",
           tracked' = tracked \cup {<<Code(s), st[s].id>>},
           UNCHANGED <<rows, applying, heard, expired>>,
           pending' \in [Codes -> Nat],
           \A c \in Codes : c # Code(s) => pending'[c] \in {0, pending[c]},
           pending'[Code(s)] \in {0, st[s].id},
           \A u \in Sends : u # s => st'[u] = st[u],
           st'[s].pc \in {"count", "sleep", "done"},
           st'[s].ts = st[s].ts, st'[s].id = st[s].id,
           st'[s].pc = "sleep" => st'[s].attempt = st[s].attempt + 1
    PROVE  Tracking'
<1> USE DEF DirectInv
<1> DEFINE c0 == Code(s)  id0 == st[s].id
<1>1. /\ c0 \in Codes /\ \A t \in tracked : t[1] # c0
      /\ id0 \in DOMAIN rows /\ rows[id0].ts = st[s].ts
  BY CodeFresh
<1>2. c0[1] = st[s].ts /\ c0[2] = st[s].attempt
  BY DEF Code
<1>3. <<c0, id0>>[1] = c0 /\ <<c0, id0>>[2] = id0
  OBVIOUS
<1>4. tracked' = tracked \cup {<<c0, id0>>}
  OBVIOUS
<1>5. \A u \in Sends : st'[u].pc \notin Through => st'[u].attempt = 0
  BY DEF Tracking, Through, Waiting
<1>6. \A t \in tracked' : t[2] \in DOMAIN rows /\ t[1][1] = rows[t[2]].ts
  BY <1>1, <1>2 DEF Tracking
<1>7. \A t \in tracked' : \E u \in Sends : st'[u].pc \in Through /\ st'[u].id = t[2]
  <2>1. \A u \in Sends : st[u].pc \in Through => st'[u].pc \in Through /\ st'[u].id = st[u].id
    BY DEF Through, Waiting
  <2>2. st'[s].pc \in Through
    BY DEF Through, Waiting
  <2>3. QED BY <2>2 DEF Tracking
<1>8. \A u \in Sends : st'[u].pc \in Storing \cup Waiting =>
          \A t \in tracked' : t[1][1] = st'[u].ts => t[1][2] < st'[u].attempt
  <2>1. CASE st'[s].pc = "sleep"
    <3>1. \A t \in tracked : t[1][1] = st[s].ts => t[1][2] < st[s].attempt
      BY DEF Tracking, Waiting
    <3>2. st[s].attempt \in Nat /\ \A t \in tracked : t[1][2] \in Nat
      BY DEF Types, Tasks, Codes
    <3>3. \A t \in tracked' : t[1][1] = st'[s].ts => t[1][2] < st'[s].attempt
      BY <1>2, <1>3, <1>4, <2>1, <3>1, <3>2
    <3>4. \A u \in Sends : u # s /\ st[u].pc \in Storing \cup Waiting => st[u].ts # st[s].ts
      BY DEF Reserving, Owner, Through, Waiting
    <3>5. QED BY <1>2, <3>3, <3>4 DEF Tracking
  <2>2. CASE st'[s].pc # "sleep"
    <3>1. st'[s].pc \notin Storing \cup Waiting
      BY <2>2 DEF Storing, Waiting
    <3>2. \A u \in Sends : u # s /\ st[u].pc \in Storing \cup Waiting => st[u].ts # st[s].ts
      BY DEF Reserving, Owner, Through, Waiting
    <3>3. QED BY <1>2, <3>1, <3>2, SMTT(30) DEF Tracking
  <2>3. QED BY <2>1, <2>2
<1>9. \A t, u \in tracked' : t[1] = u[1] => t = u
  BY <1>1 DEF Tracking
<1>10. \A c \in Codes : pending'[c] # 0 => <<c, pending'[c]>> \in tracked'
  BY DEF Tracking
<1>11. QED BY <1>5, <1>6, <1>7, <1>8, <1>9 DEF Tracking

\* track_pending_ack: an ACK that came first is taken from the buffer, else the
\* code waits for it.
LEMMA TrackAckNext ==
    ASSUME DirectInv, NEW s \in Sends, TrackAck(s)
    PROVE  DirectInv'
<1> USE DEF DirectInv
<1> DEFINE c0 == Code(s)  id0 == st[s].id
<1>1. /\ st[s].pc = "track"
      /\ UNCHANGED <<radioVars, dmLock, rows, applying, hears, heard, expired, echoVars>>
  BY DEF TrackAck
<1>2. /\ c0 \in Codes /\ pending[c0] = 0 /\ \A t \in tracked : t[1] # c0
      /\ id0 \in DOMAIN rows /\ id0 \in Nat \ {0}
  BY <1>1, CodeFresh
<1>3. ASSUME \A u \in Sends : u # s => st'[u] = st[u],
             st'[s].pc \in {"count", "sleep", "done"},
             st'[s].ts = st[s].ts, st'[s].id = st[s].id
      PROVE  Locks' /\ Skipping' /\ Reserving' /\ Rowed'
  <2>1. \A u \in Sends : \/ st'[u] = st[u]
                         \/ /\ st[u].pc \in Through \ {"resend"}
                            /\ st'[u].pc \in Through \ {"resend"}
                            /\ st'[u].ts = st[u].ts /\ st'[u].id = st[u].id
    BY <1>1, <1>3 DEF Through, Waiting
  <2>2. DOMAIN rows' = DOMAIN rows /\ \A id \in DOMAIN rows : rows'[id].ts = rows[id].ts
    BY <1>1
  <2>3. QED BY <1>1, <2>1, <2>2, StoreFrame
<1>4. CASE /\ ~st[s].coded
           /\ IF st[s].attempt = 0 THEN To(s, "done") ELSE NextAttempt(s)
           /\ UNCHANGED <<pending, buffered, tracked>>
  <2>1. /\ \A u \in Sends : u # s => st'[u] = st[u]
        /\ \/ st'[s].pc = "sleep" /\ st'[s].attempt = st[s].attempt + 1
           \/ st'[s].pc = "done"
        /\ st'[s].ts = st[s].ts /\ st'[s].id = st[s].id /\ st' \in [Sends -> Tasks]
    <3>1. CASE To(s, "done")
      BY <3>1, Moved DEF Pcs, Through
    <3>2. CASE NextAttempt(s)
      BY <3>2, NextAttemptMoved
    <3>3. QED BY <1>4, <3>1, <3>2
  <2>2. UNCHANGED ackVars
    BY <1>1, <1>4 DEF ackVars
  <2>3. Types'
    BY <1>1, <1>4, <2>1 DEF Types, radioVars, echoVars
  <2>4. \A t \in tracked : t[1][1] = st[s].ts => t[1][2] < st[s].attempt
    BY <1>1 DEF Tracking, Waiting
  <2>5. st[s].attempt \in Nat /\ \A t \in tracked : t[1][2] \in Nat
    BY DEF Types, Tasks, Codes
  <2>6. st'[s].pc # "done" =>
            \A t \in tracked : t[1][1] = st'[s].ts => t[1][2] < st'[s].attempt
    BY <2>1, <2>4, <2>5
  <2>7. Tracking' /\ Underway' /\ Expecting' /\ Counting'
    BY <1>1, <2>1, <2>2, <2>3, <2>6, MoveFrame DEF Storing, Through, Waiting
  <2>8. QED BY <1>3, <2>1, <2>3, <2>7
<1>5. CASE /\ c0 \in buffered /\ buffered' = buffered \ {c0}
           /\ pending' = ClearPendingFor(id0, pending)
           /\ tracked' = tracked \cup {<<c0, id0>>}
           /\ To(s, "count")
  <2>1. /\ \A u \in Sends : u # s => st'[u] = st[u]
        /\ st'[s].pc = "count" /\ st'[s].attempt = st[s].attempt
        /\ st'[s].ts = st[s].ts /\ st'[s].id = st[s].id /\ st' \in [Sends -> Tasks]
    BY <1>5, Moved DEF Pcs, Through
  <2>2. Code(s)' = c0
    BY <2>1 DEF Code
  <2>3. /\ pending' \in [Codes -> Nat]
        /\ \A c \in Codes : pending'[c] = IF pending[c] = id0 THEN 0 ELSE pending[c]
    BY <1>5 DEF Types, ClearPendingFor
  <2>4. c0 \in heard
    BY <1>5 DEF Types
  <2>5. <<c0, id0>>[1] = c0 /\ <<c0, id0>>[2] = id0 /\ <<c0, id0>> \in Codes \X Nat
    BY <1>2
  <2>6. /\ tracked' = tracked \cup {<<c0, id0>>}
        /\ applying' = applying
        /\ applying \subseteq tracked
        /\ \A t \in tracked : t[1] \in Codes
    BY <1>1, <1>5 DEF Types
  <2>7. Types'
    BY <1>1, <1>5, <2>1, <2>3, <2>5 DEF Types, radioVars, echoVars
  <2>8. HIDE DEF c0, id0
  <2>9. Tracking'
    BY <1>1, <1>2, <1>5, <2>1, <2>3, Registered DEF c0, id0
  <2>10. Underway'
    <3>1. \A u \in Sends : u # s => Code(u)' = Code(u)
      BY <2>1 DEF Code
    <3>2. \A u \in Sends : st[u].pc = "count" => Code(u) \in Codes /\ Code(u) # c0
      BY <1>2, <2>6 DEF Underway
    <3>3. \A a \in applying' : a[1] \in heard' /\ pending'[a[1]] = 0 /\ a[1] # c0
      BY <1>1, <1>2, <2>3, <2>6 DEF Underway
    <3>4. \A u \in Sends : st'[u].pc = "count" =>
              /\ <<Code(u)', st'[u].id>> \in tracked'
              /\ Code(u)' \in heard'
              /\ pending'[Code(u)'] = 0
      BY <1>1, <1>2, <2>1, <2>2, <2>3, <2>4, <2>6, <3>1, SMTT(30) DEF Underway, id0
    <3>5. \A u \in Sends : \A a \in applying' : st'[u].pc = "count" => a[1] # Code(u)'
      BY <2>1, <2>2, <2>6, <3>1, <3>3 DEF Underway
    <3>6. QED BY <3>3, <3>4, <3>5 DEF Underway
  <2>11. Expecting'
    <3>1. \A id : Good(id) => Good(id)'
      BY <1>1, <2>1 DEF Good, Acked
    <3>2. \A id : id = id0 => Good(id)'
      BY <2>1 DEF Good, id0
    <3>3. \A c \in heard' \ expired' : c \in buffered' \/ \E t \in tracked' : t[1] = c
      BY <1>1, <1>5, <2>5 DEF Expecting
    <3>4. \A t \in tracked' : t[1] \in heard' \ expired' => pending'[t[1]] = 0
      BY <1>1, <1>2, <2>3, <2>6 DEF Expecting
    <3>5. \A t \in tracked : pending[t[1]] # 0 => t[2] = pending[t[1]]
      <4>1. TAKE t \in tracked
      <4>2. HAVE pending[t[1]] # 0
      <4>3. <<t[1], pending[t[1]]>> \in tracked
        BY <2>6, <4>2 DEF Tracking
      <4>4. QED BY <4>3 DEF Tracking
    <3>6. \A t \in tracked' : t[1] \notin expired' /\ pending'[t[1]] = 0 => Good(t[2])'
      <4>1. ASSUME NEW t \in tracked, t[1] \notin expired, pending'[t[1]] = 0
            PROVE  Good(t[2])'
        <5>1. t[1] \in Codes /\ (pending[t[1]] = 0 \/ pending[t[1]] = id0)
          BY <2>3, <2>6, <4>1
        <5>2. CASE pending[t[1]] = 0
          BY <3>1, <4>1, <5>2 DEF Expecting
        <5>3. CASE pending[t[1]] = id0
          BY <1>2, <3>2, <3>5, <5>3
        <5>4. QED BY <5>1, <5>2, <5>3
      <4>2. QED BY <1>1, <2>5, <2>6, <3>2, <4>1
    <3>7. QED BY <3>3, <3>4, <3>6 DEF Expecting
  <2>12. Counting'
    <3>1. \A id : Spent(id) \subseteq Spent(id)'
      <4>1. \A id : \A c \in heard : <<c, id>> \in tracked => c # c0 /\ c \in Codes
        BY <1>2, <2>6
      <4>2. \A id : \A c \in heard : <<c, id>> \in tracked =>
                \A u \in Sends : Counts(u, c, id)' => Counts(u, c, id)
        BY <2>1, <2>2, <4>1 DEF Counts, Code
      <4>3. QED BY <1>1, <2>3, <2>6, <4>2 DEF Spent
    <3>2. \A id : /\ Cardinality(Spent(id)) \in Nat /\ Cardinality(Spent(id)') \in Nat
                  /\ Cardinality(Spent(id)) <= Cardinality(Spent(id)')
      BY <2>7, <3>1, SpentGrows
    <3>3. \A id \in DOMAIN rows : rows[id].acked \in Nat
      BY RowTyped
    <3>4. QED BY <1>1, <3>2, <3>3 DEF Counting
  <2>13. QED BY <1>3, <2>1, <2>7, <2>9, <2>10, <2>11, <2>12
<1>6. CASE /\ c0 \notin buffered /\ UNCHANGED buffered
           /\ pending' = [pending EXCEPT ![c0] = id0]
           /\ tracked' = tracked \cup {<<c0, id0>>}
           /\ NextAttempt(s)
  <2>1. /\ \A u \in Sends : u # s => st'[u] = st[u]
        /\ \/ st'[s].pc = "sleep" /\ st'[s].attempt = st[s].attempt + 1
           \/ st'[s].pc = "done"
        /\ st'[s].ts = st[s].ts /\ st'[s].id = st[s].id /\ st' \in [Sends -> Tasks]
    BY <1>6, NextAttemptMoved
  <2>2. /\ pending' \in [Codes -> Nat] /\ pending'[c0] = id0
        /\ \A c \in Codes : c # c0 => pending'[c] = pending[c]
    BY <1>2, <1>6 DEF Types
  <2>3. <<c0, id0>>[1] = c0 /\ <<c0, id0>>[2] = id0 /\ <<c0, id0>> \in Codes \X Nat
    BY <1>2
  <2>4. /\ tracked' = tracked \cup {<<c0, id0>>}
        /\ applying' = applying
        /\ applying \subseteq tracked
        /\ \A t \in tracked : t[1] \in Codes
    BY <1>1, <1>6 DEF Types
  <2>5. Types'
    BY <1>1, <1>6, <2>1, <2>3 DEF Types, radioVars, echoVars
  <2>6. HIDE DEF c0, id0
  <2>7. Tracking'
    BY <1>1, <1>6, <2>1, <2>2, Registered DEF c0, id0
  <2>8. \A u \in Sends : st'[u].pc = "count" => st[u].pc = "count" /\ st'[u] = st[u]
    BY <2>1
  <2>9. \A u \in Sends : st[u].pc = "count" => st'[u] = st[u]
    BY <1>1, <2>1
  <2>10. Underway'
    <3>1. \A u \in Sends : st'[u].pc = "count" => Code(u)' = Code(u)
      BY <2>8 DEF Code
    <3>2. \A u \in Sends : st[u].pc = "count" => Code(u) \in Codes /\ Code(u) # c0
      BY <1>2, <2>4 DEF Underway
    <3>3. \A a \in applying' : a[1] \in heard' /\ pending'[a[1]] = 0
      BY <1>1, <1>2, <2>2, <2>4 DEF Underway
    <3>4. \A u \in Sends : st'[u].pc = "count" =>
              /\ <<Code(u)', st'[u].id>> \in tracked'
              /\ Code(u)' \in heard'
              /\ pending'[Code(u)'] = 0
      BY <1>1, <2>2, <2>4, <2>8, <3>1, <3>2, SMTT(30) DEF Underway
    <3>5. \A u \in Sends : \A a \in applying' : st'[u].pc = "count" => a[1] # Code(u)'
      BY <2>4, <2>8, <3>1, SMTT(30) DEF Underway
    <3>6. QED BY <3>3, <3>4, <3>5 DEF Underway
  <2>11. Expecting'
    <3>1. \A id : Good(id) => Good(id)'
      BY <1>1, <2>9 DEF Good, Acked
    <3>2. \A c \in heard' \ expired' : c \in buffered' \/ \E t \in tracked' : t[1] = c
      BY <1>1, <1>6 DEF Expecting
    <3>3. c0 \notin heard \ expired
      BY <1>2, <1>6 DEF Expecting
    <3>4. \A t \in tracked' : t[1] \in heard' \ expired' => pending'[t[1]] = 0
      BY <1>1, <2>2, <2>4, <3>3 DEF Expecting
    <3>5. \A t \in tracked' : t[1] \notin expired' /\ pending'[t[1]] = 0 => Good(t[2])'
      BY <1>1, <1>2, <2>2, <2>4, <3>1, SMTT(30) DEF Expecting
    <3>6. QED BY <3>2, <3>4, <3>5 DEF Expecting
  <2>12. Counting'
    <3>1. \A id : Spent(id) \subseteq Spent(id)'
      <4>1. \A id : \A c \in heard : <<c, id>> \in tracked => c # c0 /\ c \in Codes
        BY <1>2, <2>4
      <4>2. \A id, c : \A u \in Sends : Counts(u, c, id)' => Counts(u, c, id)
        BY <2>8 DEF Counts, Code
      <4>3. QED BY <1>1, <2>2, <2>4, <4>1, <4>2 DEF Spent
    <3>2. \A id : /\ Cardinality(Spent(id)) \in Nat /\ Cardinality(Spent(id)') \in Nat
                  /\ Cardinality(Spent(id)) <= Cardinality(Spent(id)')
      BY <2>5, <3>1, SpentGrows
    <3>3. \A id \in DOMAIN rows : rows[id].acked \in Nat
      BY RowTyped
    <3>4. QED BY <1>1, <3>2, <3>3 DEF Counting
  <2>13. QED BY <1>3, <2>1, <2>5, <2>7, <2>10, <2>11, <2>12
<1>7. QED BY <1>4, <1>5, <1>6 DEF TrackAck

\* An increment keeps what holds of the ACKs, when the code it counts is spent
\* with it.
LEMMA CountsOne ==
    ASSUME DirectInv, Types', NEW c \in Codes, NEW id \in DOMAIN rows, increment_ack_count(id),
           c \notin Spent(id), c \in Spent(id)',
           \A i : Spent(i) \subseteq Spent(i)'
    PROVE  Counting'
<1> USE DEF DirectInv
<1>1. /\ DOMAIN rows' = DOMAIN rows
      /\ \A i \in DOMAIN rows : i # id => rows'[i] = rows[i]
      /\ rows'[id].acked = rows[id].acked + 1
  BY Incremented
<1>2. \A i \in DOMAIN rows : rows[i].acked \in Nat
  BY RowTyped
<1>3. \A i : /\ Cardinality(Spent(i)) \in Nat /\ Cardinality(Spent(i)') \in Nat
             /\ Cardinality(Spent(i)) <= Cardinality(Spent(i)')
  BY SpentGrows
<1>4. Cardinality(Spent(id)) + 1 <= Cardinality(Spent(id)')
  BY SpentOneMore
<1>5. rows'[id].acked <= Cardinality(Spent(id)')
  BY <1>1, <1>2, <1>3, <1>4, SMTT(30) DEF Counting
<1>6. \A i \in DOMAIN rows : i # id => rows'[i].acked <= Cardinality(Spent(i)')
  BY <1>1, <1>2, <1>3, SMTT(30) DEF Counting
<1>7. QED BY <1>1, <1>5, <1>6 DEF Counting

\* An increment leaves no row less acknowledged.
LEMMA AckedStays ==
    ASSUME DirectInv, NEW id \in DOMAIN rows, increment_ack_count(id)
    PROVE  Acked(id)' /\ \A i \in DOMAIN rows : Acked(i) => Acked(i)'
<1>1. /\ \A i \in DOMAIN rows : i # id => rows'[i] = rows[i]
      /\ rows[id].acked \in Nat /\ rows'[id].acked = rows[id].acked + 1
  BY Incremented DEF DirectInv
<1>2. QED BY <1>1 DEF Acked

\* The sender counts the ACK it found in the buffer.
LEMMA CountBufferedAckNext ==
    ASSUME DirectInv, NEW s \in Sends, CountBufferedAck(s)
    PROVE  DirectInv'
<1> USE DEF DirectInv
<1>1. /\ st[s].pc = "count" /\ increment_ack_count(st[s].id)
      /\ UNCHANGED <<radioVars, dmLock, ackVars, echoVars>>
  BY DEF CountBufferedAck
<1>2. /\ \A u \in Sends : u # s => st'[u] = st[u]
      /\ st'[s].pc = "done" /\ st'[s].attempt = st[s].attempt
      /\ st'[s].ts = st[s].ts /\ st'[s].id = st[s].id /\ st' \in [Sends -> Tasks]
  BY Moved DEF CountBufferedAck, Pcs, Through
<1>3. /\ <<Code(s), st[s].id>> \in tracked /\ Code(s) \in heard /\ pending[Code(s)] = 0
      /\ st[s].id \in DOMAIN rows /\ Code(s) \in Codes
  BY <1>1 DEF Underway, Rowed, Through, Types
<1>4. /\ rows' \in Seq([ts : Timestamps, acked : Nat]) /\ DOMAIN rows' = DOMAIN rows
      /\ \A i \in DOMAIN rows : rows'[i].ts = rows[i].ts
  BY <1>1, <1>3, Incremented
<1>5. Types'
  BY <1>1, <1>2, <1>4 DEF Types, radioVars, ackVars, echoVars
<1>6. Locks' /\ Skipping' /\ Reserving' /\ Rowed'
  <2>1. \A u \in Sends : \/ st'[u] = st[u]
                         \/ /\ st[u].pc \in Through \ {"resend"}
                            /\ st'[u].pc \in Through \ {"resend"}
                            /\ st'[u].ts = st[u].ts /\ st'[u].id = st[u].id
    BY <1>1, <1>2 DEF Through
  <2>2. QED BY <1>1, <1>4, <2>1, StoreFrame
<1>7. \A u \in Sends : st'[u].pc = "count" => st[u].pc = "count" /\ st'[u] = st[u]
  BY <1>2
<1>8. Tracking'
  <2>1. \A u \in Sends :
            /\ st[u].pc \in Through => st'[u].pc \in Through /\ st'[u].id = st[u].id
            /\ st'[u].pc \notin Through => st'[u] = st[u]
            /\ st'[u].pc \in Storing \cup Waiting => st'[u] = st[u]
    BY <1>2 DEF Storing, Through, Waiting
  <2>2. UNCHANGED <<tracked, pending>>
    BY <1>1 DEF ackVars
  <2>3. \A u \in Sends : st'[u].pc \notin Through => st'[u].attempt = 0
    BY <2>1 DEF Tracking
  <2>4. \A t \in tracked : t[2] \in DOMAIN rows' /\ t[1][1] = rows'[t[2]].ts
    BY <1>4 DEF Tracking
  <2>5. \A t \in tracked : \E u \in Sends : st'[u].pc \in Through /\ st'[u].id = t[2]
    BY <2>1, SMTT(30) DEF Tracking
  <2>6. \A u \in Sends : st'[u].pc \in Storing \cup Waiting =>
            \A t \in tracked : t[1][1] = st'[u].ts => t[1][2] < st'[u].attempt
    BY <2>1 DEF Tracking
  <2>7. QED BY <2>2, <2>3, <2>4, <2>5, <2>6 DEF Tracking
<1>9. Underway'
  <2>1. \A u \in Sends : st'[u].pc = "count" => Code(u)' = Code(u)
    BY <1>7 DEF Code
  <2>2. QED BY <1>1, <1>7, <2>1, SMTT(30) DEF Underway, ackVars
<1>10. Expecting'
  <2>1. \A i \in DOMAIN rows : Acked(i) => Acked(i)'
    BY <1>1, <1>3, AckedStays
  <2>2. \A i \in DOMAIN rows : i = st[s].id => Acked(i)'
    <3>1. PICK i : i = st[s].id
      OBVIOUS
    <3>2. Acked(i)'
      BY <1>1, <1>3, <3>1, AckedStays
    <3>3. QED BY <3>1, <3>2
  <2>3. \A i \in DOMAIN rows : Good(i) => Good(i)'
    BY <1>1, <1>2, <2>1, <2>2 DEF Good, ackVars
  <2>4. \A t \in tracked : t[2] \in DOMAIN rows
    BY DEF Tracking
  <2>5. QED BY <1>1, <2>3, <2>4 DEF Expecting, ackVars
<1>11. Counting'
  <2>1. PICK c, id : c = Code(s) /\ id = st[s].id
    OBVIOUS
  <2>2. \A u \in Sends : u # s /\ st[u].pc = "count" => st[u].id # id
    <3>1. SUFFICES ASSUME NEW u \in Sends, u # s, st[u].pc = "count", st[u].id = id
                   PROVE  FALSE
      OBVIOUS
    <3>2. st[u].ts = st[s].ts
      BY <2>1, <3>1, SMTT(30) DEF Rowed, Through
    <3>3. QED BY <1>1, <3>1, <3>2 DEF Reserving, Owner, Through
  <2>3. \A i, d : \A u \in Sends : Counts(u, d, i)' => Counts(u, d, i)
    BY <1>7 DEF Counts, Code
  <2>4. \A i : Spent(i) \subseteq Spent(i)'
    BY <1>1, <2>3 DEF Spent, ackVars
  <2>5. Counts(s, c, id) /\ c \notin Spent(id)
    BY <1>1, <2>1 DEF Counts, Spent
  <2>6. \A u \in Sends : ~Counts(u, c, id)'
    BY <1>2, <2>2 DEF Counts
  <2>7. <<c, id>> \notin applying
    BY <1>1, <2>1 DEF Underway
  <2>8. c \in Spent(id)'
    BY <1>1, <1>3, <2>1, <2>6, <2>7 DEF Spent, ackVars
  <2>9. c \in Codes /\ id \in DOMAIN rows /\ increment_ack_count(id)
    BY <1>1, <1>3, <2>1
  <2>10. QED BY <1>5, <2>4, <2>5, <2>8, <2>9, CountsOne
<1>12. QED BY <1>5, <1>6, <1>8, <1>9, <1>10, <1>11

\* apply_dm_ack_code counts the ACK it has claimed.
LEMMA CountAckNext ==
    ASSUME DirectInv, NEW a \in applying, CountAck(a)
    PROVE  DirectInv'
<1> USE DEF DirectInv
<1>1. /\ applying' = applying \ {a} /\ increment_ack_count(a[2])
      /\ UNCHANGED <<radioVars, dmLock, st, pending, buffered, hears, heard, expired, tracked,
                     echoVars>>
  BY DEF CountAck
<1>2. /\ a \in tracked /\ a = <<a[1], a[2]>> /\ a[1] \in Codes /\ a[2] \in DOMAIN rows
      /\ a[1] \in heard /\ pending[a[1]] = 0
  BY SMTT(30) DEF Types, Tracking, Underway
<1>3. /\ rows' \in Seq([ts : Timestamps, acked : Nat]) /\ DOMAIN rows' = DOMAIN rows
      /\ \A i \in DOMAIN rows : rows'[i].ts = rows[i].ts
  BY <1>1, <1>2, Incremented
<1>4. Types'
  BY <1>1, <1>3 DEF Types, radioVars, echoVars
<1>5. Locks' /\ Skipping' /\ Reserving' /\ Rowed'
  BY <1>1, <1>3, StoreFrame
<1>6. Tracking'
  BY <1>1, <1>3 DEF Tracking
<1>7. Underway'
  BY <1>1 DEF Underway, Code
<1>8. Expecting'
  <2>1. Acked(a[2])' /\ \A i \in DOMAIN rows : Acked(i) => Acked(i)'
    BY <1>1, <1>2, AckedStays
  <2>2. \A i \in DOMAIN rows : Good(i) => Good(i)'
    BY <1>1, <2>1 DEF Good
  <2>3. \A t \in tracked : t[2] \in DOMAIN rows
    BY DEF Tracking
  <2>4. QED BY <1>1, <2>2, <2>3 DEF Expecting
<1>9. Counting'
  <2>1. \A i, d : \A u \in Sends : Counts(u, d, i)' <=> Counts(u, d, i)
    BY <1>1 DEF Counts, Code
  <2>2. \A i : Spent(i) \subseteq Spent(i)'
    BY <1>1, <2>1 DEF Spent
  <2>3. a[1] \notin Spent(a[2])
    BY <1>2 DEF Spent
  <2>4. \A u \in Sends : ~Counts(u, a[1], a[2])
    BY DEF Counts, Underway
  <2>5. a[1] \in Spent(a[2])'
    BY <1>1, <1>2, <2>1, <2>4 DEF Spent
  <2>6. QED BY <1>1, <1>2, <1>4, <2>2, <2>3, <2>5, CountsOne
<1>10. QED BY <1>4, <1>5, <1>6, <1>7, <1>8, <1>9

\* apply_dm_ack_code drops what is too old, then claims the code or buffers it.
LEMMA ApplyAckNext ==
    ASSUME DirectInv, NEW c \in Codes, ApplyAck(c)
    PROVE  DirectInv'
<1> USE DEF DirectInv
<1>1. /\ c \in transmitted /\ heard' = heard \cup {c}
      /\ UNCHANGED <<radioVars, dmLock, rows, st, tracked, echoVars>>
  BY DEF ApplyAck
<1>2. PICK old \in SUBSET ({code \in Codes : pending[code] # 0} \cup buffered) :
          LET table == [code \in Codes |-> IF code \in old THEN 0 ELSE pending[code]]
          IN  /\ expired' = expired \cup old
              /\ \/ /\ table[c] # 0
                    /\ pending' = ClearPendingFor(table[c], table)
                    /\ applying' = applying \cup {<<c, table[c]>>}
                    /\ buffered' = buffered \ old
                 \/ /\ table[c] = 0
                    /\ pending' = table
                    /\ buffered' = (buffered \ old) \cup {c}
                    /\ UNCHANGED applying
  BY DEF ApplyAck
<1>3. \A t \in tracked : t[1] \in Codes /\ t = <<t[1], t[2]>>
  BY DEF Types
<1>4. \A t \in tracked : pending[t[1]] # 0 => t[2] = pending[t[1]]
  <2>1. TAKE t \in tracked
  <2>2. HAVE pending[t[1]] # 0
  <2>3. <<t[1], pending[t[1]]>> \in tracked
    BY <1>3, <2>2 DEF Tracking
  <2>4. QED BY <2>3 DEF Tracking
<1>5. /\ expired' = expired \cup old
      /\ \/ /\ c \notin old /\ pending[c] # 0
            /\ \A d \in Codes : pending'[d] = IF d \in old \/ pending[d] = pending[c]
                                              THEN 0 ELSE pending[d]
            /\ applying' = applying \cup {<<c, pending[c]>>}
            /\ buffered' = buffered \ old
         \/ /\ c \in old \/ pending[c] = 0
            /\ \A d \in Codes : pending'[d] = IF d \in old THEN 0 ELSE pending[d]
            /\ buffered' = (buffered \ old) \cup {c}
            /\ applying' = applying
  BY <1>2 DEF ClearPendingFor
<1>6. pending' \in [Codes -> Nat]
  <2> DEFINE table == [code \in Codes |-> IF code \in old THEN 0 ELSE pending[code]]
  <2>1. table \in [Codes -> Nat]
    BY DEF Types
  <2>2. HIDE DEF table
  <2>3. pending' = table \/ pending' = ClearPendingFor(table[c], table)
    BY <1>2 DEF table
  <2>4. QED BY <2>1, <2>3 DEF ClearPendingFor
<1>7. HIDE <1>2
<1>8. \A d \in Codes : pending'[d] \in {0, pending[d]}
  BY <1>5
<1>9. applying \subseteq applying' /\ applying' \subseteq tracked
  BY <1>5 DEF Types, Tracking
<1>10. Types'
  <2>1. buffered' \subseteq heard' /\ heard' \subseteq transmitted
    BY <1>1, <1>5 DEF Types
  <2>2. QED BY <1>1, <1>6, <1>9, <2>1 DEF Types, radioVars, echoVars
<1>11. Locks' /\ Skipping' /\ Reserving' /\ Rowed'
  BY <1>1, StoreFrame
<1>12. Tracking'
  BY <1>1, <1>8 DEF Tracking
<1>13. \A u \in Sends : Code(u)' = Code(u)
  BY <1>1 DEF Code
<1>14. Underway'
  <2>1. \A a \in applying' : a[1] \in heard' /\ pending'[a[1]] = 0
    <3>1. \A a \in applying : a[1] \in heard /\ pending'[a[1]] = 0
      BY <1>8 DEF Underway, Types
    <3>2. CASE applying' = applying
      BY <1>1, <3>1, <3>2
    <3>3. CASE applying' = applying \cup {<<c, pending[c]>>} /\ pending'[c] = 0
      BY <1>1, <3>1, <3>3
    <3>4. QED BY <1>5, <3>2, <3>3
  <2>2. \A u \in Sends : st[u].pc = "count" =>
            <<Code(u), st[u].id>> \in tracked /\ Code(u) \in heard' /\ pending'[Code(u)] = 0
    BY <1>1, <1>3, <1>8 DEF Underway
  <2>3. \A u \in Sends : \A a \in applying' : st[u].pc = "count" => a[1] # Code(u)
    <3>1. \A a \in applying' : a \in applying \/ (a[1] = c /\ pending[c] # 0)
      BY <1>5, SMTT(30)
    <3>2. QED BY <3>1 DEF Underway
  <2>4. QED BY <1>1, <1>13, <2>1, <2>2, <2>3 DEF Underway
<1>15. Expecting'
  <2>1. \A d \in heard' \ expired' : d \in buffered' \/ \E t \in tracked : t[1] = d
    <3>1. \A d \in heard \ expired' : d \in buffered' \/ \E t \in tracked : t[1] = d
      BY <1>5 DEF Expecting
    <3>2. c \in buffered' \/ <<c, pending[c]>> \in tracked
      BY <1>5 DEF Tracking
    <3>3. QED BY <1>1, <3>1, <3>2
  <2>2. \A t \in tracked : t[1] \in heard' \ expired' => pending'[t[1]] = 0
    <3>1. pending'[c] = 0
      BY <1>5
    <3>2. \A t \in tracked : t[1] \in heard \ expired => pending'[t[1]] = 0
      BY <1>3, <1>8 DEF Expecting
    <3>3. QED BY <1>1, <1>5, <3>1, <3>2
  <2>3. \A i : Good(i) => Good(i)'
    BY <1>1, <1>9 DEF Good, Acked
  <2>4. ASSUME NEW t \in tracked, t[1] \notin expired', pending'[t[1]] = 0
        PROVE  Good(t[2])'
    <3>1. CASE pending[t[1]] = 0
      BY <1>5, <2>3, <2>4, <3>1 DEF Expecting
    <3>2. CASE pending[t[1]] # 0
      <4>1. t[1] \notin old /\ t[2] = pending[t[1]]
        BY <1>4, <1>5, <2>4, <3>2
      <4>2. pending[t[1]] = pending[c] /\ <<c, pending[c]>> \in applying'
        BY <1>3, <1>5, <2>4, <3>2, <4>1
      <4>3. <<c, pending[c]>>[2] = t[2]
        BY <4>1, <4>2
      <4>4. QED BY <4>2, <4>3 DEF Good
    <3>3. QED BY <3>1, <3>2
  <2>5. QED BY <1>1, <2>1, <2>2, <2>4 DEF Expecting
<1>16. Counting'
  <2>1. \A i, d : \A u \in Sends : Counts(u, d, i)' <=> Counts(u, d, i)
    BY <1>1, <1>13 DEF Counts
  <2>2. \A d, i : pending[d] = 0 /\ <<d, i>> \notin applying => <<d, i>> \notin applying'
    BY <1>5
  <2>3. \A i : Spent(i) \subseteq Spent(i)'
    <3>1. SUFFICES ASSUME NEW i, NEW d \in Spent(i) PROVE d \in Spent(i)'
      OBVIOUS
    <3>2. /\ d \in heard /\ <<d, i>> \in tracked /\ pending[d] = 0 /\ <<d, i>> \notin applying
          /\ \A u \in Sends : ~Counts(u, d, i)
      BY DEF Spent
    <3>3. d \in Codes /\ pending'[d] = 0
      BY <1>3, <1>8, <3>2
    <3>4. QED BY <1>1, <2>1, <2>2, <3>3 DEF Spent
  <2>4. \A i : /\ Cardinality(Spent(i)) \in Nat /\ Cardinality(Spent(i)') \in Nat
               /\ Cardinality(Spent(i)) <= Cardinality(Spent(i)')
    BY <1>10, <2>3, SpentGrows
  <2>5. \A id \in DOMAIN rows : rows[id].acked \in Nat
    BY RowTyped
  <2>6. QED BY <1>1, <2>4, <2>5, SMTT(30) DEF Counting
<1>17. QED BY <1>10, <1>11, <1>12, <1>14, <1>15, <1>16

-----------------------------------------------------------------------------
(* The echoes.                                                             *)

\* What a step of the packet processor leaves of one echo.
LEMMA EchoMoved ==
    ASSUME Types, NEW e \in Echoes, NEW pc \in {"look", "create", "done"},
           echo' = [echo EXCEPT ![e].pc = pc]
    PROVE  /\ \A f \in Echoes : f # e => echo'[f] = echo[f]
           /\ echo'[e].pc = pc /\ echo'[e].code = echo[e].code
           /\ echo' \in [Echoes -> [pc : {"idle", "lock", "look", "create", "done"},
                                    code : Codes \cup {<<0, 0>>}]]
BY DEF Types

\* An echo that neither stores nor links touches only itself and the lock.
LEMMA EchoFrame ==
    ASSUME DirectInv, NEW e \in Echoes, UNCHANGED <<radioVars, rows, st, ackVars>>,
           \A f \in Echoes : f # e => echo'[f] = echo[f],
           echo' \in [Echoes -> [pc : {"idle", "lock", "look", "create", "done"},
                                 code : Codes \cup {<<0, 0>>}]],
           echo'[e].pc # "idle", echo'[e].code \in transmitted,
           echo'[e].pc = "create" => get_by_content(echo'[e].code[1]) = {},
           linked' \in [Codes -> Nat],
           \A c \in Codes : linked'[c] # 0 => linked'[c] \in DOMAIN rows
    PROVE  /\ Types' /\ Skipping' /\ Reserving' /\ Rowed'
           /\ Tracking' /\ Underway' /\ Expecting' /\ Counting'
<1> USE DEF DirectInv
<1>1. Types'
  BY DEF Types, radioVars, ackVars
<1>2. \A u \in Sends : Owner(u)' <=> Owner(u)
  BY DEF Owner
<1>3. \A t : Chosen(t)' <=> Chosen(t)
  BY <1>2 DEF Chosen, Fixed
<1>4. Skipping'
  <2>1. \A f \in Echoes : echo'[f].pc # "idle" => echo'[f].code \in transmitted
    BY DEF Skipping
  <2>2. QED BY <1>3 DEF Skipping, radioVars
<1>5. Reserving'
  BY <1>2 DEF Reserving, radioVars
<1>6. Rowed'
  <2>1. \A t : get_by_content(t)' = get_by_content(t)
    BY DEF get_by_content
  <2>2. \A f \in Echoes : echo'[f].pc = "create" => get_by_content(echo'[f].code[1]) = {}
    BY DEF Rowed
  <2>3. QED BY <2>1, <2>2 DEF Rowed
<1>7. Tracking' /\ Underway' /\ Expecting' /\ Counting'
  BY <1>1, AckFrame DEF Tracking
<1>8. QED BY <1>1, <1>4, <1>5, <1>6, <1>7

\* Our packet is heard back, and its task waits for the store lock.
LEMMA EchoArrivesNext ==
    ASSUME DirectInv, NEW e \in Echoes, NEW c \in Codes, EchoArrives(e, c)
    PROVE  DirectInv'
<1> USE DEF DirectInv
<1>1. /\ echo[e].pc = "idle" /\ c \in transmitted
      /\ echo' = [echo EXCEPT ![e] = [pc |-> "lock", code |-> c]]
      /\ UNCHANGED <<radioVars, dmLock, rows, st, ackVars, linked>>
  BY DEF EchoArrives
<1>2. /\ \A f \in Echoes : f # e => echo'[f] = echo[f]
      /\ echo'[e].pc = "lock" /\ echo'[e].code = c
      /\ echo' \in [Echoes -> [pc : {"idle", "lock", "look", "create", "done"},
                               code : Codes \cup {<<0, 0>>}]]
  BY <1>1 DEF Types
<1>3. Locks'
  <2>1. \A f \in Echoes : (dmLock' = f) <=> echo'[f].pc \in {"look", "create"}
    BY <1>1, <1>2 DEF Locks
  <2>2. radio' = radio /\ dmLock' = dmLock /\ st' = st
    BY <1>1 DEF radioVars
  <2>3. QED BY <2>1, <2>2 DEF Locks
<1>4. linked' \in [Codes -> Nat] /\ \A d \in Codes : linked'[d] # 0 => linked'[d] \in DOMAIN rows
  BY <1>1 DEF Types, Rowed
<1>5. QED BY <1>1, <1>2, <1>3, <1>4, EchoFrame

\* _store_direct_message takes the store lock.
LEMMA EchoLocksNext ==
    ASSUME DirectInv, NEW e \in Echoes, EchoLocks(e)
    PROVE  DirectInv'
<1> USE DEF DirectInv
<1>1. /\ echo[e].pc = "lock" /\ dmLock = Free /\ dmLock' = e
      /\ echo' = [echo EXCEPT ![e].pc = "look"]
      /\ UNCHANGED <<radioVars, rows, st, ackVars, linked>>
  BY DEF EchoLocks
<1>2. /\ \A f \in Echoes : f # e => echo'[f] = echo[f]
      /\ echo'[e].pc = "look" /\ echo'[e].code = echo[e].code
      /\ echo' \in [Echoes -> [pc : {"idle", "lock", "look", "create", "done"},
                               code : Codes \cup {<<0, 0>>}]]
  BY <1>1, EchoMoved
<1>3. Locks'
  BY <1>1, <1>2, DirectMessagesAssumption DEF Locks, radioVars
<1>4. linked' \in [Codes -> Nat] /\ \A d \in Codes : linked'[d] # 0 => linked'[d] \in DOMAIN rows
  BY <1>1 DEF Types, Rowed
<1>5. echo[e].code \in transmitted
  BY <1>1 DEF Skipping
<1>6. QED BY <1>1, <1>2, <1>3, <1>4, <1>5, EchoFrame

\* It finds the row of its packet or of its content, or none.
LEMMA EchoLooksUpNext ==
    ASSUME DirectInv, NEW e \in Echoes, EchoLooksUp(e)
    PROVE  DirectInv'
<1> USE DEF DirectInv
<1> DEFINE c == echo[e].code
           existing == IF linked[c] # 0 THEN {linked[c]} ELSE get_by_content(c[1])
<1>1. /\ echo[e].pc = "look" /\ c \in transmitted /\ c \in Codes
      /\ UNCHANGED <<radioVars, rows, st, ackVars>>
  BY DEF EchoLooksUp, Skipping, Types
<1>2. linked \in [Codes -> Nat] /\ \A d \in Codes : linked[d] # 0 => linked[d] \in DOMAIN rows
  BY DEF Types, Rowed
<1>3. CASE /\ existing # {}
           /\ linked' = [linked EXCEPT ![c] = First(existing)]
           /\ echo' = [echo EXCEPT ![e].pc = "done"]
           /\ dmLock' = Free
  <2>1. First(existing) \in DOMAIN rows
    <3>1. CASE linked[c] # 0
      <4>1. existing = {linked[c]} /\ linked[c] \in Nat /\ linked[c] \in DOMAIN rows
        BY <1>1, <1>2, <3>1
      <4>2. First({linked[c]}) = linked[c]
        BY DEF First
      <4>3. QED BY <4>1, <4>2
    <3>2. CASE linked[c] = 0
      <4>1. existing = get_by_content(c[1])
        BY <3>2
      <4>2. QED BY <1>3, <4>1, FirstFound
    <3>3. QED BY <3>1, <3>2
  <2>2. First(existing) \in Nat
    BY <2>1, SMTT(30) DEF Types
  <2>3. /\ \A f \in Echoes : f # e => echo'[f] = echo[f]
        /\ echo'[e].pc = "done" /\ echo'[e].code = c
        /\ echo' \in [Echoes -> [pc : {"idle", "lock", "look", "create", "done"},
                                 code : Codes \cup {<<0, 0>>}]]
    BY <1>3, EchoMoved
  <2>4. Locks'
    BY <1>1, <1>3, <2>3, DirectMessagesAssumption DEF Locks, radioVars
  <2>5. /\ linked' \in [Codes -> Nat]
        /\ \A d \in Codes : linked'[d] # 0 => linked'[d] \in DOMAIN rows
    <3>1. HIDE DEF existing
    <3>2. QED BY <1>1, <1>2, <1>3, <2>1, <2>2
  <2>6. QED BY <1>1, <2>3, <2>4, <2>5, EchoFrame
<1>4. CASE /\ existing = {}
           /\ echo' = [echo EXCEPT ![e].pc = "create"]
           /\ UNCHANGED <<dmLock, linked>>
  <2>1. get_by_content(c[1]) = {}
    BY <1>4
  <2>2. /\ \A f \in Echoes : f # e => echo'[f] = echo[f]
        /\ echo'[e].pc = "create" /\ echo'[e].code = c
        /\ echo' \in [Echoes -> [pc : {"idle", "lock", "look", "create", "done"},
                                 code : Codes \cup {<<0, 0>>}]]
    BY <1>4, EchoMoved
  <2>3. Locks'
    BY <1>1, <1>4 DEF Locks, radioVars
  <2>4. /\ linked' \in [Codes -> Nat]
        /\ \A d \in Codes : linked'[d] # 0 => linked'[d] \in DOMAIN rows
    BY <1>2, <1>4
  <2>5. QED BY <1>1, <2>1, <2>2, <2>3, <2>4, EchoFrame
<1>5. QED BY <1>3, <1>4 DEF EchoLooksUp

\* It stores the row itself when it comes before the send that caused it.
LEMMA EchoCreatesNext ==
    ASSUME DirectInv, NEW e \in Echoes, EchoCreates(e)
    PROVE  DirectInv'
<1> USE DEF DirectInv
<1> DEFINE c == echo[e].code
<1>1. /\ echo[e].pc = "create" /\ InsertRow(c[1]) /\ dmLock' = Free
      /\ linked' = [linked EXCEPT ![c] = Len(rows) + 1]
      /\ echo' = [echo EXCEPT ![e].pc = "done"]
      /\ UNCHANGED <<radioVars, st, ackVars>>
      /\ c \in transmitted /\ c \in Codes /\ c[1] \in Timestamps
      /\ get_by_content(c[1]) = {}
  <2>1. echo[e].pc = "create"
    BY DEF EchoCreates
  <2>2. c \in transmitted /\ get_by_content(c[1]) = {}
    BY <2>1 DEF Skipping, Rowed
  <2>3. c \in Codes
    BY <2>2 DEF Types
  <2>4. c[1] \in Timestamps
    BY <2>3 DEF Codes
  <2>5. QED BY <2>2, <2>3, <2>4 DEF EchoCreates
<1>2. /\ rows' \in Seq([ts : Timestamps, acked : Nat])
      /\ DOMAIN rows' = DOMAIN rows \cup {Len(rows) + 1}
      /\ Len(rows) + 1 \in Nat \ {0} /\ Len(rows) + 1 \notin DOMAIN rows
      /\ \A id \in DOMAIN rows : rows'[id] = rows[id]
      /\ rows'[Len(rows) + 1].ts = c[1] /\ rows'[Len(rows) + 1].acked = 0
  BY <1>1, Inserted
<1>3. /\ \A f \in Echoes : f # e => echo'[f] = echo[f]
      /\ echo'[e].pc = "done" /\ echo'[e].code = c
      /\ echo' \in [Echoes -> [pc : {"idle", "lock", "look", "create", "done"},
                               code : Codes \cup {<<0, 0>>}]]
  BY <1>1, EchoMoved
<1>4. /\ linked' \in [Codes -> Nat]
      /\ \A d \in Codes : linked'[d] # 0 => linked'[d] \in DOMAIN rows'
  <2> DEFINE id == Len(rows) + 1
  <2>1. id \in Nat /\ DOMAIN rows' = DOMAIN rows \cup {id} /\ linked' = [linked EXCEPT ![c] = id]
    BY <1>1, <1>2
  <2>2. linked \in [Codes -> Nat] /\ \A d \in Codes : linked[d] # 0 => linked[d] \in DOMAIN rows
    BY DEF Types, Rowed
  <2>3. HIDE DEF id
  <2>4. QED BY <1>1, <2>1, <2>2
<1>5. Types'
  BY <1>1, <1>2, <1>3, <1>4 DEF Types, radioVars, ackVars
<1>6. Locks'
  BY <1>1, <1>3, DirectMessagesAssumption DEF Locks, radioVars
<1>7. \A u \in Sends : Owner(u)' <=> Owner(u)
  BY <1>1 DEF Owner
<1>8. \A t : Chosen(t)' <=> Chosen(t)
  BY <1>1, <1>7 DEF Chosen, Fixed
<1>9. Skipping'
  <2>1. \A f \in Echoes : echo'[f].pc # "idle" => echo'[f].code \in transmitted
    BY <1>1 DEF Skipping
  <2>2. \A id \in DOMAIN rows' : Chosen(rows'[id].ts)
    BY <1>1, <1>2 DEF Skipping
  <2>3. QED BY <1>1, <1>8, <2>2 DEF Skipping, radioVars
<1>10. Reserving'
  BY <1>1, <1>7 DEF Reserving, radioVars
<1>11. Rowed'
  <2>1. /\ \A u \in Sends : st'[u].pc # "create"
        /\ \A f \in Echoes : echo'[f].pc # "create"
    BY <1>1, <1>3, DirectMessagesAssumption DEF Locks
  <2>2. \A i, j \in DOMAIN rows' : rows'[i].ts = rows'[j].ts => i = j
    BY <1>1, InsertedAlone
  <2>3. \A u \in Sends : st[u].id # 0 =>
            /\ st[u].pc \in {"release"} \cup Through
            /\ st[u].id \in DOMAIN rows' /\ rows'[st[u].id].ts = st[u].ts
    BY <1>2 DEF Rowed
  <2>4. QED BY <1>1, <1>4, <2>1, <2>2, <2>3 DEF Rowed
<1>12. Tracking' /\ Underway' /\ Expecting' /\ Counting'
  <2>1. /\ \A id \in DOMAIN rows : id \in DOMAIN rows' /\ rows'[id] = rows[id]
        /\ \A id \in DOMAIN rows' : id \notin DOMAIN rows => rows'[id].acked = 0
    BY <1>2
  <2>2. QED BY <1>1, <1>5, <2>1, AckFrame DEF Tracking
<1>13. QED BY <1>5, <1>6, <1>9, <1>10, <1>11, <1>12

-----------------------------------------------------------------------------
(* The invariant, and what it says.                                        *)

LEMMA InvInit ==
    ASSUME Init
    PROVE  DirectInv
<1> USE DEF Init
<1>1. \A s \in Sends : /\ st[s].pc = "idle" /\ st[s].ts = 0 /\ st[s].attempt = 0
                       /\ st[s].id = 0
  OBVIOUS
<1>2. \A e \in Echoes : echo[e].pc = "idle"
  OBVIOUS
<1>3. DOMAIN rows = {} /\ rows \in Seq([ts : Timestamps, acked : Nat])
  BY SMTT(30)
<1>4. Types
  <2>1. st \in [Sends -> Tasks]
    BY DirectMessagesAssumption, SMTT(30) DEF Tasks, Pcs
  <2>2. QED BY <2>1, DirectMessagesAssumption, SMTT(30) DEF Types
<1>5. Locks
  BY DirectMessagesAssumption DEF Locks, Choosing
<1>6. Skipping
  BY SMTT(30) DEF Skipping
<1>7. Reserving
  BY DEF Reserving, Storing, Owner, Through, Waiting
<1>8. Rowed
  <2>1. /\ \A s \in Sends : st[s].id = 0 /\ st[s].pc # "create" /\ st[s].pc \notin Through
        /\ \A e \in Echoes : echo[e].pc # "create"
    BY <1>1, <1>2 DEF Through, Waiting
  <2>2. \A c \in Codes : linked[c] = 0
    OBVIOUS
  <2>3. DOMAIN rows = {}
    BY <1>3
  <2> HIDE DEF Init
  <2>4. QED BY <2>1, <2>2, <2>3 DEF Rowed
<1>9. Tracking
  BY DEF Tracking
<1>10. Underway
  BY DEF Underway
<1>11. Expecting /\ Counting
  BY SMTT(30) DEF Expecting, Counting
<1>12. QED
  BY <1>4, <1>5, <1>6, <1>7, <1>8, <1>9, <1>10, <1>11 DEF DirectInv

LEMMA InvStutter ==
    ASSUME DirectInv, UNCHANGED vars
    PROVE  DirectInv'
<1> USE DEF DirectInv, vars, radioVars, echoVars
<1>1. Types'
  BY DEF Types, ackVars
<1>2. Locks' /\ Skipping' /\ Reserving' /\ Rowed'
  BY StoreFrame
<1>3. Tracking' /\ Underway' /\ Expecting' /\ Counting'
  BY <1>1, AckFrame DEF Tracking
<1>4. QED BY <1>1, <1>2, <1>3

LEMMA InvNext ==
    ASSUME DirectInv, [Next]_vars
    PROVE  DirectInv'
<1>1. ASSUME NEW s \in Sends, SendTakesRadio(s) \/ Send(s)
      PROVE  DirectInv'
  <2>1. CASE SendTakesRadio(s)
    BY <2>1, SendTakesRadioNext
  <2>2. CASE AllocateChecks(s) \/ AllocateReads(s) \/ AllocateReserves(s)
    BY <2>2, AllocateChecksNext, AllocateReadsNext, AllocateReservesNext
  <2>3. CASE SendMsg(s)
    BY <2>3, SendMsgNext
  <2>4. CASE StoreLocks(s) \/ StoreLooksUp(s) \/ StoreCreates(s)
    BY <2>4, StoreLocksNext, StoreLooksUpNext, StoreCreatesNext
  <2>5. CASE ReleaseTimestamp(s)
    BY <2>5, ReleaseTimestampNext
  <2>6. CASE TrackAck(s) \/ CountBufferedAck(s)
    BY <2>6, TrackAckNext, CountBufferedAckNext
  <2>7. CASE RetryWakes(s) \/ RetryRereads(s)
    BY <2>7, RetryReadsNext
  <2>8. CASE RetryTakesRadio(s) \/ RetrySends(s)
    BY <2>8, RetryTakesRadioNext, RetrySendsNext
  <2>9. QED BY <1>1, <2>1, <2>2, <2>3, <2>4, <2>5, <2>6, <2>7, <2>8 DEF Send
<1>2. ASSUME NEW c \in Codes, ApplyAck(c)
      PROVE  DirectInv'
  BY <1>2, ApplyAckNext
<1>3. ASSUME NEW a \in applying, CountAck(a)
      PROVE  DirectInv'
  BY <1>3, CountAckNext
<1>4. ASSUME NEW e \in Echoes, NEW c \in Codes, EchoArrives(e, c)
      PROVE  DirectInv'
  BY <1>4, EchoArrivesNext
<1>5. ASSUME NEW e \in Echoes, Echo(e)
      PROVE  DirectInv'
  BY <1>5, EchoLocksNext, EchoLooksUpNext, EchoCreatesNext DEF Echo
<1>6. CASE UNCHANGED vars
  BY <1>6, InvStutter
<1>7. QED BY <1>1, <1>2, <1>3, <1>4, <1>5, <1>6 DEF Next

\* The invariant of sending, storing, tracking and retrying direct messages.
THEOREM DirectInvariant == Spec => []DirectInv
<1>1. Init => DirectInv
  BY InvInit
<1>2. DirectInv /\ [Next]_vars => DirectInv'
  BY InvNext
<1>3. QED BY <1>1, <1>2, PTL DEF Spec

\* The state has its shape, the radio operation lock is held by the send between
\* SendTakesRadio and the answer of send_msg, the store lock by whoever stores.
THEOREM DirectShape == Spec => []TypeOK
<1>1. ASSUME DirectInv PROVE TypeOK
  <2> USE <1>1 DEF DirectInv
  <2>1. \A s \in Sends : st[s].id \in {0} \cup DOMAIN rows
    BY DEF Rowed
  <2>2. reserved \subseteq Timestamps
    <3>1. \A t \in reserved : \E s \in Sends : st[s].pc # "idle" /\ st[s].ts = t
      BY DEF Skipping, Chosen, Fixed, Owner, Storing, Through, Waiting
    <3>2. QED BY <3>1, CandidateBound
  <2>3. \A id \in DOMAIN rows : rows[id].ts \in Timestamps /\ rows[id].acked \in Nat
    BY RowTyped
  <2>4. pending \in [Codes -> {0} \cup DOMAIN rows]
    <3>1. \A c \in Codes : pending[c] # 0 => pending[c] \in DOMAIN rows
      <4>1. TAKE c \in Codes
      <4>2. HAVE pending[c] # 0
      <4>3. <<c, pending[c]>> \in tracked
        BY <4>2 DEF Tracking
      <4>4. <<c, pending[c]>>[2] \in DOMAIN rows
        BY <4>3 DEF Tracking
      <4>5. QED BY <4>4
    <3>2. QED BY <3>1 DEF Types
  <2>5. linked \in [Codes -> {0} \cup DOMAIN rows]
    BY DEF Types, Rowed
  <2>6. QED BY <2>1, <2>2, <2>3, <2>4, <2>5 DEF TypeOK, Types, Locks, Choosing
<1>2. QED BY <1>1, DirectInvariant, PTL

\* Two sends of one text to one contact never end up on one row
\* (allocate_outgoing_sender_timestamp and its reservations).
THEOREM EverySendItsRow == Spec => []OwnRow
<1>1. ASSUME DirectInv PROVE OwnRow
  <2>1. SUFFICES ASSUME NEW s \in Sends, NEW t \in Sends, st[s].id # 0, st[s].id = st[t].id
                 PROVE  s = t
    BY DEF OwnRow
  <2>2. st[s].ts = st[t].ts /\ Owner(s) /\ Owner(t)
    BY <1>1, <2>1 DEF DirectInv, Rowed, Owner, Storing
  <2>3. QED BY <1>1, <2>2 DEF DirectInv, Reserving
<1>2. QED BY <1>1, DirectInvariant, PTL

\* A send and the echoes of its packets share one row (the store lock and the
\* look-ups of create_outgoing_direct_message and _store_direct_message).
THEOREM OneRowForSendAndEcho == Spec => []OneRowPerTimestamp
<1>1. DirectInv => OneRowPerTimestamp
  BY DEF DirectInv, Rowed, OneRowPerTimestamp
<1>2. QED BY <1>1, DirectInvariant, PTL

\* An ACK heard for a registered code is counted on the row of its packet,
\* before or after the registration, unless a clean-up dropped the code.
THEOREM AckCounted == Spec => []AckNotLost
<1>1. DirectInv => AckNotLost
  BY DEF DirectInv, Expecting, AckNotLost, Good
<1>2. QED BY <1>1, DirectInvariant, PTL

\* A row counts at most the codes of its own packets that were heard: duplicate
\* reports of an ACK count once (apply_dm_ack_code pops the code).
THEOREM AckCountedOnce == Spec => []AckPerCode
<1>1. ASSUME DirectInv PROVE AckPerCode
  <2> USE <1>1 DEF DirectInv
  <2>1. SUFFICES ASSUME NEW id \in DOMAIN rows
                 PROVE  rows[id].acked <= Cardinality({c \in heard : c[1] = rows[id].ts})
    BY DEF AckPerCode
  <2> DEFINE own == {c \in heard : c[1] = rows[id].ts}
  <2>2. own \subseteq Codes
    BY DEF Types
  <2>3. Spent(id) \subseteq own
    BY DEF Spent, Tracking
  <2>4. /\ Cardinality(own) \in Nat /\ Cardinality(Spent(id)) \in Nat
        /\ Cardinality(Spent(id)) <= Cardinality(own)
    BY <2>2, <2>3, FewerCodes
  <2>5. rows[id].acked \in Nat /\ rows[id].acked <= Cardinality(Spent(id))
    BY RowTyped DEF Counting
  <2>6. QED BY <2>4, <2>5
<1>2. QED BY <1>1, DirectInvariant, PTL

\* No step takes a stored message away, moves it to another timestamp or takes
\* back an ACK it has counted.
RowKept(id) ==
    id \in DOMAIN rows' /\ rows'[id].ts = rows[id].ts /\ rows'[id].acked >= rows[id].acked
AcksStay == [][\A id \in DOMAIN rows : RowKept(id)]_vars

\* Messages stay, and their ACK counts only grow: the rows change by
\* InsertRow and increment_ack_count alone.
THEOREM RowsOnlyGrow == Spec => AcksStay
<1>1. ASSUME DirectInv, [Next]_vars
      PROVE  [\A id \in DOMAIN rows : RowKept(id)]_vars
  <2> USE <1>1 DEF DirectInv
  <2>1. \A id \in DOMAIN rows : rows[id].acked \in Nat
    BY RowTyped
  <2>2. CASE UNCHANGED rows
    BY <2>1, <2>2 DEF RowKept
  <2>3. ASSUME NEW ts \in Timestamps, InsertRow(ts)
        PROVE  \A id \in DOMAIN rows : RowKept(id)
    BY <2>1, <2>3, Inserted DEF RowKept
  <2>4. ASSUME NEW id \in DOMAIN rows, increment_ack_count(id)
        PROVE  \A i \in DOMAIN rows : RowKept(i)
    <3>1. /\ DOMAIN rows' = DOMAIN rows
          /\ \A i \in DOMAIN rows : rows'[i].ts = rows[i].ts
          /\ \A i \in DOMAIN rows : i # id => rows'[i] = rows[i]
          /\ rows'[id].acked = rows[id].acked + 1
      BY <2>4, Incremented
    <3>2. QED BY <2>1, <3>1 DEF RowKept
  <2>5. ASSUME NEW s \in Sends, SendTakesRadio(s) \/ Send(s)
        PROVE  UNCHANGED rows \/ \A id \in DOMAIN rows : RowKept(id)
    <3>1. CASE StoreCreates(s)
      <4>1. st[s].ts \in Timestamps /\ InsertRow(st[s].ts)
        BY <3>1, CandidateBound DEF StoreCreates
      <4>2. QED BY <2>3, <4>1
    <3>2. CASE CountBufferedAck(s)
      <4>1. st[s].id \in DOMAIN rows /\ increment_ack_count(st[s].id)
        BY <3>2 DEF CountBufferedAck, Rowed, Through
      <4>2. QED BY <2>4, <4>1
    <3>3. CASE ~StoreCreates(s) /\ ~CountBufferedAck(s)
      BY <2>5, <3>3
      DEF Send, SendTakesRadio, AllocateChecks, AllocateReads, AllocateReserves, SendMsg,
          StoreLocks, StoreLooksUp, ReleaseTimestamp, TrackAck, RetryWakes, RetryTakesRadio,
          RetrySends, RetryRereads
    <3>4. QED BY <3>1, <3>2, <3>3
  <2>6. ASSUME NEW c \in Codes, ApplyAck(c)
        PROVE  UNCHANGED rows
    BY <2>6 DEF ApplyAck
  <2>7. ASSUME NEW a \in applying, CountAck(a)
        PROVE  \A id \in DOMAIN rows : RowKept(id)
    <3>1. a[2] \in DOMAIN rows /\ increment_ack_count(a[2])
      BY <2>7 DEF CountAck, Types, Tracking
    <3>2. QED BY <2>4, <3>1
  <2>8. ASSUME NEW e \in Echoes, NEW c \in Codes, EchoArrives(e, c)
        PROVE  UNCHANGED rows
    BY <2>8 DEF EchoArrives
  <2>9. ASSUME NEW e \in Echoes, Echo(e)
        PROVE  UNCHANGED rows \/ \A id \in DOMAIN rows : RowKept(id)
    <3>1. CASE EchoCreates(e)
      <4>1. echo[e].code[1] \in Timestamps /\ InsertRow(echo[e].code[1])
        BY <3>1 DEF EchoCreates, Skipping, Types, Codes
      <4>2. QED BY <2>3, <4>1
    <3>2. CASE EchoLocks(e) \/ EchoLooksUp(e)
      BY <3>2 DEF EchoLocks, EchoLooksUp
    <3>3. QED BY <2>9, <3>1, <3>2 DEF Echo
  <2>10. UNCHANGED vars => UNCHANGED rows
    BY DEF vars
  <2>11. QED BY <2>2, <2>5, <2>6, <2>7, <2>8, <2>9 DEF Next
<1>2. QED BY <1>1, DirectInvariant, PTL DEF Spec, AcksStay
=============================================================================
