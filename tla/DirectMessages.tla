---------------------------- MODULE DirectMessages ----------------------------
(***************************************************************************)
(* Outgoing direct messages: send_direct_message_to_contact, the retry     *)
(* task it leaves behind, the pending/buffered ACK tables and the echo of  *)
(* our own packet coming back through the packet processor.                *)
(*                                                                         *)
(* One conversation and one text.  Everything that could make two sends    *)
(* interfere (timestamp reservations, the content look-up, the ACK codes)  *)
(* is keyed by that content, so sends of other contents are independent    *)
(* but for the radio lock.  A row is an outgoing row of the messages table *)
(* and its id is its position: ids are AUTOINCREMENT and no step here      *)
(* deletes one.  A packet is identified by <<sender_timestamp, attempt>>,  *)
(* which is also what the firmware's expected_ack stands for.              *)
(*                                                                         *)
(* A step is the code between two awaits of one task.                      *)
(***************************************************************************)
EXTENDS Naturals, Sequences, FiniteSets

CONSTANTS
    Sends,                 \* calls of send_direct_message_to_contact
    Armed,                 \* those with arm_retries (the companion proxy's have not)
    Echoes,                \* packets of ours heard back
    Free,                  \* nobody holds the lock
    DM_SEND_MAX_ATTEMPTS,  \* 3 in the code
    MaxClock,              \* bound: seconds that pass
    MaxHears               \* bound: ACKs heard, duplicates included

ASSUME DirectMessagesAssumption ==
    /\ IsFiniteSet(Sends)
    /\ Armed \subseteq Sends
    /\ Sends \cap Echoes = {}
    /\ Free \notin Sends \cup Echoes
    /\ DM_SEND_MAX_ATTEMPTS \in Nat \ {0}
    /\ MaxClock \in Nat \ {0}
    /\ MaxHears \in Nat

VARIABLES
    now,          \* int(now_fn()) at the latest send
    radio,        \* holder of the radio operation lock
    dmLock,       \* holder of decrypted_dm_store_lock
    reserved,     \* _pending_outgoing_timestamp_reservations of this content
    rows,         \* the outgoing rows: sender_timestamp and acked
    pending,      \* _pending_acks: code -> message id, 0 when absent
    buffered,     \* _buffered_acks
    st,           \* the send tasks and the retry task each turns into
    applying,     \* apply_dm_ack_code calls at their increment: <<code, id>>
    echo,         \* the packet processor's tasks for our own packets
    linked,       \* raw_packets.message_id of each of our packets, 0 when NULL
    transmitted,  \* packets that went on air
    hears,        \* ACKs heard so far
    heard,        \* codes heard at least once
    expired,      \* codes a clean-up has dropped
    tracked       \* codes registered with track_pending_ack: <<code, id>>

radioVars == <<now, radio, reserved, transmitted>>
ackVars == <<pending, buffered, applying, hears, heard, expired, tracked>>
echoVars == <<echo, linked>>
vars == <<radioVars, dmLock, rows, st, ackVars, echoVars>>

Timestamps == 1 .. MaxClock + Cardinality(Sends)
Codes == Timestamps \X (0 .. DM_SEND_MAX_ATTEMPTS - 1)
Ids == 1 .. Cardinality(Sends)

Code(s) == <<st[s].ts, st[s].attempt>>
get_by_content(ts) == {id \in DOMAIN rows : rows[id].ts = ts}
First(ids) == CHOOSE id \in ids : \A other \in ids : id <= other
Acked(id) == rows[id].acked > 0
InsertRow(ts) == rows' = Append(rows, [ts |-> ts, acked |-> 0])
increment_ack_count(id) == rows' = [rows EXCEPT ![id].acked = @ + 1]
To(s, pc) == st' = [st EXCEPT ![s].pc = pc]

Init ==
    /\ now = 1
    /\ radio = Free
    /\ dmLock = Free
    /\ reserved = {}
    /\ rows = <<>>
    /\ pending = [c \in Codes |-> 0]
    /\ buffered = {}
    /\ st = [s \in Sends |-> [pc |-> "idle", ts |-> 0, attempt |-> 0, id |-> 0, coded |-> FALSE]]
    /\ applying = {}
    /\ echo = [e \in Echoes |-> [pc |-> "idle", code |-> <<0, 0>>]]
    /\ linked = [c \in Codes |-> 0]
    /\ transmitted = {}
    /\ hears = 0
    /\ heard = {}
    /\ expired = {}
    /\ tracked = {}

-----------------------------------------------------------------------------
(* send_direct_message_to_contact.                                         *)

SendTakesRadio(s) ==
    /\ st[s].pc = "idle"
    /\ radio = Free
    /\ radio' = s
    /\ now' \in now .. MaxClock
    /\ st' = [st EXCEPT ![s].pc = "check", ![s].ts = now']
    /\ UNCHANGED <<reserved, transmitted, dmLock, rows, ackVars, echoVars>>

\* allocate_outgoing_sender_timestamp: is the candidate reserved, is it
\* stored, is it still not reserved.
NextCandidate(s) == st' = [st EXCEPT ![s].pc = "check", ![s].ts = @ + 1]

AllocateChecks(s) ==
    /\ st[s].pc = "check"
    /\ IF st[s].ts \in reserved THEN NextCandidate(s) ELSE To(s, "read")
    /\ UNCHANGED <<radioVars, dmLock, rows, ackVars, echoVars>>

AllocateReads(s) ==
    /\ st[s].pc = "read"
    /\ IF get_by_content(st[s].ts) # {} THEN NextCandidate(s) ELSE To(s, "reserve")
    /\ UNCHANGED <<radioVars, dmLock, rows, ackVars, echoVars>>

AllocateReserves(s) ==
    /\ st[s].pc = "reserve"
    /\ \/ /\ st[s].ts \in reserved
          /\ NextCandidate(s)
          /\ UNCHANGED reserved
       \/ /\ st[s].ts \notin reserved
          /\ reserved' = reserved \cup {st[s].ts}
          /\ To(s, "send")
    /\ UNCHANGED <<now, radio, transmitted, dmLock, rows, ackVars, echoVars>>

\* (mutant) the timestamp is released before the row is stored
SendMsgReleasesEarly(s) ==
    /\ st[s].pc = "send"
    /\ radio' = Free
    /\ \/ /\ transmitted' = transmitted \cup {Code(s)}
          /\ reserved' = reserved \ {st[s].ts}
          /\ \E coded \in BOOLEAN :
                 st' = [st EXCEPT ![s].pc = "lock", ![s].coded = coded]
       \/ /\ transmitted' \in {transmitted, transmitted \cup {Code(s)}}
          /\ To(s, "release")
          /\ UNCHANGED reserved
    /\ UNCHANGED <<now, dmLock, rows, ackVars, echoVars>>

\* send_msg, and the end of the radio operation.  Without a usable answer (no
\* response, ERROR, an exception) the packet may still have gone out.
SendMsg(s) ==
    /\ st[s].pc = "send"
    /\ radio' = Free
    /\ \/ /\ transmitted' = transmitted \cup {Code(s)}
          /\ \E coded \in BOOLEAN :
                 st' = [st EXCEPT ![s].pc = "lock", ![s].coded = coded]
       \/ /\ transmitted' \in {transmitted, transmitted \cup {Code(s)}}
          /\ To(s, "release")
    /\ UNCHANGED <<now, reserved, dmLock, rows, ackVars, echoVars>>

\* create_outgoing_direct_message: under the store lock, reuse the row an
\* echo has created or insert one.
StoreLocks(s) ==
    /\ st[s].pc = "lock"
    /\ dmLock = Free
    /\ dmLock' = s
    /\ To(s, "look")
    /\ UNCHANGED <<radioVars, rows, ackVars, echoVars>>

\* (mutant) an echo that came first is not looked for
StoreLooksNowhere(s) ==
    /\ st[s].pc = "look"
    /\ To(s, "create")
    /\ UNCHANGED <<radioVars, dmLock, rows, ackVars, echoVars>>

StoreLooksUp(s) ==
    /\ st[s].pc = "look"
    /\ LET existing == get_by_content(st[s].ts)
       IN  \/ /\ existing # {}
              /\ st' = [st EXCEPT ![s].pc = "release", ![s].id = First(existing)]
              /\ dmLock' = Free
           \/ /\ existing = {}
              /\ To(s, "create")
              /\ UNCHANGED dmLock
    /\ UNCHANGED <<radioVars, rows, ackVars, echoVars>>

StoreCreates(s) ==
    /\ st[s].pc = "create"
    /\ InsertRow(st[s].ts)
    /\ st' = [st EXCEPT ![s].pc = "release", ![s].id = Len(rows) + 1]
    /\ dmLock' = Free
    /\ UNCHANGED <<radioVars, ackVars, echoVars>>

\* The finally block; a send that stored nothing answers 422 here.
ReleaseTimestamp(s) ==
    /\ st[s].pc = "release"
    /\ reserved' = reserved \ {st[s].ts}
    /\ To(s, IF st[s].id = 0 THEN "failed" ELSE "track")
    /\ UNCHANGED <<now, radio, transmitted, dmLock, rows, ackVars, echoVars>>

-----------------------------------------------------------------------------
(* dm_ack_tracker and its two users: the sender, and whoever hears an ACK  *)
(* (on_ack, a standalone ACK packet, an ACK bundled in a PATH packet).     *)

\* while attempt < DM_SEND_MAX_ATTEMPTS
NextAttempt(s) ==
    LET attempt == st[s].attempt + 1
    IN  st' = [st EXCEPT
                 ![s].attempt = IF attempt < DM_SEND_MAX_ATTEMPTS THEN attempt ELSE @,
                 ![s].pc = IF attempt < DM_SEND_MAX_ATTEMPTS /\ s \in Armed
                           THEN "sleep" ELSE "done"]

ClearPendingFor(id, table) == [c \in Codes |-> IF table[c] = id THEN 0 ELSE table[c]]

\* (mutant) an ACK that came first is not looked for
TrackAckIgnoresBuffer(s) ==
    /\ st[s].pc = "track"
    /\ \/ /\ ~st[s].coded
          /\ IF st[s].attempt = 0 THEN To(s, "done") ELSE NextAttempt(s)
          /\ UNCHANGED <<pending, buffered, tracked>>
       \/ /\ st[s].coded
          /\ pending' = [pending EXCEPT ![Code(s)] = st[s].id]
          /\ tracked' = tracked \cup {<<Code(s), st[s].id>>}
          /\ NextAttempt(s)
          /\ UNCHANGED buffered
    /\ UNCHANGED <<radioVars, dmLock, rows, applying, hears, heard, expired, echoVars>>

\* _apply_direct_message_ack_tracking, after the first send and after a retry.
TrackAck(s) ==
    /\ st[s].pc = "track"
    /\ \/ /\ ~st[s].coded
          /\ IF st[s].attempt = 0 THEN To(s, "done") ELSE NextAttempt(s)
          /\ UNCHANGED <<pending, buffered, tracked>>
       \/ /\ st[s].coded
          /\ Code(s) \in buffered
          /\ buffered' = buffered \ {Code(s)}
          /\ pending' = ClearPendingFor(st[s].id, pending)
          /\ tracked' = tracked \cup {<<Code(s), st[s].id>>}
          /\ To(s, "count")
       \/ /\ st[s].coded
          /\ Code(s) \notin buffered
          /\ pending' = [pending EXCEPT ![Code(s)] = st[s].id]
          /\ tracked' = tracked \cup {<<Code(s), st[s].id>>}
          /\ NextAttempt(s)
          /\ UNCHANGED buffered
    /\ UNCHANGED <<radioVars, dmLock, rows, applying, hears, heard, expired, echoVars>>

CountBufferedAck(s) ==
    /\ st[s].pc = "count"
    /\ increment_ack_count(st[s].id)
    /\ To(s, "done")
    /\ UNCHANGED <<radioVars, dmLock, ackVars, echoVars>>

\* (mutant) the claimed code stays pending
ApplyAckKeepsPending(c) ==
    /\ hears < MaxHears
    /\ c \in transmitted
    /\ hears' = hears + 1
    /\ heard' = heard \cup {c}
    /\ \/ /\ pending[c] # 0
          /\ applying' = applying \cup {<<c, pending[c]>>}
          /\ UNCHANGED buffered
       \/ /\ pending[c] = 0
          /\ buffered' = buffered \cup {c}
          /\ UNCHANGED applying
    /\ UNCHANGED <<radioVars, dmLock, rows, st, pending, expired, tracked, echoVars>>

\* apply_dm_ack_code up to its await: clean up what is too old, claim the
\* code or buffer it.
ApplyAck(c) ==
    /\ hears < MaxHears
    /\ c \in transmitted
    /\ hears' = hears + 1
    /\ heard' = heard \cup {c}
    /\ \E old \in SUBSET ({code \in Codes : pending[code] # 0} \cup buffered) :
           LET table == [code \in Codes |-> IF code \in old THEN 0 ELSE pending[code]]
           IN  /\ expired' = expired \cup old
               /\ \/ /\ table[c] # 0
                     /\ pending' = ClearPendingFor(table[c], table)
                     /\ applying' = applying \cup {<<c, table[c]>>}
                     /\ buffered' = buffered \ old
                  \/ /\ table[c] = 0
                     /\ pending' = table
                     /\ buffered' = (buffered \ old) \cup {c}
                     /\ UNCHANGED applying
    /\ UNCHANGED <<radioVars, dmLock, rows, st, tracked, echoVars>>

CountAck(a) ==
    /\ a \in applying
    /\ applying' = applying \ {a}
    /\ increment_ack_count(a[2])
    /\ UNCHANGED <<radioVars, dmLock, st, pending, buffered, hears, heard, expired, tracked,
                   echoVars>>

-----------------------------------------------------------------------------
(* _retry_direct_message_until_acked.  The lock is taken blocking, so the  *)
(* RadioOperationBusyError branch is never entered.                        *)

RetryWakes(s) ==
    /\ st[s].pc = "sleep"
    /\ To(s, IF Acked(st[s].id) THEN "done" ELSE "radio")
    /\ UNCHANGED <<radioVars, dmLock, rows, ackVars, echoVars>>

RetryTakesRadio(s) ==
    /\ st[s].pc = "radio"
    /\ radio = Free
    /\ radio' = s
    /\ To(s, "resend")
    /\ UNCHANGED <<now, reserved, transmitted, dmLock, rows, ackVars, echoVars>>

\* (mutant) the radio lock is not released
RetryKeepsRadio(s) ==
    /\ st[s].pc = "resend"
    /\ \/ /\ transmitted' = transmitted \cup {Code(s)}
          /\ radio' = Free
          /\ \E coded \in BOOLEAN :
                 st' = [st EXCEPT ![s].pc = "reread", ![s].coded = coded]
       \/ /\ transmitted' \in {transmitted, transmitted \cup {Code(s)}}
          /\ NextAttempt(s)
          /\ UNCHANGED radio
    /\ UNCHANGED <<now, reserved, dmLock, rows, ackVars, echoVars>>

\* (mutant) a failed retry uses up no attempt
RetryFailsForFree(s) ==
    /\ st[s].pc = "resend"
    /\ radio' = Free
    /\ \/ /\ transmitted' = transmitted \cup {Code(s)}
          /\ \E coded \in BOOLEAN :
                 st' = [st EXCEPT ![s].pc = "reread", ![s].coded = coded]
       \/ /\ transmitted' \in {transmitted, transmitted \cup {Code(s)}}
          /\ To(s, "sleep")
    /\ UNCHANGED <<now, reserved, dmLock, rows, ackVars, echoVars>>

RetrySends(s) ==
    /\ st[s].pc = "resend"
    /\ radio' = Free
    /\ \/ /\ transmitted' = transmitted \cup {Code(s)}
          /\ \E coded \in BOOLEAN :
                 st' = [st EXCEPT ![s].pc = "reread", ![s].coded = coded]
       \/ /\ transmitted' \in {transmitted, transmitted \cup {Code(s)}}
          /\ NextAttempt(s)
    /\ UNCHANGED <<now, reserved, dmLock, rows, ackVars, echoVars>>

\* The second _is_message_acked.  The task resumes after the read, so an ACK
\* may be applied between the read and the tracking of the new code.
RetryRereads(s) ==
    /\ st[s].pc = "reread"
    /\ To(s, IF Acked(st[s].id) THEN "done" ELSE "track")
    /\ UNCHANGED <<radioVars, dmLock, rows, ackVars, echoVars>>

-----------------------------------------------------------------------------
(* Our own packet heard back: _process_direct_message with outgoing, then  *)
(* _store_direct_message under the store lock.                             *)

EchoArrives(e, c) ==
    /\ echo[e].pc = "idle"
    /\ c \in transmitted
    /\ echo' = [echo EXCEPT ![e] = [pc |-> "lock", code |-> c]]
    /\ UNCHANGED <<radioVars, dmLock, rows, st, ackVars, linked>>

EchoLocks(e) ==
    /\ echo[e].pc = "lock"
    /\ dmLock = Free
    /\ dmLock' = e
    /\ echo' = [echo EXCEPT ![e].pc = "look"]
    /\ UNCHANGED <<radioVars, rows, st, ackVars, linked>>

\* The row the packet is linked to, or else a row of its content: add the path
\* and link the packet.
EchoLooksUp(e) ==
    /\ echo[e].pc = "look"
    /\ LET c == echo[e].code
           existing == IF linked[c] # 0 THEN {linked[c]} ELSE get_by_content(c[1])
       IN  \/ /\ existing # {}
              /\ linked' = [linked EXCEPT ![c] = First(existing)]
              /\ echo' = [echo EXCEPT ![e].pc = "done"]
              /\ dmLock' = Free
           \/ /\ existing = {}
              /\ echo' = [echo EXCEPT ![e].pc = "create"]
              /\ UNCHANGED <<dmLock, linked>>
    /\ UNCHANGED <<radioVars, rows, st, ackVars>>

EchoCreates(e) ==
    /\ echo[e].pc = "create"
    /\ InsertRow(echo[e].code[1])
    /\ linked' = [linked EXCEPT ![echo[e].code] = Len(rows) + 1]
    /\ echo' = [echo EXCEPT ![e].pc = "done"]
    /\ dmLock' = Free
    /\ UNCHANGED <<radioVars, st, ackVars>>

-----------------------------------------------------------------------------
Send(s) ==
    \/ AllocateChecks(s)
    \/ AllocateReads(s)
    \/ AllocateReserves(s)
    \/ SendMsg(s)
    \/ StoreLocks(s)
    \/ StoreLooksUp(s)
    \/ StoreCreates(s)
    \/ ReleaseTimestamp(s)
    \/ TrackAck(s)
    \/ CountBufferedAck(s)
    \/ RetryWakes(s)
    \/ RetryTakesRadio(s)
    \/ RetrySends(s)
    \/ RetryRereads(s)

Echo(e) == EchoLocks(e) \/ EchoLooksUp(e) \/ EchoCreates(e)

Next ==
    \/ \E s \in Sends : SendTakesRadio(s) \/ Send(s)
    \/ \E c \in Codes : ApplyAck(c)
    \/ \E a \in applying : CountAck(a)
    \/ \E e \in Echoes, c \in Codes : EchoArrives(e, c)
    \/ \E e \in Echoes : Echo(e)

Spec == Init /\ [][Next]_vars

\* Every task at an await is resumed once it can be.  Nothing makes a send, an
\* echo or an ACK happen.
FairSpec ==
    /\ Spec
    /\ \A s \in Sends : WF_vars(Send(s))
    /\ \A e \in Echoes : WF_vars(Echo(e))
    /\ WF_vars(\E a \in applying : CountAck(a))

-----------------------------------------------------------------------------
(* Properties.                                                             *)

\* The shape of the state, and who may hold which lock: the radio operation
\* lock is held from SendTakesRadio to the answer of send_msg and nowhere else
\* (radio_operation's finally), the store lock only inside a store.
TypeOK ==
    /\ now \in 1 .. MaxClock
    /\ reserved \subseteq Timestamps
    /\ \A id \in DOMAIN rows : rows[id].ts \in Timestamps /\ rows[id].acked \in Nat
    /\ pending \in [Codes -> {0} \cup DOMAIN rows]
    /\ linked \in [Codes -> {0} \cup DOMAIN rows]
    /\ buffered \subseteq heard
    /\ heard \subseteq transmitted
    /\ transmitted \subseteq Codes
    /\ \A s \in Sends : st[s].id \in {0} \cup DOMAIN rows
    /\ \A s \in Sends :
           (radio = s) <=> st[s].pc \in {"check", "read", "reserve", "send", "resend"}
    /\ \A s \in Sends : (dmLock = s) <=> st[s].pc \in {"look", "create"}
    /\ \A e \in Echoes : (dmLock = e) <=> echo[e].pc \in {"look", "create"}

\* Two sends of the same text to the same contact never end up on one row: each
\* successful send_direct_message_to_contact has a row of its own, even when
\* they share a second and one of them is between send_msg and its INSERT.
OwnRow ==
    \A s, t \in Sends : s # t /\ st[s].id # 0 => st[s].id # st[t].id

\* No unique index covers outgoing PRIV rows; the store lock and the look-ups of
\* create_outgoing_direct_message and _store_direct_message alone keep a send
\* and the echo of its packet (of any attempt) on one row.
OneRowPerTimestamp ==
    \A i, j \in DOMAIN rows : rows[i].ts = rows[j].ts => i = j

\* An ACK heard for a packet whose code was registered is counted on the right
\* row, whether it came before or after the registration, unless a clean-up
\* dropped the code first.
AckNotLost ==
    \A t \in tracked :
        t[1] \in heard \ expired =>
            \/ Acked(t[2])
            \/ \E a \in applying : a[2] = t[2]
            \/ \E s \in Sends : st[s].pc = "count" /\ st[s].id = t[2]

\* A row never counts more ACKs than codes of its own packets were heard: the
\* duplicate reports of one ACK (the radio's event and the raw packet) count
\* once, and nothing is counted on another message's row.
AckPerCode ==
    \A id \in DOMAIN rows :
        rows[id].acked <= Cardinality({c \in heard : c[1] = rows[id].ts})

\* A send that was started ends, with its retries: stored and acknowledged,
\* stored and out of attempts, or refused.
SendsEnd ==
    \A s \in Sends : st[s].pc # "idle" ~> st[s].pc \in {"done", "failed"}

=============================================================================
