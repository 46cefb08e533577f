--------------------------- MODULE IncomingMessages ---------------------------
(***************************************************************************)
(* Incoming direct messages and the contacts they belong to.  One message  *)
(* is seen by up to three observers: the radio's own CONTACT_MSG_RECV      *)
(* event (on_contact_message, the fallback), its raw packets, once per     *)
(* route (process_raw_packet), and the scan of undecrypted packets when    *)
(* the sender's contact appears (run_historical_dm_decryption).  The       *)
(* fallback knows the sender by a key prefix only; while no contact        *)
(* matches, it keeps a placeholder contact and stores the row under the    *)
(* prefix.  When the contact appears, the placeholder is promoted and the  *)
(* prefix rows are claimed for the full key.                               *)
(*                                                                         *)
(* Each peer is a chat contact with a prefix of its own, and the radio's   *)
(* private key is exported.  A message stands for its text and sender      *)
(* timestamp; a row is a message and the key it is stored under, which is  *)
(* the conversation_key and the sender_key.  A step is the code between    *)
(* two awaits.                                                             *)
(***************************************************************************)
EXTENDS Naturals, FiniteSets

CONSTANTS
    Peers,      \* senders, by full public key
    Msgs,       \* direct messages
    From,       \* who sent which
    Observers,  \* raw packets heard (a message's packet may be heard again)
    Adds,       \* adverts and other sources of a contact
    Nobody,     \* no task, no message
    Overlap     \* may a contact appear while a fallback for it is under way

ASSUME IncomingMessagesAssumption ==
    /\ From \in [Msgs -> Peers]
    /\ Observers \cap Peers = {}
    /\ Nobody \notin Msgs \cup Peers \cup Observers
    /\ Overlap \in BOOLEAN

VARIABLES
    contacts,      \* contacts with a full key
    placeholders,  \* peers with a prefix-only placeholder contact
    rows,          \* incoming PRIV rows
    packets,       \* raw_packets: messages whose packet is stored
    linked,        \* those with a message_id
    dmLock,        \* holder of decrypted_dm_store_lock
    fallback,      \* on_contact_message, per message
    raw,           \* the packet processor's tasks and, per peer, the history scan
    add            \* the tasks that insert a contact

incomingVars == <<contacts, placeholders, rows, packets, linked, dmLock, fallback, raw, add>>

Full == "full"
Prefix == "prefix"
Row(m, key) == [msg |-> m, key |-> key]

\* idx_messages_incoming_priv_dedup: INSERT OR IGNORE.
Stores(m, key) == rows' = rows \cup {Row(m, key)}

\* claim_prefix_messages is a plain UPDATE: it fails as a whole when one of
\* the rows it would produce is there already.
ClaimRaises(k) ==
    \E m \in Msgs : From[m] = k /\ {Row(m, Prefix), Row(m, Full)} \subseteq rows
Claimed(k) ==
    {IF From[r.msg] = k THEN Row(r.msg, Full) ELSE r : r \in rows}
Claims(k) == rows' = IF ClaimRaises(k) THEN rows ELSE Claimed(k)
AfterClaim(k, pc) == IF ClaimRaises(k) THEN "raised" ELSE pc

Idle == [pc |-> "idle", msg |-> Nobody, seen |-> {}, todo |-> {}]

IncomingInit ==
    /\ contacts = {}
    /\ placeholders = {}
    /\ rows = {}
    /\ packets = {}
    /\ linked = {}
    /\ dmLock = Nobody
    /\ fallback = [m \in Msgs |-> [pc |-> "idle", key |-> Full]]
    /\ raw = [o \in Observers \cup Peers |-> Idle]
    /\ add = [a \in Adds |-> [pc |-> "idle", peer |-> Nobody, advert |-> FALSE, inserted |-> FALSE]]

-----------------------------------------------------------------------------
(* on_contact_message: resolve_fallback_direct_message_context, then       *)
(* _store_direct_message without the lock and without a packet.            *)

FallbackTo(m, pc, key) == fallback' = [fallback EXCEPT ![m] = [pc |-> pc, key |-> key]]

Adding(k) == \E a \in Adds : add[a].peer = k /\ add[a].pc \in {"promote", "claim"}
FallingBack(k) ==
    \E m \in Msgs : From[m] = k /\ fallback[m].pc \in {"match", "place", "look", "create"}

\* get_by_key_or_prefix looks for the prefix itself first, and so finds the
\* placeholder.
FallbackResolves(m) ==
    /\ fallback[m].pc = "idle"
    /\ Overlap \/ ~Adding(From[m])
    /\ FallbackTo(m, IF From[m] \in placeholders THEN "look" ELSE "match", Prefix)
    /\ UNCHANGED <<contacts, placeholders, rows, packets, linked, dmLock, raw, add>>

\* Then for the one contact it is a prefix of; two are ambiguous and count
\* as none.
FallbackMatches(m) ==
    /\ fallback[m].pc = "match"
    /\ LET full == From[m] \in contacts
           placeholder == From[m] \in placeholders
       IN  \/ full /\ ~placeholder /\ FallbackTo(m, "claim", Full)
           \/ ~full /\ placeholder /\ FallbackTo(m, "look", Prefix)
           \/ (full <=> placeholder) /\ FallbackTo(m, "place", Prefix)
    /\ UNCHANGED <<contacts, placeholders, rows, packets, linked, dmLock, raw, add>>

FallbackClaims(m) ==
    /\ fallback[m].pc = "claim"
    /\ Claims(From[m])
    /\ FallbackTo(m, AfterClaim(From[m], "look"), Full)
    /\ UNCHANGED <<contacts, placeholders, packets, linked, dmLock, raw, add>>

FallbackPlaces(m) ==
    /\ fallback[m].pc = "place"
    /\ placeholders' = placeholders \cup {From[m]}
    /\ FallbackTo(m, "look", Prefix)
    /\ UNCHANGED <<contacts, rows, packets, linked, dmLock, raw, add>>

FallbackLooks(m) ==
    /\ fallback[m].pc = "look"
    /\ FallbackTo(m, IF Row(m, fallback[m].key) \in rows THEN "done" ELSE "create",
                  fallback[m].key)
    /\ UNCHANGED <<contacts, placeholders, rows, packets, linked, dmLock, raw, add>>

\* (mutant) a stored packet is left to the packet processor
FallbackLeavesToPacket(m) ==
    /\ fallback[m].pc = "create"
    /\ IF m \in packets THEN UNCHANGED rows ELSE Stores(m, fallback[m].key)
    /\ FallbackTo(m, "done", fallback[m].key)
    /\ UNCHANGED <<contacts, placeholders, packets, linked, dmLock, raw, add>>

FallbackCreates(m) ==
    /\ fallback[m].pc = "create"
    /\ Stores(m, fallback[m].key)
    /\ FallbackTo(m, "done", fallback[m].key)
    /\ UNCHANGED <<contacts, placeholders, packets, linked, dmLock, raw, add>>

-----------------------------------------------------------------------------
(* process_raw_packet and _process_direct_message, and the scan that takes *)
(* stored packets through the same ingest_decrypted_direct_message.        *)

RawTo(o, pc) == raw' = [raw EXCEPT ![o].pc = pc]

\* RawPacketRepository.create: a packet heard again keeps its row.
RawStores(o, m) ==
    /\ o \in Observers
    /\ raw[o].pc = "idle"
    /\ packets' = packets \cup {m}
    /\ raw' = [raw EXCEPT ![o] = [Idle EXCEPT !.pc = "candidates", !.msg = m]]
    /\ UNCHANGED <<contacts, placeholders, rows, linked, dmLock, fallback, add>>

\* Only a contact with a full key can decrypt it.
RawCandidates(o) ==
    /\ raw[o].pc = "candidates"
    /\ RawTo(o, IF From[raw[o].msg] \in contacts THEN "claim" ELSE "done")
    /\ UNCHANGED <<contacts, placeholders, rows, packets, linked, dmLock, fallback, add>>

\* stream_undecrypted_text_messages: a batch of the packets not yet linked,
\* after the last one seen, until there is none.
HistoryReads(k) ==
    /\ raw[k].pc = "scan"
    /\ LET batch == {m \in packets \ (linked \cup raw[k].seen) : From[m] = k}
       IN  raw' = [raw EXCEPT ![k] =
                      [raw[k] EXCEPT !.pc = IF batch = {} THEN "done" ELSE "next",
                                     !.seen = @ \cup batch,
                                     !.todo = batch]]
    /\ UNCHANGED <<contacts, placeholders, rows, packets, linked, dmLock, fallback, add>>

HistoryNext(k) ==
    /\ raw[k].pc = "next"
    /\ \/ raw[k].todo = {} /\ RawTo(k, "scan")
       \/ \E m \in raw[k].todo :
              raw' = [raw EXCEPT ![k] = [raw[k] EXCEPT !.pc = "claim", !.msg = m, !.todo = @ \ {m}]]
    /\ UNCHANGED <<contacts, placeholders, rows, packets, linked, dmLock, fallback, add>>

\* (mutant) the prefix rows are not claimed
RawForgetsClaim(o) ==
    /\ raw[o].pc = "claim"
    /\ RawTo(o, "lock")
    /\ UNCHANGED <<contacts, placeholders, rows, packets, linked, dmLock, fallback, add>>

\* ingest_decrypted_direct_message: _prepare_resolved_contact comes first.
RawClaims(o) ==
    /\ raw[o].pc = "claim"
    /\ Claims(From[raw[o].msg])
    /\ RawTo(o, AfterClaim(From[raw[o].msg], "lock"))
    /\ UNCHANGED <<contacts, placeholders, packets, linked, dmLock, fallback, add>>

RawLocks(o) ==
    /\ raw[o].pc = "lock"
    /\ dmLock = Nobody
    /\ dmLock' = o
    /\ RawTo(o, "look")
    /\ UNCHANGED <<contacts, placeholders, rows, packets, linked, fallback, add>>

\* A history scan goes on with its next packet.
RawEnds(o) ==
    /\ dmLock' = Nobody
    /\ RawTo(o, IF o \in Peers THEN "next" ELSE "done")

\* (mutant) the lock is not released
RawLooksKeepsLock(o) ==
    /\ raw[o].pc = "look"
    /\ RawTo(o, IF raw[o].msg \in linked THEN "done" ELSE "create")
    /\ UNCHANGED <<contacts, placeholders, rows, packets, linked, dmLock, fallback, add>>

RawLooks(o) ==
    /\ raw[o].pc = "look"
    /\ \/ raw[o].msg \in linked /\ RawEnds(o)
       \/ raw[o].msg \notin linked /\ RawTo(o, "create") /\ UNCHANGED dmLock
    /\ UNCHANGED <<contacts, placeholders, rows, packets, linked, fallback, add>>

\* The row is created, or found by handle_duplicate_message, and either way
\* mark_decrypted links the packet to it.
RawCreates(o) ==
    /\ raw[o].pc = "create"
    /\ Stores(raw[o].msg, Full)
    /\ linked' = linked \cup {raw[o].msg}
    /\ RawEnds(o)
    /\ UNCHANGED <<contacts, placeholders, packets, fallback, add>>

-----------------------------------------------------------------------------
(* _process_advertisement for an advert not heard before; on_new_contact   *)
(* and the radio's contact sync do the same without a history scan, and    *)
(* the sync leaves all after the upsert to a background worker.            *)

AddTo(a, pc) == add' = [add EXCEPT ![a].pc = pc]

\* (mutant) the placeholder is taken for the contact
AddOverPlaceholder(a, k, advert) ==
    /\ add[a].pc = "idle"
    /\ Overlap \/ ~FallingBack(k)
    /\ contacts' = contacts \cup {k}
    /\ add' = [add EXCEPT ![a] = [pc |-> "promote", peer |-> k, advert |-> advert,
                                  inserted |-> k \notin contacts \cup placeholders]]
    /\ UNCHANGED <<placeholders, rows, packets, linked, dmLock, fallback, raw>>

\* upsert_reporting_insert
AddUpserts(a, k, advert) ==
    /\ add[a].pc = "idle"
    /\ Overlap \/ ~FallingBack(k)
    /\ contacts' = contacts \cup {k}
    /\ add' = [add EXCEPT ![a] = [pc |-> "promote", peer |-> k, advert |-> advert,
                                  inserted |-> k \notin contacts]]
    /\ UNCHANGED <<placeholders, rows, packets, linked, dmLock, fallback, raw>>

AddPromotes(a) ==
    /\ add[a].pc = "promote"
    /\ placeholders' = placeholders \ {add[a].peer}
    /\ AddTo(a, "claim")
    /\ UNCHANGED <<contacts, rows, packets, linked, dmLock, fallback, raw>>

\* The scan starts only for the advert that inserted the contact.
StartsHistory(a) ==
    raw' = IF add[a].inserted /\ add[a].advert /\ ~ClaimRaises(add[a].peer)
           THEN [raw EXCEPT ![add[a].peer].pc = "scan"] ELSE raw

\* (mutant) the prefix rows are not claimed
AddForgetsClaim(a) ==
    /\ add[a].pc = "claim"
    /\ AddTo(a, "done")
    /\ StartsHistory(a)
    /\ UNCHANGED <<contacts, placeholders, rows, packets, linked, dmLock, fallback>>

\* record_contact_name_and_reconcile
AddClaims(a) ==
    /\ add[a].pc = "claim"
    /\ Claims(add[a].peer)
    /\ AddTo(a, AfterClaim(add[a].peer, "done"))
    /\ StartsHistory(a)
    /\ UNCHANGED <<contacts, placeholders, packets, linked, dmLock, fallback>>

-----------------------------------------------------------------------------
IncomingNext ==
    \/ \E m \in Msgs :
          \/ FallbackResolves(m)
          \/ FallbackMatches(m)
          \/ FallbackClaims(m)
          \/ FallbackPlaces(m)
          \/ FallbackLooks(m)
          \/ FallbackCreates(m)
    \/ \E o \in Observers, m \in Msgs : RawStores(o, m)
    \/ \E k \in Peers : HistoryReads(k) \/ HistoryNext(k)
    \/ \E o \in Observers \cup Peers :
          \/ RawCandidates(o)
          \/ RawClaims(o)
          \/ RawLocks(o)
          \/ RawLooks(o)
          \/ RawCreates(o)
    \/ \E a \in Adds, k \in Peers, advert \in BOOLEAN : AddUpserts(a, k, advert)
    \/ \E a \in Adds : AddPromotes(a) \/ AddClaims(a)

IncomingSpec == IncomingInit /\ [][IncomingNext]_incomingVars

-----------------------------------------------------------------------------
(* Properties.                                                             *)

Ended == {"idle", "done", "raised"}
Quiet ==
    /\ \A m \in Msgs : fallback[m].pc \in Ended
    /\ \A o \in Observers \cup Peers : raw[o].pc \in Ended
    /\ \A a \in Adds : add[a].pc \in Ended

\* The shape of the state: a packet is linked only if it is stored and its
\* message has a row, and the store lock is held only inside a store.
IncomingTypeOK ==
    /\ contacts \subseteq Peers
    /\ placeholders \subseteq Peers
    /\ rows \subseteq [msg : Msgs, key : {Full, Prefix}]
    /\ linked \subseteq packets
    /\ packets \subseteq Msgs
    /\ \A m \in linked : Row(m, Full) \in rows
    /\ \A o \in Observers \cup Peers : (dmLock = o) <=> raw[o].pc \in {"look", "create"}

\* Whatever observes a direct message, and in whatever order, it is stored
\* once: the fallback and the packet processor end on the same row
\* (MessageRepository.create).
OneRowPerDm ==
    \A r, s \in rows : r.msg = s.msg => r = s

\* A direct message the radio reported, or whose packet was decrypted, is
\* stored when its handler is through (on_contact_message, RawCreates).
NoDmLost ==
    /\ \A m \in Msgs : fallback[m].pc \in {"done", "raised"} => \E r \in rows : r.msg = m
    /\ \A o \in Observers :
           raw[o].pc = "raised" => \E r \in rows : r.msg = raw[o].msg

\* Once a contact is known and nothing is under way, its conversation is in one
\* place: no row is left under the prefix, and no placeholder beside the
\* contact (promote_prefix_placeholders, claim_prefix_messages).
OneConversation ==
    Quiet => \A k \in contacts :
                 /\ k \notin placeholders
                 /\ \A m \in Msgs : From[m] = k => Row(m, Prefix) \notin rows

\* Packets heard before their sender was known are not forgotten: when the
\* contact came from an advert, every stored packet of that sender ends linked
\* to its message, also one stored while the contact was being inserted.
HistoryDecrypted ==
    Quiet => \A k \in contacts :
                 (\A a \in Adds : add[a].peer = k => add[a].advert)
                     => \A m \in packets : From[m] = k => m \in linked

=============================================================================
