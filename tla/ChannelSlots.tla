---------------------------- MODULE ChannelSlots ----------------------------
(***************************************************************************)
(* The send-slot cache of RadioManager (app/radio.py) beside the channel   *)
(* slots the radio really holds.                                           *)
(*                                                                         *)
(* A channel message leaves the radio encrypted under whatever key the     *)
(* chosen slot holds, so a stale cache entry sends a message to the wrong  *)
(* channel.  Everything that writes a slot holds the radio operation lock: *)
(* `op' is the operation holding it.  Three things touch the cache or the  *)
(* decision to use it without that lock: the mesh test, which drops the    *)
(* entry of its slot before it queues for the lock; the settings route,    *)
(* which switches the reuse of slots off and on; and the identity wipe.    *)
(*                                                                         *)
(* One step is the code between two awaits.  A radio command answers OK    *)
(* (the slot is written), or ERROR / an exception: the library also        *)
(* reports ERROR when no answer came, so the slot may or may not be        *)
(* written.                                                                *)
(***************************************************************************)
EXTENDS Naturals, FiniteSets

CONSTANTS
    Keys,         \* channel keys that are sent on
    TestKey,      \* the key of the mesh test channel, outside the database
    Empty,        \* the content of a cleared slot (zero secret)
    NoKey,        \* Python None
    Capacity,     \* max_channels reported by the radio
    MeshTests,    \* TRUE: POST /tools/mesh-test is called
    Toggles,      \* TRUE: the user edits force_channel_slot_reconfigure
    RestoreReplies  \* answers to the writes of a backup restore; {}: no restore

ASSUME CapacityAssumption == Capacity \in Nat \ {0}

ASSUME KeyAssumption ==
    /\ TestKey \notin Keys /\ Empty \notin Keys /\ NoKey \notin Keys
    /\ IsFiniteSet(Keys)

ASSUME FeatureAssumption ==
    /\ MeshTests \in BOOLEAN
    /\ Toggles \in BOOLEAN
    /\ RestoreReplies \subseteq {"ok", "rejected", "silent"}

Slots == 0 .. Capacity - 1

NoSlot == Capacity

\* TEMP_RADIO_SLOT and MESH_TEST_RADIO_SLOT
PreferredSlot == 0

VARIABLES
    slotByKey,    \* _channel_slot_by_key
    keyBySlot,    \* _channel_key_by_slot
    older,        \* the order of the OrderedDict: <<a, b>> when a precedes b
    radio,        \* what each slot of the radio holds
    force,        \* radio_workarounds.current().force_channel_slot_reconfigure
    op,           \* the operation that holds the radio operation lock
    meshTest,     \* the mesh test request: "idle" or "queued" for the lock
    lastTx        \* the last transmission: the key meant, the key used

vars == <<slotByKey, keyBySlot, older, radio, force, op, meshTest, lastTx>>

cache == <<slotByKey, keyBySlot, older>>

Free == [kind |-> "free", key |-> NoKey, slot |-> PreferredSlot,
         evicted |-> NoKey, todo |-> {}]

Cached == {k \in Keys : slotByKey[k] # NoSlot}

\* channel_slot_reuse_enabled() on a serial or BLE radio
ReuseEnabled == ~force

-----------------------------------------------------------------------------
(* The cache operations, each giving the new value of <<slotByKey, keyBySlot, older>>. *)

Without(k) == {p \in older : p[1] # k /\ p[2] # k}

MovedToEnd(k, others) == Without(k) \cup {<<c, k>> : c \in others \ {k}}

ResetCache ==
    /\ slotByKey' = [k \in Keys |-> NoSlot]
    /\ keyBySlot' = [s \in Slots |-> NoKey]
    /\ older' = {}

\* (mutant) the displaced channel keeps its slot
NoteLoadedKeepsDisplaced(k, s) ==
    /\ slotByKey' = [slotByKey EXCEPT ![k] = s]
    /\ keyBySlot' = [t \in Slots |-> IF t = s THEN k
                                     ELSE IF keyBySlot[t] = k THEN NoKey
                                     ELSE keyBySlot[t]]
    /\ older' = MovedToEnd(k, Cached)

\* The key leaves its previous slot, and the key the slot held is dropped.
NoteChannelSlotLoaded(k, s) ==
    LET previous == slotByKey[k]
        displaced == keyBySlot[s]
        dropped == {displaced} \ {k, NoKey}
    IN  IF ~ReuseEnabled
        THEN UNCHANGED cache
        ELSE /\ slotByKey' = [x \in Keys |-> IF x = k THEN s
                                             ELSE IF x \in dropped THEN NoSlot
                                             ELSE slotByKey[x]]
             /\ keyBySlot' = [t \in Slots |-> IF t = s THEN k
                                              ELSE IF t = previous THEN NoKey
                                              ELSE keyBySlot[t]]
             /\ older' = {p \in MovedToEnd(k, Cached) : {p[1], p[2]} \cap dropped = {}}

NoteChannelSlotUsed(k) ==
    IF ReuseEnabled /\ k \in Cached
    THEN /\ older' = MovedToEnd(k, Cached)
         /\ keyBySlot' = [keyBySlot EXCEPT ![slotByKey[k]] = k]
         /\ UNCHANGED slotByKey
    ELSE UNCHANGED cache

\* forget_channel_slot: the slot was emptied on the radio.
ForgetChannelSlot(s) ==
    LET k == keyBySlot[s]
    IN  IF k = NoKey
        THEN UNCHANGED cache
        ELSE /\ keyBySlot' = [keyBySlot EXCEPT ![s] = NoKey]
             /\ IF slotByKey[k] = s
                THEN /\ slotByKey' = [slotByKey EXCEPT ![k] = NoSlot]
                     /\ older' = Without(k)
                ELSE UNCHANGED <<slotByKey, older>>

InvalidateKeepsSlot(k) ==
    /\ slotByKey' = [slotByKey EXCEPT ![k] = NoSlot]
    /\ older' = Without(k)
    /\ UNCHANGED keyBySlot

InvalidateCachedChannelSlot(k) ==
    LET s == slotByKey[k]
    IN  IF s = NoSlot
        THEN UNCHANGED cache
        ELSE /\ slotByKey' = [slotByKey EXCEPT ![k] = NoSlot]
             /\ older' = Without(k)
             /\ keyBySlot' = IF keyBySlot[s] = k
                             THEN [keyBySlot EXCEPT ![s] = NoKey]
                             ELSE keyBySlot

-----------------------------------------------------------------------------
(* Planning a send. *)

\* (mutant) the preferred slot is not checked for being free
FirstFreeSkipsCheck == PreferredSlot

\* _find_first_free_channel_slot: the preferred slot is also the lowest one.
FirstFreeChannelSlot ==
    LET free == {s \in Slots : keyBySlot[s] = NoKey}
    IN  IF free = {} THEN PreferredSlot
        ELSE CHOOSE s \in free : \A t \in free : s <= t

Oldest == {c \in Cached : \A d \in Cached : <<d, c>> \notin older}

\* (mutant) the evicted channel is not forgotten
PlanForgetsEviction(k) ==
    IF k \in Cached
    THEN {[slot |-> slotByKey[k], configure |-> FALSE, evicted |-> NoKey]}
    ELSE IF Cardinality(Cached) < Capacity
    THEN {[slot |-> FirstFreeChannelSlot, configure |-> TRUE, evicted |-> NoKey]}
    ELSE {[slot |-> slotByKey[e], configure |-> TRUE, evicted |-> NoKey] : e \in Oldest}

\* plan_channel_send_slot
PlanChannelSendSlot(k) ==
    IF ~ReuseEnabled
    THEN {[slot |-> PreferredSlot, configure |-> TRUE, evicted |-> NoKey]}
    ELSE IF k \in Cached
    THEN {[slot |-> slotByKey[k], configure |-> FALSE, evicted |-> NoKey]}
    ELSE IF Cardinality(Cached) < Capacity
    THEN {[slot |-> FirstFreeChannelSlot, configure |-> TRUE, evicted |-> NoKey]}
    ELSE {[slot |-> slotByKey[e], configure |-> TRUE, evicted |-> e] : e \in Oldest}

-----------------------------------------------------------------------------
(* send_channel_message_with_effective_scope, from the plan on. *)

BeginSend(k) ==
    /\ op = Free
    /\ \E p \in PlanChannelSendSlot(k) :
         op' = [Free EXCEPT !.kind = IF p.configure THEN "set" ELSE "tx",
                            !.key = k, !.slot = p.slot, !.evicted = p.evicted]
    /\ UNCHANGED <<cache, radio, force, meshTest, lastTx>>

SetChannelOk ==
    /\ op.kind = "set"
    /\ radio' = [radio EXCEPT ![op.slot] = op.key]
    /\ NoteChannelSlotLoaded(op.key, op.slot)
    /\ op' = [op EXCEPT !.kind = "tx"]
    /\ UNCHANGED <<force, meshTest, lastTx>>

\* (mutant) a failed load leaves the cache as it was
SetChannelFailsKeepingCache ==
    /\ op.kind = "set"
    /\ radio' \in {radio, [radio EXCEPT ![op.slot] = op.key]}
    /\ op' = Free
    /\ UNCHANGED <<cache, force, meshTest, lastTx>>

\* An ERROR or an exception: the write may have happened all the same.
SetChannelFails ==
    /\ op.kind = "set"
    /\ radio' \in {radio, [radio EXCEPT ![op.slot] = op.key]}
    /\ IF op.evicted # NoKey THEN InvalidateCachedChannelSlot(op.evicted)
                             ELSE UNCHANGED cache
    /\ op' = Free
    /\ UNCHANGED <<force, meshTest, lastTx>>

\* send_chan_msg: OK, ERROR or no response at all.
SendChanMsg ==
    /\ op.kind = "tx"
    /\ lastTx' = [meant |-> op.key, used |-> radio[op.slot]]
    /\ \/ NoteChannelSlotUsed(op.key)
       \/ InvalidateCachedChannelSlot(op.key)
       \/ UNCHANGED cache
    /\ op' = Free
    /\ UNCHANGED <<radio, force, meshTest>>

-----------------------------------------------------------------------------
(* POST /tools/mesh-test borrows the preferred slot. *)

\* The request drops the cached channel of the slot, then queues for the lock.
MeshTestFreesSlot ==
    /\ MeshTests
    /\ meshTest = "idle"
    /\ meshTest' = "queued"
    /\ \/ \E k \in Cached : slotByKey[k] = PreferredSlot /\ InvalidateCachedChannelSlot(k)
       \/ (\A k \in Cached : slotByKey[k] # PreferredSlot) /\ UNCHANGED cache
    /\ UNCHANGED <<radio, force, op, lastTx>>

\* register_slot=False: the channel is written and sent past the cache.
MeshTestSends ==
    /\ meshTest = "queued"
    /\ op = Free
    /\ op' = [Free EXCEPT !.kind = "test"]
    /\ \/ /\ radio' = [radio EXCEPT ![PreferredSlot] = TestKey]
          /\ lastTx' \in {lastTx, [meant |-> TestKey, used |-> TestKey]}
       \/ UNCHANGED <<radio, lastTx>>
    /\ UNCHANGED <<cache, force, meshTest>>

\* _clear_test_slot, which may fail three times.
MeshTestClears ==
    /\ op.kind = "test"
    /\ radio' \in {radio, [radio EXCEPT ![PreferredSlot] = Empty]}
    /\ op' = Free
    /\ meshTest' = "idle"
    /\ UNCHANGED <<cache, force, lastTx>>

-----------------------------------------------------------------------------
(* push_channels_to_radio, the channels step of a backup restore. *)

BeginPush ==
    /\ RestoreReplies # {}
    /\ op = Free
    /\ \E channels \in SUBSET Keys : op' = [Free EXCEPT !.kind = "push", !.todo = channels]
    /\ UNCHANGED <<cache, radio, force, meshTest, lastTx>>

\* One channel into the next slot; a rejected write leaves the cache alone.
PushChannel(k) ==
    /\ op.kind = "push" /\ k \in op.todo /\ op.slot \in Slots
    /\ \/ /\ "ok" \in RestoreReplies
          /\ radio' = [radio EXCEPT ![op.slot] = k]
          /\ NoteChannelSlotLoaded(k, op.slot)
       \/ "rejected" \in RestoreReplies /\ UNCHANGED <<radio, cache>>
       \/ /\ "silent" \in RestoreReplies
          /\ radio' = [radio EXCEPT ![op.slot] = k]
          /\ UNCHANGED cache
    /\ op' = [op EXCEPT !.slot = @ + 1, !.todo = @ \ {k}]
    /\ UNCHANGED <<force, meshTest, lastTx>>

\* The slots above the channels are emptied.
PushEmptySlot ==
    /\ op.kind = "push" /\ op.todo = {} /\ op.slot \in Slots
    /\ radio' \in {radio, [radio EXCEPT ![op.slot] = Empty]}
    /\ ForgetChannelSlot(op.slot)
    /\ op' = [op EXCEPT !.slot = @ + 1]
    /\ UNCHANGED <<force, meshTest, lastTx>>

EndPush ==
    /\ op.kind = "push" /\ op.slot \notin Slots
    /\ op' = Free
    /\ UNCHANGED <<cache, radio, force, meshTest, lastTx>>

-----------------------------------------------------------------------------
(* What empties the cache as a whole, and the settings route. *)

\* sync_and_offload_channels: every slot is read and cleared, as far as it answers.
SyncAndOffloadChannels ==
    /\ op = Free
    /\ ResetCache
    /\ \E cleared \in SUBSET Slots :
         radio' = [s \in Slots |-> IF s \in cleared THEN Empty ELSE radio[s]]
    /\ UNCHANGED <<force, op, meshTest, lastTx>>

\* A mismatch, a slot that does not answer or a renamed row; otherwise the
\* audit changes nothing.
AuditChannelSendCache ==
    /\ op = Free
    /\ ReuseEnabled
    /\ Cached # {}
    /\ ResetCache
    /\ UNCHANGED <<radio, force, op, meshTest, lastTx>>

\* _reset_connected_runtime_state, run by disconnect under the lock.
Disconnect ==
    /\ op = Free
    /\ ResetCache
    /\ UNCHANGED <<radio, force, op, meshTest, lastTx>>

\* wipe_mesh_identity_data does not take the radio operation lock.
WipeMeshIdentityData ==
    /\ ResetCache
    /\ UNCHANGED <<radio, force, op, meshTest, lastTx>>

\* PATCH /settings: radio_workarounds.apply replaces the flag and nothing else.
ToggleForceReconfigure ==
    /\ Toggles
    /\ force' = ~force
    /\ UNCHANGED <<cache, radio, op, meshTest, lastTx>>

-----------------------------------------------------------------------------
Init ==
    /\ slotByKey = [k \in Keys |-> NoSlot]
    /\ keyBySlot = [s \in Slots |-> NoKey]
    /\ older = {}
    /\ radio = [s \in Slots |-> Empty]
    /\ force = FALSE
    /\ op = Free
    /\ meshTest = "idle"
    /\ lastTx = [meant |-> Empty, used |-> Empty]

Next ==
    \/ \E k \in Keys : BeginSend(k)
    \/ SetChannelOk
    \/ SetChannelFails
    \/ SendChanMsg
    \/ MeshTestFreesSlot
    \/ MeshTestSends
    \/ MeshTestClears
    \/ BeginPush
    \/ \E k \in Keys : PushChannel(k)
    \/ PushEmptySlot
    \/ EndPush
    \/ SyncAndOffloadChannels
    \/ AuditChannelSendCache
    \/ Disconnect
    \/ WipeMeshIdentityData
    \/ ToggleForceReconfigure

Spec == Init /\ [][Next]_vars

-----------------------------------------------------------------------------
Contents == Keys \cup {TestKey, Empty}

Ops == [kind : {"free", "set", "tx", "test", "push"}, key : Keys \cup {NoKey},
        slot : 0 .. Capacity, evicted : Keys \cup {NoKey}, todo : SUBSET Keys]

\* Every variable has its type; `older' orders keys only.
TypeOK ==
    /\ slotByKey \in [Keys -> Slots \cup {NoSlot}]
    /\ keyBySlot \in [Slots -> Keys \cup {NoKey}]
    /\ older \subseteq Keys \X Keys
    /\ radio \in [Slots -> Contents]
    /\ force \in BOOLEAN
    /\ op \in Ops
    /\ meshTest \in {"idle", "queued"}
    /\ lastTx \in [meant : Contents, used : Contents]

\* _channel_slot_by_key and _channel_key_by_slot are inverse to each other
\* after any mix of loads, evictions, invalidations and forgotten slots.
MapsInverse ==
    \A k \in Keys, s \in Slots : slotByKey[k] = s <=> keyBySlot[s] = k

\* The slot a send is about to rewrite is unclaimed, or its owner is the key
\* the plan evicts: a write whose outcome is unknown never leaves a third key
\* cached (plan_channel_send_slot, _find_first_free_channel_slot).
EvictionNamed ==
    op.kind = "set" => keyBySlot[op.slot] \in {NoKey, op.evicted}

\* A cached slot really holds its channel on the radio.
CacheAgrees ==
    \A k \in Cached : radio[slotByKey[k]] = k

\* Every transmission leaves under the key of the channel it was meant for.
SendsUnderOwnKey ==
    lastTx.used = lastTx.meant
=============================================================================
