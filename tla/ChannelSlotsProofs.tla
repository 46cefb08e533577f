------------------------- MODULE ChannelSlotsProofs -------------------------
(***************************************************************************)
(* Proofs about ChannelSlots, for every set of channels and every number   *)
(* of slots.                                                               *)
(***************************************************************************)
EXTENDS ChannelSlots, FiniteSetTheorems, WellFoundedInduction, TLAPS

CacheType ==
    /\ slotByKey \in [Keys -> Slots \cup {NoSlot}]
    /\ keyBySlot \in [Slots -> Keys \cup {NoKey}]
    /\ older \subseteq Keys \X Keys

\* A step that only forgets: no entry appears or moves.
OnlyForgets ==
    /\ \A k \in Keys : slotByKey'[k] \in {slotByKey[k], NoSlot}
    /\ \A s \in Slots : keyBySlot'[s] \in {keyBySlot[s], NoKey}

\* NoSlot, the model of None, is no slot, and the preferred slot is one.
LEMMA SlotFacts ==
    /\ NoSlot \notin Slots
    /\ PreferredSlot \in Slots
    /\ Slots \subseteq 0 .. Capacity
    /\ \A s \in Slots : s + 1 \in 0 .. Capacity
BY CapacityAssumption DEF NoSlot, Slots, PreferredSlot

\* reset_channel_send_cache empties both maps.
LEMMA ResetCacheFacts ==
    ASSUME ResetCache
    PROVE  /\ CacheType'
           /\ MapsInverse'
           /\ OnlyForgets
BY SlotFacts, KeyAssumption DEF ResetCache, CacheType, MapsInverse, OnlyForgets

\* invalidate_cached_channel_slot forgets the key and, with it, its slot.
LEMMA InvalidateFacts ==
    ASSUME NEW k \in Keys, CacheType, MapsInverse, InvalidateCachedChannelSlot(k)
    PROVE  /\ CacheType'
           /\ MapsInverse'
           /\ OnlyForgets
           /\ slotByKey'[k] = NoSlot
<1>1. CASE slotByKey[k] = NoSlot
  BY <1>1 DEF InvalidateCachedChannelSlot, cache, CacheType, MapsInverse, OnlyForgets
<1>2. CASE slotByKey[k] # NoSlot
  BY <1>2, SlotFacts, KeyAssumption
     DEF InvalidateCachedChannelSlot, Without, CacheType, MapsInverse, OnlyForgets
<1> QED BY <1>1, <1>2

\* forget_channel_slot forgets the slot and, with it, its key.
LEMMA ForgetFacts ==
    ASSUME NEW s \in Slots, CacheType, MapsInverse, ForgetChannelSlot(s)
    PROVE  /\ CacheType'
           /\ MapsInverse'
           /\ OnlyForgets
           /\ keyBySlot'[s] = NoKey
<1>1. CASE keyBySlot[s] = NoKey
  BY <1>1 DEF ForgetChannelSlot, cache, CacheType, MapsInverse, OnlyForgets
<1>2. CASE keyBySlot[s] # NoKey
  <2>1. slotByKey[keyBySlot[s]] = s
    BY <1>2 DEF CacheType, MapsInverse
  <2> QED
    BY <1>2, <2>1, SlotFacts, KeyAssumption
       DEF ForgetChannelSlot, Without, CacheType, MapsInverse, OnlyForgets
<1> QED BY <1>1, <1>2

\* note_channel_slot_used moves a key to the end of the order, nothing else.
LEMMA UsedFacts ==
    ASSUME NEW k \in Keys, CacheType, MapsInverse, NoteChannelSlotUsed(k)
    PROVE  /\ CacheType'
           /\ MapsInverse'
           /\ OnlyForgets
<1>1. CASE ReuseEnabled /\ k \in Cached
  <2>1. slotByKey[k] \in Slots /\ keyBySlot[slotByKey[k]] = k
    BY <1>1 DEF CacheType, MapsInverse, Cached
  <2>2. UNCHANGED <<slotByKey, keyBySlot>>
    BY <1>1, <2>1 DEF NoteChannelSlotUsed, CacheType
  <2>3. older' \subseteq Keys \X Keys
    BY <1>1 DEF NoteChannelSlotUsed, MovedToEnd, Without, CacheType, Cached
  <2> QED BY <2>2, <2>3 DEF CacheType, MapsInverse, OnlyForgets
<1>2. CASE ~(ReuseEnabled /\ k \in Cached)
  BY <1>2 DEF NoteChannelSlotUsed, cache, CacheType, MapsInverse, OnlyForgets
<1> QED BY <1>1, <1>2

\* note_channel_slot_loaded moves the key to the slot and drops the key the
\* slot held; every other entry stays.
LEMMA LoadedFacts ==
    ASSUME NEW k \in Keys, NEW s \in Slots, CacheType, MapsInverse,
           NoteChannelSlotLoaded(k, s)
    PROVE  /\ CacheType'
           /\ MapsInverse'
           /\ ReuseEnabled => \A x \in Keys :
                 slotByKey'[x] = IF x = k THEN s
                                 ELSE IF slotByKey[x] = s THEN NoSlot
                                 ELSE slotByKey[x]
<1>1. CASE ~ReuseEnabled
  BY <1>1 DEF NoteChannelSlotLoaded, cache, CacheType, MapsInverse
<1>2. CASE ReuseEnabled
  <2> DEFINE dropped == {keyBySlot[s]} \ {k, NoKey}
  <2>1. /\ slotByKey' = [x \in Keys |-> IF x = k THEN s
                                        ELSE IF x \in dropped THEN NoSlot
                                        ELSE slotByKey[x]]
        /\ keyBySlot' = [t \in Slots |-> IF t = s THEN k
                                         ELSE IF t = slotByKey[k] THEN NoKey
                                         ELSE keyBySlot[t]]
    BY <1>2 DEF NoteChannelSlotLoaded
  <2>2. older' \subseteq Keys \X Keys
    BY <1>2 DEF NoteChannelSlotLoaded, MovedToEnd, Without, CacheType, Cached
  <2>3. \A x \in Keys \ {k} : x \in dropped <=> slotByKey[x] = s
    BY KeyAssumption DEF MapsInverse, CacheType
  <2>4. CacheType'
    BY <2>1, <2>2 DEF CacheType
  <2>5. MapsInverse'
    <3> SUFFICES ASSUME NEW x \in Keys, NEW t \in Slots
                 PROVE  slotByKey'[x] = t <=> keyBySlot'[t] = x
      BY DEF MapsInverse
    <3>1. slotByKey[x] = t <=> keyBySlot[t] = x
      BY DEF MapsInverse
    <3>2. slotByKey[k] = t <=> keyBySlot[t] = k
      BY DEF MapsInverse
    <3> HIDE DEF dropped
    <3> QED BY <2>1, <2>3, <3>1, <3>2, SlotFacts, KeyAssumption
  <2> QED BY <2>1, <2>3, <2>4, <2>5
<1> QED BY <1>1, <1>2

-----------------------------------------------------------------------------
(* The two maps stay inverse whatever happens. *)

\* An operation holding the lock names a real channel and a real slot.
OpWellFormed ==
    op.kind \in {"set", "tx"} => op.key \in Keys /\ op.slot \in Slots

MapsInv == TypeOK /\ MapsInverse /\ OpWellFormed

\* The initial state: an empty cache and no operation.
LEMMA MapsInit == Init => MapsInv
<1> SUFFICES ASSUME Init PROVE MapsInv
  OBVIOUS
<1>1. Free \in Ops /\ Free.kind = "free"
  BY SlotFacts DEF Free, Ops
<1>2. TypeOK
  BY <1>1 DEF Init, TypeOK, Contents
<1>3. MapsInverse /\ OpWellFormed
  BY <1>1, SlotFacts, KeyAssumption DEF Init, MapsInverse, OpWellFormed
<1> QED BY <1>2, <1>3 DEF MapsInv

\* A non-empty set of slots has a least element.
LEMMA LeastNatural ==
    ASSUME NEW S \in SUBSET Nat, S # {}
    PROVE  \E s \in S : \A t \in S : s <= t
<1>1. PICK s \in S : \A t \in S : <<t, s>> \notin OpToRel(<, Nat)
  BY NatLessThanWellFounded, WFMin
<1>2. \A t \in S : ~(t < s)
  BY <1>1 DEF OpToRel
<1> QED BY <1>2

\* The slot a plan picks exists, and so does the key it evicts.
LEMMA PlanFacts ==
    ASSUME NEW k \in Keys, CacheType, NEW p \in PlanChannelSendSlot(k)
    PROVE  /\ p.slot \in Slots
           /\ p.evicted \in Keys \cup {NoKey}
<1>1. FirstFreeChannelSlot \in Slots
  <2> DEFINE free == {s \in Slots : keyBySlot[s] = NoKey}
  <2>1. CASE free = {}
    BY <2>1, SlotFacts DEF FirstFreeChannelSlot
  <2>2. CASE free # {}
    <3>1. \E s \in free : \A t \in free : s <= t
      <4>1. free \subseteq Nat
        BY DEF Slots
      <4> HIDE DEF free
      <4> QED BY <2>2, <4>1, LeastNatural
    <3> QED BY <2>2, <3>1 DEF FirstFreeChannelSlot
  <2> QED BY <2>1, <2>2
<1>2. \A e \in Oldest : e \in Keys /\ slotByKey[e] \in Slots
  BY DEF Oldest, Cached, CacheType
<1>3. k \in Cached => slotByKey[k] \in Slots
  BY DEF Cached, CacheType
<1> QED BY <1>1, <1>2, <1>3, SlotFacts DEF PlanChannelSendSlot

\* One step of any actor keeps the maps inverse to each other.
LEMMA MapsNext == MapsInv /\ [Next]_vars => MapsInv'
<1> SUFFICES ASSUME MapsInv, [Next]_vars PROVE MapsInv'
  OBVIOUS
<1> USE SlotFacts, KeyAssumption
<1>0. CacheType /\ MapsInverse /\ TypeOK /\ OpWellFormed
  BY DEF MapsInv, TypeOK, CacheType
<1>F. Free \in Ops /\ Free.kind = "free"
  BY DEF Free, Ops
<1>Q. ASSUME CacheType', MapsInverse', OpWellFormed',
             radio' \in [Slots -> Contents], force' \in BOOLEAN, op' \in Ops,
             meshTest' \in {"idle", "queued"},
             lastTx' \in [meant : Contents, used : Contents]
      PROVE  MapsInv'
  BY <1>Q DEF MapsInv, TypeOK, CacheType
<1>1. ASSUME NEW k \in Keys, BeginSend(k) PROVE MapsInv'
  <2>1. PICK p \in PlanChannelSendSlot(k) :
           op' = [Free EXCEPT !.kind = IF p.configure THEN "set" ELSE "tx",
                              !.key = k, !.slot = p.slot, !.evicted = p.evicted]
    BY <1>1 DEF BeginSend
  <2>2. p.slot \in Slots /\ p.evicted \in Keys \cup {NoKey}
    BY <1>0, PlanFacts
  <2>3. op' \in Ops /\ OpWellFormed'
    BY <2>1, <2>2 DEF Free, Ops, OpWellFormed
  <2> QED BY <1>0, <1>1, <2>3, <1>Q DEF BeginSend, cache, CacheType, MapsInverse, TypeOK
<1>2. CASE SetChannelOk
  <2>1. op.key \in Keys /\ op.slot \in Slots
    BY <1>0, <1>2 DEF SetChannelOk, OpWellFormed
  <2>2. CacheType' /\ MapsInverse'
    BY <1>0, <1>2, <2>1, LoadedFacts DEF SetChannelOk
  <2>3. op' \in Ops /\ OpWellFormed' /\ radio' \in [Slots -> Contents]
    BY <1>0, <1>2, <2>1 DEF SetChannelOk, TypeOK, Ops, OpWellFormed, Contents
  <2> QED BY <1>0, <1>2, <2>2, <2>3, <1>Q DEF SetChannelOk, TypeOK
<1>3. CASE SetChannelFails
  <2>1. op.key \in Keys /\ op.slot \in Slots
    BY <1>0, <1>3 DEF SetChannelFails, OpWellFormed
  <2>2. CacheType' /\ MapsInverse'
    <3>1. CASE op.evicted = NoKey
      BY <1>0, <1>3, <3>1 DEF SetChannelFails, cache, CacheType, MapsInverse
    <3>2. CASE op.evicted # NoKey
      <4>1. op.evicted \in Keys
        BY <1>0, <3>2 DEF TypeOK, Ops
      <4> QED BY <1>0, <1>3, <3>2, <4>1, InvalidateFacts DEF SetChannelFails
    <3> QED BY <3>1, <3>2
  <2>3. op' \in Ops /\ OpWellFormed' /\ radio' \in [Slots -> Contents]
    BY <1>0, <1>3, <1>F, <2>1 DEF SetChannelFails, TypeOK, OpWellFormed, Contents
  <2> QED BY <1>0, <1>3, <2>2, <2>3, <1>Q DEF SetChannelFails, TypeOK
<1>4. CASE SendChanMsg
  <2>1. op.key \in Keys /\ op.slot \in Slots
    BY <1>0, <1>4 DEF SendChanMsg, OpWellFormed
  <2>2. CacheType' /\ MapsInverse'
    <3>1. CASE UNCHANGED cache
      BY <1>0, <3>1 DEF cache, CacheType, MapsInverse
    <3> QED BY <1>0, <1>4, <2>1, <3>1, UsedFacts, InvalidateFacts DEF SendChanMsg
  <2>3. lastTx' \in [meant : Contents, used : Contents]
    BY <1>0, <1>4, <2>1 DEF SendChanMsg, TypeOK, Contents
  <2> QED BY <1>0, <1>4, <1>F, <2>2, <2>3, <1>Q DEF SendChanMsg, TypeOK, OpWellFormed
<1>5. CASE MeshTestFreesSlot
  <2>1. CacheType' /\ MapsInverse'
    <3>1. CASE UNCHANGED cache
      BY <1>0, <3>1 DEF cache, CacheType, MapsInverse
    <3> QED BY <1>0, <1>5, <3>1, InvalidateFacts DEF MeshTestFreesSlot, Cached
  <2> QED BY <1>0, <1>5, <2>1, <1>Q DEF MeshTestFreesSlot, TypeOK, OpWellFormed
<1>6. CASE MeshTestSends
  <2>1. op' \in Ops /\ OpWellFormed'
    BY <1>6 DEF MeshTestSends, Free, Ops, OpWellFormed
  <2>2. /\ radio' \in [Slots -> Contents]
        /\ lastTx' \in [meant : Contents, used : Contents]
    BY <1>0, <1>6 DEF MeshTestSends, TypeOK, Contents
  <2> QED BY <1>0, <1>6, <2>1, <2>2, <1>Q
             DEF MeshTestSends, TypeOK, cache, CacheType, MapsInverse
<1>7. CASE MeshTestClears
  <2>1. radio' \in [Slots -> Contents]
    BY <1>0, <1>7 DEF MeshTestClears, TypeOK, Contents
  <2> QED BY <1>0, <1>7, <1>F, <2>1, <1>Q
             DEF MeshTestClears, TypeOK, OpWellFormed, cache, CacheType, MapsInverse
<1>8. CASE BeginPush
  <2>1. op' \in Ops /\ OpWellFormed'
    BY <1>8 DEF BeginPush, Free, Ops, OpWellFormed
  <2> QED BY <1>0, <1>8, <2>1, <1>Q DEF BeginPush, TypeOK, cache, CacheType, MapsInverse
<1>9. ASSUME NEW k \in Keys, PushChannel(k) PROVE MapsInv'
  <2>1. CacheType' /\ MapsInverse'
    <3>1. CASE UNCHANGED cache
      BY <1>0, <3>1 DEF cache, CacheType, MapsInverse
    <3> QED BY <1>0, <1>9, <3>1, LoadedFacts DEF PushChannel
  <2>2. op' \in Ops /\ OpWellFormed' /\ radio' \in [Slots -> Contents]
    BY <1>0, <1>9, ZenonT(40) DEF PushChannel, TypeOK, Ops, OpWellFormed, Contents
  <2> QED BY <1>0, <1>9, <2>1, <2>2, <1>Q DEF PushChannel, TypeOK
<1>10. CASE PushEmptySlot
  <2>1. CacheType' /\ MapsInverse'
    BY <1>0, <1>10, ForgetFacts DEF PushEmptySlot
  <2>2. op' \in Ops /\ OpWellFormed' /\ radio' \in [Slots -> Contents]
    BY <1>0, <1>10 DEF PushEmptySlot, TypeOK, Ops, OpWellFormed, Contents
  <2> QED BY <1>0, <1>10, <2>1, <2>2, <1>Q DEF PushEmptySlot, TypeOK
<1>11. CASE EndPush
  BY <1>0, <1>11, <1>F, <1>Q
     DEF EndPush, TypeOK, OpWellFormed, cache, CacheType, MapsInverse
<1>12. CASE SyncAndOffloadChannels
  <2>1. radio' \in [Slots -> Contents]
    BY <1>0, <1>12 DEF SyncAndOffloadChannels, TypeOK, Contents
  <2> QED BY <1>0, <1>12, <2>1, ResetCacheFacts, <1>Q
             DEF SyncAndOffloadChannels, TypeOK, OpWellFormed
<1>13. CASE AuditChannelSendCache
  BY <1>0, <1>13, ResetCacheFacts, <1>Q DEF AuditChannelSendCache, TypeOK, OpWellFormed
<1>14. CASE Disconnect
  BY <1>0, <1>14, ResetCacheFacts, <1>Q DEF Disconnect, TypeOK, OpWellFormed
<1>15. CASE WipeMeshIdentityData
  BY <1>0, <1>15, ResetCacheFacts, <1>Q DEF WipeMeshIdentityData, TypeOK, OpWellFormed
<1>16. CASE ToggleForceReconfigure
  BY <1>0, <1>16, <1>Q
     DEF ToggleForceReconfigure, TypeOK, OpWellFormed, cache, CacheType, MapsInverse
<1>17. CASE UNCHANGED vars
  BY <1>0, <1>17 DEF vars, MapsInv, TypeOK, MapsInverse, OpWellFormed
<1> QED
  BY <1>1, <1>2, <1>3, <1>4, <1>5, <1>6, <1>7, <1>8, <1>9, <1>10, <1>11, <1>12,
     <1>13, <1>14, <1>15, <1>16, <1>17 DEF Next

\* Every variable keeps its type.
THEOREM SlotsTyped == Spec => []TypeOK
<1>1. MapsInv => TypeOK
  BY DEF MapsInv
<1> QED BY <1>1, MapsInit, MapsNext, PTL DEF Spec

\* _channel_slot_by_key and _channel_key_by_slot stay inverse to each other, with
\* mesh tests, settings changes and unanswered restore writes included.
THEOREM MapsStayInverse == Spec => []MapsInverse
<1>1. MapsInv => MapsInverse
  BY DEF MapsInv
<1> QED BY <1>1, MapsInit, MapsNext, PTL DEF Spec

-----------------------------------------------------------------------------
(* Without the three actions that break it, every message leaves under the *)
(* key of its channel.                                                     *)

\* No mesh test, no change of the workaround, no unanswered restore write.
Quiet == ~MeshTests /\ ~Toggles /\ "silent" \notin RestoreReplies

\* What a send relies on between its plan and its transmission.
SendReady ==
    /\ ~force /\ op.kind # "test" /\ meshTest = "idle"
    /\ op.kind = "tx" => radio[op.slot] = op.key

AgreeInv == EvictionNamed /\ CacheAgrees /\ SendReady /\ SendsUnderOwnKey

\* While fewer keys are cached than there are slots, some slot is unclaimed:
\* _find_first_free_channel_slot never falls back to a claimed slot.
LEMMA FreeSlotExists ==
    ASSUME CacheType, MapsInverse, Cardinality(Cached) < Capacity
    PROVE  \E s \in Slots : keyBySlot[s] = NoKey
<1> SUFFICES ASSUME \A s \in Slots : keyBySlot[s] # NoKey PROVE FALSE
  OBVIOUS
<1>1. keyBySlot \in [Slots -> Cached]
  BY SlotFacts DEF CacheType, MapsInverse, Cached
<1>2. IsFiniteSet(Slots) /\ Cardinality(Slots) = Capacity
  BY FS_Interval, CapacityAssumption DEF Slots
<1>3. IsFiniteSet(Cached)
  BY FS_Subset, KeyAssumption DEF Cached
<1>4. PICK s \in Slots, t \in Slots : s # t /\ keyBySlot[s] = keyBySlot[t]
  BY <1>1, <1>2, <1>3, FS_PigeonHole
<1> QED BY <1>1, <1>4 DEF MapsInverse, Cached

\* A plan that rewrites a slot names the key it takes it from; a plan that
\* does not rewrite it reuses the slot the cache gives.
LEMMA PlanNamesEviction ==
    ASSUME NEW k \in Keys, CacheType, MapsInverse, ~force,
           NEW p \in PlanChannelSendSlot(k)
    PROVE  /\ p.configure => keyBySlot[p.slot] \in {NoKey, p.evicted}
           /\ ~p.configure => k \in Cached /\ p.slot = slotByKey[k]
<1>1. CASE k \in Cached
  BY <1>1 DEF PlanChannelSendSlot, ReuseEnabled
<1>2. CASE k \notin Cached /\ Cardinality(Cached) < Capacity
  <2> DEFINE free == {s \in Slots : keyBySlot[s] = NoKey}
  <2>1. free # {} /\ free \in SUBSET Nat
    BY <1>2, FreeSlotExists DEF Slots
  <2>2. \E s \in free : \A t \in free : s <= t
    <3> HIDE DEF free
    <3> QED BY <2>1, LeastNatural
  <2>3. keyBySlot[FirstFreeChannelSlot] = NoKey
    BY <2>1, <2>2 DEF FirstFreeChannelSlot
  <2>4. p = [slot |-> FirstFreeChannelSlot, configure |-> TRUE, evicted |-> NoKey]
    BY <1>2 DEF PlanChannelSendSlot, ReuseEnabled
  <2> QED BY <2>3, <2>4
<1>3. CASE k \notin Cached /\ ~(Cardinality(Cached) < Capacity)
  <2>1. PICK e \in Oldest :
           p = [slot |-> slotByKey[e], configure |-> TRUE, evicted |-> e]
    BY <1>3 DEF PlanChannelSendSlot, ReuseEnabled
  <2>2. e \in Keys /\ slotByKey[e] \in Slots
    BY DEF Oldest, Cached, CacheType
  <2> QED BY <2>1, <2>2 DEF MapsInverse
<1> QED BY <1>1, <1>2, <1>3

\* One step keeps the eviction named, when the workaround stays off: the cache
\* only forgets while a load is under way, even when it is the mesh test or the
\* identity wipe that forgets, without the lock.
LEMMA EvictionNext ==
    ASSUME ~Toggles, MapsInv, ~force, EvictionNamed, [Next]_vars
    PROVE  ~force' /\ EvictionNamed'
<1> USE SlotFacts, KeyAssumption
<1>0. CacheType /\ MapsInverse /\ TypeOK /\ OpWellFormed
  BY DEF MapsInv, TypeOK, CacheType
<1>F. Free.kind = "free"
  BY DEF Free
<1>1. ~force'
  BY DEF Next, vars, BeginSend, SetChannelOk, SetChannelFails, SendChanMsg, MeshTestFreesSlot,
         MeshTestSends, MeshTestClears, BeginPush, PushChannel, PushEmptySlot, EndPush,
         SyncAndOffloadChannels, AuditChannelSendCache, Disconnect, WipeMeshIdentityData,
         ToggleForceReconfigure
<1>2. ASSUME NEW k \in Keys, BeginSend(k) PROVE EvictionNamed'
  <2>1. PICK p \in PlanChannelSendSlot(k) :
           op' = [Free EXCEPT !.kind = IF p.configure THEN "set" ELSE "tx",
                              !.key = k, !.slot = p.slot, !.evicted = p.evicted]
    BY <1>2 DEF BeginSend
  <2>2. p.configure => keyBySlot[p.slot] \in {NoKey, p.evicted}
    BY <1>0, PlanNamesEviction
  <2>3. /\ op'.kind = IF p.configure THEN "set" ELSE "tx"
        /\ op'.slot = p.slot /\ op'.evicted = p.evicted
    BY <2>1 DEF Free
  <2> QED BY <1>2, <2>2, <2>3 DEF EvictionNamed, BeginSend, cache
<1>3. ASSUME OnlyForgets, op' = op PROVE EvictionNamed'
  BY <1>0, <1>3 DEF EvictionNamed, OnlyForgets, OpWellFormed
<1>4. CASE MeshTestFreesSlot
  <2>1. OnlyForgets
    <3>1. CASE UNCHANGED cache
      BY <3>1 DEF cache, OnlyForgets
    <3> QED BY <1>0, <1>4, <3>1, InvalidateFacts DEF MeshTestFreesSlot, Cached
  <2> QED BY <1>3, <1>4, <2>1 DEF MeshTestFreesSlot
<1>5. CASE SyncAndOffloadChannels \/ AuditChannelSendCache \/ Disconnect \/ WipeMeshIdentityData
  BY <1>3, <1>5, ResetCacheFacts
     DEF SyncAndOffloadChannels, AuditChannelSendCache, Disconnect, WipeMeshIdentityData
<1>6. op'.kind # "set" => EvictionNamed'
  BY DEF EvictionNamed
<1>7. CASE SetChannelOk \/ SetChannelFails \/ SendChanMsg
  BY <1>0, <1>F, <1>6, <1>7 DEF SetChannelOk, SetChannelFails, SendChanMsg, TypeOK, Ops
<1>8. CASE MeshTestSends \/ MeshTestClears \/ BeginPush \/ EndPush
  <2>1. CASE MeshTestSends \/ BeginPush
    <3>1. op'.kind # "set"
      BY <2>1 DEF MeshTestSends, BeginPush, Free
    <3> QED BY <1>1, <1>6, <3>1
  <2>2. CASE MeshTestClears \/ EndPush
    <3>1. op' = Free
      BY <2>2 DEF MeshTestClears, EndPush
    <3> QED BY <1>1, <1>F, <1>6, <3>1
  <2> QED BY <1>8, <2>1, <2>2
<1>9. ASSUME NEW k \in Keys, PushChannel(k) PROVE EvictionNamed'
  BY <1>0, <1>6, <1>9 DEF PushChannel, TypeOK, Ops
<1>10. CASE PushEmptySlot
  BY <1>0, <1>6, <1>10 DEF PushEmptySlot, TypeOK, Ops
<1>11. CASE UNCHANGED vars
  BY <1>11 DEF vars, EvictionNamed
<1>12. ~ToggleForceReconfigure
  BY DEF ToggleForceReconfigure
<1> QED
  BY <1>1, <1>2, <1>4, <1>5, <1>7, <1>8, <1>9, <1>10, <1>11, <1>12 DEF Next

\* A load never rewrites a slot whose channel the plan did not name, mesh tests,
\* identity wipes and backup restores included, as long as
\* force_channel_slot_reconfigure stays off (plan_channel_send_slot).
THEOREM EvictionAlwaysNamed ==
    ASSUME ~Toggles PROVE Spec => []EvictionNamed
<1>1. Init => MapsInv /\ ~force /\ EvictionNamed
  BY MapsInit DEF Init, EvictionNamed, Free
<1>2. MapsInv /\ ~force /\ EvictionNamed /\ [Next]_vars => (MapsInv /\ ~force /\ EvictionNamed)'
  BY MapsNext, EvictionNext
<1> QED BY <1>1, <1>2, PTL DEF Spec

\* Forgetting entries cannot make the cache wrong.
LEMMA ForgettingAgrees ==
    ASSUME CacheType, CacheAgrees, OnlyForgets,
           \A k \in Keys : slotByKey'[k] # NoSlot => radio'[slotByKey[k]] = radio[slotByKey[k]]
    PROVE  CacheAgrees'
BY DEF CacheAgrees, OnlyForgets, Cached

\* One step keeps the cache in agreement with the radio.
LEMMA AgreeNext ==
    ASSUME Quiet, MapsInv, AgreeInv, [Next]_vars
    PROVE  AgreeInv'
<1> USE SlotFacts, KeyAssumption
<1>0. CacheType /\ MapsInverse /\ TypeOK /\ OpWellFormed
  BY DEF MapsInv, TypeOK, CacheType
<1>A. EvictionNamed /\ CacheAgrees /\ SendReady /\ SendsUnderOwnKey
  BY DEF AgreeInv
<1>F. Free.kind = "free"
  BY DEF Free
<1>1. ASSUME NEW k \in Keys, BeginSend(k) PROVE AgreeInv'
  <2>1. PICK p \in PlanChannelSendSlot(k) :
           op' = [Free EXCEPT !.kind = IF p.configure THEN "set" ELSE "tx",
                              !.key = k, !.slot = p.slot, !.evicted = p.evicted]
    BY <1>1 DEF BeginSend
  <2>2. /\ p.configure => keyBySlot[p.slot] \in {NoKey, p.evicted}
        /\ ~p.configure => k \in Cached /\ p.slot = slotByKey[k]
    BY <1>0, <1>A, PlanNamesEviction DEF SendReady
  <2>3. /\ op'.kind = IF p.configure THEN "set" ELSE "tx"
        /\ op'.key = k /\ op'.slot = p.slot /\ op'.evicted = p.evicted
    BY <2>1 DEF Free
  <2>4. EvictionNamed'
    BY <1>1, <2>2, <2>3 DEF EvictionNamed, BeginSend, cache
  <2>5. CacheAgrees' /\ SendsUnderOwnKey'
    BY <1>1, <1>A DEF BeginSend, cache, CacheAgrees, SendsUnderOwnKey, Cached
  <2>6. SendReady'
    BY <1>1, <1>A, <2>2, <2>3 DEF BeginSend, SendReady, CacheAgrees
  <2> QED BY <2>4, <2>5, <2>6 DEF AgreeInv
<1>2. CASE SetChannelOk
  <2>1. op.key \in Keys /\ op.slot \in Slots
    BY <1>0, <1>2 DEF SetChannelOk, OpWellFormed
  <2>2. \A x \in Keys : slotByKey'[x] = IF x = op.key THEN op.slot
                                         ELSE IF slotByKey[x] = op.slot THEN NoSlot
                                         ELSE slotByKey[x]
    BY <1>0, <1>2, <1>A, <2>1, LoadedFacts DEF SetChannelOk, SendReady, ReuseEnabled
  <2>3. \A s \in Slots : radio'[s] = IF s = op.slot THEN op.key ELSE radio[s]
    BY <1>0, <1>2, <2>1 DEF SetChannelOk, TypeOK
  <2>4. CacheAgrees'
    <3> SUFFICES ASSUME NEW x \in Keys, slotByKey'[x] # NoSlot
                 PROVE  radio'[slotByKey'[x]] = x
      BY DEF CacheAgrees, Cached
    <3>1. CASE x = op.key
      BY <2>1, <2>2, <2>3, <3>1
    <3>2. CASE x # op.key
      <4>1. slotByKey'[x] = slotByKey[x] /\ slotByKey[x] \in Slots \ {op.slot}
        BY <1>0, <2>2, <3>2 DEF CacheType
      <4> QED BY <1>A, <2>3, <4>1 DEF CacheAgrees, Cached
    <3> QED BY <3>1, <3>2
  <2>5. op'.kind = "tx" /\ op'.slot = op.slot /\ op'.key = op.key
    BY <1>0, <1>2 DEF SetChannelOk, TypeOK, Ops
  <2> QED BY <1>A, <1>2, <2>1, <2>3, <2>4, <2>5
             DEF AgreeInv, SetChannelOk, EvictionNamed, SendReady, SendsUnderOwnKey
<1>3. CASE SetChannelFails
  <2>1. op.key \in Keys /\ op.slot \in Slots
    BY <1>0, <1>3 DEF SetChannelFails, OpWellFormed
  <2>2. \A s \in Slots \ {op.slot} : radio'[s] = radio[s]
    BY <1>0, <1>3, <2>1 DEF SetChannelFails, TypeOK
  <2>3. keyBySlot[op.slot] \in {NoKey, op.evicted}
    BY <1>A, <1>3 DEF EvictionNamed, SetChannelFails
  <2>A. ASSUME NEW x \in Keys PROVE slotByKey[x] = op.slot <=> keyBySlot[op.slot] = x
    BY <1>0, <2>1 DEF MapsInverse
  <2>4. OnlyForgets /\ \A x \in Keys : slotByKey[x] = op.slot => slotByKey'[x] = NoSlot
    <3>1. CASE op.evicted = NoKey
      <4>1. slotByKey' = slotByKey /\ keyBySlot' = keyBySlot
        BY <1>3, <3>1 DEF SetChannelFails, cache
      <4>2. \A x \in Keys : slotByKey[x] # op.slot
        BY <2>A, <2>3, <3>1
      <4> QED BY <4>1, <4>2 DEF OnlyForgets
    <3>2. CASE op.evicted # NoKey
      <4>1. op.evicted \in Keys
        BY <1>0, <3>2 DEF TypeOK, Ops
      <4>2. OnlyForgets /\ slotByKey'[op.evicted] = NoSlot
        BY <1>0, <1>3, <3>2, <4>1, InvalidateFacts DEF SetChannelFails
      <4>3. \A x \in Keys : slotByKey[x] = op.slot => x = op.evicted
        BY <2>A, <2>3
      <4> QED BY <4>2, <4>3
    <3> QED BY <3>1, <3>2
  <2>5. CacheAgrees'
    <3>1. \A x \in Keys : slotByKey'[x] # NoSlot => radio'[slotByKey[x]] = radio[slotByKey[x]]
      BY <1>0, <2>2, <2>4, ZenonT(40) DEF OnlyForgets, CacheType
    <3> QED BY <1>0, <1>A, <2>4, <3>1, ForgettingAgrees
  <2> QED BY <1>A, <1>F, <1>3, <2>5
             DEF AgreeInv, SetChannelFails, EvictionNamed, SendReady, SendsUnderOwnKey
<1>4. CASE SendChanMsg
  <2>1. op.key \in Keys /\ op.slot \in Slots
    BY <1>0, <1>4 DEF SendChanMsg, OpWellFormed
  <2>2. OnlyForgets
    <3>1. CASE UNCHANGED cache
      BY <3>1 DEF cache, OnlyForgets
    <3> QED BY <1>0, <1>4, <2>1, <3>1, UsedFacts, InvalidateFacts DEF SendChanMsg
  <2>3. CacheAgrees'
    BY <1>0, <1>A, <1>4, <2>2, ForgettingAgrees DEF SendChanMsg
  <2>4. SendsUnderOwnKey'
    BY <1>A, <1>4 DEF SendChanMsg, SendReady, SendsUnderOwnKey
  <2> QED BY <1>A, <1>F, <1>4, <2>3, <2>4
             DEF AgreeInv, SendChanMsg, EvictionNamed, SendReady
<1>5. ASSUME NEW k \in Keys, PushChannel(k) PROVE AgreeInv'
  <2>1. op.slot \in Slots /\ op' = [op EXCEPT !.slot = @ + 1, !.todo = @ \ {k}]
    BY <1>5 DEF PushChannel
  <2>2. op'.kind = "push"
    BY <1>0, <1>5, <2>1 DEF PushChannel, TypeOK, Ops
  <2>3. CacheAgrees'
    <3>1. CASE UNCHANGED <<radio, cache>>
      BY <1>A, <3>1 DEF CacheAgrees, cache, Cached
    <3>2. CASE radio' = [radio EXCEPT ![op.slot] = k] /\ NoteChannelSlotLoaded(k, op.slot)
      <4>1. \A x \in Keys : slotByKey'[x] = IF x = k THEN op.slot
                                             ELSE IF slotByKey[x] = op.slot THEN NoSlot
                                             ELSE slotByKey[x]
        BY <1>0, <1>A, <2>1, <3>2, LoadedFacts DEF SendReady, ReuseEnabled
      <4>2. \A s \in Slots : radio'[s] = IF s = op.slot THEN k ELSE radio[s]
        BY <1>0, <2>1, <3>2 DEF TypeOK
      <4> SUFFICES ASSUME NEW x \in Keys, slotByKey'[x] # NoSlot
                   PROVE  radio'[slotByKey'[x]] = x
        BY DEF CacheAgrees, Cached
      <4>3. CASE x = k
        BY <2>1, <4>1, <4>2, <4>3
      <4>4. CASE x # k
        <5>1. slotByKey'[x] = slotByKey[x] /\ slotByKey[x] \in Slots \ {op.slot}
          BY <1>0, <4>1, <4>4 DEF CacheType
        <5> QED BY <1>A, <4>2, <5>1 DEF CacheAgrees, Cached
      <4> QED BY <4>3, <4>4
    <3> QED BY <1>5, <3>1, <3>2 DEF PushChannel, Quiet
  <2> QED BY <1>A, <1>5, <2>2, <2>3
             DEF AgreeInv, PushChannel, EvictionNamed, SendReady, SendsUnderOwnKey
<1>6. CASE PushEmptySlot
  <2>1. OnlyForgets /\ keyBySlot'[op.slot] = NoKey /\ MapsInverse' /\ op.slot \in Slots
    BY <1>0, <1>6, ForgetFacts DEF PushEmptySlot
  <2>2. \A s \in Slots \ {op.slot} : radio'[s] = radio[s]
    BY <1>0, <1>6 DEF PushEmptySlot, TypeOK
  <2>3. CacheAgrees'
    <3>1. \A x \in Keys : slotByKey'[x] # op.slot
      <4> SUFFICES ASSUME NEW x \in Keys PROVE slotByKey'[x] # op.slot
        OBVIOUS
      <4>1. slotByKey'[x] = op.slot <=> keyBySlot'[op.slot] = x
        BY <2>1 DEF MapsInverse
      <4>2. keyBySlot'[op.slot] # x
        BY <2>1, KeyAssumption
      <4> QED BY <4>1, <4>2
    <3>2. \A x \in Keys : slotByKey'[x] # NoSlot => radio'[slotByKey[x]] = radio[slotByKey[x]]
      BY <1>0, <2>1, <2>2, <3>1, ZenonT(40) DEF OnlyForgets, CacheType
    <3> QED BY <1>0, <1>A, <2>1, <3>2, ForgettingAgrees
  <2>4. op'.kind = "push"
    BY <1>0, <1>6 DEF PushEmptySlot, TypeOK, Ops
  <2> QED BY <1>A, <1>6, <2>3, <2>4
             DEF AgreeInv, PushEmptySlot, EvictionNamed, SendReady, SendsUnderOwnKey
<1>7. ASSUME ResetCache, op' = op, force' = force, meshTest' = meshTest,
             lastTx' = lastTx, op.kind = "tx" => radio'[op.slot] = radio[op.slot]
      PROVE  AgreeInv'
  <2>1. \A x \in Keys : slotByKey'[x] = NoSlot
    BY <1>7 DEF ResetCache
  <2>2. op.kind = "set" => keyBySlot'[op.slot] = NoKey
    BY <1>0, <1>7 DEF ResetCache, OpWellFormed
  <2>3. CacheAgrees'
    BY <2>1 DEF CacheAgrees, Cached
  <2> QED BY <1>A, <1>7, <2>2, <2>3
             DEF AgreeInv, EvictionNamed, SendReady, SendsUnderOwnKey
<1>8. CASE SyncAndOffloadChannels \/ AuditChannelSendCache \/ Disconnect \/ WipeMeshIdentityData
  BY <1>7, <1>8, <1>F
     DEF SyncAndOffloadChannels, AuditChannelSendCache, Disconnect, WipeMeshIdentityData
<1>9. CASE BeginPush
  <2>1. op'.kind = "push"
    BY <1>9 DEF BeginPush, Free
  <2> QED BY <1>A, <1>9, <2>1
             DEF BeginPush, AgreeInv, cache, Cached, EvictionNamed, CacheAgrees, SendReady,
                 SendsUnderOwnKey
<1>10. CASE EndPush
  BY <1>A, <1>F, <1>10 DEF EndPush, AgreeInv, cache, Cached, EvictionNamed, CacheAgrees,
                           SendReady, SendsUnderOwnKey
<1>11. CASE MeshTestFreesSlot \/ MeshTestSends \/ MeshTestClears \/ ToggleForceReconfigure
  BY <1>A, <1>11 DEF Quiet, SendReady, MeshTestFreesSlot, MeshTestSends, MeshTestClears,
                     ToggleForceReconfigure
<1>12. CASE UNCHANGED vars
  BY <1>A, <1>12 DEF vars, AgreeInv, Cached, EvictionNamed, CacheAgrees, SendReady,
                     SendsUnderOwnKey
<1> QED
  BY <1>1, <1>2, <1>3, <1>4, <1>5, <1>6, <1>8, <1>9, <1>10, <1>11, <1>12 DEF Next

\* What holds throughout of the cache, the radio and the sends.
LEMMA Agreement ==
    ASSUME Quiet PROVE Spec => []AgreeInv
<1>1. Init => MapsInv /\ AgreeInv
  BY MapsInit, SlotFacts, KeyAssumption
     DEF Init, AgreeInv, EvictionNamed, CacheAgrees, SendReady, SendsUnderOwnKey, Free, Cached
<1>2. MapsInv /\ AgreeInv /\ [Next]_vars => (MapsInv /\ AgreeInv)'
  BY MapsNext, AgreeNext
<1> QED BY <1>1, <1>2, PTL DEF Spec

\* With any number of channels and slots, and without a mesh test, a change of
\* the workaround or an unanswered restore write, a cached slot holds its
\* channel, failed and unanswered loads included.
THEOREM CachedSlotsHoldTheirKey ==
    ASSUME Quiet PROVE Spec => []CacheAgrees
<1>1. AgreeInv => CacheAgrees
  BY DEF AgreeInv
<1> QED BY <1>1, Agreement, PTL

\* Under the same conditions every message leaves under the key of the channel
\* it was meant for.
THEOREM SendsStayUnderOwnKey ==
    ASSUME Quiet PROVE Spec => []SendsUnderOwnKey
<1>1. AgreeInv => SendsUnderOwnKey
  BY DEF AgreeInv
<1> QED BY <1>1, Agreement, PTL

=============================================================================
