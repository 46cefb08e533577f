------------------------ MODULE RadioLifecycleTypes ------------------------
(***************************************************************************)
(* Every variable of the radio connection keeps its type, whatever radios, *)
(* requests and failures there are.  Two facts TypeOK does not state are   *)
(* needed to carry it through a step: the keys and states that a task      *)
(* remembers in its local variables (a transport snapshot read before a    *)
(* lock, the key of the radio under evaluation) are such values too, since *)
(* they are written back to the database later; and every lock is given to *)
(* a task.                                                                 *)
(***************************************************************************)
EXTENDS RadioLifecycle, TLAPS

States == {None, "identity_mismatch", "identity_unbound_legacy"}
KeyOrNone == Radios \cup {None}
TaskOrNone == Tasks \cup {None}
Locals == [key : KeyOrNone, bound : KeyOrNone, state : States]

ManagerTyped ==
    /\ desired \in BOOLEAN /\ lastConnected \in BOOLEAN /\ setupComplete \in BOOLEAN
    /\ expected \in {"no", "grace", "over"} /\ teardown \in BOOLEAN
    /\ rebooted \subseteq Radios

TransportTyped ==
    /\ mc \in BOOLEAN /\ link \in BOOLEAN /\ auto \in BOOLEAN /\ handlers \in BOOLEAN
    /\ orphan \in BOOLEAN /\ ingest \in BOOLEAN /\ cancelling \in BOOLEAN
    /\ live \in Radios /\ selfInfo \in Radios

DatabaseTyped ==
    /\ bound \in KeyOrNone /\ newKey \in KeyOrNone /\ inflight \in KeyOrNone
    /\ identityState \in States /\ history \subseteq Radios \cup {Legacy}
    /\ local \in [Tasks -> Locals]

ControlTyped ==
    /\ session \in TaskOrNone /\ running \in TaskOrNone
    /\ opLock \in TaskOrNone /\ reconnectLock \in TaskOrNone
    /\ setupLock \in TaskOrNone /\ lifecycleLock \in TaskOrNone
    /\ events \in 0 .. MaxEvents

\* The inductive invariant
Typed == ManagerTyped /\ TransportTyped /\ DatabaseTyped /\ ControlTyped

LEMMA TypedShape == Typed => TypeOK
BY DEF Typed, ManagerTyped, TransportTyped, DatabaseTyped, ControlTyped, TypeOK, States,
       KeyOrNone, TaskOrNone

LEMMA TypedInit == Init => Typed
<1> SUFFICES ASSUME Init PROVE Typed
  OBVIOUS
<1>1. ManagerTyped /\ TransportTyped
  BY DEF Init, ManagerTyped, TransportTyped
<1>2. NoLocal \in Locals
  BY DEF NoLocal, Locals, KeyOrNone, States
<1>3. DatabaseTyped
  BY <1>2 DEF Init, DatabaseTyped, KeyOrNone, States
<1>4. ControlTyped
  BY RadioLifecycleAssumption DEF Init, ControlTyped, TaskOrNone
<1>5. QED BY <1>1, <1>3, <1>4 DEF Typed

\* What may be stored as a key or as an identity state
LEMMA Stored ==
    /\ None \in KeyOrNone /\ Radios \subseteq KeyOrNone
    /\ None \in States /\ "identity_mismatch" \in States /\ "identity_unbound_legacy" \in States
BY DEF KeyOrNone, States

\* What a task has remembered may be stored, and a field may be set to such a value.
LEMMA Remembered ==
    ASSUME NEW t \in Tasks, NEW l \in [Tasks -> Locals]
    PROVE  l[t].key \in KeyOrNone /\ l[t].bound \in KeyOrNone /\ l[t].state \in States
BY DEF Locals

LEMMA KeyRemembered ==
    ASSUME NEW t \in Tasks, NEW l \in [Tasks -> Locals], NEW k \in KeyOrNone
    PROVE  [l EXCEPT ![t].key = k] \in [Tasks -> Locals]
<1>1. [l[t] EXCEPT !.key = k] \in Locals
  BY DEF Locals
<1>2. QED BY <1>1

LEMMA BoundRemembered ==
    ASSUME NEW t \in Tasks, NEW l \in [Tasks -> Locals], NEW k \in KeyOrNone
    PROVE  [l EXCEPT ![t].bound = k] \in [Tasks -> Locals]
<1>1. [l[t] EXCEPT !.bound = k] \in Locals
  BY DEF Locals
<1>2. QED BY <1>1

LEMMA SnapshotRenewed ==
    ASSUME NEW t \in Tasks, NEW l \in [Tasks -> Locals], NEW k \in KeyOrNone
    PROVE  [l EXCEPT ![t].state = None, ![t].bound = k] \in [Tasks -> Locals]
<1>1. [l[t] EXCEPT !.state = None] \in Locals
  BY Stored DEF Locals
<1>2. [l EXCEPT ![t].state = None] \in [Tasks -> Locals]
  BY <1>1
<1>3. QED BY <1>2, BoundRemembered

LEMMA SnapshotTaken ==
    ASSUME NEW t \in Tasks, NEW l \in [Tasks -> Locals], NEW k \in KeyOrNone,
           NEW b \in KeyOrNone, NEW s \in States
    PROVE  [l EXCEPT ![t] = [key |-> k, bound |-> b, state |-> s]] \in [Tasks -> Locals]
BY DEF Locals

\* Something that happens is counted up to MaxEvents.
LEMMA Counted == events \in 0 .. MaxEvents /\ Happens => events' \in 0 .. MaxEvents
BY RadioLifecycleAssumption DEF Happens

\* A request that starts remembers a snapshot of the database, and changes nothing else of it.
LEMMA StartsTyped ==
    ASSUME Typed, NEW q \in Tasks, NEW r, NEW f, Starts(q, r, f)
    PROVE  local' \in [Tasks -> Locals] /\ events' \in 0 .. MaxEvents /\ UNCHANGED cancelling
<1>1. (IF newKey = None THEN bound ELSE newKey) \in KeyOrNone /\ bound \in KeyOrNone
      /\ identityState \in States /\ local \in [Tasks -> Locals]
  BY DEF Typed, DatabaseTyped
<1>2. local' \in [Tasks -> Locals]
  BY <1>1, SnapshotTaken DEF Starts
<1>3. events' \in 0 .. MaxEvents
  BY Counted DEF Starts, Typed, ControlTyped
<1>4. QED BY <1>2, <1>3 DEF Starts

\* The steps of RadioManager.disconnect
LEMMA DisconnectTyped ==
    ASSUME Typed, NEW t \in Tasks, Disconnect(t)
    PROVE  Typed'
<1>1. CASE DisconnectEnters(t)
  <2>1. ManagerTyped'
    BY <1>1 DEF Typed, ManagerTyped, DisconnectEnters
  <2>2. TransportTyped'
    BY <1>1 DEF Typed, TransportTyped, DisconnectEnters, Await, Continue, Return, transport, gate
  <2>3. DatabaseTyped'
    BY <1>1 DEF Typed, DatabaseTyped, DisconnectEnters, database
  <2>4. ControlTyped'
    BY <1>1 DEF Typed, ControlTyped, DisconnectEnters, Await, Continue, Return, gate, locks,
       TaskOrNone
  <2>5. QED BY <2>1, <2>2, <2>3, <2>4 DEF Typed
<1>2. CASE DisconnectDenies(t)
  <2>1. ManagerTyped'
    BY <1>2 DEF Typed, ManagerTyped, DisconnectDenies, manager
  <2>2. TransportTyped'
    BY <1>2 DEF Typed, TransportTyped, DisconnectDenies, DenyIngest
  <2>3. DatabaseTyped'
    BY <1>2 DEF Typed, DatabaseTyped, DisconnectDenies, database
  <2>4. ControlTyped'
    BY <1>2 DEF Typed, ControlTyped, DisconnectDenies, DenyIngest, locks, TaskOrNone
  <2>5. QED BY <2>1, <2>2, <2>3, <2>4 DEF Typed
<1>3. CASE DisconnectLocks(t)
  <2>1. ManagerTyped'
    BY <1>3 DEF Typed, ManagerTyped, DisconnectLocks, manager
  <2>2. TransportTyped'
    BY <1>3 DEF Typed, TransportTyped, DisconnectLocks, Await, Return, gate
  <2>3. DatabaseTyped'
    BY <1>3 DEF Typed, DatabaseTyped, DisconnectLocks, database
  <2>4. ControlTyped'
    BY <1>3 DEF Typed, ControlTyped, DisconnectLocks, Await, Return, gate, TaskOrNone
  <2>5. QED BY <2>1, <2>2, <2>3, <2>4 DEF Typed
<1>4. CASE DisconnectStopsLibrary(t)
  <2>1. ManagerTyped'
    BY <1>4 DEF Typed, ManagerTyped, DisconnectStopsLibrary, manager
  <2>2. TransportTyped'
    BY <1>4 DEF Typed, TransportTyped, DisconnectStopsLibrary, Await, transport, gate
  <2>3. DatabaseTyped'
    BY <1>4 DEF Typed, DatabaseTyped, DisconnectStopsLibrary, database
  <2>4. ControlTyped'
    BY <1>4 DEF Typed, ControlTyped, DisconnectStopsLibrary, Await, gate, locks, TaskOrNone
  <2>5. QED BY <2>1, <2>2, <2>3, <2>4 DEF Typed
<1>5. CASE DisconnectCloses(t)
  <2>1. ManagerTyped'
    BY <1>5 DEF Typed, ManagerTyped, DisconnectCloses
  <2>2. TransportTyped'
    BY <1>5 DEF Typed, TransportTyped, DisconnectCloses
  <2>3. DatabaseTyped'
    BY <1>5 DEF Typed, DatabaseTyped, DisconnectCloses, database
  <2>4. ControlTyped'
    BY <1>5 DEF Typed, ControlTyped, DisconnectCloses, TaskOrNone
  <2>5. QED BY <2>1, <2>2, <2>3, <2>4 DEF Typed
<1>6. QED BY <1>1, <1>2, <1>3, <1>4, <1>5 DEF Disconnect

\* The steps of RadioManager.reconnect
LEMMA ReconnectTyped ==
    ASSUME Typed, NEW t \in Tasks, Reconnect(t)
    PROVE  Typed'
<1>1. CASE ReconnectLocks(t)
  <2>1. ManagerTyped'
    BY <1>1 DEF Typed, ManagerTyped, ReconnectLocks, manager
  <2>2. TransportTyped'
    BY <1>1 DEF Typed, TransportTyped, ReconnectLocks, Await, Call, Return, transport, gate
  <2>3. DatabaseTyped'
    BY <1>1 DEF Typed, DatabaseTyped, ReconnectLocks, database
  <2>4. ControlTyped'
    BY <1>1 DEF Typed, ControlTyped, ReconnectLocks, Await, Call, Return, gate, TaskOrNone
  <2>5. QED BY <2>1, <2>2, <2>3, <2>4 DEF Typed
<1>2. CASE ReconnectStaleGone(t)
  <2>1. ManagerTyped'
    BY <1>2 DEF Typed, ManagerTyped, ReconnectStaleGone, manager
  <2>2. TransportTyped'
    BY <1>2 DEF Typed, TransportTyped, ReconnectStaleGone, Await, Call, transport, gate
  <2>3. DatabaseTyped'
    BY <1>2 DEF Typed, DatabaseTyped, ReconnectStaleGone, database
  <2>4. ControlTyped'
    BY <1>2 DEF Typed, ControlTyped, ReconnectStaleGone, Await, Call, gate, locks, TaskOrNone
  <2>5. QED BY <2>1, <2>2, <2>3, <2>4 DEF Typed
<1>3. CASE ReconnectOpens(t)
  <2>1. ManagerTyped'
    BY <1>3 DEF Typed, ManagerTyped, ReconnectOpens
  <2>2. TransportTyped'
    BY <1>3 DEF Typed, TransportTyped, ReconnectOpens, Call, Return, gate
  <2>3. DatabaseTyped'
    BY <1>3 DEF Typed, DatabaseTyped, ReconnectOpens, database
  <2>4. ControlTyped'
    BY <1>3 DEF Typed, ControlTyped, ReconnectOpens, Call, Return, gate, TaskOrNone
  <2>5. QED BY <2>1, <2>2, <2>3, <2>4 DEF Typed
<1>4. CASE ReconnectEnds(t)
  <2>1. ManagerTyped'
    BY <1>4 DEF Typed, ManagerTyped, ReconnectEnds, manager
  <2>2. TransportTyped'
    BY <1>4 DEF Typed, TransportTyped, ReconnectEnds, Return, transport, gate
  <2>3. DatabaseTyped'
    BY <1>4 DEF Typed, DatabaseTyped, ReconnectEnds, database
  <2>4. ControlTyped'
    BY <1>4, Counted DEF Typed, ControlTyped, ReconnectEnds, Return, gate, TaskOrNone
  <2>5. QED BY <2>1, <2>2, <2>3, <2>4 DEF Typed
<1>5. QED BY <1>1, <1>2, <1>3, <1>4 DEF Reconnect

\* The steps of evaluate_connected_identity
LEMMA EvaluateTyped ==
    ASSUME Typed, NEW t \in Tasks, Evaluate(t)
    PROVE  Typed'
<1>1. CASE EvaluateBegins(t)
  <2>1. ManagerTyped'
    BY <1>1 DEF Typed, ManagerTyped, EvaluateBegins, manager
  <2>2. TransportTyped'
    BY <1>1 DEF Typed, TransportTyped, EvaluateBegins, Await, transport
  <2>3. DatabaseTyped'
    BY <1>1, Stored, KeyRemembered DEF Typed, DatabaseTyped, EvaluateBegins, TransportTyped,
       database
  <2>4. ControlTyped'
    BY <1>1 DEF Typed, ControlTyped, EvaluateBegins, Await, locks, TaskOrNone
  <2>5. QED BY <2>1, <2>2, <2>3, <2>4 DEF Typed
<1>2. CASE EvaluateReadsKey(t)
  <2>1. ManagerTyped'
    BY <1>2 DEF Typed, ManagerTyped, EvaluateReadsKey, manager
  <2>2. TransportTyped'
    BY <1>2 DEF Typed, TransportTyped, EvaluateReadsKey, Await, gate
  <2>3. DatabaseTyped'
    BY <1>2, Stored, KeyRemembered, Remembered DEF Typed, DatabaseTyped, EvaluateReadsKey,
       TransportTyped, database
  <2>4. ControlTyped'
    BY <1>2 DEF Typed, ControlTyped, EvaluateReadsKey, Await, gate, locks, TaskOrNone
  <2>5. QED BY <2>1, <2>2, <2>3, <2>4 DEF Typed
<1>3. CASE EvaluateFindsNoKey(t)
  <2>1. ManagerTyped'
    BY <1>3 DEF Typed, ManagerTyped, EvaluateFindsNoKey, manager
  <2>2. TransportTyped'
    BY <1>3 DEF Typed, TransportTyped, EvaluateFindsNoKey, Return, transport, gate
  <2>3. DatabaseTyped'
    BY <1>3 DEF Typed, DatabaseTyped, EvaluateFindsNoKey, database
  <2>4. ControlTyped'
    BY <1>3 DEF Typed, ControlTyped, EvaluateFindsNoKey, Return, gate, locks, TaskOrNone
  <2>5. QED BY <2>1, <2>2, <2>3, <2>4 DEF Typed
<1>4. CASE EvaluateDecides(t)
  <2>1. ManagerTyped'
    BY <1>4 DEF Typed, ManagerTyped, EvaluateDecides, manager
  <2>2. TransportTyped'
    BY <1>4 DEF Typed, TransportTyped, EvaluateDecides, Await, Return, AllowIngest, transport,
       gate
  <2>3. DatabaseTyped'
    BY <1>4, Stored, Remembered DEF Typed, DatabaseTyped, EvaluateDecides
  <2>4. ControlTyped'
    BY <1>4 DEF Typed, ControlTyped, EvaluateDecides, Await, Return, AllowIngest, gate, locks,
       TaskOrNone
  <2>5. QED BY <2>1, <2>2, <2>3, <2>4 DEF Typed
<1>5. CASE EvaluateBinds(t)
  <2>1. ManagerTyped'
    BY <1>5 DEF Typed, ManagerTyped, EvaluateBinds, manager
  <2>2. TransportTyped'
    BY <1>5 DEF Typed, TransportTyped, EvaluateBinds, Await, Return, transport, gate
  <2>3. DatabaseTyped'
    BY <1>5, Stored, Remembered DEF Typed, DatabaseTyped, EvaluateBinds
  <2>4. ControlTyped'
    BY <1>5 DEF Typed, ControlTyped, EvaluateBinds, Await, Return, gate, locks, TaskOrNone
  <2>5. QED BY <2>1, <2>2, <2>3, <2>4 DEF Typed
<1>6. CASE EvaluateBound(t)
  <2>1. ManagerTyped'
    BY <1>6 DEF Typed, ManagerTyped, EvaluateBound, manager
  <2>2. TransportTyped'
    BY <1>6 DEF Typed, TransportTyped, EvaluateBound, Return, AllowIngest, transport
  <2>3. DatabaseTyped'
    BY <1>6 DEF Typed, DatabaseTyped, EvaluateBound, database
  <2>4. ControlTyped'
    BY <1>6 DEF Typed, ControlTyped, EvaluateBound, Return, AllowIngest, locks, TaskOrNone
  <2>5. QED BY <2>1, <2>2, <2>3, <2>4 DEF Typed
<1>7. QED BY <1>1, <1>2, <1>3, <1>4, <1>5, <1>6 DEF Evaluate

\* The steps of run_post_connect_setup
LEMMA SetupTyped ==
    ASSUME Typed, NEW t \in Tasks, Setup(t)
    PROVE  Typed'
<1>1. CASE SetupEnters(t)
  <2>1. ManagerTyped'
    BY <1>1 DEF Typed, ManagerTyped, SetupEnters, manager
  <2>2. TransportTyped'
    BY <1>1 DEF Typed, TransportTyped, SetupEnters, Continue, Return, transport, gate
  <2>3. DatabaseTyped'
    BY <1>1 DEF Typed, DatabaseTyped, SetupEnters, database
  <2>4. ControlTyped'
    BY <1>1 DEF Typed, ControlTyped, SetupEnters, Continue, Return, gate, locks, TaskOrNone
  <2>5. QED BY <2>1, <2>2, <2>3, <2>4 DEF Typed
<1>2. CASE SetupLocks(t)
  <2>1. ManagerTyped'
    BY <1>2 DEF Typed, ManagerTyped, SetupLocks
  <2>2. TransportTyped'
    BY <1>2 DEF Typed, TransportTyped, SetupLocks, Continue, Return, transport, gate
  <2>3. DatabaseTyped'
    BY <1>2 DEF Typed, DatabaseTyped, SetupLocks, database
  <2>4. ControlTyped'
    BY <1>2 DEF Typed, ControlTyped, SetupLocks, Continue, Return, gate, TaskOrNone
  <2>5. QED BY <2>1, <2>2, <2>3, <2>4 DEF Typed
<1>3. CASE SetupTakesRadio(t)
  <2>1. ManagerTyped'
    BY <1>3 DEF Typed, ManagerTyped, SetupTakesRadio, manager
  <2>2. TransportTyped'
    BY <1>3 DEF Typed, TransportTyped, SetupTakesRadio, Call, Return, transport, gate
  <2>3. DatabaseTyped'
    BY <1>3 DEF Typed, DatabaseTyped, SetupTakesRadio, database
  <2>4. ControlTyped'
    BY <1>3 DEF Typed, ControlTyped, SetupTakesRadio, Call, Return, gate, TaskOrNone
  <2>5. QED BY <2>1, <2>2, <2>3, <2>4 DEF Typed
<1>4. CASE SetupIdentity(t)
  <2>1. ManagerTyped'
    BY <1>4 DEF Typed, ManagerTyped, SetupIdentity
  <2>2. TransportTyped'
    BY <1>4 DEF Typed, TransportTyped, SetupIdentity, Await, Return, gate
  <2>3. DatabaseTyped'
    BY <1>4 DEF Typed, DatabaseTyped, SetupIdentity, database
  <2>4. ControlTyped'
    BY <1>4 DEF Typed, ControlTyped, SetupIdentity, Await, Return, ReleaseSetup, gate, locks,
       TaskOrNone
  <2>5. QED BY <2>1, <2>2, <2>3, <2>4 DEF Typed
<1>5. CASE SetupSyncsClock(t)
  <2>1. ManagerTyped'
    BY <1>5 DEF Typed, ManagerTyped, SetupSyncsClock, manager
  <2>2. TransportTyped'
    BY <1>5 DEF Typed, TransportTyped, SetupSyncsClock, Await, transport, gate
  <2>3. DatabaseTyped'
    BY <1>5 DEF Typed, DatabaseTyped, SetupSyncsClock, database
  <2>4. ControlTyped'
    BY <1>5 DEF Typed, ControlTyped, SetupSyncsClock, Await, gate, locks, TaskOrNone
  <2>5. QED BY <2>1, <2>2, <2>3, <2>4 DEF Typed
<1>6. CASE SetupRebootsRadio(t)
  <2>1. ManagerTyped'
    BY <1>6 DEF Typed, ManagerTyped, SetupRebootsRadio, TransportTyped
  <2>2. TransportTyped'
    BY <1>6 DEF Typed, TransportTyped, SetupRebootsRadio, Return, DenyIngest, transport
  <2>3. DatabaseTyped'
    BY <1>6 DEF Typed, DatabaseTyped, SetupRebootsRadio, database
  <2>4. ControlTyped'
    BY <1>6 DEF Typed, ControlTyped, SetupRebootsRadio, Return, DenyIngest, ReleaseSetup,
       TaskOrNone
  <2>5. QED BY <2>1, <2>2, <2>3, <2>4 DEF Typed
<1>7. CASE SetupCompletes(t)
  <2>1. ManagerTyped'
    BY <1>7 DEF Typed, ManagerTyped, SetupCompletes
  <2>2. TransportTyped'
    BY <1>7 DEF Typed, TransportTyped, SetupCompletes, Return, transport, gate
  <2>3. DatabaseTyped'
    BY <1>7 DEF Typed, DatabaseTyped, SetupCompletes, database
  <2>4. ControlTyped'
    BY <1>7 DEF Typed, ControlTyped, SetupCompletes, Return, ReleaseSetup, gate, TaskOrNone
  <2>5. QED BY <2>1, <2>2, <2>3, <2>4 DEF Typed
<1>8. CASE SetupRaises(t)
  <2>1. ManagerTyped'
    BY <1>8 DEF Typed, ManagerTyped, SetupRaises, manager
  <2>2. TransportTyped'
    BY <1>8 DEF Typed, TransportTyped, SetupRaises, Return, transport, gate
  <2>3. DatabaseTyped'
    BY <1>8 DEF Typed, DatabaseTyped, SetupRaises, database
  <2>4. ControlTyped'
    BY <1>8, Counted DEF Typed, ControlTyped, SetupRaises, Return, ReleaseSetup, gate, TaskOrNone
  <2>5. QED BY <2>1, <2>2, <2>3, <2>4 DEF Typed
<1>9. CASE SetupTimesOut(t)
  <2>1. ManagerTyped'
    BY <1>9 DEF Typed, ManagerTyped, SetupTimesOut, manager
  <2>2. TransportTyped'
    BY <1>9 DEF Typed, TransportTyped, SetupTimesOut, transport, gate
  <2>3. DatabaseTyped'
    BY <1>9 DEF Typed, DatabaseTyped, SetupTimesOut, database
  <2>4. ControlTyped'
    BY <1>9, Counted DEF Typed, ControlTyped, SetupTimesOut, gate, TaskOrNone
  <2>5. QED BY <2>1, <2>2, <2>3, <2>4 DEF Typed
<1>10. QED BY <1>1, <1>2, <1>3, <1>4, <1>5, <1>6, <1>7, <1>8, <1>9 DEF Setup

\* The steps of prepare_connected_radio
LEMMA PrepareTyped ==
    ASSUME Typed, NEW t \in Tasks, Prepare(t)
    PROVE  Typed'
<1>1. CASE PrepareEnters(t)
  <2>1. ManagerTyped'
    BY <1>1 DEF Typed, ManagerTyped, PrepareEnters, manager
  <2>2. TransportTyped'
    BY <1>1 DEF Typed, TransportTyped, PrepareEnters, Call, LeavePaused, Return, transport, gate
  <2>3. DatabaseTyped'
    BY <1>1 DEF Typed, DatabaseTyped, PrepareEnters, database
  <2>4. ControlTyped'
    BY <1>1 DEF Typed, ControlTyped, PrepareEnters, Call, LeavePaused, Return, gate, locks,
       TaskOrNone
  <2>5. QED BY <2>1, <2>2, <2>3, <2>4 DEF Typed
<1>2. CASE PrepareSetupFailed(t)
  <2>1. ManagerTyped'
    BY <1>2 DEF Typed, ManagerTyped, PrepareSetupFailed, manager
  <2>2. TransportTyped'
    BY <1>2 DEF Typed, TransportTyped, PrepareSetupFailed, Call, Return, transport, gate
  <2>3. DatabaseTyped'
    BY <1>2 DEF Typed, DatabaseTyped, PrepareSetupFailed, database
  <2>4. ControlTyped'
    BY <1>2 DEF Typed, ControlTyped, PrepareSetupFailed, Call, Return, gate, locks, TaskOrNone
  <2>5. QED BY <2>1, <2>2, <2>3, <2>4 DEF Typed
<1>3. CASE PrepareRebooted(t)
  <2>1. ManagerTyped'
    BY <1>3 DEF Typed, ManagerTyped, PrepareRebooted, manager
  <2>2. TransportTyped'
    BY <1>3 DEF Typed, TransportTyped, PrepareRebooted, Call, transport, gate
  <2>3. DatabaseTyped'
    BY <1>3 DEF Typed, DatabaseTyped, PrepareRebooted, database
  <2>4. ControlTyped'
    BY <1>3 DEF Typed, ControlTyped, PrepareRebooted, Call, gate, locks, TaskOrNone
  <2>5. QED BY <2>1, <2>2, <2>3, <2>4 DEF Typed
<1>4. CASE PrepareDone(t)
  <2>1. ManagerTyped'
    BY <1>4 DEF Typed, ManagerTyped, PrepareDone, ClearExpectedReboot
  <2>2. TransportTyped'
    BY <1>4 DEF Typed, TransportTyped, PrepareDone, Return, LeavePaused, Call, transport, gate
  <2>3. DatabaseTyped'
    BY <1>4 DEF Typed, DatabaseTyped, PrepareDone, database
  <2>4. ControlTyped'
    BY <1>4 DEF Typed, ControlTyped, PrepareDone, Return, LeavePaused, Call, gate, locks,
       TaskOrNone
  <2>5. QED BY <2>1, <2>2, <2>3, <2>4 DEF Typed
<1>5. CASE PrepareDropped(t)
  <2>1. ManagerTyped'
    BY <1>5 DEF Typed, ManagerTyped, PrepareDropped
  <2>2. TransportTyped'
    BY <1>5 DEF Typed, TransportTyped, PrepareDropped, Return, transport, gate
  <2>3. DatabaseTyped'
    BY <1>5 DEF Typed, DatabaseTyped, PrepareDropped, database
  <2>4. ControlTyped'
    BY <1>5 DEF Typed, ControlTyped, PrepareDropped, Return, gate, locks, TaskOrNone
  <2>5. QED BY <2>1, <2>2, <2>3, <2>4 DEF Typed
<1>6. QED BY <1>1, <1>2, <1>3, <1>4, <1>5 DEF Prepare

\* The steps of lifecycle_transition
LEMMA TransitionTyped ==
    ASSUME Typed, NEW t \in Tasks, Transition(t)
    PROVE  Typed'
<1>1. CASE TransitionLocks(t)
  <2>1. ManagerTyped'
    BY <1>1 DEF Typed, ManagerTyped, TransitionLocks, manager
  <2>2. TransportTyped'
    BY <1>1 DEF Typed, TransportTyped, TransitionLocks, transport, gate
  <2>3. DatabaseTyped'
    BY <1>1 DEF Typed, DatabaseTyped, TransitionLocks, database
  <2>4. ControlTyped'
    BY <1>1 DEF Typed, ControlTyped, TransitionLocks, gate, TaskOrNone
  <2>5. QED BY <2>1, <2>2, <2>3, <2>4 DEF Typed
<1>2. CASE TransitionBusy(t)
  <2>1. ManagerTyped'
    BY <1>2 DEF Typed, ManagerTyped, TransitionBusy, manager
  <2>2. TransportTyped'
    BY <1>2 DEF Typed, TransportTyped, TransitionBusy, transport, gate
  <2>3. DatabaseTyped'
    BY <1>2 DEF Typed, DatabaseTyped, TransitionBusy, database
  <2>4. ControlTyped'
    BY <1>2 DEF Typed, ControlTyped, TransitionBusy, gate, locks
  <2>5. QED BY <2>1, <2>2, <2>3, <2>4 DEF Typed
<1>3. CASE TransitionStopped(t)
  <2>1. ManagerTyped'
    BY <1>3 DEF Typed, ManagerTyped, TransitionStopped, ClearExpectedReboot
  <2>2. TransportTyped'
    BY <1>3 DEF Typed, TransportTyped, TransitionStopped, Return, DenyIngest, transport
  <2>3. DatabaseTyped'
    BY <1>3 DEF Typed, DatabaseTyped, TransitionStopped, database
  <2>4. ControlTyped'
    BY <1>3 DEF Typed, ControlTyped, TransitionStopped, Return, DenyIngest, locks, TaskOrNone
  <2>5. QED BY <2>1, <2>2, <2>3, <2>4 DEF Typed
<1>4. CASE TransitionExits(t)
  <2>1. ManagerTyped'
    BY <1>4 DEF Typed, ManagerTyped, TransitionExits, manager
  <2>2. TransportTyped'
    BY <1>4 DEF Typed, TransportTyped, TransitionExits, transport, gate
  <2>3. DatabaseTyped'
    BY <1>4 DEF Typed, DatabaseTyped, TransitionExits, database
  <2>4. ControlTyped'
    BY <1>4 DEF Typed, ControlTyped, TransitionExits, gate, TaskOrNone
  <2>5. QED BY <2>1, <2>2, <2>3, <2>4 DEF Typed
<1>5. QED BY <1>1, <1>2, <1>3, <1>4 DEF Transition

\* The steps of the requests
LEMMA RequestTyped ==
    ASSUME Typed, NEW t \in Tasks, Request(t)
    PROVE  Typed'
<1>1. CASE AttemptReconnect(t)
  <2>1. ManagerTyped'
    BY <1>1 DEF Typed, ManagerTyped, AttemptReconnect
  <2>2. TransportTyped'
    BY <1>1 DEF Typed, TransportTyped, AttemptReconnect, Call, Return, transport, gate
  <2>3. DatabaseTyped'
    BY <1>1 DEF Typed, DatabaseTyped, AttemptReconnect, database
  <2>4. ControlTyped'
    BY <1>1 DEF Typed, ControlTyped, AttemptReconnect, Call, Return, gate, locks, TaskOrNone
  <2>5. QED BY <2>1, <2>2, <2>3, <2>4 DEF Typed
<1>2. CASE ReconnectAndPrepare(t)
  <2>1. ManagerTyped'
    BY <1>2 DEF Typed, ManagerTyped, ReconnectAndPrepare, manager
  <2>2. TransportTyped'
    BY <1>2 DEF Typed, TransportTyped, ReconnectAndPrepare, Continue, Return, transport, gate
  <2>3. DatabaseTyped'
    BY <1>2 DEF Typed, DatabaseTyped, ReconnectAndPrepare, database
  <2>4. ControlTyped'
    BY <1>2 DEF Typed, ControlTyped, ReconnectAndPrepare, Continue, Return, gate, locks,
       TaskOrNone
  <2>5. QED BY <2>1, <2>2, <2>3, <2>4 DEF Typed
<1>3. CASE PutTransport(t)
  <2>1. ManagerTyped'
    BY <1>3 DEF Typed, ManagerTyped, PutTransport, manager
  <2>2. TransportTyped'
    BY <1>3 DEF Typed, TransportTyped, PutTransport, Call, transport, gate
  <2>3. DatabaseTyped'
    BY <1>3, Stored, SnapshotRenewed DEF Typed, DatabaseTyped, PutTransport
  <2>4. ControlTyped'
    BY <1>3 DEF Typed, ControlTyped, PutTransport, Call, gate, locks, TaskOrNone
  <2>5. QED BY <2>1, <2>2, <2>3, <2>4 DEF Typed
<1>4. CASE RevertTransport(t)
  <2>1. ManagerTyped'
    BY <1>4 DEF Typed, ManagerTyped, RevertTransport, manager
  <2>2. TransportTyped'
    BY <1>4 DEF Typed, TransportTyped, RevertTransport, Call, Return, transport, gate
  <2>3. DatabaseTyped'
    BY <1>4, BoundRemembered DEF Typed, DatabaseTyped, RevertTransport, database
  <2>4. ControlTyped'
    BY <1>4 DEF Typed, ControlTyped, RevertTransport, Call, Return, gate, locks, TaskOrNone
  <2>5. QED BY <2>1, <2>2, <2>3, <2>4 DEF Typed
<1>5. CASE PutTransportSaves(t)
  <2>1. ManagerTyped'
    BY <1>5 DEF Typed, ManagerTyped, PutTransportSaves
  <2>2. TransportTyped'
    BY <1>5 DEF Typed, TransportTyped, PutTransportSaves, Call, transport, gate
  <2>3. DatabaseTyped'
    BY <1>5, Stored, Remembered DEF Typed, DatabaseTyped, PutTransportSaves, SaveTransport
  <2>4. ControlTyped'
    BY <1>5 DEF Typed, ControlTyped, PutTransportSaves, Call, gate, locks, TaskOrNone
  <2>5. QED BY <2>1, <2>2, <2>3, <2>4 DEF Typed
<1>6. CASE BlePairing(t)
  <2>1. ManagerTyped'
    BY <1>6 DEF Typed, ManagerTyped, BlePairing, manager
  <2>2. TransportTyped'
    BY <1>6 DEF Typed, TransportTyped, BlePairing, Await, Return, transport, gate
  <2>3. DatabaseTyped'
    BY <1>6 DEF Typed, DatabaseTyped, BlePairing, database
  <2>4. ControlTyped'
    BY <1>6 DEF Typed, ControlTyped, BlePairing, Await, Return, gate, TaskOrNone
  <2>5. QED BY <2>1, <2>2, <2>3, <2>4 DEF Typed
<1>7. CASE BlePairingKeepsLink(t)
  <2>1. ManagerTyped'
    BY <1>7 DEF Typed, ManagerTyped, BlePairingKeepsLink, manager
  <2>2. TransportTyped'
    BY <1>7 DEF Typed, TransportTyped, BlePairingKeepsLink, Return, transport, gate
  <2>3. DatabaseTyped'
    BY <1>7 DEF Typed, DatabaseTyped, BlePairingKeepsLink, database
  <2>4. ControlTyped'
    BY <1>7 DEF Typed, ControlTyped, BlePairingKeepsLink, Return, gate, TaskOrNone
  <2>5. QED BY <2>1, <2>2, <2>3, <2>4 DEF Typed
<1>8. CASE BlePairingDropsLink(t)
  <2>1. ManagerTyped'
    BY <1>8 DEF Typed, ManagerTyped, BlePairingDropsLink, manager
  <2>2. TransportTyped'
    BY <1>8 DEF Typed, TransportTyped, BlePairingDropsLink, Call, transport, gate
  <2>3. DatabaseTyped'
    BY <1>8 DEF Typed, DatabaseTyped, BlePairingDropsLink, database
  <2>4. ControlTyped'
    BY <1>8 DEF Typed, ControlTyped, BlePairingDropsLink, Call, gate, locks, TaskOrNone
  <2>5. QED BY <2>1, <2>2, <2>3, <2>4 DEF Typed
<1>9. CASE BlePairingPairs(t)
  <2>1. ManagerTyped'
    BY <1>9 DEF Typed, ManagerTyped, BlePairingPairs, manager
  <2>2. TransportTyped'
    BY <1>9 DEF Typed, TransportTyped, BlePairingPairs, Await, transport, gate
  <2>3. DatabaseTyped'
    BY <1>9 DEF Typed, DatabaseTyped, BlePairingPairs, database
  <2>4. ControlTyped'
    BY <1>9 DEF Typed, ControlTyped, BlePairingPairs, Await, gate, locks, TaskOrNone
  <2>5. QED BY <2>1, <2>2, <2>3, <2>4 DEF Typed
<1>10. CASE BlePairingEnds(t)
  <2>1. ManagerTyped'
    BY <1>10 DEF Typed, ManagerTyped, BlePairingEnds, manager
  <2>2. TransportTyped'
    BY <1>10 DEF Typed, TransportTyped, BlePairingEnds, Return, transport, gate
  <2>3. DatabaseTyped'
    BY <1>10 DEF Typed, DatabaseTyped, BlePairingEnds, database
  <2>4. ControlTyped'
    BY <1>10 DEF Typed, ControlTyped, BlePairingEnds, Return, gate, TaskOrNone
  <2>5. QED BY <2>1, <2>2, <2>3, <2>4 DEF Typed
<1>11. CASE AdoptWipes(t)
  <2>1. ManagerTyped'
    BY <1>11 DEF Typed, ManagerTyped, AdoptWipes, manager
  <2>2. TransportTyped'
    BY <1>11 DEF Typed, TransportTyped, AdoptWipes, Await, DenyIngest, transport, gate
  <2>3. DatabaseTyped'
    BY <1>11 DEF Typed, DatabaseTyped, AdoptWipes
  <2>4. ControlTyped'
    BY <1>11 DEF Typed, ControlTyped, AdoptWipes, Await, DenyIngest, gate, locks, TaskOrNone
  <2>5. QED BY <2>1, <2>2, <2>3, <2>4 DEF Typed
<1>12. CASE AdoptBinds(t)
  <2>1. ManagerTyped'
    BY <1>12 DEF Typed, ManagerTyped, AdoptBinds
  <2>2. TransportTyped'
    BY <1>12 DEF Typed, TransportTyped, AdoptBinds, Call, transport, gate
  <2>3. DatabaseTyped'
    BY <1>12, Stored, Remembered DEF Typed, DatabaseTyped, AdoptBinds
  <2>4. ControlTyped'
    BY <1>12 DEF Typed, ControlTyped, AdoptBinds, Call, gate, locks, TaskOrNone
  <2>5. QED BY <2>1, <2>2, <2>3, <2>4 DEF Typed
<1>13. CASE RejectClears(t)
  <2>1. ManagerTyped'
    BY <1>13 DEF Typed, ManagerTyped, RejectClears, manager
  <2>2. TransportTyped'
    BY <1>13 DEF Typed, TransportTyped, RejectClears, Await, transport, gate
  <2>3. DatabaseTyped'
    BY <1>13, Stored, Remembered DEF Typed, DatabaseTyped, RejectClears
  <2>4. ControlTyped'
    BY <1>13 DEF Typed, ControlTyped, RejectClears, Await, gate, locks, TaskOrNone
  <2>5. QED BY <2>1, <2>2, <2>3, <2>4 DEF Typed
<1>14. CASE RejectSaves(t)
  <2>1. ManagerTyped'
    BY <1>14 DEF Typed, ManagerTyped, RejectSaves, Pause, ClearExpectedReboot
  <2>2. TransportTyped'
    BY <1>14 DEF Typed, TransportTyped, RejectSaves, Continue, transport, gate
  <2>3. DatabaseTyped'
    BY <1>14, Stored, Remembered DEF Typed, DatabaseTyped, RejectSaves, SaveTransport
  <2>4. ControlTyped'
    BY <1>14 DEF Typed, ControlTyped, RejectSaves, Continue, gate, locks, TaskOrNone
  <2>5. QED BY <2>1, <2>2, <2>3, <2>4 DEF Typed
<1>15. CASE SetPrivateKeyGate(t)
  <2>1. ManagerTyped'
    BY <1>15 DEF Typed, ManagerTyped, SetPrivateKeyGate, manager
  <2>2. TransportTyped'
    BY <1>15 DEF Typed, TransportTyped, SetPrivateKeyGate, Return, transport, gate
  <2>3. DatabaseTyped'
    BY <1>15, Stored DEF Typed, DatabaseTyped, SetPrivateKeyGate
  <2>4. ControlTyped'
    BY <1>15 DEF Typed, ControlTyped, SetPrivateKeyGate, Return, gate, locks, TaskOrNone
  <2>5. QED BY <2>1, <2>2, <2>3, <2>4 DEF Typed
<1>16. QED BY <1>1, <1>2, <1>3, <1>4, <1>5, <1>6, <1>7, <1>8, <1>9, <1>10, <1>11, <1>12, <1>13,
   <1>14, <1>15 DEF Request

\* The steps of the start of a request
LEMMA OperatorTyped ==
    ASSUME Typed, NEW t \in Tasks, Operator(t)
    PROVE  Typed'
<1>1. CASE DisconnectRadio(t)
  <2>1. ManagerTyped'
    BY <1>1 DEF Typed, ManagerTyped, DisconnectRadio, Pause, ClearExpectedReboot
  <2>2. TransportTyped'
    BY <1>1, StartsTyped DEF Typed, TransportTyped, DisconnectRadio, transport, gate
  <2>3. DatabaseTyped'
    BY <1>1, StartsTyped DEF Typed, DatabaseTyped, DisconnectRadio, database
  <2>4. ControlTyped'
    BY <1>1, StartsTyped DEF Typed, ControlTyped, DisconnectRadio, gate, locks, TaskOrNone
  <2>5. QED BY <2>1, <2>2, <2>3, <2>4 DEF Typed
<1>2. CASE ReconnectRadio(t)
  <2>1. ManagerTyped'
    BY <1>2 DEF Typed, ManagerTyped, ReconnectRadio, manager
  <2>2. TransportTyped'
    BY <1>2, StartsTyped DEF Typed, TransportTyped, ReconnectRadio, transport, gate
  <2>3. DatabaseTyped'
    BY <1>2, StartsTyped DEF Typed, DatabaseTyped, ReconnectRadio, database
  <2>4. ControlTyped'
    BY <1>2, StartsTyped DEF Typed, ControlTyped, ReconnectRadio, gate, locks, TaskOrNone
  <2>5. QED BY <2>1, <2>2, <2>3, <2>4 DEF Typed
<1>3. CASE BeginTransition(t)
  <2>1. ManagerTyped'
    BY <1>3 DEF Typed, ManagerTyped, BeginTransition, manager
  <2>2. TransportTyped'
    BY <1>3, StartsTyped DEF Typed, TransportTyped, BeginTransition, transport, gate
  <2>3. DatabaseTyped'
    BY <1>3, StartsTyped DEF Typed, DatabaseTyped, BeginTransition, database
  <2>4. ControlTyped'
    BY <1>3, StartsTyped DEF Typed, ControlTyped, BeginTransition, gate, locks, TaskOrNone
  <2>5. QED BY <2>1, <2>2, <2>3, <2>4 DEF Typed
<1>4. CASE SetPrivateKey(t)
  <2>1. ManagerTyped'
    BY <1>4 DEF Typed, ManagerTyped, SetPrivateKey, manager
  <2>2. TransportTyped'
    BY <1>4, StartsTyped DEF Typed, TransportTyped, SetPrivateKey, DenyIngest, transport
  <2>3. DatabaseTyped'
    BY <1>4, StartsTyped DEF Typed, DatabaseTyped, SetPrivateKey, database
  <2>4. ControlTyped'
    BY <1>4, StartsTyped DEF Typed, ControlTyped, SetPrivateKey, DenyIngest, locks, TaskOrNone
  <2>5. QED BY <2>1, <2>2, <2>3, <2>4 DEF Typed
<1>5. QED BY <1>1, <1>2, <1>3, <1>4 DEF Operator

\* The steps of connection_monitor_loop
LEMMA MonitorOwnTyped ==
    ASSUME Typed, MonitorPass \/ MonitorGoesOn \/ MonitorCancelled \/ MonitorSwallowsCancel
    PROVE  Typed'
<1>1. CASE MonitorPass
  <2>1. ManagerTyped'
    BY <1>1 DEF Typed, ManagerTyped, MonitorPass, Connected, Reports, Expires
  <2>2. TransportTyped'
    BY <1>1 DEF Typed, TransportTyped, MonitorPass, Await, Call, KeepConnected, transport, gate
  <2>3. DatabaseTyped'
    BY <1>1 DEF Typed, DatabaseTyped, MonitorPass, database
  <2>4. ControlTyped'
    BY <1>1 DEF Typed, ControlTyped, MonitorPass, Await, Call, KeepConnected, gate, locks,
       TaskOrNone, Tasks
  <2>5. QED BY <2>1, <2>2, <2>3, <2>4 DEF Typed
<1>2. CASE MonitorGoesOn
  <2>1. ManagerTyped'
    BY <1>2 DEF Typed, ManagerTyped, MonitorGoesOn
  <2>2. TransportTyped'
    BY <1>2 DEF Typed, TransportTyped, MonitorGoesOn, Await, Call, transport, gate
  <2>3. DatabaseTyped'
    BY <1>2 DEF Typed, DatabaseTyped, MonitorGoesOn, database
  <2>4. ControlTyped'
    BY <1>2 DEF Typed, ControlTyped, MonitorGoesOn, Await, Call, gate, locks, TaskOrNone, Tasks
  <2>5. QED BY <2>1, <2>2, <2>3, <2>4 DEF Typed
<1>3. CASE MonitorCancelled
  <2>1. ManagerTyped'
    BY <1>3 DEF Typed, ManagerTyped, MonitorCancelled, manager
  <2>2. TransportTyped'
    BY <1>3 DEF Typed, TransportTyped, MonitorCancelled, gate
  <2>3. DatabaseTyped'
    BY <1>3 DEF Typed, DatabaseTyped, MonitorCancelled, database
  <2>4. ControlTyped'
    BY <1>3 DEF Typed, ControlTyped, MonitorCancelled, gate, TaskOrNone, Tasks
  <2>5. QED BY <2>1, <2>2, <2>3, <2>4 DEF Typed
<1>4. CASE MonitorSwallowsCancel
  <2>1. ManagerTyped'
    BY <1>4 DEF Typed, ManagerTyped, MonitorSwallowsCancel, manager
  <2>2. TransportTyped'
    BY <1>4 DEF Typed, TransportTyped, MonitorSwallowsCancel, transport, gate
  <2>3. DatabaseTyped'
    BY <1>4 DEF Typed, DatabaseTyped, MonitorSwallowsCancel, database
  <2>4. ControlTyped'
    BY <1>4 DEF Typed, ControlTyped, MonitorSwallowsCancel, gate, locks, Tasks
  <2>5. QED BY <2>1, <2>2, <2>3, <2>4 DEF Typed
<1>5. QED BY <1>1, <1>2, <1>3, <1>4

\* The steps of on_library_connected
LEMMA LibraryOwnTyped ==
    ASSUME Typed, OnLibraryConnected \/ LibraryDecided
    PROVE  Typed'
<1>1. CASE OnLibraryConnected
  <2>1. ManagerTyped'
    BY <1>1 DEF Typed, ManagerTyped, OnLibraryConnected
  <2>2. TransportTyped'
    BY <1>1 DEF Typed, TransportTyped, OnLibraryConnected, Call, Return, DenyIngest
  <2>3. DatabaseTyped'
    BY <1>1 DEF Typed, DatabaseTyped, OnLibraryConnected, database
  <2>4. ControlTyped'
    BY <1>1 DEF Typed, ControlTyped, OnLibraryConnected, Call, Return, DenyIngest, locks,
       TaskOrNone, Tasks
  <2>5. QED BY <2>1, <2>2, <2>3, <2>4 DEF Typed
<1>2. CASE LibraryDecided
  <2>1. ManagerTyped'
    BY <1>2 DEF Typed, ManagerTyped, LibraryDecided, Pause, ClearExpectedReboot
  <2>2. TransportTyped'
    BY <1>2 DEF Typed, TransportTyped, LibraryDecided, Continue, Return, transport, gate
  <2>3. DatabaseTyped'
    BY <1>2 DEF Typed, DatabaseTyped, LibraryDecided, database
  <2>4. ControlTyped'
    BY <1>2 DEF Typed, ControlTyped, LibraryDecided, Continue, Return, gate, locks, TaskOrNone,
       Tasks
  <2>5. QED BY <2>1, <2>2, <2>3, <2>4 DEF Typed
<1>3. QED BY <1>1, <1>2

\* The steps of the library and the passing of time
LEMMA EnvironmentTyped ==
    ASSUME Typed, Environment
    PROVE  Typed'
<1>1. CASE LinkLost
  <2>1. ManagerTyped'
    BY <1>1 DEF Typed, ManagerTyped, LinkLost
  <2>2. TransportTyped'
    BY <1>1 DEF Typed, TransportTyped, LinkLost, DenyIngest, control
  <2>3. DatabaseTyped'
    BY <1>1 DEF Typed, DatabaseTyped, LinkLost, database, control
  <2>4. ControlTyped'
    BY <1>1, Counted DEF Typed, ControlTyped, LinkLost, DenyIngest, locks, control
  <2>5. QED BY <2>1, <2>2, <2>3, <2>4 DEF Typed
<1>2. CASE LibraryReconnects
  <2>1. ManagerTyped'
    BY <1>2 DEF Typed, ManagerTyped, LibraryReconnects, manager
  <2>2. TransportTyped'
    BY <1>2 DEF Typed, TransportTyped, LibraryReconnects, gate
  <2>3. DatabaseTyped'
    BY <1>2 DEF Typed, DatabaseTyped, LibraryReconnects, database
  <2>4. ControlTyped'
    BY <1>2 DEF Typed, ControlTyped, LibraryReconnects, gate, locks
  <2>5. QED BY <2>1, <2>2, <2>3, <2>4 DEF Typed
<1>3. CASE OperationRebootsRadio
  <2>1. ManagerTyped'
    BY <1>3 DEF Typed, ManagerTyped, OperationRebootsRadio
  <2>2. TransportTyped'
    BY <1>3 DEF Typed, TransportTyped, OperationRebootsRadio, DenyIngest, transport, control
  <2>3. DatabaseTyped'
    BY <1>3 DEF Typed, DatabaseTyped, OperationRebootsRadio, database, control
  <2>4. ControlTyped'
    BY <1>3, Counted DEF Typed, ControlTyped, OperationRebootsRadio, DenyIngest, locks, control
  <2>5. QED BY <2>1, <2>2, <2>3, <2>4 DEF Typed
<1>4. CASE GraceEnds
  <2>1. ManagerTyped'
    BY <1>4 DEF Typed, ManagerTyped, GraceEnds
  <2>2. TransportTyped'
    BY <1>4 DEF Typed, TransportTyped, GraceEnds, transport, gate, control
  <2>3. DatabaseTyped'
    BY <1>4 DEF Typed, DatabaseTyped, GraceEnds, database, control
  <2>4. ControlTyped'
    BY <1>4 DEF Typed, ControlTyped, GraceEnds, gate, locks, control
  <2>5. QED BY <2>1, <2>2, <2>3, <2>4 DEF Typed
<1>5. CASE EventArrives
  <2>1. ManagerTyped'
    BY <1>5 DEF Typed, ManagerTyped, EventArrives, manager
  <2>2. TransportTyped'
    BY <1>5 DEF Typed, TransportTyped, EventArrives, transport, gate, control
  <2>3. DatabaseTyped'
    BY <1>5, Stored DEF Typed, DatabaseTyped, EventArrives, TransportTyped, control
  <2>4. ControlTyped'
    BY <1>5 DEF Typed, ControlTyped, EventArrives, gate, locks, control
  <2>5. QED BY <2>1, <2>2, <2>3, <2>4 DEF Typed
<1>6. CASE WriteLands
  <2>1. ManagerTyped'
    BY <1>6 DEF Typed, ManagerTyped, WriteLands, manager
  <2>2. TransportTyped'
    BY <1>6 DEF Typed, TransportTyped, WriteLands, transport, gate, control
  <2>3. DatabaseTyped'
    BY <1>6, Stored DEF Typed, DatabaseTyped, WriteLands, KeyOrNone, control
  <2>4. ControlTyped'
    BY <1>6 DEF Typed, ControlTyped, WriteLands, gate, locks, control
  <2>5. QED BY <2>1, <2>2, <2>3, <2>4 DEF Typed
<1>7. QED BY <1>1, <1>2, <1>3, <1>4, <1>5, <1>6 DEF Environment

LEMMA TaskStepTyped ==
    ASSUME Typed, NEW t \in Tasks, TaskStep(t)
    PROVE  Typed'
<1>1. CASE Blocks(t)
  <2>1. UNCHANGED <<manager, transport, gate, database, locks, local, cancelling, events>>
        /\ running' = None
    BY <1>1 DEF Blocks
  <2>2. ManagerTyped' /\ TransportTyped' /\ DatabaseTyped'
    BY <2>1 DEF Typed, ManagerTyped, TransportTyped, DatabaseTyped, manager, transport, gate,
                database
  <2>3. ControlTyped'
    BY <2>1 DEF Typed, ControlTyped, TaskOrNone, gate, locks
  <2>4. QED BY <2>2, <2>3 DEF Typed
<1>2. QED BY <1>1, DisconnectTyped, ReconnectTyped, EvaluateTyped, SetupTyped, PrepareTyped
          DEF TaskStep

LEMMA TypedNext == Typed /\ [Next]_vars => Typed'
<1>1. Requesters \subseteq Tasks /\ Monitor \in Tasks /\ Library \in Tasks
  BY DEF Tasks
<1>2. ASSUME Typed, NEW q \in Requesters, RequestStep(q) \/ Operator(q)  PROVE  Typed'
  BY <1>1, <1>2, TaskStepTyped, TransitionTyped, RequestTyped, OperatorTyped DEF RequestStep
<1>3. ASSUME Typed, MonitorStep  PROVE  Typed'
  BY <1>1, <1>3, TaskStepTyped, MonitorOwnTyped DEF MonitorStep
<1>4. ASSUME Typed, LibraryStep  PROVE  Typed'
  BY <1>1, <1>4, TaskStepTyped, LibraryOwnTyped DEF LibraryStep
<1>5. ASSUME Typed, UNCHANGED vars  PROVE  Typed'
  BY <1>5 DEF Typed, ManagerTyped, TransportTyped, DatabaseTyped, ControlTyped, vars, manager,
              transport, gate, database, locks, control
<1>6. QED BY <1>2, <1>3, <1>4, <1>5, EnvironmentTyped DEF Next

\* The variables of the radio connection have their types in every reachable
\* state: flags are flags, a lock names a task or nobody, and what the identity
\* check stores is the key of a radio or None.
THEOREM RadioShape == Spec => []TypeOK
<1>1. Spec => []Typed
  BY TypedInit, TypedNext, PTL DEF Spec
<1>2. QED BY <1>1, TypedShape, PTL
=============================================================================
