--------------------------- MODULE RadioLifecycle ---------------------------
(***************************************************************************)
(* The life of the radio connection: RadioManager (app/radio.py), the      *)
(* post-connect setup and the connection monitor                           *)
(* (app/services/radio_lifecycle.py), the identity check and the ingest    *)
(* gate (app/services/radio_identity.py, radio_ingest_gate.py), the        *)
(* library's own reconnect (app/event_handlers.py) and the HTTP requests   *)
(* that connect, pause, re-target or re-identify the radio                 *)
(* (app/routers/radio.py).                                                 *)
(*                                                                         *)
(* Everything runs on one asyncio loop.  stack[t] is the call stack of     *)
(* task t, innermost frame first; a frame "f:x" is coroutine f suspended   *)
(* at (or about to reach) the point x.  `running' is the task that holds   *)
(* the loop, None when all tasks are suspended: a task that calls or       *)
(* returns keeps the loop until it awaits something that is not ready, so  *)
(* what lies between two awaits is never interleaved.  ret[t] is the value *)
(* of the last call t made that returned.                                  *)
(***************************************************************************)
EXTENDS Naturals, Sequences, FiniteSets

CONSTANTS
    Radios,           \* public keys of the radios that may answer
    None,             \* Python None
    Legacy,           \* rows of a database older than the identity binding
    Requesters,       \* tasks of HTTP requests; the first connects at startup
    Requests,         \* the requests the operator makes
    MaxEvents,        \* bound: requests, link drops, reboots and failures in one run
    LinkDrops,        \* TRUE: the transport drops and the library reconnects it
    LibrarySwaps,     \* TRUE: the library may reconnect to another radio
    SetupTrouble,     \* TRUE: setup raises or runs into its timeout
    ClockReboots,     \* TRUE: the clock sync of setup reboots the radio
    AppstartFails,    \* TRUE: send_appstart may fail on a working link
    SlowHandlers,     \* TRUE: a handler's write lands after its ingest check
    ReconcileRuns     \* TRUE: a contact reconcile task is there to be stopped

ASSUME RadioLifecycleAssumption ==
    /\ Radios # {} /\ None \notin Radios /\ Legacy \notin Radios
    /\ Requesters \cap {"monitor", "library"} = {}
    /\ None \notin Requesters \cup {"monitor", "library"}
    /\ MaxEvents \in Nat
    /\ \A feature \in {LinkDrops, LibrarySwaps, SetupTrouble, ClockReboots,
                       AppstartFails, SlowHandlers, ReconcileRuns} : feature \in BOOLEAN
    /\ Requests \subseteq {"disconnect", "reconnect", "put_transport", "revert", "ble_pair",
                           "adopt", "reject", "private_key"}

Monitor == "monitor"
Library == "library"
Tasks == Requesters \cup {Monitor, Library}

VARIABLES
    desired,          \* _connection_desired
    lastConnected,    \* _last_connected
    setupComplete,    \* _setup_complete
    expected,         \* expected reboot: "no", in its "grace" period, or "over" it
    teardown,         \* _expected_reboot_teardown_pending
    rebooted,         \* _clock_reboot_attempted
    mc,               \* _meshcore is not None
    link,             \* mc.is_connected
    auto,             \* the library's auto_reconnect
    live,             \* the radio at the other end
    selfInfo,         \* the key in mc.self_info
    handlers,         \* event handlers are subscribed to mc
    orphan,           \* the MeshCore that on_library_connected asks is closed
    ingest,           \* _ingest_allowed
    session,          \* the task whose begin_connection_session was the last
    bound,            \* radio_bound_public_key
    identityState,    \* radio_identity_state
    newKey,           \* radio_mismatch_new_public_key
    history,          \* radios whose mesh rows are in the database
    inflight,         \* the radio whose event a handler is about to store
    opLock, reconnectLock, setupLock, lifecycleLock,  \* holders
    stack, ret, running,
    local,            \* a task's local variables: a key, or a transport snapshot
    cancelling,       \* the monitor task has a CancelledError to be delivered
    events            \* requests, drops, reboots and failures so far

manager == <<desired, lastConnected, setupComplete, expected, teardown, rebooted>>
transport == <<mc, link, auto, live, selfInfo, handlers, orphan>>
gate == <<ingest, session>>
database == <<bound, identityState, newKey, history, inflight>>
locks == <<opLock, reconnectLock, setupLock, lifecycleLock>>
control == <<stack, ret, running, local, cancelling>>
vars == <<manager, transport, gate, database, locks, control, events>>

-----------------------------------------------------------------------------
(* Coroutines. *)

At(t, frame) == stack[t] # <<>> /\ Head(stack[t]) = frame

\* t is suspended at the frame and may be resumed
Resumes(t, frame) ==
    running = None /\ At(t, frame) /\ ~(t = Monitor /\ cancelling)

\* t holds the loop and has reached the frame without suspending
Reaches(t, frame) == running = t /\ At(t, frame)

Await(t, frame) ==
    /\ stack' = [stack EXCEPT ![t][1] = frame]
    /\ running' = None
    /\ UNCHANGED <<ret, cancelling>>

Continue(t, frame) ==
    /\ stack' = [stack EXCEPT ![t][1] = frame]
    /\ running' = t
    /\ UNCHANGED <<ret, cancelling>>

\* call the coroutine `callee'; its caller goes on at `frame'
Call(t, callee, frame) ==
    /\ stack' = [stack EXCEPT ![t] = <<callee, frame>> \o Tail(@)]
    /\ running' = t
    /\ UNCHANGED <<ret, cancelling>>

Return(t, value) ==
    /\ stack' = [stack EXCEPT ![t] = Tail(@)]
    /\ running' = IF Len(stack[t]) = 1 THEN None ELSE t
    /\ ret' = [ret EXCEPT ![t] = value]
    /\ UNCHANGED cancelling

\* asyncio.Lock is fair: a task that has not waited goes behind those that have.
Acquires(t, lock, frame, queue) ==
    /\ At(t, frame) /\ lock = None
    /\ \/ running = None /\ ~(t = Monitor /\ cancelling)
       \/ running = t /\ \A u \in Tasks \ {t}, f \in queue : ~At(u, f)

LockFrames == {"disconnect:lock", "setup:op", "setup:lock", "reconnect:lock", "transition:lock"}

LockOf(frame) == CASE frame \in {"disconnect:lock", "setup:op"} -> opLock
                   [] frame = "setup:lock" -> setupLock
                   [] frame = "reconnect:lock" -> reconnectLock
                   [] frame = "transition:lock" -> lifecycleLock

OpQueue == {"disconnect:lock", "setup:op"}

QueueOf(frame) == IF frame \in OpQueue THEN OpQueue ELSE {frame}

\* The lock is taken, or somebody waits for it already: t suspends.
Blocks(t) ==
    /\ running = t
    /\ Head(stack[t]) \in LockFrames
    /\ \/ LockOf(Head(stack[t])) # None
       \/ \E u \in Tasks \ {t}, f \in QueueOf(Head(stack[t])) : At(u, f)
    /\ running' = None
    /\ UNCHANGED <<manager, transport, gate, database, locks, stack, ret, local, cancelling,
                   events>>

Connected == mc /\ link

\* Something happens that the code does not decide.
Happens == events < MaxEvents /\ events' = events + 1

DenyIngest == ingest' = FALSE /\ UNCHANGED session

ClearExpectedReboot == expected' = "no" /\ teardown' = FALSE

-----------------------------------------------------------------------------
(* RadioManager.disconnect *)

\* A running contact reconcile task is stopped first, and awaited.
DisconnectEnters(t) ==
    /\ Reaches(t, "disconnect")
    /\ teardown' = FALSE
    /\ \/ ~mc /\ Return(t, None)
       \/ mc /\ Continue(t, "disconnect:deny")
       \/ mc /\ ReconcileRuns /\ Await(t, "disconnect:background")
    /\ UNCHANGED <<desired, lastConnected, setupComplete, expected, rebooted, transport, gate,
                   database, locks, local, events>>

\* A CONNECTED event not delivered yet finds no handler any more.
Undelivered(stacks) == [stacks EXCEPT ![Library] = IF @ = <<"library">> THEN <<>> ELSE @]

\* Ingest closes and the handlers are dropped before the lock is asked for.
DisconnectDenies(t) ==
    /\ Resumes(t, "disconnect:background") \/ Reaches(t, "disconnect:deny")
    /\ DenyIngest
    /\ handlers' = FALSE
    /\ stack' = Undelivered([stack EXCEPT ![t][1] = "disconnect:lock"])
    /\ running' = t
    /\ UNCHANGED <<manager, mc, link, auto, live, selfInfo, orphan, database, locks, ret, local,
                   cancelling, events>>

DisconnectLocks(t) ==
    /\ Acquires(t, opLock, "disconnect:lock", OpQueue)
    /\ IF mc
       THEN /\ opLock' = t
            /\ auto' = FALSE
            /\ Await(t, IF auto /\ ~link THEN "disconnect:library" ELSE "disconnect:close")
       ELSE Return(t, None) /\ UNCHANGED <<opLock, auto>>
    /\ UNCHANGED <<manager, mc, link, live, selfInfo, handlers, orphan, gate, database,
                   reconnectLock, setupLock, lifecycleLock, local, events>>

\* The library's reconnect task has ended its cancellation.
DisconnectStopsLibrary(t) ==
    /\ Resumes(t, "disconnect:library")
    /\ Await(t, "disconnect:close")
    /\ UNCHANGED <<manager, transport, gate, database, locks, local, events>>

\* mc.disconnect returned; a closing transport may report its own loss, which
\* closes ingest.  A closed MeshCore delivers no more events.
DisconnectCloses(t) ==
    /\ Resumes(t, "disconnect:close")
    /\ mc' = FALSE /\ link' = FALSE /\ handlers' = FALSE
    /\ orphan' = (orphan \/ At(Library, "evaluate:key"))
    /\ ingest' \in {ingest, FALSE}
    /\ setupComplete' = FALSE
    /\ opLock' = None
    /\ stack' = Undelivered([stack EXCEPT ![t] = Tail(@)])
    /\ running' = IF Len(stack[t]) = 1 THEN None ELSE t
    /\ ret' = [ret EXCEPT ![t] = None]
    /\ UNCHANGED <<desired, lastConnected, expected, teardown, rebooted, auto, live, selfInfo,
                   session, database, reconnectLock, setupLock, lifecycleLock, local, cancelling,
                   events>>

Disconnect(t) ==
    \/ DisconnectEnters(t) \/ DisconnectDenies(t) \/ DisconnectLocks(t)
    \/ DisconnectStopsLibrary(t) \/ DisconnectCloses(t)

-----------------------------------------------------------------------------
(* RadioManager.reconnect and connect *)

\* (mutant) a transport that lost its link is not closed first
ReconnectLocksBlind(t) ==
    /\ Acquires(t, reconnectLock, "reconnect:lock", {"reconnect:lock"})
    /\ IF ~desired \/ Connected
       THEN Return(t, IF desired THEN "True" ELSE "False") /\ UNCHANGED reconnectLock
       ELSE reconnectLock' = t /\ Await(t, "reconnect:open")
    /\ UNCHANGED <<manager, transport, gate, database, opLock, setupLock, lifecycleLock, local,
                   events>>

\* Paused, or connected by somebody else meanwhile: the lock is given back at once.
ReconnectLocks(t) ==
    /\ Acquires(t, reconnectLock, "reconnect:lock", {"reconnect:lock"})
    /\ IF ~desired \/ Connected
       THEN Return(t, IF desired THEN "True" ELSE "False") /\ UNCHANGED reconnectLock
       ELSE /\ reconnectLock' = t
            /\ IF mc THEN Call(t, "disconnect", "reconnect:stale")
                     ELSE Await(t, "reconnect:open")
    /\ UNCHANGED <<manager, transport, gate, database, opLock, setupLock, lifecycleLock, local,
                   events>>

ReconnectStaleGone(t) ==
    /\ Reaches(t, "reconnect:stale")
    /\ IF mc THEN Call(t, "disconnect", "reconnect:stale") ELSE Await(t, "reconnect:open")
    /\ UNCHANGED <<manager, transport, gate, database, locks, local, events>>

\* The transport opens onto some radio, and the pause flag is read again.
ReconnectOpens(t) ==
    /\ Resumes(t, "reconnect:open")
    /\ mc' = TRUE /\ link' = TRUE /\ auto' = TRUE /\ handlers' = FALSE
    /\ live' \in Radios
    /\ selfInfo' = live'
    /\ lastConnected' = TRUE /\ setupComplete' = FALSE
    /\ IF desired
       THEN reconnectLock' = None /\ Return(t, "True")
       ELSE Call(t, "disconnect", "reconnect:paused") /\ UNCHANGED reconnectLock
    /\ UNCHANGED <<desired, expected, teardown, rebooted, orphan, gate, database, opLock,
                   setupLock, lifecycleLock, local, events>>

\* Nothing answers, or the connection was paused meanwhile.
ReconnectEnds(t) ==
    /\ \/ Resumes(t, "reconnect:open") /\ Happens
       \/ Reaches(t, "reconnect:paused") /\ UNCHANGED events
    /\ reconnectLock' = None
    /\ Return(t, "False")
    /\ UNCHANGED <<manager, transport, gate, database, opLock, setupLock, lifecycleLock, local>>

Reconnect(t) ==
    ReconnectLocks(t) \/ ReconnectStaleGone(t) \/ ReconnectOpens(t) \/ ReconnectEnds(t)

-----------------------------------------------------------------------------
(* evaluate_connected_identity *)

AllowIngest(t) ==
    /\ ingest' = (ingest \/ session = t)
    /\ UNCHANGED session

EvaluateBegins(t) ==
    /\ Reaches(t, "evaluate")
    /\ ingest' = FALSE /\ session' = t
    /\ local' = [local EXCEPT ![t].key = selfInfo]
    /\ Await(t, "evaluate:key")
    /\ UNCHANGED <<manager, transport, database, locks, events>>

Orphaned(t) == t = Library /\ orphan

\* read_radio_public_key: a live send_appstart, else the key in the self_info of
\* the MeshCore it asks, which for on_library_connected may be closed by now.
EvaluateReadsKey(t) ==
    /\ Resumes(t, "evaluate:key")
    /\ \/ link /\ ~Orphaned(t) /\ selfInfo' = live
       \/ (~link \/ AppstartFails \/ Orphaned(t)) /\ UNCHANGED selfInfo
    /\ local' = [local EXCEPT ![t].key = IF Orphaned(t) THEN @ ELSE selfInfo']
    /\ Await(t, "evaluate:transport")
    /\ UNCHANGED <<manager, mc, link, auto, live, handlers, orphan, gate, database, locks, events>>

\* No key at all: fail closed.
EvaluateFindsNoKey(t) ==
    /\ Resumes(t, "evaluate:key")
    /\ AppstartFails
    /\ Return(t, "stop")
    /\ UNCHANGED <<manager, transport, gate, database, locks, local, events>>

\* (mutant) any radio is taken for the bound one
EvaluateDecidesAnyKey(t) ==
    /\ Resumes(t, "evaluate:transport")
    /\ bound # None
    /\ IF identityState # None
       THEN Return(t, "stop") /\ UNCHANGED gate
       ELSE AllowIngest(t) /\ Return(t, "continue")
    /\ UNCHANGED <<manager, transport, database, locks, local, events>>

\* (mutant) ingest opens before the keys are compared
EvaluateDecidesLate(t) ==
    /\ Resumes(t, "evaluate:transport")
    /\ bound # None /\ identityState = None
    /\ AllowIngest(t)
    /\ IF bound = local[t].key
       THEN Return(t, "continue") /\ UNCHANGED <<identityState, newKey>>
       ELSE identityState' = "identity_mismatch" /\ newKey' = local[t].key /\ Return(t, "stop")
    /\ UNCHANGED <<manager, transport, bound, history, inflight, locks, local, events>>

\* The snapshot decides: the gate is open already, the key is the bound one, no
\* key is bound yet, or another one is and the gate opens.
EvaluateDecides(t) ==
    /\ Resumes(t, "evaluate:transport")
    /\ \/ /\ identityState # None
          /\ Return(t, "stop")
          /\ UNCHANGED <<gate, identityState, newKey>>
       \/ /\ identityState = None /\ bound = local[t].key
          /\ AllowIngest(t)
          /\ Return(t, "continue")
          /\ UNCHANGED <<identityState, newKey>>
       \/ /\ identityState = None /\ bound = None
          /\ Await(t, "evaluate:history")
          /\ UNCHANGED <<gate, identityState, newKey>>
       \/ /\ identityState = None /\ bound \notin {None, local[t].key}
          /\ identityState' = "identity_mismatch" /\ newKey' = local[t].key
          /\ Return(t, "stop")
          /\ UNCHANGED gate
    /\ UNCHANGED <<manager, transport, bound, history, inflight, locks, local, events>>

\* (mutant) an empty database is not told from an old one
EvaluateBindsNothing(t) ==
    /\ Resumes(t, "evaluate:history")
    /\ identityState' = "identity_unbound_legacy" /\ newKey' = local[t].key
    /\ Return(t, "stop")
    /\ UNCHANGED <<manager, transport, gate, bound, history, inflight, locks, local, events>>

\* The first radio of an empty database is bound; older rows open the gate.
EvaluateBinds(t) ==
    /\ Resumes(t, "evaluate:history")
    /\ IF history = {}
       THEN /\ bound' = local[t].key /\ identityState' = None /\ newKey' = None
            /\ Await(t, "evaluate:bound")
       ELSE /\ identityState' = "identity_unbound_legacy" /\ newKey' = local[t].key
            /\ Return(t, "stop")
            /\ UNCHANGED bound
    /\ UNCHANGED <<manager, transport, gate, history, inflight, locks, local, events>>

EvaluateBound(t) ==
    /\ Resumes(t, "evaluate:bound")
    /\ AllowIngest(t)
    /\ Return(t, "continue")
    /\ UNCHANGED <<manager, transport, database, locks, local, events>>

Evaluate(t) ==
    \/ EvaluateBegins(t) \/ EvaluateReadsKey(t) \/ EvaluateFindsNoKey(t)
    \/ EvaluateDecides(t) \/ EvaluateBinds(t) \/ EvaluateBound(t)

-----------------------------------------------------------------------------
(* run_post_connect_setup.  _setup_in_progress is true exactly while _setup_lock is held. *)

SetupEnters(t) ==
    /\ Reaches(t, "setup")
    /\ IF mc THEN Continue(t, "setup:lock") ELSE Return(t, "done")
    /\ UNCHANGED <<manager, transport, gate, database, locks, local, events>>

SetupLocks(t) ==
    /\ Acquires(t, setupLock, "setup:lock", {"setup:lock"})
    /\ IF mc
       THEN setupLock' = t /\ setupComplete' = FALSE /\ Continue(t, "setup:op")
       ELSE Return(t, "done") /\ UNCHANGED <<setupLock, setupComplete>>
    /\ UNCHANGED <<desired, lastConnected, expected, teardown, rebooted, transport, gate,
                   database, opLock, reconnectLock, lifecycleLock, local, events>>

SetupTakesRadio(t) ==
    /\ Acquires(t, opLock, "setup:op", OpQueue)
    /\ IF mc
       THEN opLock' = t /\ Call(t, "evaluate", "setup:identity") /\ UNCHANGED setupLock
       ELSE setupLock' = None /\ Return(t, "done") /\ UNCHANGED opLock
    /\ UNCHANGED <<manager, transport, gate, database, reconnectLock, lifecycleLock, local,
                   events>>

ReleaseSetup == opLock' = None /\ setupLock' = None /\ UNCHANGED <<reconnectLock, lifecycleLock>>

\* (mutant) the refused radio is disconnected from inside the setup
SetupIdentityDisconnects(t) ==
    /\ Reaches(t, "setup:identity")
    /\ IF ret[t] = "continue"
       THEN handlers' = TRUE /\ Await(t, "setup:clock") /\ UNCHANGED <<desired, lastConnected>>
       ELSE /\ desired' = FALSE /\ lastConnected' = FALSE
            /\ Call(t, "disconnect", "setup:offload")
            /\ UNCHANGED handlers
    /\ UNCHANGED <<setupComplete, expected, teardown, rebooted, mc, link, auto, live, selfInfo,
                   orphan, gate, database, locks, local, events>>

\* A refused identity pauses the connection; handlers come only with an accepted one.
SetupIdentity(t) ==
    /\ Reaches(t, "setup:identity")
    /\ IF ret[t] = "continue"
       THEN /\ handlers' = TRUE
            /\ Await(t, "setup:clock")
            /\ UNCHANGED <<desired, lastConnected, locks>>
       ELSE /\ desired' = FALSE /\ lastConnected' = FALSE
            /\ ReleaseSetup
            /\ Return(t, "done")
            /\ UNCHANGED handlers
    /\ UNCHANGED <<setupComplete, expected, teardown, rebooted, mc, link, auto, live, selfInfo,
                   orphan, gate, database, local, events>>

SetupSyncsClock(t) ==
    /\ Resumes(t, "setup:clock")
    /\ Await(t, "setup:offload")
    /\ UNCHANGED <<manager, transport, gate, database, locks, local, events>>

\* (mutant) the reboot is booked on the key of an older snapshot
SetupRebootsStale(t) ==
    /\ Resumes(t, "setup:clock")
    /\ ClockReboots /\ link /\ local[t].bound \notin rebooted
    /\ rebooted' = rebooted \cup {local[t].bound}
    /\ expected' = "grace" /\ teardown' = TRUE /\ setupComplete' = FALSE
    /\ DenyIngest
    /\ ReleaseSetup
    /\ Return(t, "reconnect")
    /\ UNCHANGED <<desired, lastConnected, transport, database, local, events>>

\* sync_radio_time_outcome reboots a radio once per process: note_expected_reboot.
SetupRebootsRadio(t) ==
    /\ Resumes(t, "setup:clock")
    /\ ClockReboots /\ link /\ selfInfo \notin rebooted
    /\ rebooted' = rebooted \cup {selfInfo}
    /\ expected' = "grace" /\ teardown' = TRUE /\ setupComplete' = FALSE
    /\ DenyIngest
    /\ ReleaseSetup
    /\ Return(t, "reconnect")
    /\ UNCHANGED <<desired, lastConnected, transport, database, local, events>>

\* Offload, advertisement and drain are best effort; setup completes after them.
SetupCompletes(t) ==
    /\ Resumes(t, "setup:offload")
    /\ setupComplete' = TRUE
    /\ ReleaseSetup
    /\ Return(t, "done")
    /\ UNCHANGED <<desired, lastConnected, expected, teardown, rebooted, transport, gate,
                   database, local, events>>

SetupRaises(t) ==
    /\ SetupTrouble
    /\ Resumes(t, "setup:clock") \/ Resumes(t, "setup:offload")
    /\ Happens
    /\ ReleaseSetup
    /\ Return(t, "raise")
    /\ UNCHANGED <<manager, transport, gate, database, local>>

AfterSetup == {"prepare:setup1", "prepare:setup2"}

\* The frames of t below the setup it runs
BelowSetup(t) ==
    LET depth == CHOOSE i \in 1 .. Len(stack[t]) : stack[t][i] \in AfterSetup
    IN  SubSeq(stack[t], depth, Len(stack[t]))

\* (mutant) the operation lock is not released
SetupTimesOutKeepsRadio(t) ==
    /\ SetupTrouble /\ Happens
    /\ running = None /\ setupLock = t /\ ~(t = Monitor /\ cancelling)
    /\ stack' = [stack EXCEPT ![t] = BelowSetup(t)]
    /\ ret' = [ret EXCEPT ![t] = "timeout"]
    /\ running' = t
    /\ setupLock' = None
    /\ UNCHANGED <<manager, transport, gate, database, opLock, reconnectLock, lifecycleLock,
                   local, cancelling>>

\* POST_CONNECT_SETUP_TIMEOUT_SECONDS: wait_for cancels the body where it is,
\* also while it waits for the operation lock.
SetupTimesOut(t) ==
    /\ SetupTrouble /\ Happens
    /\ running = None /\ setupLock = t /\ ~(t = Monitor /\ cancelling)
    /\ stack' = [stack EXCEPT ![t] = BelowSetup(t)]
    /\ ret' = [ret EXCEPT ![t] = "timeout"]
    /\ running' = t
    /\ setupLock' = None
    /\ opLock' = IF opLock = t THEN None ELSE opLock
    /\ UNCHANGED <<manager, transport, gate, database, reconnectLock, lifecycleLock, local,
                   cancelling>>

Setup(t) ==
    \/ SetupEnters(t) \/ SetupLocks(t) \/ SetupTakesRadio(t) \/ SetupIdentity(t)
    \/ SetupSyncsClock(t) \/ SetupRebootsRadio(t) \/ SetupCompletes(t) \/ SetupRaises(t)
    \/ SetupTimesOut(t)

-----------------------------------------------------------------------------
(* prepare_connected_radio *)

\* Paused: drop the transport, answer False.
LeavePaused(t) ==
    IF Connected THEN Call(t, "disconnect", "prepare:dropped") ELSE Return(t, "False")

PrepareEnters(t) ==
    /\ Reaches(t, "prepare")
    /\ IF desired THEN Call(t, "setup", "prepare:setup1") ELSE LeavePaused(t)
    /\ UNCHANGED <<manager, transport, gate, database, locks, local, events>>

\* A timeout is retried once; any other failure is raised to the caller.
PrepareSetupFailed(t) ==
    /\ \E frame \in AfterSetup :
         /\ Reaches(t, frame)
         /\ \/ /\ ret[t] = "timeout" /\ frame = "prepare:setup1"
               /\ Call(t, "setup", "prepare:setup2")
            \/ /\ ret[t] = "raise" \/ (ret[t] = "timeout" /\ frame = "prepare:setup2")
               /\ Return(t, "raise")
    /\ UNCHANGED <<manager, transport, gate, database, locks, local, events>>

PrepareRebooted(t) ==
    /\ \E frame \in AfterSetup : Reaches(t, frame)
    /\ ret[t] = "reconnect"
    /\ Call(t, "disconnect", "prepare:rebooted")
    /\ UNCHANGED <<manager, transport, gate, database, locks, local, events>>

PrepareDone(t) ==
    /\ \E frame \in AfterSetup : Reaches(t, frame)
    /\ ret[t] = "done"
    /\ IF ~desired
       THEN LeavePaused(t) /\ UNCHANGED <<lastConnected, expected, teardown>>
       ELSE IF ~(Connected /\ setupComplete)
       THEN Return(t, "False") /\ UNCHANGED <<lastConnected, expected, teardown>>
       ELSE lastConnected' = TRUE /\ ClearExpectedReboot /\ Return(t, "True")
    /\ UNCHANGED <<desired, setupComplete, rebooted, transport, gate, database, locks, local,
                   events>>

PrepareDropped(t) ==
    /\ Reaches(t, "prepare:dropped") \/ Reaches(t, "prepare:rebooted")
    /\ lastConnected' = (lastConnected /\ ~At(t, "prepare:rebooted"))
    /\ Return(t, "False")
    /\ UNCHANGED <<desired, setupComplete, expected, teardown, rebooted, transport, gate,
                   database, locks, local, events>>

Prepare(t) ==
    \/ PrepareEnters(t) \/ PrepareSetupFailed(t) \/ PrepareRebooted(t) \/ PrepareDone(t)
    \/ PrepareDropped(t)

-----------------------------------------------------------------------------
(* connection_monitor_loop *)

\* expire_expected_reboot forgets a reboot out of its grace period, or paused.
Expires == expected = "over" \/ (expected = "grace" /\ ~desired)

Reports == Expires /\ desired /\ ~Connected

TearsDown == teardown /\ ~Expires /\ Connected

\* (mutant) setup is not tried again on a connected radio
MonitorPassOneSetup ==
    /\ Resumes(Monitor, "monitor:sleep")
    /\ lastConnected' = (lastConnected /\ Connected)
    /\ IF desired /\ ~Connected /\ reconnectLock = None
       THEN Call(Monitor, "reconnect:lock", "monitor:reconnected")
       ELSE IF ~desired /\ Connected
       THEN Call(Monitor, "disconnect", "monitor:loop")
       ELSE Await(Monitor, "monitor:sleep")
    /\ UNCHANGED <<desired, setupComplete, expected, teardown, rebooted, transport, gate,
                   database, locks, local, events>>

\* What a pass does about a connection that is wanted
KeepConnected ==
    IF ~Connected
    THEN IF reconnectLock = None
         THEN Call(Monitor, "reconnect:lock", "monitor:reconnected")
         ELSE Await(Monitor, "monitor:sleep")
    ELSE IF ~lastConnected \/ (~setupComplete /\ setupLock = None)
    THEN Call(Monitor, "prepare", "monitor:loop")
    ELSE Await(Monitor, "monitor:sleep")

\* (mutant) a paused connection is left alone
MonitorPassLeavesPaused ==
    /\ Resumes(Monitor, "monitor:sleep")
    /\ expected' = IF Expires THEN "no" ELSE expected
    /\ teardown' = FALSE
    /\ lastConnected' = (lastConnected /\ (Connected \/ Reports))
    /\ \/ TearsDown /\ desired /\ Call(Monitor, "disconnect", "monitor:torn")
       \/ ~TearsDown /\ desired /\ ~Reports /\ KeepConnected
       \/ (~desired \/ Reports) /\ Await(Monitor, "monitor:sleep")
    /\ UNCHANGED <<desired, setupComplete, rebooted, transport, gate, database, locks, local,
                   events>>

\* One pass of the loop, up to its first await.
MonitorPass ==
    /\ Resumes(Monitor, "monitor:sleep")
    /\ expected' = IF Expires THEN "no" ELSE expected
    /\ teardown' = FALSE
    /\ lastConnected' = (lastConnected /\ (Connected \/ Reports))
    /\ \/ Reports /\ Await(Monitor, "monitor:sleep")
       \/ TearsDown /\ Call(Monitor, "disconnect", "monitor:torn")
       \/ /\ ~Reports /\ ~TearsDown
          /\ IF desired THEN KeepConnected
             ELSE IF Connected THEN Call(Monitor, "disconnect", "monitor:loop")
                               ELSE Await(Monitor, "monitor:sleep")
    /\ UNCHANGED <<desired, setupComplete, rebooted, transport, gate, database, locks, local,
                   events>>

\* Back in the loop; a failed setup is logged and retried on a later pass.
MonitorGoesOn ==
    /\ \/ /\ Reaches(Monitor, "monitor:reconnected") /\ ret[Monitor] = "True"
          /\ Call(Monitor, "prepare", "monitor:loop")
          /\ UNCHANGED lastConnected
       \/ /\ Reaches(Monitor, "monitor:reconnected") /\ ret[Monitor] # "True"
          /\ Await(Monitor, "monitor:sleep")
          /\ UNCHANGED lastConnected
       \/ /\ Reaches(Monitor, "monitor:torn")
          /\ lastConnected' = FALSE
          /\ Await(Monitor, "monitor:sleep")
       \/ /\ Reaches(Monitor, "monitor:loop")
          /\ Await(Monitor, "monitor:sleep")
          /\ UNCHANGED lastConnected
    /\ UNCHANGED <<desired, setupComplete, expected, teardown, rebooted, transport, gate,
                   database, locks, local, events>>

SwallowsCancel == {"disconnect:background", "disconnect:library"}

\* (mutant) the loop catches the CancelledError and goes on
MonitorCatchesCancel ==
    /\ running = None /\ cancelling
    /\ stack' = [stack EXCEPT ![Monitor] = <<"monitor:sleep">>]
    /\ cancelling' = FALSE
    /\ opLock' = IF opLock = Monitor THEN None ELSE opLock
    /\ reconnectLock' = IF reconnectLock = Monitor THEN None ELSE reconnectLock
    /\ setupLock' = IF setupLock = Monitor THEN None ELSE setupLock
    /\ UNCHANGED <<manager, transport, gate, database, lifecycleLock, ret, running, local, events>>

\* stop_connection_monitor cancels the task wherever it is suspended: the
\* CancelledError unwinds it, releasing its locks ...
MonitorCancelled ==
    /\ running = None /\ cancelling
    /\ Head(stack[Monitor]) \notin SwallowsCancel
    /\ stack' = [stack EXCEPT ![Monitor] = <<>>]
    /\ cancelling' = FALSE
    /\ link' \in {link} \cup (IF At(Monitor, "disconnect:close") THEN {FALSE} ELSE {})
    /\ opLock' = IF opLock = Monitor THEN None ELSE opLock
    /\ reconnectLock' = IF reconnectLock = Monitor THEN None ELSE reconnectLock
    /\ setupLock' = IF setupLock = Monitor THEN None ELSE setupLock
    /\ UNCHANGED <<manager, mc, auto, live, selfInfo, handlers, orphan, gate, database,
                   lifecycleLock, ret, running, local, events>>

\* ... except where disconnect itself awaits a task it has cancelled and drops
\* the CancelledError of that await: the loop goes on.
MonitorSwallowsCancel ==
    /\ running = None /\ cancelling
    /\ Head(stack[Monitor]) \in SwallowsCancel
    /\ cancelling' = FALSE
    /\ UNCHANGED <<manager, transport, gate, database, locks, stack, ret, running, local, events>>

-----------------------------------------------------------------------------
(* RadioManager.lifecycle_transition: its body is the frame below. *)

TransitionLocks(q) ==
    /\ Acquires(q, lifecycleLock, "transition:lock", {"transition:lock"})
    /\ lifecycleLock' = q
    /\ stack' = [stack EXCEPT ![q][1] = "transition:stop"]
    /\ running' = None
    /\ cancelling' = TRUE
    /\ UNCHANGED <<manager, transport, gate, database, opLock, reconnectLock, setupLock, ret,
                   local, events>>

\* LIFECYCLE_LOCK_TIMEOUT_SECONDS: the request answers 503.
TransitionBusy(q) ==
    /\ Resumes(q, "transition:lock")
    /\ lifecycleLock # None
    /\ stack' = [stack EXCEPT ![q] = <<>>]
    /\ UNCHANGED <<manager, transport, gate, database, locks, ret, running, local, cancelling,
                   events>>

TransitionStopped(q) ==
    /\ Resumes(q, "transition:stop")
    /\ stack[Monitor] = <<>>
    /\ DenyIngest
    /\ ClearExpectedReboot
    /\ Return(q, None)
    /\ UNCHANGED <<desired, lastConnected, setupComplete, rebooted, transport, database, locks,
                   local, events>>

TransitionExits(q) ==
    /\ Reaches(q, "transition:exit")
    /\ stack' = [stack EXCEPT ![q] = <<>>, ![Monitor] = <<"monitor:sleep">>]
    /\ running' = None
    /\ lifecycleLock' = None
    /\ UNCHANGED <<manager, transport, gate, database, opLock, reconnectLock, setupLock, ret,
                   local, cancelling, events>>

Transition(q) ==
    TransitionLocks(q) \/ TransitionBusy(q) \/ TransitionStopped(q) \/ TransitionExits(q)

-----------------------------------------------------------------------------
(* Requests (app/routers/radio.py). *)

\* pause_connection, up to its call of disconnect
Pause == desired' = FALSE /\ lastConnected' = FALSE /\ ClearExpectedReboot

\* A request starts: its stack, and the transport snapshot it read before any lock.
Starts(q, request, frames) ==
    /\ running = None /\ stack[q] = <<>>
    /\ request \in Requests
    /\ Happens
    /\ stack' = [stack EXCEPT ![q] = frames]
    /\ local' = [local EXCEPT ![q] = [key |-> IF newKey = None THEN bound ELSE newKey,
                                      bound |-> bound, state |-> identityState]]
    /\ UNCHANGED <<ret, cancelling>>

\* POST /radio/disconnect
DisconnectRadio(q) ==
    /\ Starts(q, "disconnect", <<"disconnect">>)
    /\ running' = q
    /\ Pause
    /\ UNCHANGED <<setupComplete, rebooted, transport, gate, database, locks>>

Rebooting == expected = "grace" /\ desired

\* POST /radio/reconnect, when it is not answered at once
ReconnectRadio(q) ==
    /\ ~Rebooting /\ ~(Connected /\ setupComplete)
    /\ IF Connected
       THEN Starts(q, "reconnect", <<"prepare">>) /\ running' = q
       ELSE Starts(q, "reconnect", <<"request:ready">>) /\ running' = None
    /\ UNCHANGED <<manager, transport, gate, database, locks>>

\* _attempt_reconnect, once _require_transport_ready has read the transport
AttemptReconnect(q) ==
    /\ Resumes(q, "request:ready")
    /\ IF identityState # None
       THEN Return(q, None) /\ UNCHANGED desired
       ELSE /\ desired' = TRUE
            /\ IF expected = "grace" \/ reconnectLock # None
               THEN Return(q, None)
               ELSE Call(q, "reconnect:lock", "request:prepare")
    /\ UNCHANGED <<lastConnected, setupComplete, expected, teardown, rebooted, transport, gate,
                   database, locks, local, events>>

\* reconnect_and_prepare_radio
ReconnectAndPrepare(q) ==
    /\ Reaches(q, "request:prepare")
    /\ IF ret[q] = "True" THEN Continue(q, "prepare") ELSE Return(q, "False")
    /\ UNCHANGED <<manager, transport, gate, database, locks, local, events>>

\* The requests that run inside a lifecycle transition
BeginTransition(q) ==
    /\ \E request \in {"put_transport", "revert", "ble_pair", "adopt", "reject"} :
         /\ request \in {"adopt", "reject"} => identityState # None
         /\ request = "revert" => identityState = None
         /\ Starts(q, request, <<"transition:lock", request, "transition:exit">>)
    /\ running' = q
    /\ UNCHANGED <<manager, transport, gate, database, locks>>

\* PUT /radio/transport: an open gate is closed and the snapshot read again
PutTransport(q) ==
    /\ Reaches(q, "put_transport")
    /\ IF local[q].state # None
       THEN /\ identityState' = None /\ newKey' = None
            /\ local' = [local EXCEPT ![q].state = None, ![q].bound = bound]
       ELSE UNCHANGED <<identityState, newKey, local>>
    /\ Call(q, "disconnect", "put_transport:save")
    /\ UNCHANGED <<manager, transport, gate, bound, history, inflight, locks, events>>

\* POST /radio/transport/revert reads its snapshot inside the transition
RevertTransport(q) ==
    /\ Reaches(q, "revert")
    /\ IF identityState # None
       THEN Return(q, None) /\ UNCHANGED local
       ELSE /\ local' = [local EXCEPT ![q].bound = bound]
            /\ Call(q, "disconnect", "put_transport:save")
    /\ UNCHANGED <<manager, transport, gate, database, locks, events>>

\* RadioTransportRepository.save writes every column of the snapshot.
SaveTransport(q) ==
    /\ bound' = local[q].bound
    /\ identityState' = None /\ newKey' = None
    /\ UNCHANGED <<history, inflight>>

PutTransportSaves(q) ==
    /\ Reaches(q, "put_transport:save")
    /\ SaveTransport(q)
    /\ desired' = TRUE
    /\ Call(q, "reconnect:lock", "request:prepare")
    /\ UNCHANGED <<lastConnected, setupComplete, expected, teardown, rebooted, transport, gate,
                   locks, local, events>>

\* POST and DELETE /radio/transport/ble-pairing: ble_maintenance never waits
BlePairing(q) ==
    /\ Reaches(q, "ble_pair")
    /\ IF reconnectLock = None
       THEN reconnectLock' = q /\ Await(q, "ble_pair:status")
       ELSE Return(q, None) /\ UNCHANGED reconnectLock
    /\ UNCHANGED <<manager, transport, gate, database, opLock, setupLock, lifecycleLock, local,
                   events>>

\* A working link that is paired, or whose bond cannot be read, is kept.
BlePairingKeepsLink(q) ==
    /\ Resumes(q, "ble_pair:status")
    /\ Connected
    /\ reconnectLock' = None
    /\ Return(q, None)
    /\ UNCHANGED <<manager, transport, gate, database, opLock, setupLock, lifecycleLock, local,
                   events>>

BlePairingDropsLink(q) ==
    /\ Resumes(q, "ble_pair:status")
    /\ Call(q, "disconnect", "ble_pair:pair")
    /\ UNCHANGED <<manager, transport, gate, database, locks, local, events>>

\* ensure_paired or forget, whatever it answers
BlePairingPairs(q) ==
    /\ Reaches(q, "ble_pair:pair")
    /\ Await(q, "ble_pair:pairing")
    /\ UNCHANGED <<manager, transport, gate, database, locks, local, events>>

BlePairingEnds(q) ==
    /\ Resumes(q, "ble_pair:pairing")
    /\ reconnectLock' = None
    /\ Return(q, None)
    /\ UNCHANGED <<manager, transport, gate, database, opLock, setupLock, lifecycleLock, local,
                   events>>

\* POST /radio/identity/adopt: the wipe may be declined for unbound history only.
AdoptWipes(q) ==
    /\ Reaches(q, "adopt")
    /\ \/ history' = {} /\ DenyIngest
       \/ local[q].state = "identity_unbound_legacy" /\ UNCHANGED <<history, gate>>
    /\ Await(q, "adopt:bind")
    /\ UNCHANGED <<manager, transport, bound, identityState, newKey, inflight, locks, local,
                   events>>

AdoptBinds(q) ==
    /\ Resumes(q, "adopt:bind")
    /\ bound' = local[q].key
    /\ identityState' = None /\ newKey' = None
    /\ desired' = TRUE
    /\ Call(q, "reconnect:lock", "request:prepare")
    /\ UNCHANGED <<lastConnected, setupComplete, expected, teardown, rebooted, transport, gate,
                   history, inflight, locks, local, events>>

\* POST /radio/identity/reject
RejectClears(q) ==
    /\ Reaches(q, "reject")
    /\ identityState' = None /\ newKey' = None
    /\ Await(q, "reject:save")
    /\ UNCHANGED <<manager, transport, gate, bound, history, inflight, locks, local, events>>

RejectSaves(q) ==
    /\ Resumes(q, "reject:save")
    /\ SaveTransport(q)
    /\ Pause
    /\ Continue(q, "disconnect")
    /\ UNCHANGED <<setupComplete, rebooted, transport, gate, locks, local, events>>

\* PUT /radio/private-key with the key of another identity
SetPrivateKey(q) ==
    /\ Connected
    /\ Starts(q, "private_key", <<"private_key:gate">>)
    /\ DenyIngest
    /\ running' = None
    /\ UNCHANGED <<manager, transport, database, locks>>

SetPrivateKeyGate(q) ==
    /\ Resumes(q, "private_key:gate")
    /\ identityState' = "identity_mismatch"
    /\ newKey' \in Radios \ {IF local[q].bound = None THEN selfInfo ELSE local[q].bound}
    /\ Return(q, None)
    /\ UNCHANGED <<manager, transport, gate, bound, history, inflight, locks, local, events>>

Request(q) ==
    \/ AttemptReconnect(q) \/ ReconnectAndPrepare(q) \/ PutTransport(q) \/ RevertTransport(q)
    \/ PutTransportSaves(q)
    \/ BlePairing(q) \/ BlePairingKeepsLink(q) \/ BlePairingDropsLink(q) \/ BlePairingPairs(q)
    \/ BlePairingEnds(q) \/ AdoptWipes(q) \/ AdoptBinds(q) \/ RejectClears(q)
    \/ RejectSaves(q) \/ SetPrivateKeyGate(q)

Operator(q) ==
    DisconnectRadio(q) \/ ReconnectRadio(q) \/ BeginTransition(q) \/ SetPrivateKey(q)

-----------------------------------------------------------------------------
(* The library: a dropped link, its own reconnect, and what it delivers. *)

\* _note_library_transport_lost
LinkLost ==
    /\ running = None /\ LinkDrops /\ Connected
    /\ Happens
    /\ link' = FALSE
    /\ DenyIngest
    /\ setupComplete' = FALSE
    /\ UNCHANGED <<desired, lastConnected, expected, teardown, rebooted, mc, auto, live, selfInfo,
                   handlers, orphan, database, locks, control>>

\* The library reopens the transport, perhaps onto another radio; subscribed
\* handlers get a CONNECTED event.
LibraryReconnects ==
    /\ running = None /\ mc /\ auto /\ ~link
    /\ handlers => stack[Library] = <<>>
    /\ link' = TRUE
    /\ live' \in IF LibrarySwaps THEN Radios ELSE {live}
    /\ stack' = IF handlers THEN [stack EXCEPT ![Library] = <<"library">>] ELSE stack
    /\ UNCHANGED <<manager, mc, auto, selfInfo, handlers, orphan, gate, database, locks, ret,
                   running, local, cancelling, events>>

\* on_library_connected
OnLibraryConnected ==
    /\ Resumes(Library, "library")
    /\ setupComplete' = FALSE /\ orphan' = FALSE
    /\ DenyIngest
    /\ IF mc THEN Call(Library, "evaluate", "library:decided") ELSE Return(Library, None)
    /\ UNCHANGED <<desired, lastConnected, expected, teardown, rebooted, mc, link, auto, live,
                   selfInfo, handlers, database, locks, local, events>>

LibraryDecided ==
    /\ Reaches(Library, "library:decided")
    /\ IF ret[Library] = "continue"
       THEN Return(Library, None) /\ UNCHANGED <<desired, lastConnected, expected, teardown>>
       ELSE Pause /\ Continue(Library, "disconnect")
    /\ UNCHANGED <<setupComplete, rebooted, transport, gate, database, locks, local, events>>

\* A radio operation outside setup (Wi-Fi settings, the periodic clock sync)
\* reboots the radio: note_expected_reboot.
OperationRebootsRadio ==
    /\ running = None /\ ClockReboots /\ Connected /\ setupComplete /\ opLock = None
    /\ Happens
    /\ expected' = "grace" /\ teardown' = TRUE /\ setupComplete' = FALSE
    /\ DenyIngest
    /\ UNCHANGED <<desired, lastConnected, rebooted, transport, database, locks, control>>

\* EXPECTED_REBOOT_GRACE_SECONDS pass.
GraceEnds ==
    /\ running = None /\ expected = "grace"
    /\ expected' = "over"
    /\ UNCHANGED <<desired, lastConnected, setupComplete, teardown, rebooted, transport, gate,
                   database, locks, control, events>>

\* A handler reads the ingest gate on entry and stores its rows later.
EventArrives ==
    /\ running = None /\ Connected /\ handlers /\ ingest /\ inflight = None
    /\ IF SlowHandlers
       THEN inflight' = live /\ UNCHANGED history
       ELSE history' = history \cup {live} /\ UNCHANGED inflight
    /\ UNCHANGED <<manager, transport, gate, bound, identityState, newKey, locks, control, events>>

WriteLands ==
    /\ running = None /\ inflight # None
    /\ history' = history \cup {inflight} /\ inflight' = None
    /\ UNCHANGED <<manager, transport, gate, bound, identityState, newKey, locks, control, events>>

-----------------------------------------------------------------------------
NoLocal == [key |-> None, bound |-> None, state |-> None]

\* main.lifespan: the monitor starts, and a task connects the configured radio.
Init ==
    /\ desired = TRUE /\ lastConnected = FALSE /\ setupComplete = FALSE
    /\ expected = "no" /\ teardown = FALSE /\ rebooted = {}
    /\ mc = FALSE /\ link = FALSE /\ auto = FALSE /\ handlers = FALSE
    /\ live \in Radios /\ selfInfo = live /\ orphan = FALSE
    /\ ingest = FALSE /\ session = None
    /\ \/ bound \in Radios /\ history \in {{}, {bound}}
       \/ bound = None /\ history \in {{}, {Legacy}}
    /\ identityState = None /\ newKey = None /\ inflight = None
    /\ opLock = None /\ reconnectLock = None /\ setupLock = None /\ lifecycleLock = None
    /\ \E startup \in Requesters :
         stack = [t \in Tasks |-> CASE t = Monitor -> <<"monitor:sleep">>
                                    [] t = startup -> <<"reconnect:lock", "request:prepare">>
                                    [] OTHER -> <<>>]
    /\ ret = [t \in Tasks |-> None]
    /\ running = None /\ cancelling = FALSE
    /\ local = [t \in Tasks |-> NoLocal]
    /\ events = 0

TaskStep(t) ==
    \/ Blocks(t) \/ Disconnect(t) \/ Reconnect(t) \/ Evaluate(t) \/ Setup(t) \/ Prepare(t)

RequestStep(q) == TaskStep(q) \/ Transition(q) \/ Request(q)

MonitorStep ==
    \/ TaskStep(Monitor)
    \/ MonitorPass \/ MonitorGoesOn \/ MonitorCancelled \/ MonitorSwallowsCancel

LibraryStep == TaskStep(Library) \/ OnLibraryConnected \/ LibraryDecided

Environment == LinkLost \/ LibraryReconnects \/ OperationRebootsRadio \/ GraceEnds
               \/ EventArrives \/ WriteLands

Next ==
    \/ \E q \in Requesters : RequestStep(q) \/ Operator(q)
    \/ MonitorStep \/ LibraryStep \/ Environment

Spec == Init /\ [][Next]_vars

\* The loop runs every task that is ready.
Fairness ==
    /\ \A q \in Requesters : WF_vars(RequestStep(q))
    /\ WF_vars(MonitorStep) /\ WF_vars(LibraryStep)

FairSpec == Spec /\ Fairness

-----------------------------------------------------------------------------
\* The variables have their types.
TypeOK ==
    /\ {desired, lastConnected, setupComplete, teardown, mc, link, auto, handlers, orphan,
        ingest, cancelling} \subseteq BOOLEAN
    /\ expected \in {"no", "grace", "over"}
    /\ rebooted \subseteq Radios
    /\ {live, selfInfo} \subseteq Radios
    /\ {session, running, opLock, reconnectLock, setupLock, lifecycleLock}
         \subseteq Tasks \cup {None}
    /\ {bound, newKey, inflight} \subseteq Radios \cup {None}
    /\ identityState \in {None, "identity_mismatch", "identity_unbound_legacy"}
    /\ history \subseteq Radios \cup {Legacy}
    /\ events \in 0 .. MaxEvents

Frames(t) == {stack[t][i] : i \in 1 .. Len(stack[t])}

RadioFrames == {"disconnect:library", "disconnect:close", "setup:identity", "setup:clock",
                "setup:offload"}

ReconnectFrames == {"reconnect:stale", "reconnect:open", "reconnect:paused", "ble_pair:status",
                    "ble_pair:pair", "ble_pair:pairing"}

SetupFrames == {"setup:op", "setup:identity", "setup:clock", "setup:offload"}

\* A lock is held exactly by the task inside the code it guards: no return,
\* exception, timeout or cancellation leaves one held, and no task works on the
\* radio without it (_acquire_operation_lock, _reconnect_lock, _setup_lock).
LocksGuard ==
    \A t \in Tasks :
      /\ opLock = t <=> Frames(t) \cap RadioFrames # {}
      /\ reconnectLock = t <=> Frames(t) \cap ReconnectFrames # {}
      /\ setupLock = t <=> Frames(t) \cap SetupFrames # {}

\* Locks are taken in the documented order (lifecycle, _reconnect_lock, then the
\* operation lock): a task that waits holds nothing later in the order, nor the
\* lock it waits for, so no wait can close a circle.
LockOrder ==
    \A t \in Tasks :
      /\ At(t, "disconnect:lock") \/ At(t, "setup:op") => opLock # t
      /\ At(t, "setup:lock") => t \notin {setupLock, opLock}
      /\ At(t, "reconnect:lock") => t \notin {reconnectLock, setupLock, opLock}
      /\ At(t, "transition:lock") => t \notin {lifecycleLock, reconnectLock, setupLock, opLock}

\* A transport is opened only while there is none: reconnect never replaces a
\* MeshCore that nobody closed, however pauses, drops and reconnects interleave.
OpensOnNothing == \A t \in Tasks : At(t, "reconnect:open") => ~mc

\* Stored rows belong to the bound radio: the ingest gate keeps what another
\* radio sends out of the database until the operator has decided.
HistoryOfBound == history \subseteq {bound, Legacy}

\* Ingest is closed while the operator has an identity to adopt or reject.
GateShutsIngest == running = None /\ identityState # None => ~ingest

\* The operator is asked whether an unknown radio wrote the history only when it
\* is older than the binding, for a binding once made is not lost.
UnboundOnlyLegacy ==
    [][identityState # "identity_unbound_legacy" /\ identityState' = "identity_unbound_legacy"
         => Legacy \in history]_vars

Serving == Connected /\ setupComplete /\ handlers /\ ingest

\* Once drops and requests end, a radio that is wanted and known is served: setup
\* complete, handlers subscribed, ingest open.
Settles == <>[](Serving \/ ~desired \/ identityState # None)

\* A pause closes the transport, unless the connection is asked for again.
PauseHonoured == ~desired ~> (~Connected \/ desired)

\* A transition ends: it never keeps the lifecycle lock.
TransitionsEnd == \A q \in Requesters : lifecycleLock = q ~> lifecycleLock # q
=============================================================================
