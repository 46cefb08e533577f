------------------------ MODULE RadioLifecycleProofs ------------------------
(***************************************************************************)
(* The locks of RadioLifecycle, for any number of requests and radios and  *)
(* with every circumstance: a lock is held exactly inside the code it      *)
(* guards, locks are taken in their order, and a transport is opened only  *)
(* over none.  The invariant RadioInv and the coroutines that tasks share  *)
(* are in RadioLifecycleCalls; here are the transitions, the requests, the *)
(* library and the theorems.                                               *)
(***************************************************************************)
EXTENDS RadioLifecycleCalls

-----------------------------------------------------------------------------
(* lifecycle_transition *)

\* The entry of a transition moves in its own code, where no other lock matters.
LEMMA TransitionKept ==
    ASSUME RadioInv, NEW t \in Tasks, NEW f \in EnterCode, NEW G \in SUBSET EnterCode,
           Replaced(t, f, G), UNCHANGED <<mc, opLock, reconnectLock, setupLock>>,
           TransitionGuarded'
    PROVE  RadioInv'
<1> DEFINE R == Below(t)
<1>1. /\ Frames(t) = {f} \cup R /\ Frames(t)' = G \cup R
  BY DEF Replaced
<1>2. ASSUME NEW u \in Tasks, u # t
      PROVE  \/ Frames(u)' = Frames(u)
             \/ Frames(u) = {"library"} /\ Frames(u)' = {}
  BY <1>2 DEF Replaced
<1>3. /\ EnterCode \cap (GuardedFrames \cup SetupCode \cup AfterSetup) = {}
      /\ "library" \notin GuardedFrames \cup SetupCode \cup AfterSetup
      /\ "reconnect:open" \in GuardedFrames
  BY DEF EnterCode, GuardedFrames, SetupCode, AfterSetup, RadioFrames, ReconnectFrames,
         SetupFrames
<1> HIDE DEF R
<1>4. ASSUME NEW u \in Tasks, NEW x \in GuardedFrames \cup SetupCode \cup AfterSetup
      PROVE  x \in Frames(u)' <=> x \in Frames(u)
  BY <1>1, <1>2, <1>3
<1>5. LocksGuard'
  <2>1. SUFFICES ASSUME NEW u \in Tasks
                 PROVE  /\ opLock' = u <=> Frames(u)' \cap RadioFrames # {}
                        /\ reconnectLock' = u <=> Frames(u)' \cap ReconnectFrames # {}
                        /\ setupLock' = u <=> Frames(u)' \cap SetupFrames # {}
    BY DEF LocksGuard, RadioFrames, ReconnectFrames, SetupFrames, Tasks
  <2>2. /\ opLock = u <=> Frames(u) \cap RadioFrames # {}
        /\ reconnectLock = u <=> Frames(u) \cap ReconnectFrames # {}
        /\ setupLock = u <=> Frames(u) \cap SetupFrames # {}
    BY DEF RadioInv, LocksGuard
  <2>3. QED BY <1>4, <2>2 DEF GuardedFrames
<1>6. SetupCalled'
  <2>1. SUFFICES ASSUME NEW u \in Tasks, Frames(u)' \cap SetupCode # {}
                 PROVE  Frames(u)' \cap AfterSetup # {}
    BY DEF SetupCalled, SetupCode, AfterSetup, SetupFrames, Tasks
  <2>2. Frames(u) \cap SetupCode # {}
    BY <1>4, <2>1
  <2>3. QED BY <1>4, <2>2 DEF RadioInv, SetupCalled
<1>7. OpensBare'
  <2>1. SUFFICES ASSUME NEW u \in Tasks, "reconnect:open" \in Frames(u)'  PROVE  ~mc'
    BY DEF OpensBare, Tasks
  <2>2. QED BY <1>3, <1>4, <2>1 DEF RadioInv, OpensBare
<1>8. QED BY <1>5, <1>6, <1>7 DEF RadioInv, Replaced

LEMMA TransitionFits ==
    /\ "transition:stop" \in Points /\ EnterCode = {"transition:lock", "transition:stop"}
    /\ Suits("transition:lock", {"transition:stop"})
    /\ \A r : Covers("transition:lock", r) => r \notin GuardedFrames
BY DEF Points, EnterCode, Suits, Covers, BodyCode, Bodies, PrepareCode, ReconnectCode,
       DisconnectCode, SetupCode, EvaluateCode, AfterSetup, GuardedFrames, RadioFrames,
       ReconnectFrames, SetupFrames

LEMMA TransitionLocksNext ==
    ASSUME RadioInv, NEW q \in Requesters, TransitionLocks(q)
    PROVE  RadioInv'
<1> DEFINE f == "transition:lock"  g == "transition:stop"
<1>1. /\ At(q, f) /\ lifecycleLock = None /\ lifecycleLock' = q
      /\ UNCHANGED <<mc, opLock, reconnectLock, setupLock>>
      /\ stack' = [stack EXCEPT ![q][1] = g]
  BY DEF TransitionLocks, Acquires, transport
<1>2. q \in Tasks /\ Stacked /\ TransitionGuarded /\ None \notin Requesters
  BY TaskFacts DEF RadioInv
<1>3. OthersStay(q, [stack[q] EXCEPT ![1] = g])
  BY <1>1, <1>2, TransitionFits DEF OthersStay, Stacked, At
<1>4. Replaced(q, f, {g})
  BY <1>1, <1>2, <1>3, TransitionFits, MoveStep
<1>5. /\ Frames(q) = {f} \cup Below(q) /\ Frames(q)' = {g} \cup Below(q)
      /\ f \notin Below(q) /\ g \notin Below(q)
  BY <1>4, CoversFacts DEF Replaced
<1>6. "transition:exit" \in Frames(q)'
  BY <1>2, <1>5, TransitionFits DEF TransitionGuarded
<1>7. ASSUME NEW u \in Tasks, u # q
      PROVE  \/ Frames(u)' = Frames(u)
             \/ u = Library /\ Frames(u)' = {}
  BY <1>4, <1>7 DEF Replaced
<1>8. TransitionGuarded'
  <2>1. ASSUME NEW u \in Tasks, Frames(u)' \cap EnterCode # {}
        PROVE  "transition:exit" \in Frames(u)'
    BY <1>2, <1>6, <1>7, <2>1 DEF TransitionGuarded
  <2>2. ASSUME NEW p \in Requesters
        PROVE  q = p <=> /\ "transition:exit" \in Frames(p)'
                         /\ "transition:lock" \notin Frames(p)'
    <3>1. CASE p = q
      BY <1>5, <1>6, <3>1
    <3>2. CASE p # q
      <4>1. Frames(p)' = Frames(p)
        BY <1>7, <3>2, TaskFacts
      <4>2. lifecycleLock # p
        BY <1>1, <1>2
      <4>3. QED BY <1>2, <3>2, <4>1, <4>2 DEF TransitionGuarded
    <3>3. QED BY <3>1, <3>2
  <2>3. QED BY <1>1, <1>5, <2>1, <2>2 DEF TransitionGuarded, Tasks, EnterCode, Monitor
<1>9. QED BY <1>1, <1>2, <1>4, <1>8, TransitionFits, TransitionKept

LEMMA TransitionStoppedNext ==
    ASSUME RadioInv, NEW q \in Requesters, TransitionStopped(q)
    PROVE  RadioInv'
<1> DEFINE f == "transition:stop"
<1>1. /\ At(q, f) /\ stack[Monitor] = <<>> /\ UNCHANGED <<mc, locks>>
      /\ stack' = [stack EXCEPT ![q] = Tail(@)]
  BY DEF TransitionStopped, Resumes, transport, Return
<1>2. q \in Tasks /\ Monitor \in Tasks /\ q # Monitor /\ Stacked /\ TransitionGuarded
  BY TaskFacts DEF RadioInv
<1>3. stack[q] \in Seq(Points) /\ stack[q] # <<>> /\ Tail(stack[q]) \in Seq(Points)
  BY <1>1, <1>2, HeadTailProperties DEF Stacked, At
<1>4. OthersStay(q, Tail(stack[q]))
  BY <1>1, <1>2, <1>3 DEF OthersStay, Stacked
<1>5. Replaced(q, f, {})
  BY <1>1, <1>2, <1>4, ReturnStep
<1>6. /\ Frames(q) = {f} \cup Below(q) /\ Frames(q)' = Below(q)
      /\ Below(q) \cap EnterCode = {}
  BY <1>5, CoversFacts, TransitionFits DEF Replaced
<1>7. ASSUME NEW u \in Tasks, u # q
      PROVE  \/ Frames(u)' = Frames(u)
             \/ u = Library /\ Frames(u)' = {}
  BY <1>5, <1>7 DEF Replaced
<1>8. TransitionGuarded'
  <2>1. ASSUME NEW u \in Tasks, Frames(u)' \cap EnterCode # {}
        PROVE  "transition:exit" \in Frames(u)'
    BY <1>2, <1>6, <1>7, <2>1 DEF TransitionGuarded
  <2>2. ASSUME NEW p \in Requesters
        PROVE  /\ "transition:exit" \in Frames(p)' <=> "transition:exit" \in Frames(p)
               /\ "transition:lock" \in Frames(p)' <=> "transition:lock" \in Frames(p)
    <3>1. CASE p = q
      BY <1>6, <3>1, TransitionFits
    <3>2. CASE p # q
      BY <1>7, <3>2, TaskFacts
    <3>3. QED BY <3>1, <3>2
  <2>3. Frames(Monitor)' = {}
    <3>1. Frames(Monitor) = {}
      BY <1>1 DEF Frames
    <3>2. QED BY <1>2, <1>7, <3>1
  <2>4. lifecycleLock' = lifecycleLock
    BY <1>1 DEF locks
  <2>5. QED BY <1>2, <2>1, <2>2, <2>3, <2>4 DEF TransitionGuarded, Tasks, EnterCode, Monitor
<1>9. QED BY <1>1, <1>2, <1>5, <1>8, TransitionFits, TransitionKept DEF locks

LEMMA TransitionBusyNext ==
    ASSUME RadioInv, NEW q \in Requesters, TransitionBusy(q)
    PROVE  RadioInv'
<1> DEFINE f == "transition:lock"
<1>1. /\ At(q, f) /\ stack' = [stack EXCEPT ![q] = <<>>] /\ UNCHANGED <<mc, locks>>
  BY DEF TransitionBusy, Resumes, transport
<1>2. q \in Tasks /\ q # Monitor /\ Stacked
  BY TaskFacts DEF RadioInv
<1>3. stack[q] \in Seq(Points) /\ stack[q] # <<>> /\ Head(stack[q]) = f /\ Proper(q)
  BY <1>1, <1>2 DEF Stacked, At
<1>4. 1 \in 1 .. Len(stack[q]) /\ stack[q][1] = f
  BY <1>3, HeadFirst
<1>5. ASSUME NEW x \in Frames(q)  PROVE  x = f \/ Covers(f, x)
  <2>1. PICK i \in 1 .. Len(stack[q]) : x = stack[q][i]
    BY <1>5 DEF Frames
  <2>2. CASE i = 1
    BY <1>4, <2>1, <2>2
  <2>3. CASE i # 1
    <3>1. 1 < i
      BY <2>1, <2>3
    <3>2. QED BY <1>3, <1>4, <2>1, <3>1 DEF Proper
  <2>4. QED BY <2>2, <2>3
<1>6. f \in Frames(q)
  BY <1>4 DEF Frames
<1>7. f \notin GuardedFrames
  BY DEF GuardedFrames, RadioFrames, ReconnectFrames, SetupFrames
<1>8. Frames(q) \cap GuardedFrames = {}
  BY <1>5, <1>7, TransitionFits
<1>9. opLock # q /\ reconnectLock # q /\ setupLock # q
  BY <1>2, <1>8 DEF RadioInv, LocksGuard, GuardedFrames
<1>10. lifecycleLock # q
  BY <1>6 DEF RadioInv, TransitionGuarded
<1>11. Elements(<<>>) = {} /\ <<>> \in Seq(Points) /\ Len(<<>>) = 0
  BY DEF Elements
<1>12. Resets(q, <<>>)
  BY <1>1, <1>2, <1>9, <1>10, <1>11 DEF Resets, locks
<1>13. QED BY <1>2, <1>12, ResetsNext

LEMMA TransitionExitsNext ==
    ASSUME RadioInv, NEW q \in Requesters, TransitionExits(q)
    PROVE  RadioInv'
<1> DEFINE f == "transition:exit"  s == <<"monitor:sleep">>
<1>1. /\ At(q, f) /\ stack' = [stack EXCEPT ![q] = <<>>, ![Monitor] = s]
      /\ lifecycleLock' = None /\ UNCHANGED <<mc, opLock, reconnectLock, setupLock>>
  BY DEF TransitionExits, Reaches, transport
<1>2. /\ q \in Tasks /\ Monitor \in Tasks /\ q # Monitor /\ None \notin Tasks
      /\ Stacked /\ TransitionGuarded
  BY TaskFacts DEF RadioInv
<1>3. stack[q] \in Seq(Points) /\ stack[q] # <<>> /\ Head(stack[q]) = f /\ Proper(q)
  BY <1>1, <1>2 DEF Stacked, At
<1>4. 1 \in 1 .. Len(stack[q]) /\ stack[q][1] = f
  BY <1>3, HeadFirst, Zenon
<1>5. f \in Frames(q)
  BY <1>4 DEF Frames
<1>6. Frames(q) = {f}
  <2>1. ASSUME NEW x \in Frames(q)  PROVE  x = f
    <3>1. PICK i \in 1 .. Len(stack[q]) : x = stack[q][i]
      BY <2>1 DEF Frames
    <3>2. CASE i = 1
      BY <1>4, <3>1, <3>2
    <3>3. CASE i # 1
      <4>1. 1 < i
        BY <3>1, <3>3
      <4>2. Covers(f, x)
        BY <1>3, <1>4, <3>1, <4>1 DEF Proper
      <4>3. QED BY <4>2, CoversFacts
    <3>4. QED BY <3>2, <3>3
  <2>2. QED BY <1>5, <2>1
<1>7. lifecycleLock = q /\ Frames(Monitor) = {}
  BY <1>2, <1>6 DEF TransitionGuarded
<1>8. s \in Seq(Points) /\ Len(s) = 1 /\ s[1] = "monitor:sleep" /\ <<>> \in Seq(Points)
  BY DEF Points
<1> HIDE DEF s
<1>9. /\ stack' \in [Tasks -> Seq(Points)] /\ stack'[q] = <<>> /\ stack'[Monitor] = s
      /\ \A u \in Tasks \ {q, Monitor} : stack'[u] = stack[u]
  <2>1. stack \in [Tasks -> Seq(Points)]
    BY <1>2 DEF Stacked
  <2>2. QED BY <1>1, <1>2, <1>8, <2>1, Zenon
<1>10. /\ Frames(q)' = {} /\ Frames(Monitor)' = {"monitor:sleep"}
       /\ \A u \in Tasks \ {q, Monitor} : Frames(u)' = Frames(u)
  <2>1. Frames(q)' = {}
    BY <1>9 DEF Frames
  <2>2. Frames(Monitor)' = {"monitor:sleep"}
    <3>1. \A i : i \in 1 .. Len(s) <=> i = 1
      BY <1>8
    <3>2. QED BY <1>8, <1>9, <3>1, Zenon DEF Frames
  <2>3. QED BY <1>9, <2>1, <2>2, Zenon DEF Frames
<1>11. Stacked'
  <2>1. Proper(q)'
    BY <1>9 DEF Proper
  <2>2. Proper(Monitor)'
    <3>1. \A i, j \in 1 .. Len(s) : ~(i < j)
      BY <1>8
    <3>2. QED BY <1>9, <3>1 DEF Proper
  <2>3. ASSUME NEW u \in Tasks \ {q, Monitor}  PROVE  Proper(u)'
    BY <1>2, <1>9 DEF Stacked, Proper
  <2>4. QED BY <1>9, <2>1, <2>2, <2>3 DEF Stacked
<1>12. {f, "monitor:sleep"} \cap (GuardedFrames \cup SetupCode \cup EnterCode) = {}
  BY DEF GuardedFrames, SetupCode, EnterCode, RadioFrames, ReconnectFrames, SetupFrames
<1>13. ASSUME NEW u \in Tasks, NEW x \in GuardedFrames \cup SetupCode \cup EnterCode
       PROVE  x \in Frames(u)' <=> x \in Frames(u)
  BY <1>6, <1>7, <1>10, <1>12
<1>14. LocksGuard'
  <2>1. SUFFICES ASSUME NEW u \in Tasks
                 PROVE  /\ opLock' = u <=> Frames(u)' \cap RadioFrames # {}
                        /\ reconnectLock' = u <=> Frames(u)' \cap ReconnectFrames # {}
                        /\ setupLock' = u <=> Frames(u)' \cap SetupFrames # {}
    BY DEF LocksGuard, RadioFrames, ReconnectFrames, SetupFrames, Tasks
  <2>2. /\ opLock = u <=> Frames(u) \cap RadioFrames # {}
        /\ reconnectLock = u <=> Frames(u) \cap ReconnectFrames # {}
        /\ setupLock = u <=> Frames(u) \cap SetupFrames # {}
    BY DEF RadioInv, LocksGuard
  <2>3. QED BY <1>1, <1>13, <2>2 DEF GuardedFrames
<1>15. SetupCalled'
  <2>1. SUFFICES ASSUME NEW u \in Tasks, Frames(u)' \cap SetupCode # {}
                 PROVE  Frames(u)' \cap AfterSetup # {}
    BY DEF SetupCalled, SetupCode, AfterSetup, SetupFrames, Tasks
  <2>2. u # q /\ u # Monitor
    BY <1>10, <1>12, <2>1
  <2>3. QED BY <1>10, <2>1, <2>2 DEF RadioInv, SetupCalled
<1>16. TransitionGuarded'
  <2>1. ASSUME NEW u \in Tasks, Frames(u)' \cap EnterCode # {}
        PROVE  "transition:exit" \in Frames(u)'
    <3>1. u # q /\ u # Monitor
      BY <1>10, <1>12, <2>1
    <3>2. QED BY <1>2, <1>10, <2>1, <3>1 DEF TransitionGuarded
  <2>2. ASSUME NEW p \in Requesters
        PROVE  /\ None # p
               /\ ~(f \in Frames(p)' /\ "transition:lock" \notin Frames(p)')
    <3>1. p \in Tasks /\ p # Monitor
      BY TaskFacts
    <3>2. CASE p = q
      BY <1>2, <1>10, <3>2
    <3>3. CASE p # q
      BY <1>2, <1>7, <1>10, <3>1, <3>3 DEF TransitionGuarded
    <3>4. QED BY <3>2, <3>3
  <2>3. QED BY <1>1, <2>1, <2>2 DEF TransitionGuarded, Tasks, EnterCode, Monitor
<1>17. OpensBare'
  <2>1. SUFFICES ASSUME NEW u \in Tasks, "reconnect:open" \in Frames(u)'  PROVE  ~mc'
    BY DEF OpensBare, Tasks
  <2>2. "reconnect:open" \in GuardedFrames
    BY DEF GuardedFrames, ReconnectFrames
  <2>3. QED BY <1>1, <1>13, <2>1, <2>2 DEF RadioInv, OpensBare
<1>18. QED BY <1>11, <1>14, <1>15, <1>16, <1>17 DEF RadioInv

LEMMA TransitionNext ==
    ASSUME RadioInv, NEW q \in Requesters, Transition(q)
    PROVE  RadioInv'
BY TransitionLocksNext, TransitionBusyNext, TransitionStoppedNext, TransitionExitsNext
   DEF Transition

-----------------------------------------------------------------------------
(* Requests *)

\* The points of a request outside ble_maintenance, and what it calls from them
RequestCode == (BodyCode \ ReconnectFrames) \cup {"request:ready", "private_key:gate"}

RequestCalls ==
    {<<"reconnect:lock", "request:prepare">>, <<"disconnect", "put_transport:save">>}

RequestMoves == {"prepare", "adopt:bind", "reject:save", "disconnect"}

LEMMA RequestStill ==
    /\ \A f \in RequestCode : Still(f, {})
    /\ \A f \in RequestCode, g \in RequestMoves : Still(f, {g}) /\ g \in Points
    /\ \A f \in RequestCode, call \in RequestCalls :
         /\ Still(f, {call[1], call[2]}) /\ Covers(call[1], call[2])
         /\ call[1] \in Points /\ call[2] \in Points
<1>1. \A f \in RequestCode : \A r : Covers(f, r) => r = "transition:exit"
  BY DEF RequestCode, Covers, DisconnectCode, EnterCode, BodyCode, Bodies, PrepareCode,
         ReconnectCode, SetupCode, EvaluateCode, AfterSetup, SetupFrames
<1>2. \A g \in {"prepare", "adopt:bind", "reject:save", "disconnect", "reconnect:lock",
                "request:prepare", "put_transport:save"} :
        Covers(g, "transition:exit")
  BY DEF Covers, BodyCode, PrepareCode, ReconnectCode, DisconnectCode
<1>3. ASSUME NEW f \in RequestCode
      PROVE  f \notin GuardedFrames \cup {"transition:lock", "transition:stop", "transition:exit"}
  BY DEF RequestCode, BodyCode, Bodies, GuardedFrames, RadioFrames, ReconnectFrames, SetupFrames
<1>4. ASSUME NEW f \in RequestCode  PROVE  Still(f, {})
  BY <1>3 DEF Still, Suits, Plain, GuardedFrames
<1>5. ASSUME NEW f \in RequestCode, NEW g \in RequestMoves
      PROVE  Still(f, {g}) /\ g \in Points
  <2>1. Suits(f, {g})
    BY <1>1, <1>2 DEF Suits, RequestMoves
  <2>2. /\ g \notin GuardedFrames \cup SetupCode
        /\ g \notin {"transition:lock", "transition:stop", "transition:exit"}
        /\ "reconnect:open" # g
    BY DEF RequestMoves, GuardedFrames, SetupCode, RadioFrames, ReconnectFrames, SetupFrames
  <2>3. g \in Points
    BY DEF RequestMoves, Points, PrepareCode, BodyCode, DisconnectCode
  <2>4. QED BY <1>3, <2>1, <2>2, <2>3 DEF Still, Plain, GuardedFrames
<1>6. ASSUME NEW f \in RequestCode, NEW call \in RequestCalls
      PROVE  /\ Still(f, {call[1], call[2]}) /\ Covers(call[1], call[2])
             /\ call[1] \in Points /\ call[2] \in Points
  <2>1. call[1] \in {"reconnect:lock", "disconnect"}
        /\ call[2] \in {"request:prepare", "put_transport:save"}
    BY DEF RequestCalls
  <2>2. Suits(f, {call[1], call[2]})
    BY <1>1, <1>2, <2>1 DEF Suits
  <2>3. /\ {call[1], call[2]} \cap (GuardedFrames \cup SetupCode) = {}
        /\ {call[1], call[2]} \cap {"transition:lock", "transition:stop", "transition:exit"} = {}
        /\ "reconnect:open" \notin {call[1], call[2]}
    BY <2>1 DEF GuardedFrames, SetupCode, RadioFrames, ReconnectFrames, SetupFrames
  <2>4. Covers(call[1], call[2])
    BY DEF RequestCalls, Covers, ReconnectCode, DisconnectCode
  <2>5. call[1] \in Points /\ call[2] \in Points
    BY <2>1 DEF Points, BodyCode, ReconnectCode, DisconnectCode
  <2>6. QED BY <1>3, <2>2, <2>3, <2>4, <2>5, Zenon DEF Still, Plain, GuardedFrames
<1>7. QED BY <1>4, <1>5, <1>6

\* The requests other than ble_maintenance change no lock themselves.
PlainRequest(q) ==
    \/ AttemptReconnect(q) \/ ReconnectAndPrepare(q) \/ PutTransport(q) \/ RevertTransport(q)
    \/ PutTransportSaves(q) \/ AdoptWipes(q) \/ AdoptBinds(q) \/ RejectClears(q)
    \/ RejectSaves(q) \/ SetPrivateKeyGate(q)

LEMMA PlainRequestNext ==
    ASSUME RadioInv, NEW q \in Tasks, PlainRequest(q)
    PROVE  RadioInv'
<1>1. UNCHANGED <<mc, locks>>
  BY DEF PlainRequest, AttemptReconnect, ReconnectAndPrepare, PutTransport, RevertTransport,
         PutTransportSaves, AdoptWipes, AdoptBinds, RejectClears, RejectSaves,
         SetPrivateKeyGate, transport
<1>2. \E f \in {"request:ready", "private_key:gate", "request:prepare", "put_transport", "revert",
                "put_transport:save", "adopt", "adopt:bind", "reject", "reject:save"} : At(q, f)
  BY DEF PlainRequest, AttemptReconnect, ReconnectAndPrepare, PutTransport, RevertTransport,
         PutTransportSaves, AdoptWipes, AdoptBinds, RejectClears, RejectSaves,
         SetPrivateKeyGate, Reaches, Resumes
<1>3. PICK f \in RequestCode : At(q, f)
  BY <1>2 DEF RequestCode, BodyCode, Bodies, ReconnectFrames
<1>4. \/ \E v : Return(q, v)
      \/ \E g \in RequestMoves : Await(q, g) \/ Continue(q, g)
      \/ \E call \in RequestCalls : Call(q, call[1], call[2])
  BY DEF PlainRequest, AttemptReconnect, ReconnectAndPrepare, PutTransport, RevertTransport,
         PutTransportSaves, AdoptWipes, AdoptBinds, RejectClears, RejectSaves,
         SetPrivateKeyGate, RequestMoves, RequestCalls
<1>5. CASE \E v : Return(q, v)
  <2>1. Fine(q, f, {})
    BY <1>1, <1>3, RequestStill, StillFine
  <2>2. QED BY <1>3, <1>5, <2>1, Returns, Zenon DEF Return
<1>6. CASE \E g \in RequestMoves : Await(q, g) \/ Continue(q, g)
  <2>1. PICK g \in RequestMoves : Await(q, g) \/ Continue(q, g)
    BY <1>6
  <2>2. Fine(q, f, {g}) /\ g \in Points
    BY <1>1, <1>3, <2>1, RequestStill, StillFine
  <2>3. QED BY <1>3, <2>1, <2>2, Moves DEF Await, Continue
<1>7. CASE \E call \in RequestCalls : Call(q, call[1], call[2])
  <2>1. PICK call \in RequestCalls : Call(q, call[1], call[2])
    BY <1>7
  <2>2. /\ Fine(q, f, {call[1], call[2]}) /\ Covers(call[1], call[2])
        /\ call[1] \in Points /\ call[2] \in Points
    BY <1>1, <1>3, <2>1, RequestStill, StillFine
  <2>3. QED BY <1>3, <2>1, <2>2, Calls, Zenon DEF Call
<1>8. QED BY <1>4, <1>5, <1>6, <1>7

\* ble_maintenance: the reconnect lock is taken at its begin and given back at its end.
LEMMA BleFits ==
    /\ {"ble_pair:status", "ble_pair:pair", "ble_pair:pairing", "disconnect"} \subseteq Points
    /\ Suits("ble_pair", {"ble_pair:status"}) /\ Plain("ble_pair", {"ble_pair:status"})
    /\ \A f \in {"ble_pair:status", "ble_pair:pairing"} : Suits(f, {}) /\ Plain(f, {})
    /\ Still("ble_pair:status", {"disconnect", "ble_pair:pair"})
    /\ Covers("disconnect", "ble_pair:pair")
    /\ Still("ble_pair:pair", {"ble_pair:pairing"})
    /\ "ble_pair" \in RequestCode
    /\ {"ble_pair:status", "ble_pair:pairing"} \subseteq ReconnectFrames
    /\ {"ble_pair", "ble_pair:status", "ble_pair:pairing"} \cap (RadioFrames \cup SetupFrames) = {}
<1> USE DEF Still, Suits, Plain, Covers, DisconnectCode, EnterCode, BodyCode, PrepareCode,
            ReconnectCode, SetupCode, EvaluateCode, AfterSetup, RadioFrames, ReconnectFrames,
            SetupFrames, Bodies
<1>1. /\ {"ble_pair:status", "ble_pair:pair", "ble_pair:pairing", "disconnect"} \subseteq Points
      /\ "ble_pair" \in RequestCode
  BY DEF Points, RequestCode
<1>2. Suits("ble_pair", {"ble_pair:status"}) /\ Plain("ble_pair", {"ble_pair:status"})
  OBVIOUS
<1>3. \A f \in {"ble_pair:status", "ble_pair:pairing"} : Suits(f, {}) /\ Plain(f, {})
  OBVIOUS
<1>4. Still("ble_pair:status", {"disconnect", "ble_pair:pair"})
  OBVIOUS
<1>5. Covers("disconnect", "ble_pair:pair") /\ Still("ble_pair:pair", {"ble_pair:pairing"})
  OBVIOUS
<1>6. /\ {"ble_pair:status", "ble_pair:pairing"} \subseteq ReconnectFrames
      /\ {"ble_pair", "ble_pair:status", "ble_pair:pairing"} \cap (RadioFrames \cup SetupFrames)
           = {}
  OBVIOUS
<1>7. QED BY <1>1, <1>2, <1>3, <1>4, <1>5, <1>6, Zenon

LEMMA BlePairingNext ==
    ASSUME RadioInv, NEW q \in Tasks, BlePairing(q)
    PROVE  RadioInv'
<1>1. /\ At(q, "ble_pair") /\ mc' = mc /\ UNCHANGED <<opLock, setupLock, lifecycleLock>>
  BY DEF BlePairing, Reaches, transport
<1>2. CASE reconnectLock = None
  <2>1. reconnectLock' = q /\ Await(q, "ble_pair:status")
    BY <1>2 DEF BlePairing
  <2>2. /\ "ble_pair:status" \in ReconnectFrames
        /\ "ble_pair:status" \notin RadioFrames \cup SetupFrames
        /\ "ble_pair" \notin RadioFrames \cup SetupFrames
    BY BleFits
  <2>3. LocksStep(q, "ble_pair", {"ble_pair:status"})
    BY <1>1, <1>2, <2>1, <2>2 DEF LocksStep, Guards
  <2>4. Fine(q, "ble_pair", {"ble_pair:status"})
    BY <1>1, <2>3, BleFits DEF Fine, OpensStep
  <2>5. QED BY <1>1, <2>1, <2>4, BleFits, Moves, Zenon DEF Await
<1>3. CASE reconnectLock # None
  <2>1. Return(q, None) /\ UNCHANGED <<mc, locks>>
    BY <1>1, <1>3 DEF BlePairing, locks
  <2>2. Fine(q, "ble_pair", {})
    BY <2>1, BleFits, RequestStill, StillFine
  <2>3. QED BY <1>1, <2>1, <2>2, Returns, Zenon DEF Return
<1>4. QED BY <1>2, <1>3

LEMMA BlePairingReleases ==
    ASSUME RadioInv, NEW q \in Tasks, BlePairingKeepsLink(q) \/ BlePairingEnds(q)
    PROVE  RadioInv'
<1>1. PICK f \in {"ble_pair:status", "ble_pair:pairing"} : At(q, f)
  BY DEF BlePairingKeepsLink, BlePairingEnds, Resumes
<1>2. /\ reconnectLock' = None /\ mc' = mc /\ UNCHANGED <<opLock, setupLock, lifecycleLock>>
      /\ Return(q, None)
  BY DEF BlePairingKeepsLink, BlePairingEnds, transport
<1>3. LocksStep(q, f, {})
  BY <1>1, <1>2, BleFits, Zenon DEF LocksStep, Guards
<1>4. Fine(q, f, {})
  BY <1>1, <1>2, <1>3, BleFits DEF Fine, OpensStep
<1>5. QED BY <1>1, <1>2, <1>4, Returns, Zenon DEF Return

LEMMA BlePairingGoesOn ==
    ASSUME RadioInv, NEW q \in Tasks, BlePairingDropsLink(q) \/ BlePairingPairs(q)
    PROVE  RadioInv'
<1>1. CASE BlePairingDropsLink(q)
  <2>1. /\ At(q, "ble_pair:status") /\ UNCHANGED <<mc, locks>>
        /\ Call(q, "disconnect", "ble_pair:pair")
    BY <1>1 DEF BlePairingDropsLink, Resumes, transport
  <2>2. Fine(q, "ble_pair:status", {"disconnect", "ble_pair:pair"})
    BY <2>1, BleFits, StillFine
  <2>3. QED BY <2>1, <2>2, BleFits, Calls, Zenon DEF Call
<1>2. CASE BlePairingPairs(q)
  <2>1. /\ At(q, "ble_pair:pair") /\ UNCHANGED <<mc, locks>> /\ Await(q, "ble_pair:pairing")
    BY <1>2 DEF BlePairingPairs, Reaches, transport
  <2>2. Fine(q, "ble_pair:pair", {"ble_pair:pairing"})
    BY <2>1, BleFits, StillFine
  <2>3. QED BY <2>1, <2>2, BleFits, Moves, Zenon DEF Await
<1>3. QED BY <1>1, <1>2

LEMMA RequestNext ==
    ASSUME RadioInv, NEW q \in Tasks, Request(q)
    PROVE  RadioInv'
BY PlainRequestNext, BlePairingNext, BlePairingReleases, BlePairingGoesOn
   DEF Request, PlainRequest

\* A task without frames holds no lock, and begins in code that none guards.
LEMMA Begins ==
    ASSUME RadioInv, NEW t \in Tasks, t # Monitor, stack[t] = <<>>, UNCHANGED <<mc, locks>>,
           NEW s \in Seq(Points), stack' = [stack EXCEPT ![t] = s],
           \A i, j \in 1 .. Len(s) : i < j => Covers(s[i], s[j]),
           Elements(s) \cap (GuardedFrames \cup SetupCode) = {},
           \/ Elements(s) \cap (EnterCode \cup {"transition:exit"}) = {}
           \/ {"transition:lock", "transition:exit"} \subseteq Elements(s)
    PROVE  RadioInv'
<1>1. Frames(t) = {}
  BY DEF Frames
<1>2. opLock # t /\ reconnectLock # t /\ setupLock # t
  BY <1>1 DEF RadioInv, LocksGuard
<1>3. t \in Requesters => lifecycleLock # t
  BY <1>1 DEF RadioInv, TransitionGuarded
<1>4. Resets(t, s)
  BY <1>2, <1>3 DEF Resets, locks, EnterCode
<1>5. QED BY <1>4, ResetsNext

LEMMA BeginsAt ==
    ASSUME RadioInv, NEW t \in Tasks, t # Monitor, stack[t] = <<>>, UNCHANGED <<mc, locks>>,
           NEW g \in {"disconnect", "prepare", "request:ready", "private_key:gate", "library"},
           stack' = [stack EXCEPT ![t] = <<g>>]
    PROVE  RadioInv'
<1> DEFINE s == <<g>>
<1>1. /\ g \in Points /\ g \notin GuardedFrames \cup SetupCode
      /\ g \notin EnterCode \cup {"transition:exit"}
  BY DEF Points, PrepareCode, DisconnectCode, GuardedFrames, SetupCode, EnterCode, RadioFrames,
         ReconnectFrames, SetupFrames
<1>2. s \in Seq(Points) /\ Len(s) = 1 /\ s[1] = g
  BY <1>1
<1> HIDE DEF s
<1>3. \A i : i \in 1 .. Len(s) <=> i = 1
  BY <1>2
<1>4. Elements(s) = {g}
  BY <1>2, <1>3 DEF Elements
<1>5. \A i, j \in 1 .. Len(s) : ~(i < j)
  BY <1>3
<1>6. stack' = [stack EXCEPT ![t] = s]
  BY DEF s
<1>7. /\ Elements(s) \cap (GuardedFrames \cup SetupCode) = {}
      /\ Elements(s) \cap (EnterCode \cup {"transition:exit"}) = {}
  BY <1>1, <1>4
<1>8. QED BY <1>2, <1>5, <1>6, <1>7, Begins, Zenon

LEMMA BeginTransitionNext ==
    ASSUME RadioInv, NEW q \in Requesters, BeginTransition(q)
    PROVE  RadioInv'
<1>1. PICK body \in Bodies : Starts(q, body, <<"transition:lock", body, "transition:exit">>)
  BY DEF BeginTransition, Bodies
<1> DEFINE s == <<"transition:lock", body, "transition:exit">>
<1>2. /\ stack[q] = <<>> /\ stack' = [stack EXCEPT ![q] = s]
      /\ UNCHANGED <<mc, locks>> /\ q \in Tasks /\ q # Monitor
  BY <1>1, TaskFacts, Zenon DEF Starts, BeginTransition, transport
<1>3. /\ {"transition:lock", body, "transition:exit"} \subseteq Points
      /\ {"transition:lock", body, "transition:exit"} \cap (GuardedFrames \cup SetupCode) = {}
      /\ Covers("transition:lock", body) /\ Covers("transition:lock", "transition:exit")
      /\ Covers(body, "transition:exit")
  BY DEF Points, Bodies, BodyCode, EnterCode, Covers, GuardedFrames, SetupCode, RadioFrames,
         ReconnectFrames, SetupFrames
<1>4. /\ s \in Seq(Points) /\ Len(s) = 3
      /\ s[1] = "transition:lock" /\ s[2] = body /\ s[3] = "transition:exit"
  BY <1>3
<1> HIDE DEF s
<1>5. \A i : i \in 1 .. Len(s) <=> i = 1 \/ i = 2 \/ i = 3
  BY <1>4
<1>6. Elements(s) = {"transition:lock", body, "transition:exit"}
  BY <1>4, <1>5 DEF Elements
<1>7. ASSUME NEW i \in 1 .. Len(s), NEW j \in 1 .. Len(s), i < j  PROVE  Covers(s[i], s[j])
  <2>1. (i = 1 /\ j = 2) \/ (i = 1 /\ j = 3) \/ (i = 2 /\ j = 3)
    BY <1>5, <1>7
  <2>2. QED BY <1>3, <1>4, <2>1
<1>8. /\ Elements(s) \cap (GuardedFrames \cup SetupCode) = {}
      /\ {"transition:lock", "transition:exit"} \subseteq Elements(s)
  BY <1>3, <1>6
<1>9. QED BY <1>2, <1>4, <1>7, <1>8, Begins, Zenon

LEMMA OperatorNext ==
    ASSUME RadioInv, NEW q \in Requesters, Operator(q)
    PROVE  RadioInv'
<1>1. q \in Tasks /\ q # Monitor
  BY TaskFacts
<1>2. CASE DisconnectRadio(q) \/ ReconnectRadio(q) \/ SetPrivateKey(q)
  <2>1. UNCHANGED <<mc, locks>>
    BY <1>2 DEF DisconnectRadio, ReconnectRadio, SetPrivateKey, transport
  <2>2. PICK g \in {"disconnect", "prepare", "request:ready", "private_key:gate", "library"} :
          \E request : Starts(q, request, <<g>>)
    BY <1>2 DEF DisconnectRadio, ReconnectRadio, SetPrivateKey
  <2>3. stack[q] = <<>> /\ stack' = [stack EXCEPT ![q] = <<g>>]
    BY <2>2 DEF Starts
  <2>4. QED BY <1>1, <2>1, <2>3, BeginsAt, Zenon
<1>3. CASE BeginTransition(q)
  BY <1>3, BeginTransitionNext
<1>4. QED BY <1>2, <1>3 DEF Operator

-----------------------------------------------------------------------------
(* The library, and what happens outside the tasks *)

LEMMA LibraryStill ==
    /\ {"evaluate", "library:decided", "disconnect"} \subseteq Points
    /\ Still("library", {}) /\ Still("library", {"evaluate", "library:decided"})
    /\ Covers("evaluate", "library:decided")
    /\ Still("library:decided", {}) /\ Still("library:decided", {"disconnect"})
<1> USE DEF Still, Suits, Plain, Covers, DisconnectCode, EnterCode, BodyCode, PrepareCode,
            ReconnectCode, SetupCode, EvaluateCode, AfterSetup, RadioFrames, ReconnectFrames,
            SetupFrames, Bodies
<1>1. {"evaluate", "library:decided", "disconnect"} \subseteq Points
  BY DEF Points
<1>2. Still("library", {}) /\ Still("library:decided", {})
  BY Zenon
<1>3. Still("library", {"evaluate", "library:decided"}) /\ Covers("evaluate", "library:decided")
  BY Zenon
<1>4. Still("library:decided", {"disconnect"})
  OBVIOUS
<1>5. QED BY <1>1, <1>2, <1>3, <1>4, Zenon

LEMMA LibraryNext ==
    ASSUME RadioInv, OnLibraryConnected \/ LibraryDecided
    PROVE  RadioInv'
<1>1. UNCHANGED <<mc, locks>> /\ Library \in Tasks
  BY TaskFacts DEF OnLibraryConnected, LibraryDecided, transport
<1>2. CASE OnLibraryConnected
  <2>1. At(Library, "library")
    BY <1>2 DEF OnLibraryConnected, Resumes
  <2>2. CASE Call(Library, "evaluate", "library:decided")
    <3>1. Fine(Library, "library", {"evaluate", "library:decided"})
      BY <1>1, LibraryStill, StillFine
    <3>2. QED BY <1>1, <2>1, <2>2, <3>1, LibraryStill, Calls, Zenon DEF Call
  <2>3. CASE Return(Library, None)
    <3>1. Fine(Library, "library", {})
      BY <1>1, LibraryStill, StillFine
    <3>2. QED BY <1>1, <2>1, <2>3, <3>1, Returns, Zenon DEF Return
  <2>4. QED BY <1>2, <2>2, <2>3 DEF OnLibraryConnected
<1>3. CASE LibraryDecided
  <2>1. At(Library, "library:decided")
    BY <1>3 DEF LibraryDecided, Reaches
  <2>2. CASE Return(Library, None)
    <3>1. Fine(Library, "library:decided", {})
      BY <1>1, LibraryStill, StillFine
    <3>2. QED BY <1>1, <2>1, <2>2, <3>1, Returns, Zenon DEF Return
  <2>3. CASE Continue(Library, "disconnect")
    <3>1. Fine(Library, "library:decided", {"disconnect"})
      BY <1>1, LibraryStill, StillFine
    <3>2. QED BY <1>1, <2>1, <2>3, <3>1, LibraryStill, Moves, Zenon DEF Continue
  <2>4. QED BY <1>3, <2>2, <2>3 DEF LibraryDecided
<1>4. QED BY <1>2, <1>3

LEMMA EnvironmentNext ==
    ASSUME RadioInv, Environment
    PROVE  RadioInv'
<1>1. CASE LinkLost \/ OperationRebootsRadio \/ GraceEnds \/ EventArrives \/ WriteLands
  <2>1. UNCHANGED <<stack, mc, locks>>
    BY <1>1, Zenon DEF LinkLost, OperationRebootsRadio, GraceEnds, EventArrives, WriteLands,
       control,
                transport
  <2>2. QED BY <2>1, Unmoved
<1>2. CASE LibraryReconnects
  <2>1. UNCHANGED <<mc, locks>>
    BY <1>2 DEF LibraryReconnects
  <2>2. CASE handlers
    <3>1. /\ stack[Library] = <<>> /\ stack' = [stack EXCEPT ![Library] = <<"library">>]
          /\ Library \in Tasks /\ Library # Monitor
      BY <1>2, <2>2, TaskFacts DEF LibraryReconnects
    <3>2. QED BY <2>1, <3>1, BeginsAt, Zenon
  <2>3. CASE ~handlers
    <3>1. stack' = stack
      BY <1>2, <2>3 DEF LibraryReconnects
    <3>2. QED BY <2>1, <3>1, Unmoved
  <2>4. QED BY <2>2, <2>3
<1>3. QED BY <1>1, <1>2 DEF Environment

-----------------------------------------------------------------------------
(* The theorems *)

LEMMA TaskStepNext ==
    ASSUME RadioInv, NEW t \in Tasks, TaskStep(t)
    PROVE  RadioInv'
<1>1. CASE Blocks(t)
  <2>1. UNCHANGED <<stack, mc, locks>>
    BY <1>1 DEF Blocks, transport
  <2>2. QED BY <2>1, Unmoved
<1>2. QED BY <1>1, DisconnectNext, ReconnectNext, EvaluateNext, SetupNext, PrepareNext DEF TaskStep

LEMMA RadioInvNext ==
    ASSUME RadioInv, [Next]_vars
    PROVE  RadioInv'
<1>1. Monitor \in Tasks /\ Library \in Tasks /\ Requesters \subseteq Tasks
  BY TaskFacts
<1>2. ASSUME NEW q \in Requesters, RequestStep(q) \/ Operator(q)  PROVE  RadioInv'
  BY <1>1, <1>2, TaskStepNext, TransitionNext, RequestNext, OperatorNext DEF RequestStep
<1>3. CASE MonitorStep
  <2>1. CASE MonitorSwallowsCancel
    <3>1. UNCHANGED <<stack, mc, locks>>
      BY <2>1 DEF MonitorSwallowsCancel, transport
    <3>2. QED BY <3>1, Unmoved
  <2>2. QED BY <1>1, <1>3, <2>1, TaskStepNext, MonitorLoopNext, MonitorCancelledNext
            DEF MonitorStep
<1>4. CASE LibraryStep
  BY <1>1, <1>4, TaskStepNext, LibraryNext DEF LibraryStep
<1>5. CASE Environment
  BY <1>5, EnvironmentNext
<1>6. CASE UNCHANGED vars
  <2>1. UNCHANGED <<stack, mc, locks>>
    BY <1>6 DEF vars, control, transport
  <2>2. QED BY <2>1, Unmoved
<1>7. QED BY <1>2, <1>3, <1>4, <1>5, <1>6 DEF Next

LEMMA RadioInvInit ==
    ASSUME Init
    PROVE  RadioInv
<1>1. PICK startup \in Requesters :
        stack = [t \in Tasks |-> CASE t = Monitor -> <<"monitor:sleep">>
                                   [] t = startup -> <<"reconnect:lock", "request:prepare">>
                                   [] OTHER -> <<>>]
  BY DEF Init
<1>2. /\ None \notin Tasks /\ Monitor \in Tasks /\ startup \in Tasks /\ startup # Monitor
      /\ None \notin Requesters
  BY TaskFacts
<1> DEFINE a == <<"monitor:sleep">>  b == <<"reconnect:lock", "request:prepare">>
<1>3. /\ stack[Monitor] = a /\ stack[startup] = b
      /\ \A t \in Tasks \ {Monitor, startup} : stack[t] = <<>>
  BY <1>1, <1>2
<1>4. /\ "monitor:sleep" \in Points /\ "reconnect:lock" \in Points /\ "request:prepare" \in Points
      /\ Covers("reconnect:lock", "request:prepare")
      /\ {"monitor:sleep", "reconnect:lock", "request:prepare"}
           \cap (GuardedFrames \cup SetupCode \cup EnterCode \cup {"transition:exit"}) = {}
  BY DEF Points, BodyCode, ReconnectCode, Covers, GuardedFrames, SetupCode, EnterCode,
         RadioFrames, ReconnectFrames, SetupFrames
<1>5. /\ a \in Seq(Points) /\ Len(a) = 1 /\ a[1] = "monitor:sleep"
      /\ b \in Seq(Points) /\ Len(b) = 2 /\ b[1] = "reconnect:lock" /\ b[2] = "request:prepare"
      /\ <<>> \in Seq(Points) /\ Len(<<>>) = 0
  BY <1>4
<1>6. stack \in [Tasks -> Seq(Points)]
  <2>1. DOMAIN stack = Tasks /\ stack = [t \in Tasks |-> stack[t]]
    BY <1>1
  <2> HIDE DEF a, b
  <2>2. \A t \in Tasks : stack[t] \in Seq(Points)
    BY <1>3, <1>5, Zenon
  <2>3. QED BY <2>1, <2>2
<1> HIDE DEF a, b
<1>7. \A i : (i \in 1 .. Len(a) <=> i = 1) /\ (i \in 1 .. Len(b) <=> i = 1 \/ i = 2)
  BY <1>5
<1>8. Frames(Monitor) = {"monitor:sleep"}
  BY <1>3, <1>5, <1>7 DEF Frames
<1>9. Frames(startup) = {"reconnect:lock", "request:prepare"}
  BY <1>3, <1>5, <1>7 DEF Frames
<1>10. \A t \in Tasks \ {Monitor, startup} : Frames(t) = {}
  BY <1>3 DEF Frames
<1>11. \A t \in Tasks :
         Frames(t) \cap (GuardedFrames \cup SetupCode \cup EnterCode \cup {"transition:exit"}) = {}
  BY <1>4, <1>8, <1>9, <1>10
<1>12. Stacked
  <2>1. Proper(Monitor)
    BY <1>3, <1>7 DEF Proper
  <2>2. Proper(startup)
    <3>1. ASSUME NEW i \in 1 .. Len(b), NEW j \in 1 .. Len(b), i < j  PROVE  Covers(b[i], b[j])
      <4>1. i = 1 /\ j = 2
        BY <1>7, <3>1
      <4>2. QED BY <1>4, <1>5, <4>1
    <3>2. QED BY <1>3, <3>1 DEF Proper
  <2>3. ASSUME NEW t \in Tasks \ {Monitor, startup}  PROVE  Proper(t)
    BY <1>3 DEF Proper
  <2>4. QED BY <1>6, <2>1, <2>2, <2>3 DEF Stacked
<1>13. opLock = None /\ reconnectLock = None /\ setupLock = None /\ lifecycleLock = None /\ mc = FALSE
  BY DEF Init
<1>14. LocksGuard
  BY <1>2, <1>11, <1>13 DEF LocksGuard, GuardedFrames
<1>15. SetupCalled /\ OpensBare
  BY <1>11, <1>13 DEF SetupCalled, OpensBare
<1>16. TransitionGuarded
  <2>1. \A q \in Requesters : q \in Tasks /\ q # None
    BY <1>2, TaskFacts
  <2>2. QED BY <1>11, <1>13, <2>1 DEF TransitionGuarded
<1>17. QED BY <1>12, <1>14, <1>15, <1>16 DEF RadioInv

\* The inductive invariant: the shape of the call stacks, and what it says of
\* the locks (every coroutine of radio.py and radio_lifecycle.py that awaits).
THEOREM RadioInvariant == Spec => []RadioInv
<1>1. Init => RadioInv
  BY RadioInvInit
<1>2. RadioInv /\ [Next]_vars => RadioInv'
  BY RadioInvNext
<1>3. QED BY <1>1, <1>2, PTL DEF Spec

\* The operation lock, _reconnect_lock and _setup_lock are held exactly inside the
\* code they guard, whatever times out, raises, is cancelled or gives up.
THEOREM LocksAlwaysGuard == Spec => []LocksGuard
<1>1. RadioInv => LocksGuard
  BY DEF RadioInv
<1>2. QED BY <1>1, RadioInvariant, PTL

\* RadioManager.reconnect opens a transport only while there is none.
THEOREM NeverOpensOver == Spec => []OpensOnNothing
<1>1. RadioInv => OpensOnNothing
  <2>1. SUFFICES ASSUME RadioInv, NEW t \in Tasks, At(t, "reconnect:open")  PROVE  ~mc
    BY DEF OpensOnNothing
  <2>2. stack[t] \in Seq(Points) /\ stack[t] # <<>> /\ Head(stack[t]) = "reconnect:open"
    BY <2>1 DEF RadioInv, Stacked, At
  <2>3. 1 \in 1 .. Len(stack[t]) /\ stack[t][1] = "reconnect:open"
    BY <2>2, HeadFirst
  <2>4. "reconnect:open" \in Frames(t)
    BY <2>3 DEF Frames
  <2>5. QED BY <2>1, <2>4 DEF RadioInv, OpensBare
<1>2. QED BY <1>1, RadioInvariant, PTL

\* What a task that waits for a lock may have below it: the callers of disconnect
\* and setup hold other locks, those of reconnect and a transition none of these.
LEMMA Waiting ==
    ASSUME NEW r
    PROVE  /\ Covers("disconnect:lock", r) \/ Covers("setup:op", r) => r \notin RadioFrames
           /\ Covers("setup:lock", r) => r \notin SetupFrames \cup RadioFrames
           /\ Covers("reconnect:lock", r) => r \notin GuardedFrames
           /\ Covers("transition:lock", r) => r \notin GuardedFrames
BY Zenon DEF Covers, EnterCode, BodyCode, Bodies, PrepareCode, ReconnectCode, DisconnectCode,
       SetupCode,
       EvaluateCode, AfterSetup, GuardedFrames, RadioFrames, ReconnectFrames, SetupFrames

\* Locks are taken in the documented order: a task that waits for one holds
\* neither it nor a later one (lifecycle, _reconnect_lock, _setup_lock, operation lock).
THEOREM LocksInOrder == Spec => []LockOrder
<1>1. RadioInv => LockOrder
  <2>1. SUFFICES ASSUME RadioInv, NEW t \in Tasks
                 PROVE  /\ At(t, "disconnect:lock") \/ At(t, "setup:op") => opLock # t
                        /\ At(t, "setup:lock") => t \notin {setupLock, opLock}
                        /\ At(t, "reconnect:lock") => t \notin {reconnectLock, setupLock, opLock}
                        /\ At(t, "transition:lock") =>
                             t \notin {lifecycleLock, reconnectLock, setupLock, opLock}
    BY DEF LockOrder
  <2>2. ASSUME NEW f, At(t, f)
        PROVE  f \in Frames(t) /\ \A x \in Frames(t) : x = f \/ Covers(f, x)
    <3>1. stack[t] \in Seq(Points) /\ stack[t] # <<>> /\ Head(stack[t]) = f /\ Proper(t)
      BY <2>1, <2>2 DEF RadioInv, Stacked, At
    <3>2. 1 \in 1 .. Len(stack[t]) /\ stack[t][1] = f
      BY <3>1, HeadFirst
    <3>3. ASSUME NEW x \in Frames(t)  PROVE  x = f \/ Covers(f, x)
      <4>1. PICK i \in 1 .. Len(stack[t]) : x = stack[t][i]
        BY <3>3 DEF Frames
      <4>2. CASE i = 1
        BY <3>2, <4>1, <4>2
      <4>3. CASE i # 1
        <5>1. 1 < i
          BY <4>1, <4>3
        <5>2. QED BY <3>1, <3>2, <4>1, <5>1 DEF Proper
      <4>4. QED BY <4>2, <4>3
    <3>4. QED BY <3>2, <3>3 DEF Frames
  <2>3. /\ opLock = t => Frames(t) \cap RadioFrames # {}
        /\ reconnectLock = t => Frames(t) \cap ReconnectFrames # {}
        /\ setupLock = t => Frames(t) \cap SetupFrames # {}
    BY <2>1 DEF RadioInv, LocksGuard
  <2>4. /\ "disconnect:lock" \notin RadioFrames /\ "setup:op" \notin RadioFrames
        /\ "setup:lock" \notin GuardedFrames /\ "reconnect:lock" \notin GuardedFrames
        /\ "transition:lock" \notin GuardedFrames
    BY DEF GuardedFrames, RadioFrames, ReconnectFrames, SetupFrames
  <2>5. At(t, "disconnect:lock") \/ At(t, "setup:op") => opLock # t
    BY <2>2, <2>3, <2>4, Waiting, Zenon
  <2>6. At(t, "setup:lock") => t \notin {setupLock, opLock}
    BY <2>2, <2>3, <2>4, Waiting, Zenon DEF GuardedFrames
  <2>7. At(t, "reconnect:lock") => t \notin {reconnectLock, setupLock, opLock}
    BY <2>2, <2>3, <2>4, Waiting, Zenon DEF GuardedFrames
  <2>8. At(t, "transition:lock") => t \notin {reconnectLock, setupLock, opLock}
    BY <2>2, <2>3, <2>4, Waiting, Zenon DEF GuardedFrames
  <2>9. At(t, "transition:lock") => t # lifecycleLock
    <3>1. SUFFICES ASSUME At(t, "transition:lock"), lifecycleLock = t  PROVE  FALSE
      OBVIOUS
    <3>2. t \in Requesters
      BY <2>1, <3>1, TaskFacts DEF RadioInv, TransitionGuarded
    <3>3. "transition:lock" \in Frames(t)
      BY <2>2, <3>1, Zenon
    <3>4. QED BY <2>1, <3>1, <3>2, <3>3 DEF RadioInv, TransitionGuarded
  <2>10. QED BY <2>5, <2>6, <2>7, <2>8, <2>9
<1>2. QED BY <1>1, RadioInvariant, PTL
=============================================================================
