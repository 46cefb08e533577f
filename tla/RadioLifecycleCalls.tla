------------------------- MODULE RadioLifecycleCalls -------------------------
(***************************************************************************)
(* The first half of the proofs about the locks of RadioLifecycle: the     *)
(* call stacks, and the coroutines that the monitor, the requests and the  *)
(* library's task share.                                                   *)
(*                                                                         *)
(* Nothing in a single frame tells which locks the frames below it hold.   *)
(* The invariant says which frames may be below which (Covers): a          *)
(* coroutine that is guarded by a lock is never called, directly or        *)
(* through others, from code that holds this lock.  So a task that leaves  *)
(* a guarded frame has no other, and one that waits for a lock holds none  *)
(* that comes later in the order.                                          *)
(***************************************************************************)
EXTENDS RadioLifecycle, SequenceTheorems, TLAPS

-----------------------------------------------------------------------------
(* The frames of a stack, and the invariant *)

Bodies == {"put_transport", "revert", "ble_pair", "adopt", "reject"}

\* The points of a coroutine at which a task may be.
EnterCode == {"transition:lock", "transition:stop"}
BodyCode ==
    Bodies \cup {"put_transport:save", "ble_pair:status", "ble_pair:pair", "ble_pair:pairing",
                 "adopt:bind", "reject:save", "request:prepare"}
PrepareCode == AfterSetup \cup {"prepare", "prepare:dropped", "prepare:rebooted"}
ReconnectCode == {"reconnect:lock", "reconnect:stale", "reconnect:open", "reconnect:paused"}
DisconnectCode ==
    {"disconnect", "disconnect:background", "disconnect:deny", "disconnect:lock",
     "disconnect:library", "disconnect:close"}
SetupCode == SetupFrames \cup {"setup", "setup:lock"}
EvaluateCode ==
    {"evaluate", "evaluate:key", "evaluate:transport", "evaluate:history", "evaluate:bound"}

Points ==
    EnterCode \cup BodyCode \cup PrepareCode \cup ReconnectCode \cup DisconnectCode \cup SetupCode
      \cup EvaluateCode
      \cup {"monitor:sleep", "monitor:reconnected", "monitor:torn", "monitor:loop", "library",
            "library:decided", "request:ready", "private_key:gate", "transition:exit"}

\* Frame g may be somewhere below frame f.
Covers(f, g) ==
    \/ f \in EnterCode /\ g \in Bodies \cup {"transition:exit"}
    \/ f \in BodyCode /\ g = "transition:exit"
    \/ f \in PrepareCode /\ g \in {"monitor:loop", "transition:exit"}
    \/ /\ f \in ReconnectCode
       /\ g \in {"monitor:reconnected", "request:prepare", "transition:exit"}
    \/ /\ f \in DisconnectCode
       /\ g \in {"reconnect:stale", "reconnect:paused", "prepare:dropped", "prepare:rebooted",
                 "monitor:reconnected", "monitor:torn", "monitor:loop", "put_transport:save",
                 "ble_pair:pair", "request:prepare", "transition:exit"}
    \/ f \in SetupCode /\ g \in AfterSetup \cup {"monitor:loop", "transition:exit"}
    \/ /\ f \in EvaluateCode
       /\ g \in AfterSetup \cup {"setup:identity", "library:decided", "monitor:loop",
                                 "transition:exit"}

Proper(t) ==
    \A i, j \in 1 .. Len(stack[t]) : i < j => Covers(stack[t][i], stack[t][j])

Stacked == stack \in [Tasks -> Seq(Points)] /\ \A t \in Tasks : Proper(t)

\* A setup is called by prepare_connected_radio.
SetupCalled ==
    \A t \in Tasks : Frames(t) \cap SetupCode # {} => Frames(t) \cap AfterSetup # {}

\* A request holds the lifecycle lock from the moment it asks the monitor to stop
\* to its exit, and once the monitor has stopped it stays away that long.
TransitionGuarded ==
    /\ lifecycleLock \in Requesters \cup {None}
    /\ \A t \in Tasks : Frames(t) \cap EnterCode # {} => "transition:exit" \in Frames(t)
    /\ \A q \in Requesters :
         lifecycleLock = q <=> /\ "transition:exit" \in Frames(q)
                               /\ "transition:lock" \notin Frames(q)
    /\ \A q \in Requesters :
         lifecycleLock = q /\ "transition:stop" \notin Frames(q) => Frames(Monitor) = {}

\* A task that is opening a transport found none, also while it is not resumed.
OpensBare == \A t \in Tasks : "reconnect:open" \in Frames(t) => ~mc

RadioInv == Stacked /\ LocksGuard /\ SetupCalled /\ TransitionGuarded /\ OpensBare

-----------------------------------------------------------------------------
(* Stacks. *)

Below(t) == {stack[t][i] : i \in 2 .. Len(stack[t])}

\* A step of t puts the frames G in the place of its innermost frame f.  A CONNECTED
\* event that was not delivered yet may vanish with it.
Replaced(t, f, G) ==
    /\ Stacked'
    /\ Frames(t) = {f} \cup Below(t)
    /\ Frames(t)' = G \cup Below(t)
    /\ \A r \in Below(t) : Covers(f, r)
    /\ \A u \in Tasks \ {t} :
         \/ Frames(u)' = Frames(u)
         \/ u = Library /\ Frames(u) = {"library"} /\ Frames(u)' = {}

\* What is below f may be below every frame of G.
Suits(f, G) == \A g \in G : \A r : Covers(f, r) => Covers(g, r)

\* The other stacks stay, but for an event that is not delivered.
OthersStay(t, s) ==
    /\ stack' \in [Tasks -> Seq(Points)]
    /\ stack'[t] = s
    /\ \A u \in Tasks \ {t} :
         \/ stack'[u] = stack[u]
         \/ u = Library /\ stack[u] = <<"library">> /\ stack'[u] = <<>>

\* The first n frames of the new stack s of t are new, the others were below f.
LEMMA StackStep ==
    ASSUME Stacked, NEW t \in Tasks, NEW f, At(t, f),
           NEW s \in Seq(Points), OthersStay(t, s),
           NEW n \in 0 .. 2, Len(s) = Len(stack[t]) - 1 + n,
           \A i \in 1 .. Len(s) : n < i => s[i] = stack[t][i + 1 - n],
           NEW G, G = {s[i] : i \in 1 .. n}, Suits(f, G), n = 2 => Covers(s[1], s[2])
    PROVE  Replaced(t, f, G)
<1>1. /\ stack[t] \in Seq(Points) /\ stack[t] # <<>> /\ Len(stack[t]) \in Nat
      /\ Len(stack[t]) >= 1 /\ stack[t][1] = f /\ Proper(t)
  BY SMTT(30) DEF Stacked, At
<1>2. Frames(t) = {f} \cup Below(t)
  BY <1>1 DEF Frames, Below
<1>3. \A r \in Below(t) : Covers(f, r)
  BY <1>1, SMTT(30) DEF Below, Proper
<1>4. Len(s) \in Nat /\ n \in Nat /\ n <= Len(s)
  BY <1>1, SMTT(30)
<1>5. \A i \in 1 .. Len(s) : n < i => i + 1 - n \in 2 .. Len(stack[t]) /\ s[i] \in Below(t)
  <2>1. \A i \in 1 .. Len(s) : n < i => i + 1 - n \in 2 .. Len(stack[t])
    BY <1>1, <1>4
  <2>2. QED BY <2>1 DEF Below
<1>6. Frames(t)' = G \cup Below(t)
  <2>1. Frames(t)' = {s[i] : i \in 1 .. Len(s)}
    BY DEF Frames, OthersStay
  <2>2. ASSUME NEW r \in Below(t)  PROVE  r \in {s[i] : i \in 1 .. Len(s)}
    <3>1. PICK j \in 2 .. Len(stack[t]) : r = stack[t][j]
      BY DEF Below
    <3>2. j - 1 + n \in 1 .. Len(s) /\ n < j - 1 + n /\ j = (j - 1 + n) + 1 - n
      BY <1>1, <1>4, <3>1
    <3>3. s[j - 1 + n] = r
      BY <3>1, <3>2
    <3>4. QED BY <3>2, <3>3
  <2>3. G \subseteq {s[i] : i \in 1 .. Len(s)}
    BY <1>4, SMTT(30)
  <2>4. {s[i] : i \in 1 .. Len(s)} \subseteq G \cup Below(t)
    BY <1>4, <1>5
  <2>5. QED BY <2>1, <2>2, <2>3, <2>4, Zenon
<1>7. ASSUME NEW i \in 1 .. Len(s), NEW j \in 1 .. Len(s), i < j
      PROVE  Covers(s[i], s[j])
  <2>1. CASE n < i
    <3>1. /\ s[i] = stack[t][i + 1 - n] /\ s[j] = stack[t][j + 1 - n]
          /\ i + 1 - n \in 1 .. Len(stack[t]) /\ j + 1 - n \in 1 .. Len(stack[t])
          /\ i + 1 - n < j + 1 - n
      BY <1>1, <1>4, <1>5, <1>7, <2>1, SMTT(30)
    <3>2. QED BY <1>1, <3>1, Zenon DEF Proper
  <2>2. CASE ~(n < i) /\ n < j
    <3>1. s[i] \in G /\ s[j] \in Below(t)
      BY <1>4, <1>5, <2>2
    <3>2. QED BY <1>3, <3>1 DEF Suits
  <2>3. CASE ~(n < j)
    <3>1. i = 1 /\ j = 2 /\ n = 2
      BY <1>4, <1>7, <2>3
    <3>2. QED BY <3>1
  <2>4. QED BY <1>4, <2>1, <2>2, <2>3
<1>8. Stacked'
  <2>1. Proper(t)'
    BY <1>7 DEF Proper, OthersStay
  <2>2. ASSUME NEW u \in Tasks \ {t}  PROVE  Proper(u)'
    BY <2>2 DEF Proper, Stacked, OthersStay
  <2>3. QED BY <2>1, <2>2 DEF Stacked, OthersStay
<1>9. ASSUME NEW u \in Tasks \ {t}
      PROVE  \/ Frames(u)' = Frames(u)
             \/ u = Library /\ Frames(u) = {"library"} /\ Frames(u)' = {}
  <2>1. CASE stack'[u] = stack[u]
    BY <2>1 DEF Frames
  <2>2. CASE u = Library /\ stack[u] = <<"library">> /\ stack'[u] = <<>>
    <3>1. Frames(u) = {"library"}
      BY <2>2 DEF Frames
    <3>2. Frames(u)' = {}
      BY <2>2 DEF Frames
    <3>3. QED BY <2>2, <3>1, <3>2
  <2>3. QED BY <2>1, <2>2 DEF OthersStay
<1>10. QED BY <1>2, <1>3, <1>6, <1>8, <1>9 DEF Replaced

LEMMA MoveStep ==
    ASSUME Stacked, NEW t \in Tasks, NEW f, At(t, f), NEW g \in Points,
           OthersStay(t, [stack[t] EXCEPT ![1] = g]), Suits(f, {g})
    PROVE  Replaced(t, f, {g})
<1> DEFINE s == [stack[t] EXCEPT ![1] = g]
<1>1. stack[t] \in Seq(Points) /\ stack[t] # <<>> /\ Len(stack[t]) \in Nat /\ Len(stack[t]) >= 1
  BY DEF Stacked, At
<1>2. /\ s \in Seq(Points) /\ Len(s) = Len(stack[t]) /\ s[1] = g
      /\ \A i \in 1 .. Len(s) : 1 < i => s[i] = stack[t][i]
  BY <1>1
<1>3. OthersStay(t, s)
  OBVIOUS
<1>4. {g} = {s[i] : i \in 1 .. 1}
  BY <1>2
<1> HIDE DEF s
<1>5. \A i \in 1 .. Len(s) : 1 < i => s[i] = stack[t][i + 1 - 1]
  BY <1>1, <1>2
<1>6. QED
  <2> 1 \in 0 .. 2 /\ Len(s) = Len(stack[t]) - 1 + 1
    BY <1>1, <1>2, SMTT(30)
  <2> QED BY <1>2, <1>3, <1>4, <1>5, StackStep, SMTT(30)

\* The innermost frame is the first of the stack.
LEMMA HeadFirst ==
    ASSUME NEW S, NEW s \in Seq(S), s # <<>>
    PROVE  1 \in 1 .. Len(s) /\ s[1] = Head(s)
OBVIOUS

LEMMA PushTwo ==
    ASSUME NEW S, NEW c \in S, NEW g \in S, NEW r \in Seq(S)
    PROVE  /\ <<c, g>> \o r \in Seq(S) /\ Len(<<c, g>> \o r) = Len(r) + 2
           /\ (<<c, g>> \o r)[1] = c /\ (<<c, g>> \o r)[2] = g
           /\ \A i \in 1 .. Len(r) + 2 : 2 < i => (<<c, g>> \o r)[i] = r[i - 2]
<1> DEFINE p == <<c, g>>  q == p \o r
<1>1. p \in Seq(S) /\ Len(p) = 2
  OBVIOUS
<1>2. p[1] = c /\ p[2] = g
  OBVIOUS
<1> HIDE DEF p
<1>3. /\ q \in Seq(S) /\ Len(q) = 2 + Len(r)
      /\ \A i \in 1 .. 2 + Len(r) : q[i] = IF i <= 2 THEN p[i] ELSE r[i - 2]
  <2>1. /\ p \o r \in Seq(S) /\ Len(p \o r) = Len(p) + Len(r)
        /\ \A i \in 1 .. Len(p) + Len(r) :
             (p \o r)[i] = IF i <= Len(p) THEN p[i] ELSE r[i - Len(p)]
    BY <1>1, ConcatProperties, Zenon
  <2>2. QED BY <1>1, <2>1
<1>4. Len(r) \in Nat
  OBVIOUS
<1> HIDE DEF q
<1>5. q[1] = c /\ q[2] = g
  BY <1>2, <1>3, <1>4
<1>6. \A i \in 1 .. Len(r) + 2 : 2 < i => q[i] = r[i - 2]
  BY <1>3, <1>4
<1>7. QED BY <1>3, <1>4, <1>5, <1>6 DEF p, q

LEMMA CallStep ==
    ASSUME Stacked, NEW t \in Tasks, NEW f, At(t, f), NEW c \in Points, NEW g \in Points,
           stack' = [stack EXCEPT ![t] = <<c, g>> \o Tail(@)], Suits(f, {c, g}), Covers(c, g)
    PROVE  Replaced(t, f, {c, g})
<1> DEFINE s == <<c, g>> \o Tail(stack[t])
<1>1. stack[t] \in Seq(Points) /\ stack[t] # <<>> /\ Len(stack[t]) \in Nat /\ Len(stack[t]) >= 1
  BY DEF Stacked, At
<1>2. /\ Tail(stack[t]) \in Seq(Points) /\ Len(Tail(stack[t])) = Len(stack[t]) - 1
      /\ \A i \in 1 .. Len(stack[t]) - 1 : Tail(stack[t])[i] = stack[t][i + 1]
  BY <1>1, HeadTailProperties
<1>3. /\ s \in Seq(Points) /\ Len(s) = Len(stack[t]) + 1 /\ s[1] = c /\ s[2] = g
      /\ \A i \in 1 .. Len(s) : 2 < i => s[i] = Tail(stack[t])[i - 2]
  <2>1. /\ s \in Seq(Points) /\ Len(s) = Len(Tail(stack[t])) + 2 /\ s[1] = c /\ s[2] = g
        /\ \A i \in 1 .. Len(Tail(stack[t])) + 2 : 2 < i => s[i] = Tail(stack[t])[i - 2]
    BY <1>2, PushTwo
  <2> HIDE DEF s
  <2>2. QED BY <1>1, <1>2, <2>1, SMTT(30)
<1>4. OthersStay(t, s)
  BY <1>3 DEF OthersStay, Stacked
<1> HIDE DEF s
<1>5. {c, g} = {s[i] : i \in 1 .. 2}
  <2>1. \A i : i \in 1 .. 2 <=> i = 1 \/ i = 2
    OBVIOUS
  <2>2. QED BY <1>3, <2>1
<1>6. \A i \in 1 .. Len(s) : 2 < i => s[i] = stack[t][i + 1 - 2]
  BY <1>1, <1>2, <1>3
<1>7. QED
  <2> 2 \in 0 .. 2 /\ Len(s) = Len(stack[t]) - 1 + 2
    BY <1>1, <1>3
  <2> QED BY <1>3, <1>4, <1>5, <1>6, StackStep, Zenon

LEMMA ReturnStep ==
    ASSUME Stacked, NEW t \in Tasks, NEW f, At(t, f), OthersStay(t, Tail(stack[t]))
    PROVE  Replaced(t, f, {})
<1> DEFINE s == Tail(stack[t])
<1>1. stack[t] \in Seq(Points) /\ stack[t] # <<>> /\ Len(stack[t]) \in Nat /\ Len(stack[t]) >= 1
  BY DEF Stacked, At
<1>2. /\ s \in Seq(Points) /\ Len(s) = Len(stack[t]) - 1
      /\ \A i \in 1 .. Len(s) : s[i] = stack[t][i + 1]
  BY <1>1, HeadTailProperties
<1>3. OthersStay(t, s)
  OBVIOUS
<1> HIDE DEF s
<1>4. \A i \in 1 .. Len(s) : 0 < i => s[i] = stack[t][i + 1 - 0]
  BY <1>1, <1>2
<1>5. {} = {s[i] : i \in 1 .. 0} /\ Suits(f, {})
  BY DEF Suits
<1>6. QED
  <2> 0 \in 0 .. 2 /\ Len(s) = Len(stack[t]) - 1 + 0
    BY <1>1, <1>2, SMTT(30)
  <2> QED BY <1>2, <1>3, <1>4, <1>5, StackStep, SMTT(30)

-----------------------------------------------------------------------------
(* The invariant, when a step of t replaces its innermost frame. *)

\* The lock that guards the frames X: unchanged when the step stays inside or
\* outside of X, taken when it enters X, given back when it leaves.
Guards(lock, next, t, f, G, X) ==
    \/ next = lock /\ (f \in X <=> G \cap X # {})
    \/ lock = None /\ next = t /\ G \cap X # {}
    \/ next = None /\ f \in X /\ G \cap X = {}

LocksStep(t, f, G) ==
    /\ Guards(opLock, opLock', t, f, G, RadioFrames)
    /\ Guards(reconnectLock, reconnectLock', t, f, G, ReconnectFrames)
    /\ Guards(setupLock, setupLock', t, f, G, SetupFrames)
    /\ lifecycleLock' = lifecycleLock

\* The step is none of a transition's, and enters a setup only from prepare.
Plain(f, G) ==
    /\ ({f} \cup G) \cap {"transition:lock", "transition:stop", "transition:exit"} = {}
    /\ G \cap SetupCode # {} => f \in SetupCode \/ G \cap AfterSetup # {}

\* A transport appears only where one was opened, and is opened over none.
OpensStep(f, G) ==
    /\ mc' => mc \/ f = "reconnect:open"
    /\ "reconnect:open" \in G => ~mc'

LEMMA TaskFacts ==
    /\ None \notin Tasks
    /\ Monitor \in Tasks /\ Library \in Tasks /\ Requesters \subseteq Tasks
    /\ Monitor \notin Requesters /\ Library \notin Requesters /\ Monitor # Library
BY RadioLifecycleAssumption DEF Tasks, Monitor, Library

\* What a frame may have below it, told by the frames that locks guard.
LEMMA CoversFacts ==
    ASSUME NEW f, NEW r, Covers(f, r)
    PROVE  /\ r \notin {"reconnect:open", "transition:lock", "transition:stop", "library"}
           /\ f \in RadioFrames => r \notin RadioFrames
           /\ f \in ReconnectFrames => r \notin ReconnectFrames
           /\ f \in SetupFrames => r \notin SetupFrames
           /\ f \in AfterSetup => r \notin SetupCode
           /\ f # "transition:exit"
BY DEF Covers, EnterCode, BodyCode, PrepareCode, ReconnectCode, DisconnectCode, SetupCode,
       EvaluateCode, Bodies, AfterSetup, RadioFrames, ReconnectFrames, SetupFrames

\* A task u has the frames U before the step and V after it.
LockFrame(lock, next, X, t, f, G, R, u, U, V) ==
    /\ lock = t <=> ({f} \cup R) \cap X # {}
    /\ lock = u <=> U \cap X # {}
    /\ f \in X => R \cap X = {}
    /\ Guards(lock, next, t, f, G, X)
    /\ u = t => V = G \cup R
    /\ u # t => V = U \/ (U \cap X = {} /\ V = {})

LEMMA LockKept ==
    ASSUME NEW lock, NEW next, NEW X, NEW t \in Tasks, NEW f, NEW G, NEW R,
           NEW u \in Tasks, NEW U, NEW V, LockFrame(lock, next, X, t, f, G, R, u, U, V)
    PROVE  next = u <=> V \cap X # {}
<1> USE DEF LockFrame
<1>1. None \notin Tasks
  BY TaskFacts
<1>2. CASE next = lock /\ (f \in X <=> G \cap X # {})
  BY <1>2
<1>3. CASE lock = None /\ next = t /\ G \cap X # {}
  BY <1>1, <1>3
<1>4. CASE next = None /\ f \in X /\ G \cap X = {}
  BY <1>1, <1>4
<1>5. QED BY <1>2, <1>3, <1>4 DEF Guards

LEMMA Kept ==
    ASSUME RadioInv, NEW t \in Tasks, NEW f, NEW G,
           Replaced(t, f, G), LocksStep(t, f, G), Plain(f, G), OpensStep(f, G)
    PROVE  RadioInv'
<1> DEFINE R == Below(t)
<1>1. /\ Frames(t) = {f} \cup R /\ Frames(t)' = G \cup R
      /\ \A r \in R : Covers(f, r)
  BY DEF Replaced
<1>2. ASSUME NEW u \in Tasks, u # t
      PROVE  \/ Frames(u)' = Frames(u)
             \/ u = Library /\ Frames(u) = {"library"} /\ Frames(u)' = {}
  BY <1>2 DEF Replaced
<1>3. /\ R \cap {"reconnect:open", "transition:lock", "transition:stop", "library"} = {}
      /\ f \in RadioFrames => R \cap RadioFrames = {}
      /\ f \in ReconnectFrames => R \cap ReconnectFrames = {}
      /\ f \in SetupFrames => R \cap SetupFrames = {}
      /\ f \in AfterSetup => R \cap SetupCode = {}
  BY <1>1, CoversFacts
<1> HIDE DEF R
<1>4. LocksGuard'
  <2>1. SUFFICES ASSUME NEW u \in Tasks
                 PROVE  /\ opLock' = u <=> Frames(u)' \cap RadioFrames # {}
                        /\ reconnectLock' = u <=> Frames(u)' \cap ReconnectFrames # {}
                        /\ setupLock' = u <=> Frames(u)' \cap SetupFrames # {}
    BY DEF LocksGuard, RadioFrames, ReconnectFrames, SetupFrames, Tasks
  <2>2. LocksGuard /\ Frames(t) = {f} \cup R
    BY <1>1 DEF RadioInv
  <2>3. u = t => Frames(u)' = G \cup R
    BY <1>1
  <2>4. {"library"} \cap RadioFrames = {} /\ {"library"} \cap ReconnectFrames = {}
        /\ {"library"} \cap SetupFrames = {}
    BY DEF RadioFrames, ReconnectFrames, SetupFrames
  <2>5. opLock' = u <=> Frames(u)' \cap RadioFrames # {}
    <3>1. u # t => \/ Frames(u)' = Frames(u)
                   \/ Frames(u) \cap RadioFrames = {} /\ Frames(u)' = {}
      BY <1>2, <2>4
    <3>2. Guards(opLock, opLock', t, f, G, RadioFrames)
      BY DEF LocksStep
    <3>3. /\ opLock = u <=> Frames(u) \cap RadioFrames # {}
          /\ opLock = t <=> ({f} \cup R) \cap RadioFrames # {}
          /\ f \in RadioFrames => R \cap RadioFrames = {}
      BY <1>3, <2>2 DEF LocksGuard
    <3>4. LockFrame(opLock, opLock', RadioFrames, t, f, G, R, u, Frames(u), Frames(u)')
      BY <2>3, <3>1, <3>2, <3>3 DEF LockFrame
    <3>5. QED BY <3>4, LockKept
  <2>6. reconnectLock' = u <=> Frames(u)' \cap ReconnectFrames # {}
    <3>1. u # t => \/ Frames(u)' = Frames(u)
                   \/ Frames(u) \cap ReconnectFrames = {} /\ Frames(u)' = {}
      BY <1>2, <2>4
    <3>2. Guards(reconnectLock, reconnectLock', t, f, G, ReconnectFrames)
      BY DEF LocksStep
    <3>3. /\ reconnectLock = u <=> Frames(u) \cap ReconnectFrames # {}
          /\ reconnectLock = t <=> ({f} \cup R) \cap ReconnectFrames # {}
          /\ f \in ReconnectFrames => R \cap ReconnectFrames = {}
      BY <1>3, <2>2 DEF LocksGuard
    <3>4. LockFrame(reconnectLock, reconnectLock', ReconnectFrames, t, f, G, R, u, Frames(u), Frames(u)')
      BY <2>3, <3>1, <3>2, <3>3 DEF LockFrame
    <3>5. QED BY <3>4, LockKept
  <2>7. setupLock' = u <=> Frames(u)' \cap SetupFrames # {}
    <3>1. u # t => \/ Frames(u)' = Frames(u)
                   \/ Frames(u) \cap SetupFrames = {} /\ Frames(u)' = {}
      BY <1>2, <2>4
    <3>2. Guards(setupLock, setupLock', t, f, G, SetupFrames)
      BY DEF LocksStep
    <3>3. /\ setupLock = u <=> Frames(u) \cap SetupFrames # {}
          /\ setupLock = t <=> ({f} \cup R) \cap SetupFrames # {}
          /\ f \in SetupFrames => R \cap SetupFrames = {}
      BY <1>3, <2>2 DEF LocksGuard
    <3>4. LockFrame(setupLock, setupLock', SetupFrames, t, f, G, R, u, Frames(u), Frames(u)')
      BY <2>3, <3>1, <3>2, <3>3 DEF LockFrame
    <3>5. QED BY <3>4, LockKept
  <2>8. QED BY <2>5, <2>6, <2>7
<1>5. SetupCalled'
  <2>1. SUFFICES ASSUME NEW u \in Tasks, Frames(u)' \cap SetupCode # {}
                 PROVE  Frames(u)' \cap AfterSetup # {}
    BY DEF SetupCalled, SetupCode, AfterSetup, SetupFrames, Tasks
  <2>2. Frames(u) \cap SetupCode # {} => Frames(u) \cap AfterSetup # {}
    BY DEF RadioInv, SetupCalled
  <2>3. CASE u # t
    BY <1>2, <2>1, <2>2, <2>3
  <2>4. CASE u = t
    <3>1. AfterSetup \cap SetupCode = {}
      BY DEF AfterSetup, SetupCode, SetupFrames
    <3>2. CASE R \cap SetupCode # {}
      BY <1>1, <1>3, <2>2, <2>4, <3>2
    <3>3. CASE G \cap SetupCode # {}
      BY <1>1, <2>2, <2>4, <3>1, <3>3 DEF Plain
    <3>4. QED BY <1>1, <2>1, <2>4, <3>2, <3>3
  <2>5. QED BY <2>3, <2>4
<1>6. TransitionGuarded'
  <2> DEFINE T == {"transition:lock", "transition:stop", "transition:exit"}
  <2>1. ASSUME NEW u \in Tasks, NEW x \in T  PROVE  x \in Frames(u)' <=> x \in Frames(u)
    <3>1. x # "library"
      BY <2>1
    <3>2. f # x /\ x \notin G
      BY <2>1 DEF Plain
    <3>3. QED BY <1>1, <1>2, <3>1, <3>2
  <2>2. Frames(Monitor) = {} => Frames(Monitor)' = {}
    <3>1. Monitor # Library /\ Monitor \in Tasks
      BY TaskFacts
    <3>2. CASE t = Monitor
      BY <1>1, <3>2
    <3>3. CASE t # Monitor
      BY <1>2, <3>1, <3>3
    <3>4. QED BY <3>2, <3>3
  <2>3. ASSUME NEW u \in Tasks, Frames(u)' \cap EnterCode # {}
        PROVE  "transition:exit" \in Frames(u)'
    <3>1. Frames(u) \cap EnterCode # {}
      BY <2>1, <2>3 DEF EnterCode
    <3>2. "transition:exit" \in Frames(u)
      BY <3>1 DEF RadioInv, TransitionGuarded
    <3>3. QED BY <2>1, <3>2
  <2>4. lifecycleLock' = lifecycleLock
    BY DEF LocksStep
  <2>5. ASSUME NEW q \in Requesters
        PROVE  /\ "transition:exit" \in Frames(q)' <=> "transition:exit" \in Frames(q)
               /\ "transition:lock" \in Frames(q)' <=> "transition:lock" \in Frames(q)
               /\ "transition:stop" \in Frames(q)' <=> "transition:stop" \in Frames(q)
    BY <2>1, TaskFacts
  <2>6. TransitionGuarded
    BY DEF RadioInv
  <2>7. QED BY <2>2, <2>3, <2>4, <2>5, <2>6 DEF TransitionGuarded, Tasks, EnterCode, Monitor
<1>7. OpensBare'
  <2>1. SUFFICES ASSUME NEW u \in Tasks, "reconnect:open" \in Frames(u)', mc'  PROVE  FALSE
    BY DEF OpensBare, Tasks
  <2>2. CASE u = t
    BY <1>1, <1>3, <2>1, <2>2 DEF OpensStep
  <2>3. CASE u # t
    <3>1. "reconnect:open" \in Frames(u)
      BY <1>2, <2>1, <2>3
    <3>2. ~mc
      BY <3>1 DEF RadioInv, OpensBare
    <3>3. f = "reconnect:open"
      BY <2>1, <3>2 DEF OpensStep
    <3>4. "reconnect:open" \in ReconnectFrames
      BY DEF ReconnectFrames
    <3>5. reconnectLock = u /\ reconnectLock = t
      BY <1>1, <3>1, <3>3, <3>4 DEF RadioInv, LocksGuard
    <3>6. QED BY <2>3, <3>5
  <2>4. QED BY <2>2, <2>3
<1>8. Stacked'
  BY DEF Replaced
<1>9. QED BY <1>4, <1>5, <1>6, <1>7, <1>8 DEF RadioInv

\* A step of t that may replace f by G.
Fine(t, f, G) ==
    Suits(f, G) /\ LocksStep(t, f, G) /\ Plain(f, G) /\ OpensStep(f, G)

\* The same, of a step that changes neither a lock nor the transport.
Still(f, G) ==
    /\ Suits(f, G) /\ Plain(f, G)
    /\ f \in RadioFrames <=> G \cap RadioFrames # {}
    /\ f \in ReconnectFrames <=> G \cap ReconnectFrames # {}
    /\ f \in SetupFrames <=> G \cap SetupFrames # {}
    /\ "reconnect:open" \notin G

LEMMA StillFine ==
    ASSUME NEW t, NEW f, NEW G, Still(f, G), UNCHANGED <<mc, locks>>
    PROVE  Fine(t, f, G)
BY DEF Still, Fine, LocksStep, Guards, OpensStep, locks

LEMMA Moves ==
    ASSUME RadioInv, NEW t \in Tasks, NEW f, At(t, f), NEW g \in Points,
           stack' = [stack EXCEPT ![t][1] = g], Fine(t, f, {g})
    PROVE  RadioInv'
<1>1. Stacked /\ Suits(f, {g})
  BY DEF RadioInv, Fine
<1>2. OthersStay(t, [stack[t] EXCEPT ![1] = g])
  BY <1>1 DEF OthersStay, Stacked, At
<1>3. Replaced(t, f, {g})
  BY <1>1, <1>2, MoveStep
<1>4. QED BY <1>3, Kept DEF Fine

LEMMA Calls ==
    ASSUME RadioInv, NEW t \in Tasks, NEW f, At(t, f), NEW c \in Points, NEW g \in Points,
           stack' = [stack EXCEPT ![t] = <<c, g>> \o Tail(@)], Covers(c, g), Fine(t, f, {c, g})
    PROVE  RadioInv'
<1>1. Stacked /\ Suits(f, {c, g})
  BY DEF RadioInv, Fine
<1>2. Replaced(t, f, {c, g})
  BY <1>1, CallStep, Zenon
<1>3. QED BY <1>2, Kept DEF Fine

LEMMA Returns ==
    ASSUME RadioInv, NEW t \in Tasks, NEW f, At(t, f),
           stack' = [stack EXCEPT ![t] = Tail(@)], Fine(t, f, {})
    PROVE  RadioInv'
<1>1. Stacked
  BY DEF RadioInv
<1>2. stack[t] \in Seq(Points) /\ stack[t] # <<>>
  BY <1>1 DEF Stacked, At
<1>3. Tail(stack[t]) \in Seq(Points)
  BY <1>2, HeadTailProperties
<1>4. OthersStay(t, Tail(stack[t]))
  BY <1>1, <1>3 DEF OthersStay, Stacked
<1>5. Replaced(t, f, {})
  BY <1>1, <1>4, ReturnStep
<1>6. QED BY <1>5, Kept DEF Fine

LEMMA Unmoved ==
    ASSUME RadioInv, UNCHANGED <<stack, mc, locks>>
    PROVE  RadioInv'
<1>1. \A t \in Tasks : Frames(t)' = Frames(t)
  BY DEF Frames
<1>2. Stacked'
  BY DEF RadioInv, Stacked, Proper
<1>3. LocksGuard' /\ SetupCalled' /\ OpensBare'
  BY <1>1 DEF RadioInv, LocksGuard, SetupCalled, OpensBare, locks, Tasks
<1>4. TransitionGuarded'
  BY <1>1, TaskFacts DEF RadioInv, TransitionGuarded, locks
<1>5. QED BY <1>2, <1>3, <1>4 DEF RadioInv

-----------------------------------------------------------------------------
(* disconnect *)

LEMMA DisconnectStill ==
    /\ {"disconnect:deny", "disconnect:background", "disconnect:lock", "disconnect:library",
        "disconnect:close"} \subseteq Points
    /\ Still("disconnect", {}) /\ Still("disconnect", {"disconnect:deny"})
    /\ Still("disconnect", {"disconnect:background"})
    /\ Still("disconnect:background", {"disconnect:lock"})
    /\ Still("disconnect:deny", {"disconnect:lock"})
    /\ Still("disconnect:lock", {})
    /\ Still("disconnect:library", {"disconnect:close"})
<1> USE DEF Still, Suits, Plain, Covers, DisconnectCode, EnterCode, BodyCode, PrepareCode,
            ReconnectCode, SetupCode, EvaluateCode, AfterSetup, RadioFrames, ReconnectFrames,
            SetupFrames
<1>1. {"disconnect:deny", "disconnect:background", "disconnect:lock", "disconnect:library",
       "disconnect:close"} \subseteq Points
  BY DEF Points
<1>2. Still("disconnect", {}) /\ Still("disconnect:lock", {})
  OBVIOUS
<1>3. Still("disconnect", {"disconnect:deny"}) /\ Still("disconnect", {"disconnect:background"})
  OBVIOUS
<1>4. /\ Still("disconnect:background", {"disconnect:lock"})
      /\ Still("disconnect:deny", {"disconnect:lock"})
  OBVIOUS
<1>5. Still("disconnect:library", {"disconnect:close"})
  OBVIOUS
<1>6. QED BY <1>1, <1>2, <1>3, <1>4, <1>5, Zenon

LEMMA DisconnectEntersNext ==
    ASSUME RadioInv, NEW t \in Tasks, DisconnectEnters(t)
    PROVE  RadioInv'
<1>1. At(t, "disconnect") /\ UNCHANGED <<mc, locks>>
  BY DEF DisconnectEnters, Reaches, transport
<1>2. CASE Return(t, None)
  BY <1>1, <1>2, DisconnectStill, StillFine, Returns, Zenon DEF Return
<1>3. CASE Continue(t, "disconnect:deny")
  BY <1>1, <1>3, DisconnectStill, StillFine, Moves, Zenon DEF Continue
<1>4. CASE Await(t, "disconnect:background")
  BY <1>1, <1>4, DisconnectStill, StillFine, Moves, Zenon DEF Await
<1>5. QED BY <1>2, <1>3, <1>4 DEF DisconnectEnters

\* The stacks when an event that is not delivered yet vanishes with the step.
LEMMA Vanishes ==
    ASSUME RadioInv, NEW t \in Tasks, NEW s \in Seq(Points), s # <<"library">>,
           stack' = Undelivered([stack EXCEPT ![t] = s])
    PROVE  OthersStay(t, s)
<1> DEFINE m == [stack EXCEPT ![t] = s]
<1>1. stack \in [Tasks -> Seq(Points)] /\ Library \in Tasks
  BY TaskFacts DEF RadioInv, Stacked
<1>2. m \in [Tasks -> Seq(Points)] /\ m[t] = s /\ \A u \in Tasks \ {t} : m[u] = stack[u]
  BY <1>1
<1> HIDE DEF m
<1>3. /\ stack' = [m EXCEPT ![Library] = IF m[Library] = <<"library">> THEN <<>> ELSE m[Library]]
      /\ <<>> \in Seq(Points)
  BY DEF m, Undelivered
<1>4. stack' \in [Tasks -> Seq(Points)]
  BY <1>1, <1>2, <1>3, Zenon
<1>5. stack'[t] = s
  BY <1>1, <1>2, <1>3, Zenon
<1>6. ASSUME NEW u \in Tasks \ {t}
      PROVE  \/ stack'[u] = stack[u]
             \/ u = Library /\ stack[u] = <<"library">> /\ stack'[u] = <<>>
  BY <1>1, <1>2, <1>3, Zenon
<1>7. QED BY <1>4, <1>5, <1>6, Zenon DEF OthersStay

LEMMA DisconnectDeniesNext ==
    ASSUME RadioInv, NEW t \in Tasks, DisconnectDenies(t)
    PROVE  RadioInv'
<1> DEFINE g == "disconnect:lock"  s == [stack[t] EXCEPT ![1] = g]
<1>1. PICK f \in {"disconnect:background", "disconnect:deny"} : At(t, f)
  BY DEF DisconnectDenies, Resumes, Reaches
<1>2. g \in Points /\ Still(f, {g}) /\ Stacked /\ UNCHANGED <<mc, locks>>
  BY <1>1, DisconnectStill DEF RadioInv, DisconnectDenies
<1>3. Fine(t, f, {g})
  BY <1>2, StillFine
<1>4. s \in Seq(Points) /\ s # <<"library">>
  <2>1. stack[t] \in Seq(Points) /\ stack[t] # <<>>
    BY <1>1, <1>2 DEF Stacked, At
  <2>2. s \in Seq(Points) /\ s[1] = g
    BY <1>2, <2>1
  <2>3. QED BY <2>2
<1>5. stack' = Undelivered([stack EXCEPT ![t] = s])
  BY DEF DisconnectDenies
<1>6. OthersStay(t, s)
  BY <1>4, <1>5, Vanishes, SMTT(30)
<1>7. Replaced(t, f, {g})
  BY <1>1, <1>2, <1>3, <1>6, MoveStep DEF Fine
<1>8. QED BY <1>3, <1>7, Kept DEF Fine

\* Entering and leaving the code that the operation lock guards
LEMMA DisconnectFits ==
    /\ \A g \in {"disconnect:library", "disconnect:close"} :
         /\ Suits("disconnect:lock", {g}) /\ Plain("disconnect:lock", {g})
         /\ g \in RadioFrames \ (ReconnectFrames \cup SetupFrames) /\ g # "reconnect:open"
    /\ Plain("disconnect:close", {}) /\ Suits("disconnect:close", {})
    /\ {"disconnect:lock", "disconnect:close"} \cap (ReconnectFrames \cup SetupFrames) = {}
    /\ "disconnect:lock" \notin RadioFrames /\ "disconnect:close" \in RadioFrames
BY DEF Suits, Plain, Covers, DisconnectCode, EnterCode, BodyCode, PrepareCode, ReconnectCode,
       SetupCode, EvaluateCode, AfterSetup, RadioFrames, ReconnectFrames, SetupFrames

LEMMA DisconnectLocksNext ==
    ASSUME RadioInv, NEW t \in Tasks, DisconnectLocks(t)
    PROVE  RadioInv'
<1>1. /\ At(t, "disconnect:lock") /\ opLock = None /\ mc' = mc
      /\ UNCHANGED <<reconnectLock, setupLock, lifecycleLock>>
  BY DEF DisconnectLocks, Acquires
<1>2. CASE mc
  <2>1. opLock' = t
    BY <1>2 DEF DisconnectLocks
  <2>2. PICK g \in {"disconnect:library", "disconnect:close"} : Await(t, g)
    BY <1>2 DEF DisconnectLocks
  <2>3. LocksStep(t, "disconnect:lock", {g})
    BY <1>1, <2>1, <2>2, DisconnectFits DEF LocksStep, Guards
  <2>4. Fine(t, "disconnect:lock", {g})
    BY <1>1, <2>2, <2>3, DisconnectFits DEF Fine, OpensStep
  <2>5. QED BY <1>1, <2>2, <2>4, DisconnectStill, Moves, Zenon DEF Await
<1>3. CASE ~mc
  <2>1. Return(t, None) /\ UNCHANGED <<mc, locks>>
    BY <1>1, <1>3 DEF DisconnectLocks, locks
  <2>2. QED BY <1>1, <2>1, DisconnectStill, StillFine, Returns, Zenon DEF Return
<1>4. QED BY <1>2, <1>3

LEMMA DisconnectStopsLibraryNext ==
    ASSUME RadioInv, NEW t \in Tasks, DisconnectStopsLibrary(t)
    PROVE  RadioInv'
<1>1. /\ At(t, "disconnect:library") /\ UNCHANGED <<mc, locks>>
      /\ Await(t, "disconnect:close")
  BY DEF DisconnectStopsLibrary, Resumes, transport
<1>2. QED BY <1>1, DisconnectStill, StillFine, Moves, Zenon DEF Await

LEMMA TailOne ==
    ASSUME NEW S, NEW x \in Seq(S), x # <<>>, NEW l, Tail(x) = <<l>>
    PROVE  Len(x) = 2 /\ x[1] = Head(x) /\ x[2] = l
<1>1. Len(<<l>>) = 1 /\ <<l>>[1] = l
  OBVIOUS
<1>2. /\ Len(Tail(x)) = Len(x) - 1
      /\ \A i \in 1 .. Len(x) - 1 : Tail(x)[i] = x[i + 1]
  BY HeadTailProperties
<1>3. Len(x) \in Nat /\ x[1] = Head(x)
  OBVIOUS
<1>4. Len(x) - 1 = Len(<<l>>)
  BY <1>2, Zenon
<1>5. Len(x) = 2
  BY <1>1, <1>3, <1>4
<1>6. Tail(x)[1] = l
  BY <1>1, Zenon
<1>7. Tail(x)[1] = x[2]
  <2>1. 1 \in 1 .. Len(x) - 1 /\ 1 + 1 = 2
    BY <1>5
  <2>2. QED BY <1>2, <2>1
<1>8. QED BY <1>3, <1>5, <1>6, <1>7

LEMMA DisconnectClosesNext ==
    ASSUME RadioInv, NEW t \in Tasks, DisconnectCloses(t)
    PROVE  RadioInv'
<1> DEFINE f == "disconnect:close"  s == Tail(stack[t])
<1>1. /\ At(t, f) /\ opLock' = None /\ mc' = FALSE
      /\ UNCHANGED <<reconnectLock, setupLock, lifecycleLock>>
      /\ stack' = Undelivered([stack EXCEPT ![t] = s])
  BY DEF DisconnectCloses, Resumes
<1>2. LocksStep(t, f, {})
  BY <1>1, DisconnectFits DEF LocksStep, Guards
<1>3. OpensStep(f, {}) /\ Plain(f, {})
  BY <1>1, DisconnectFits DEF OpensStep
<1>4. Stacked /\ stack[t] \in Seq(Points) /\ stack[t] # <<>> /\ Head(stack[t]) = f
  BY <1>1 DEF RadioInv, Stacked, At
<1>5. s \in Seq(Points)
  BY <1>4, HeadTailProperties
<1>6. s # <<"library">>
  <2>1. SUFFICES ASSUME s = <<"library">>  PROVE  FALSE
    OBVIOUS
  <2>2. /\ Len(stack[t]) = 2 /\ stack[t][1] = f
        /\ stack[t][2] = "library"
    BY <1>4, <2>1, TailOne
  <2>3. Covers(stack[t][1], stack[t][2])
    <3>1. Proper(t) /\ Len(stack[t]) = 2
      BY <1>4, <2>2 DEF Stacked
    <3>2. QED BY <3>1 DEF Proper
  <2>4. QED BY <2>2, <2>3, CoversFacts
<1>7. OthersStay(t, s)
  BY <1>1, <1>5, <1>6, Vanishes, Zenon
<1>8. Replaced(t, f, {})
  BY <1>1, <1>4, <1>7, ReturnStep
<1>9. QED BY <1>2, <1>3, <1>8, Kept

LEMMA DisconnectNext ==
    ASSUME RadioInv, NEW t \in Tasks, Disconnect(t)
    PROVE  RadioInv'
BY DisconnectEntersNext, DisconnectDeniesNext, DisconnectLocksNext, DisconnectStopsLibraryNext,
   DisconnectClosesNext DEF Disconnect

-----------------------------------------------------------------------------
(* reconnect *)

LEMMA ReconnectStill ==
    /\ {"reconnect:stale", "reconnect:open", "reconnect:paused", "disconnect"} \subseteq Points
    /\ Covers("disconnect", "reconnect:stale") /\ Covers("disconnect", "reconnect:paused")
    /\ Still("reconnect:lock", {}) /\ Still("reconnect:stale", {"disconnect", "reconnect:stale"})
    /\ Still("reconnect:open", {"disconnect", "reconnect:paused"})
<1> USE DEF Still, Suits, Plain, Covers, DisconnectCode, EnterCode, BodyCode, PrepareCode,
            ReconnectCode, SetupCode, EvaluateCode, AfterSetup, RadioFrames, ReconnectFrames,
            SetupFrames
<1>1. {"reconnect:stale", "reconnect:open", "reconnect:paused", "disconnect"} \subseteq Points
  BY DEF Points
<1>2. Covers("disconnect", "reconnect:stale") /\ Covers("disconnect", "reconnect:paused")
  OBVIOUS
<1>3. Still("reconnect:lock", {})
  OBVIOUS
<1>4. Still("reconnect:stale", {"disconnect", "reconnect:stale"})
  OBVIOUS
<1>5. Still("reconnect:open", {"disconnect", "reconnect:paused"})
  OBVIOUS
<1>6. QED BY <1>1, <1>2, <1>3, <1>4, <1>5, Zenon

\* Entering and leaving the code that the reconnect lock guards
LEMMA ReconnectFits ==
    /\ \A G \in {{"reconnect:open"}, {"disconnect", "reconnect:stale"}} :
         /\ Suits("reconnect:lock", G) /\ Plain("reconnect:lock", G)
         /\ G \cap ReconnectFrames # {} /\ G \cap (RadioFrames \cup SetupFrames) = {}
    /\ Suits("reconnect:stale", {"reconnect:open"}) /\ Plain("reconnect:stale", {"reconnect:open"})
    /\ \A f \in {"reconnect:open", "reconnect:paused"} : Suits(f, {}) /\ Plain(f, {})
    /\ {"reconnect:stale", "reconnect:open", "reconnect:paused"} \subseteq ReconnectFrames
    /\ {"reconnect:lock", "reconnect:stale", "reconnect:open", "reconnect:paused"}
         \cap (RadioFrames \cup SetupFrames) = {}
<1> USE DEF Suits, Plain, Covers, DisconnectCode, EnterCode, BodyCode, PrepareCode, ReconnectCode,
            SetupCode, EvaluateCode, AfterSetup, RadioFrames, ReconnectFrames, SetupFrames
<1>1. ASSUME NEW G \in {{"reconnect:open"}, {"disconnect", "reconnect:stale"}}
      PROVE  /\ Suits("reconnect:lock", G) /\ Plain("reconnect:lock", G)
             /\ G \cap ReconnectFrames # {} /\ G \cap (RadioFrames \cup SetupFrames) = {}
  <2>1. CASE G = {"reconnect:open"}
    BY <2>1
  <2>2. CASE G = {"disconnect", "reconnect:stale"}
    BY <2>2
  <2>3. QED BY <1>1, <2>1, <2>2
<1>2. Suits("reconnect:stale", {"reconnect:open"}) /\ Plain("reconnect:stale", {"reconnect:open"})
  OBVIOUS
<1>3. \A f \in {"reconnect:open", "reconnect:paused"} : Suits(f, {}) /\ Plain(f, {})
  OBVIOUS
<1>4. /\ {"reconnect:stale", "reconnect:open", "reconnect:paused"} \subseteq ReconnectFrames
      /\ {"reconnect:lock", "reconnect:stale", "reconnect:open", "reconnect:paused"}
           \cap (RadioFrames \cup SetupFrames) = {}
  OBVIOUS
<1>5. QED BY <1>1, <1>2, <1>3, <1>4, Zenon

LEMMA ReconnectLocksNext ==
    ASSUME RadioInv, NEW t \in Tasks, ReconnectLocks(t)
    PROVE  RadioInv'
<1> DEFINE f == "reconnect:lock"
<1>1. /\ At(t, f) /\ reconnectLock = None /\ mc' = mc
      /\ UNCHANGED <<opLock, setupLock, lifecycleLock>>
  BY DEF ReconnectLocks, Acquires, transport
<1>2. CASE ~desired \/ Connected
  <2>1. /\ \E v : Return(t, v)
        /\ UNCHANGED <<mc, locks>>
    BY <1>1, <1>2 DEF ReconnectLocks, locks
  <2>2. Fine(t, f, {})
    BY <2>1, ReconnectStill, StillFine
  <2>3. QED BY <1>1, <2>1, <2>2, Returns, Zenon DEF Return
<1>3. CASE ~(~desired \/ Connected) /\ mc
  <2> DEFINE G == {"disconnect", "reconnect:stale"}
  <2>1. reconnectLock' = t /\ Call(t, "disconnect", "reconnect:stale")
    BY <1>3 DEF ReconnectLocks
  <2>2. LocksStep(t, f, G)
    BY <1>1, <2>1, ReconnectFits DEF LocksStep, Guards
  <2>3. Fine(t, f, G)
    BY <1>1, <2>2, ReconnectFits DEF Fine, OpensStep
  <2>4. QED BY <1>1, <2>1, <2>3, ReconnectStill, Calls, Zenon DEF Call
<1>4. CASE ~(~desired \/ Connected) /\ ~mc
  <2> DEFINE G == {"reconnect:open"}
  <2>1. reconnectLock' = t /\ Await(t, "reconnect:open")
    BY <1>4 DEF ReconnectLocks
  <2>2. LocksStep(t, f, G)
    BY <1>1, <2>1, ReconnectFits DEF LocksStep, Guards
  <2>3. Fine(t, f, G)
    BY <1>1, <1>4, <2>2, ReconnectFits DEF Fine, OpensStep
  <2>4. QED BY <1>1, <2>1, <2>3, ReconnectStill, Moves, Zenon DEF Await
<1>5. QED BY <1>2, <1>3, <1>4

LEMMA ReconnectStaleGoneNext ==
    ASSUME RadioInv, NEW t \in Tasks, ReconnectStaleGone(t)
    PROVE  RadioInv'
<1>1. At(t, "reconnect:stale") /\ UNCHANGED <<mc, locks>>
  BY DEF ReconnectStaleGone, Reaches, transport
<1>2. CASE mc
  <2>1. Call(t, "disconnect", "reconnect:stale")
    BY <1>2 DEF ReconnectStaleGone
  <2>2. Fine(t, "reconnect:stale", {"disconnect", "reconnect:stale"})
    BY <1>1, ReconnectStill, StillFine
  <2>3. QED BY <1>1, <2>1, <2>2, ReconnectStill, Calls, Zenon DEF Call
<1>3. CASE ~mc
  <2>1. Await(t, "reconnect:open")
    BY <1>3 DEF ReconnectStaleGone
  <2>2. LocksStep(t, "reconnect:stale", {"reconnect:open"})
    BY <1>1, ReconnectFits DEF LocksStep, Guards, locks
  <2>3. Fine(t, "reconnect:stale", {"reconnect:open"})
    BY <1>1, <1>3, <2>2, ReconnectFits DEF Fine, OpensStep
  <2>4. QED BY <1>1, <2>1, <2>3, ReconnectStill, Moves, Zenon DEF Await
<1>4. QED BY <1>2, <1>3

LEMMA ReconnectOpensNext ==
    ASSUME RadioInv, NEW t \in Tasks, ReconnectOpens(t)
    PROVE  RadioInv'
<1> DEFINE f == "reconnect:open"
<1>1. At(t, f) /\ UNCHANGED <<opLock, setupLock, lifecycleLock>>
  BY DEF ReconnectOpens, Resumes
<1>2. CASE desired
  <2>1. reconnectLock' = None /\ Return(t, "True")
    BY <1>2 DEF ReconnectOpens
  <2>2. LocksStep(t, f, {})
    BY <1>1, <2>1, ReconnectFits, Zenon DEF LocksStep, Guards
  <2>3. Fine(t, f, {})
    BY <2>2, ReconnectFits DEF Fine, OpensStep
  <2>4. QED BY <1>1, <2>1, <2>3, Returns, Zenon DEF Return
<1>3. CASE ~desired
  <2> DEFINE G == {"disconnect", "reconnect:paused"}
  <2>1. Call(t, "disconnect", "reconnect:paused") /\ reconnectLock' = reconnectLock
    BY <1>3 DEF ReconnectOpens
  <2>2. Still(f, G)
    BY ReconnectStill
  <2>3. LocksStep(t, f, G)
    BY <1>1, <2>1, <2>2 DEF LocksStep, Guards, Still
  <2>4. Fine(t, f, G)
    BY <2>2, <2>3 DEF Fine, OpensStep, Still
  <2>5. QED BY <1>1, <2>1, <2>4, ReconnectStill, Calls, Zenon DEF Call
<1>4. QED BY <1>2, <1>3

LEMMA ReconnectEndsNext ==
    ASSUME RadioInv, NEW t \in Tasks, ReconnectEnds(t)
    PROVE  RadioInv'
<1>1. PICK f \in {"reconnect:open", "reconnect:paused"} : At(t, f)
  BY DEF ReconnectEnds, Resumes, Reaches
<1>2. /\ reconnectLock' = None /\ mc' = mc /\ UNCHANGED <<opLock, setupLock, lifecycleLock>>
      /\ Return(t, "False")
  BY DEF ReconnectEnds, transport
<1>3. LocksStep(t, f, {})
  BY <1>1, <1>2, ReconnectFits DEF LocksStep, Guards
<1>4. Fine(t, f, {})
  BY <1>1, <1>2, <1>3, ReconnectFits DEF Fine, OpensStep
<1>5. QED BY <1>1, <1>2, <1>4, Returns, Zenon DEF Return

LEMMA ReconnectNext ==
    ASSUME RadioInv, NEW t \in Tasks, Reconnect(t)
    PROVE  RadioInv'
BY ReconnectLocksNext, ReconnectStaleGoneNext, ReconnectOpensNext, ReconnectEndsNext
   DEF Reconnect

-----------------------------------------------------------------------------
(* evaluate_connected_identity *)

LEMMA EvaluateStill ==
    /\ EvaluateCode \subseteq Points
    /\ \A f \in EvaluateCode : Still(f, {}) /\ \A g \in EvaluateCode : Still(f, {g})
<1>1. EvaluateCode \subseteq Points
  BY DEF Points
<1>2. ASSUME NEW f \in EvaluateCode
      PROVE  /\ f \notin RadioFrames \cup ReconnectFrames \cup SetupFrames
             /\ f \notin SetupCode /\ f # "reconnect:open"
             /\ f \notin {"transition:lock", "transition:stop", "transition:exit"}
  BY DEF EvaluateCode, RadioFrames, ReconnectFrames, SetupFrames, SetupCode
<1>3. ASSUME NEW f \in EvaluateCode, NEW g \in EvaluateCode, NEW r, Covers(f, r)
      PROVE  Covers(g, r)
  BY <1>3 DEF Covers, EnterCode, BodyCode, Bodies, PrepareCode, ReconnectCode, DisconnectCode,
              SetupCode, SetupFrames, EvaluateCode, AfterSetup
<1>4. ASSUME NEW f \in EvaluateCode  PROVE  Still(f, {})
  BY <1>2 DEF Still, Suits, Plain
<1>5. ASSUME NEW f \in EvaluateCode, NEW g \in EvaluateCode  PROVE  Still(f, {g})
  <2>1. Suits(f, {g})
    BY <1>3 DEF Suits
  <2>2. Plain(f, {g})
    BY <1>2 DEF Plain
  <2>3. QED BY <1>2, <2>1, <2>2 DEF Still
<1>6. QED BY <1>1, <1>4, <1>5

LEMMA EvaluateNext ==
    ASSUME RadioInv, NEW t \in Tasks, Evaluate(t)
    PROVE  RadioInv'
<1>1. UNCHANGED <<mc, locks>>
  BY DEF Evaluate, EvaluateBegins, EvaluateReadsKey, EvaluateFindsNoKey, EvaluateDecides,
         EvaluateBinds, EvaluateBound, transport
<1>2. PICK f \in EvaluateCode : At(t, f)
  BY DEF Evaluate, EvaluateBegins, EvaluateReadsKey, EvaluateFindsNoKey, EvaluateDecides,
         EvaluateBinds, EvaluateBound, EvaluateCode, Reaches, Resumes
<1>3. \/ \E v : Return(t, v)
      \/ \E g \in EvaluateCode : Await(t, g)
  BY DEF Evaluate, EvaluateBegins, EvaluateReadsKey, EvaluateFindsNoKey, EvaluateDecides,
         EvaluateBinds, EvaluateBound, EvaluateCode
<1>4. CASE \E v : Return(t, v)
  <2>1. Fine(t, f, {})
    BY <1>1, <1>2, EvaluateStill, StillFine
  <2>2. QED BY <1>2, <1>4, <2>1, Returns, Zenon DEF Return
<1>5. CASE \E g \in EvaluateCode : Await(t, g)
  <2>1. PICK g \in EvaluateCode : Await(t, g)
    BY <1>5
  <2>2. Fine(t, f, {g}) /\ g \in Points
    BY <1>1, <1>2, <2>1, EvaluateStill, StillFine
  <2>3. QED BY <1>2, <2>1, <2>2, Moves, Zenon DEF Await
<1>6. QED BY <1>3, <1>4, <1>5

-----------------------------------------------------------------------------
(* A whole stack is replaced: a task begins, is cancelled or gives up. *)

GuardedFrames == RadioFrames \cup ReconnectFrames \cup SetupFrames

Elements(s) == {s[i] : i \in 1 .. Len(s)}

Resets(t, s) ==
    /\ s \in Seq(Points) /\ stack' = [stack EXCEPT ![t] = s]
    /\ \A i, j \in 1 .. Len(s) : i < j => Covers(s[i], s[j])
    /\ Elements(s) \cap (GuardedFrames \cup SetupCode) = {}
    /\ opLock' = IF opLock = t THEN None ELSE opLock
    /\ reconnectLock' = IF reconnectLock = t THEN None ELSE reconnectLock
    /\ setupLock' = IF setupLock = t THEN None ELSE setupLock
    /\ lifecycleLock' = lifecycleLock /\ mc' = mc
    /\ Elements(s) \cap EnterCode # {} => "transition:exit" \in Elements(s)
    /\ t \in Requesters =>
         /\ lifecycleLock = t <=> /\ "transition:exit" \in Elements(s)
                                  /\ "transition:lock" \notin Elements(s)
         /\ lifecycleLock = t => "transition:stop" \notin Frames(t)
    /\ t = Monitor => Elements(s) = {} \/ Frames(t) # {}

LEMMA ResetsNext ==
    ASSUME RadioInv, NEW t \in Tasks, NEW s, Resets(t, s)
    PROVE  RadioInv'
<1>1. stack \in [Tasks -> Seq(Points)] /\ s \in Seq(Points) /\ stack' = [stack EXCEPT ![t] = s]
  BY DEF RadioInv, Stacked, Resets
<1>2. stack' \in [Tasks -> Seq(Points)] /\ stack'[t] = s /\ \A u \in Tasks \ {t} : stack'[u] = stack[u]
  BY <1>1
<1>3. Frames(t)' = Elements(s)
  BY <1>2 DEF Frames, Elements
<1>4. \A u \in Tasks \ {t} : Frames(u)' = Frames(u)
  BY <1>2 DEF Frames
<1>5. Stacked'
  <2>1. Proper(t)'
    BY <1>2 DEF Proper, Resets
  <2>2. ASSUME NEW u \in Tasks \ {t}  PROVE  Proper(u)'
    BY <1>2 DEF RadioInv, Stacked, Proper
  <2>3. QED BY <1>2, <2>1, <2>2 DEF Stacked
<1>6. LocksGuard'
  <2>1. SUFFICES ASSUME NEW u \in Tasks
                 PROVE  /\ opLock' = u <=> Frames(u)' \cap RadioFrames # {}
                        /\ reconnectLock' = u <=> Frames(u)' \cap ReconnectFrames # {}
                        /\ setupLock' = u <=> Frames(u)' \cap SetupFrames # {}
    BY DEF LocksGuard, RadioFrames, ReconnectFrames, SetupFrames, Tasks
  <2>2. /\ opLock' = IF opLock = t THEN None ELSE opLock
        /\ reconnectLock' = IF reconnectLock = t THEN None ELSE reconnectLock
        /\ setupLock' = IF setupLock = t THEN None ELSE setupLock
        /\ None \notin Tasks
    BY TaskFacts DEF Resets
  <2>3. CASE u = t
    <3>1. /\ Frames(u)' \cap RadioFrames = {} /\ Frames(u)' \cap ReconnectFrames = {}
          /\ Frames(u)' \cap SetupFrames = {}
      BY <1>3, <2>3 DEF Resets, GuardedFrames
    <3>2. QED BY <2>2, <2>3, <3>1
  <2>4. CASE u # t
    <3>1. Frames(u)' = Frames(u)
      BY <1>4, <2>4
    <3>2. QED BY <2>2, <2>4, <3>1 DEF RadioInv, LocksGuard
  <2>5. QED BY <2>3, <2>4
<1>7. SetupCalled'
  <2>1. SUFFICES ASSUME NEW u \in Tasks, Frames(u)' \cap SetupCode # {}
                 PROVE  Frames(u)' \cap AfterSetup # {}
    BY DEF SetupCalled, SetupCode, AfterSetup, SetupFrames, Tasks
  <2>2. u # t
    BY <1>3, <2>1 DEF Resets
  <2>3. QED BY <1>4, <2>1, <2>2 DEF RadioInv, SetupCalled
<1>8. TransitionGuarded'
  <2>1. TransitionGuarded /\ lifecycleLock' = lifecycleLock
    BY DEF RadioInv, Resets
  <2>2. ASSUME NEW u \in Tasks, Frames(u)' \cap EnterCode # {}
        PROVE  "transition:exit" \in Frames(u)'
    BY <1>3, <1>4, <2>1, <2>2 DEF Resets, TransitionGuarded
  <2>3. ASSUME NEW q \in Requesters
        PROVE  lifecycleLock = q <=> /\ "transition:exit" \in Frames(q)'
                                     /\ "transition:lock" \notin Frames(q)'
    <3>1. q \in Tasks
      BY TaskFacts
    <3>2. CASE q = t
      BY <1>3, <3>2 DEF Resets
    <3>3. CASE q # t
      BY <1>4, <2>1, <3>1, <3>3 DEF TransitionGuarded
    <3>4. QED BY <3>2, <3>3
  <2>4. ASSUME NEW q \in Requesters, lifecycleLock = q, "transition:stop" \notin Frames(q)'
        PROVE  Frames(Monitor)' = {}
    <3>1. q \in Tasks /\ Monitor \in Tasks
      BY TaskFacts
    <3>2. "transition:stop" \notin Frames(q)
      BY <1>4, <2>4, <3>1 DEF Resets
    <3>3. Frames(Monitor) = {}
      BY <2>1, <2>4, <3>2 DEF TransitionGuarded
    <3>4. QED BY <1>3, <1>4, <3>1, <3>3 DEF Resets
  <2>5. QED BY <2>1, <2>2, <2>3, <2>4 DEF TransitionGuarded, Tasks, EnterCode, Monitor
<1>9. OpensBare'
  <2>1. SUFFICES ASSUME NEW u \in Tasks, "reconnect:open" \in Frames(u)'  PROVE  ~mc'
    BY DEF OpensBare, Tasks
  <2>2. "reconnect:open" \in GuardedFrames
    BY DEF GuardedFrames, ReconnectFrames
  <2>3. u # t /\ mc' = mc
    BY <1>3, <2>1, <2>2 DEF Resets
  <2>4. QED BY <1>4, <2>1, <2>3 DEF RadioInv, OpensBare
<1>10. QED BY <1>5, <1>6, <1>7, <1>8, <1>9 DEF RadioInv

-----------------------------------------------------------------------------
(* run_post_connect_setup *)

LEMMA SetupStill ==
    /\ SetupCode \cup {"evaluate"} \subseteq Points
    /\ Still("setup", {"setup:lock"}) /\ Still("setup", {}) /\ Still("setup:lock", {})
    /\ Still("setup:identity", {"setup:clock"}) /\ Still("setup:clock", {"setup:offload"})
<1> USE DEF Still, Suits, Plain, Covers, DisconnectCode, EnterCode, BodyCode, PrepareCode,
            ReconnectCode, SetupCode, EvaluateCode, AfterSetup, RadioFrames, ReconnectFrames,
            SetupFrames
<1>1. SetupCode \cup {"evaluate"} \subseteq Points
  BY DEF Points
<1>2. Still("setup", {"setup:lock"})
  OBVIOUS
<1>3. Still("setup", {}) /\ Still("setup:lock", {})
  OBVIOUS
<1>4. Still("setup:identity", {"setup:clock"}) /\ Still("setup:clock", {"setup:offload"})
  OBVIOUS
<1>5. QED BY <1>1, <1>2, <1>3, <1>4, Zenon

\* Entering and leaving the code that the setup lock and the operation lock guard
LEMMA SetupFits ==
    /\ Suits("setup:lock", {"setup:op"}) /\ Plain("setup:lock", {"setup:op"})
    /\ Suits("setup:op", {"evaluate", "setup:identity"})
    /\ Plain("setup:op", {"evaluate", "setup:identity"}) /\ Covers("evaluate", "setup:identity")
    /\ \A f \in SetupFrames : Suits(f, {}) /\ Plain(f, {}) /\ f \notin ReconnectFrames
    /\ "setup:op" \in SetupFrames \ RadioFrames
    /\ {"setup:identity", "setup:clock", "setup:offload"} = SetupFrames \cap RadioFrames
    /\ "setup:lock" \notin GuardedFrames /\ "evaluate" \notin GuardedFrames
<1> USE DEF Suits, Plain, Covers, DisconnectCode, EnterCode, BodyCode, PrepareCode, ReconnectCode,
            SetupCode, EvaluateCode, AfterSetup, RadioFrames, ReconnectFrames, SetupFrames,
            GuardedFrames
<1>1. Suits("setup:lock", {"setup:op"}) /\ Plain("setup:lock", {"setup:op"})
  OBVIOUS
<1>2. Suits("setup:op", {"evaluate", "setup:identity"})
  OBVIOUS
<1>3. Plain("setup:op", {"evaluate", "setup:identity"}) /\ Covers("evaluate", "setup:identity")
  OBVIOUS
<1>4. \A f \in SetupFrames : Suits(f, {}) /\ Plain(f, {}) /\ f \notin ReconnectFrames
  OBVIOUS
<1>5. /\ "setup:op" \in SetupFrames \ RadioFrames
      /\ {"setup:identity", "setup:clock", "setup:offload"} = SetupFrames \cap RadioFrames
      /\ "setup:lock" \notin GuardedFrames /\ "evaluate" \notin GuardedFrames
  OBVIOUS
<1>6. QED BY <1>1, <1>2, <1>3, <1>4, <1>5, Zenon

\* However a setup ends, it gives back both locks.
LEMMA SetupReleases ==
    ASSUME RadioInv, NEW t \in Tasks, NEW f \in SetupFrames \cap RadioFrames, At(t, f),
           ReleaseSetup, mc' = mc, NEW v, Return(t, v)
    PROVE  RadioInv'
<1>1. LocksStep(t, f, {})
  BY SetupFits DEF LocksStep, Guards, ReleaseSetup
<1>2. Fine(t, f, {})
  BY <1>1, SetupFits DEF Fine, OpensStep
<1>3. QED BY <1>2, Returns, Zenon DEF Return

LEMMA SetupEntersNext ==
    ASSUME RadioInv, NEW t \in Tasks, SetupEnters(t)
    PROVE  RadioInv'
<1>1. At(t, "setup") /\ UNCHANGED <<mc, locks>>
  BY DEF SetupEnters, Reaches, transport
<1>2. CASE mc
  <2>1. Continue(t, "setup:lock")
    BY <1>2 DEF SetupEnters
  <2>2. "setup:lock" \in Points /\ Fine(t, "setup", {"setup:lock"})
    BY <1>1, SetupStill, StillFine DEF SetupCode
  <2>3. QED BY <1>1, <2>1, <2>2, Moves, Zenon DEF Continue
<1>3. CASE ~mc
  <2>1. Return(t, "done")
    BY <1>3 DEF SetupEnters
  <2>2. QED BY <1>1, <2>1, SetupStill, StillFine, Returns, Zenon DEF Return
<1>4. QED BY <1>2, <1>3

LEMMA SetupLocksNext ==
    ASSUME RadioInv, NEW t \in Tasks, SetupLocks(t)
    PROVE  RadioInv'
<1>1. /\ At(t, "setup:lock") /\ setupLock = None /\ mc' = mc
      /\ UNCHANGED <<opLock, reconnectLock, lifecycleLock>>
  BY DEF SetupLocks, Acquires, transport
<1>2. CASE mc
  <2>1. setupLock' = t /\ Continue(t, "setup:op")
    BY <1>2 DEF SetupLocks
  <2>2. "setup:op" \in SetupFrames /\ "setup:op" \notin RadioFrames \cup ReconnectFrames
    BY SetupFits
  <2>3. LocksStep(t, "setup:lock", {"setup:op"})
    BY <1>1, <2>1, <2>2, SetupFits DEF LocksStep, Guards, GuardedFrames
  <2>4. Fine(t, "setup:lock", {"setup:op"}) /\ "setup:op" \in Points
    BY <1>1, <2>2, <2>3, SetupFits, SetupStill DEF Fine, OpensStep, SetupCode
  <2>5. QED BY <1>1, <2>1, <2>4, Moves, Zenon DEF Continue
<1>3. CASE ~mc
  <2>1. Return(t, "done") /\ UNCHANGED <<mc, locks>>
    BY <1>1, <1>3 DEF SetupLocks, locks
  <2>2. QED BY <1>1, <2>1, SetupStill, StillFine, Returns, Zenon DEF Return
<1>4. QED BY <1>2, <1>3

LEMMA SetupTakesRadioNext ==
    ASSUME RadioInv, NEW t \in Tasks, SetupTakesRadio(t)
    PROVE  RadioInv'
<1>1. /\ At(t, "setup:op") /\ opLock = None /\ mc' = mc
      /\ UNCHANGED <<reconnectLock, lifecycleLock>>
  BY DEF SetupTakesRadio, Acquires, transport
<1>2. CASE mc
  <2> DEFINE G == {"evaluate", "setup:identity"}
  <2>1. opLock' = t /\ setupLock' = setupLock /\ Call(t, "evaluate", "setup:identity")
    BY <1>2 DEF SetupTakesRadio
  <2>2. /\ G \cap RadioFrames # {} /\ G \cap SetupFrames # {} /\ G \cap ReconnectFrames = {}
        /\ "reconnect:open" \notin G /\ "setup:op" \notin ReconnectFrames
    BY SetupFits DEF GuardedFrames
  <2>3. LocksStep(t, "setup:op", G)
    BY <1>1, <2>1, <2>2, SetupFits DEF LocksStep, Guards
  <2>4. Fine(t, "setup:op", G) /\ "evaluate" \in Points /\ "setup:identity" \in Points
    BY <1>1, <2>2, <2>3, SetupFits, SetupStill DEF Fine, OpensStep, SetupCode
  <2>5. QED BY <1>1, <2>1, <2>4, SetupFits, Calls, Zenon DEF Call
<1>3. CASE ~mc
  <2>1. setupLock' = None /\ Return(t, "done") /\ opLock' = opLock
    BY <1>3 DEF SetupTakesRadio
  <2>2. LocksStep(t, "setup:op", {})
    BY <1>1, <2>1, SetupFits DEF LocksStep, Guards
  <2>3. Fine(t, "setup:op", {})
    BY <1>1, <2>2, SetupFits DEF Fine, OpensStep
  <2>4. QED BY <1>1, <2>1, <2>3, Returns, Zenon DEF Return
<1>4. QED BY <1>2, <1>3

LEMMA SetupIdentityNext ==
    ASSUME RadioInv, NEW t \in Tasks, SetupIdentity(t)
    PROVE  RadioInv'
<1>1. At(t, "setup:identity") /\ mc' = mc
  BY DEF SetupIdentity, Reaches
<1>2. CASE ret[t] = "continue"
  <2>1. Await(t, "setup:clock") /\ UNCHANGED <<mc, locks>>
    BY <1>1, <1>2 DEF SetupIdentity
  <2>2. "setup:clock" \in Points /\ Fine(t, "setup:identity", {"setup:clock"})
    BY <2>1, SetupStill, SetupFits, StillFine DEF SetupCode
  <2>3. QED BY <1>1, <2>1, <2>2, Moves, Zenon DEF Await
<1>3. CASE ret[t] # "continue"
  <2>1. ReleaseSetup /\ Return(t, "done") /\ "setup:identity" \in SetupFrames \cap RadioFrames
    BY <1>3, SetupFits DEF SetupIdentity
  <2>2. QED BY <1>1, <2>1, SetupReleases
<1>4. QED BY <1>2, <1>3

LEMMA SetupSyncsClockNext ==
    ASSUME RadioInv, NEW t \in Tasks, SetupSyncsClock(t)
    PROVE  RadioInv'
<1>1. /\ At(t, "setup:clock") /\ UNCHANGED <<mc, locks>> /\ Await(t, "setup:offload")
      /\ "setup:offload" \in Points
  BY SetupStill, SetupFits DEF SetupSyncsClock, Resumes, transport, SetupCode
<1>2. QED BY <1>1, SetupStill, StillFine, Moves, Zenon DEF Await

LEMMA SetupEndsNext ==
    ASSUME RadioInv, NEW t \in Tasks, SetupRebootsRadio(t) \/ SetupCompletes(t) \/ SetupRaises(t)
    PROVE  RadioInv'
<1>1. PICK f \in SetupFrames \cap RadioFrames : At(t, f)
  BY SetupFits DEF SetupRebootsRadio, SetupCompletes, SetupRaises, Resumes
<1>2. ReleaseSetup /\ mc' = mc
  BY DEF SetupRebootsRadio, SetupCompletes, SetupRaises, transport
<1>3. PICK v : Return(t, v)
  BY DEF SetupRebootsRadio, SetupCompletes, SetupRaises
<1>4. QED BY <1>1, <1>2, <1>3, SetupReleases

\* Around the frame that waits for a setup: the setup above it, its callers below.
LEMMA SetupAround ==
    ASSUME NEW f, NEW r, Covers(f, r)
    PROVE  /\ r \in AfterSetup => f \in SetupCode \cup EvaluateCode
           /\ f \in AfterSetup => r \in {"monitor:loop", "transition:exit"}
BY DEF Covers, EnterCode, BodyCode, PrepareCode, ReconnectCode, DisconnectCode, SetupCode,
       EvaluateCode, Bodies, AfterSetup, SetupFrames

\* The part of a stack from the frame d on.
LEMMA Suffix ==
    ASSUME NEW S, NEW x \in Seq(S), NEW d \in 1 .. Len(x), NEW s, s = SubSeq(x, d, Len(x))
    PROVE  /\ s \in Seq(S) /\ Len(s) = Len(x) - d + 1 /\ Len(s) \in Nat
           /\ \A i \in 1 .. Len(s) : i + d - 1 \in d .. Len(x) /\ s[i] = x[i + d - 1]
           /\ \A k \in d .. Len(x) : k - d + 1 \in 1 .. Len(s) /\ s[k - d + 1] = x[k]
<1>1. Len(x) \in Nat /\ d \in Nat /\ 1 <= d /\ d <= Len(x) /\ d \in 1 .. Len(x) + 1
  OBVIOUS
<1>2. /\ s \in Seq(S) /\ Len(s) = Len(x) - d + 1
      /\ \A i \in 1 .. Len(x) - d + 1 : s[i] = x[d + i - 1]
  BY <1>1
<1>3. QED BY <1>1, <1>2

LEMMA SetupTimesOutNext ==
    ASSUME RadioInv, NEW t \in Tasks, SetupTimesOut(t)
    PROVE  RadioInv'
<1> DEFINE x == stack[t]
           d == CHOOSE i \in 1 .. Len(x) : x[i] \in AfterSetup
           s == BelowSetup(t)
           Callers == {"monitor:loop", "transition:exit"}
<1>1. x \in Seq(Points) /\ \A i, j \in 1 .. Len(x) : i < j => Covers(x[i], x[j])
  BY DEF RadioInv, Stacked, Proper
<1>2. /\ setupLock = t /\ setupLock' = None /\ opLock' = (IF opLock = t THEN None ELSE opLock)
      /\ UNCHANGED <<mc, reconnectLock, lifecycleLock>>
      /\ stack' = [stack EXCEPT ![t] = s]
  BY DEF SetupTimesOut, transport
<1>3. \E i \in 1 .. Len(x) : x[i] \in AfterSetup
  <2>1. Frames(t) \cap SetupFrames # {}
    BY <1>2 DEF RadioInv, LocksGuard
  <2>2. Frames(t) \cap AfterSetup # {}
    BY <2>1 DEF RadioInv, SetupCalled, SetupCode
  <2>3. QED BY <2>2 DEF Frames
<1>4. d \in 1 .. Len(x) /\ x[d] \in AfterSetup
  BY <1>3
<1>5. s = SubSeq(x, d, Len(x))
  BY DEF BelowSetup
<1>6. Frames(t) = Elements(x)
  BY DEF Frames, Elements
<1> HIDE DEF x, d, s
<1>7. /\ s \in Seq(Points) /\ Len(s) = Len(x) - d + 1 /\ Len(s) \in Nat
      /\ \A i \in 1 .. Len(s) : i + d - 1 \in d .. Len(x) /\ s[i] = x[i + d - 1]
      /\ \A k \in d .. Len(x) : k - d + 1 \in 1 .. Len(s) /\ s[k - d + 1] = x[k]
  BY <1>1, <1>4, <1>5, Suffix
<1>8. Len(x) \in Nat /\ d \in Nat
  BY <1>1, <1>4
<1>9. ASSUME NEW k \in 1 .. Len(x)
      PROVE  /\ k < d => x[k] \in SetupCode \cup EvaluateCode
             /\ k > d => x[k] \in Callers
  <2>1. k < d => Covers(x[k], x[d])
    BY <1>1, <1>4, <1>9
  <2>2. d < k => Covers(x[d], x[k])
    BY <1>1, <1>4, <1>9
  <2>3. k > d => d < k
    BY <1>8
  <2>4. QED BY <1>4, <2>1, <2>2, <2>3, SetupAround
<1>10. Elements(s) \subseteq AfterSetup \cup Callers
  <2>1. SUFFICES ASSUME NEW i \in 1 .. Len(s)  PROVE  s[i] \in AfterSetup \cup Callers
    BY DEF Elements
  <2>2. i + d - 1 \in d .. Len(x) /\ s[i] = x[i + d - 1]
    BY <1>7
  <2>3. CASE i + d - 1 = d
    BY <1>4, <2>2, <2>3
  <2>4. CASE i + d - 1 > d
    BY <1>8, <1>9, <2>2, <2>4
  <2>5. QED BY <1>7, <1>8, <2>2, <2>3, <2>4
<1>11. Elements(x) \subseteq SetupCode \cup EvaluateCode \cup AfterSetup \cup Callers
  <2>1. SUFFICES ASSUME NEW k \in 1 .. Len(x)
                 PROVE  x[k] \in SetupCode \cup EvaluateCode \cup AfterSetup \cup Callers
    BY DEF Elements
  <2>2. k < d \/ k = d \/ k > d
    BY <1>8
  <2>3. QED BY <1>4, <1>9, <2>2
<1>12. "transition:exit" \in Elements(s) <=> "transition:exit" \in Elements(x)
  <2>1. ASSUME "transition:exit" \in Elements(s)  PROVE  "transition:exit" \in Elements(x)
    <3>1. PICK i \in 1 .. Len(s) : s[i] = "transition:exit"
      BY <2>1 DEF Elements
    <3>2. i + d - 1 \in 1 .. Len(x) /\ x[i + d - 1] = "transition:exit"
      BY <1>7, <1>8, <1>4, <3>1
    <3>3. QED BY <3>2 DEF Elements
  <2>2. ASSUME "transition:exit" \in Elements(x)  PROVE  "transition:exit" \in Elements(s)
    <3>1. PICK k \in 1 .. Len(x) : x[k] = "transition:exit"
      BY <2>2 DEF Elements
    <3>2. "transition:exit" \notin SetupCode \cup EvaluateCode
      BY DEF SetupCode, EvaluateCode, SetupFrames
    <3>3. ~(k < d)
      BY <1>9, <3>1, <3>2
    <3>4. k \in d .. Len(x)
      BY <1>8, <3>1, <3>3
    <3>5. k - d + 1 \in 1 .. Len(s) /\ s[k - d + 1] = "transition:exit"
      BY <1>7, <3>1, <3>4
    <3>6. QED BY <3>5 DEF Elements
  <2>3. QED BY <2>1, <2>2
<1>13. ASSUME NEW i \in 1 .. Len(s), NEW j \in 1 .. Len(s), i < j  PROVE  Covers(s[i], s[j])
  <2>1. /\ s[i] = x[i + d - 1] /\ s[j] = x[j + d - 1]
        /\ i + d - 1 \in d .. Len(x) /\ j + d - 1 \in d .. Len(x)
    BY <1>7
  <2>2. i + d - 1 \in 1 .. Len(x) /\ j + d - 1 \in 1 .. Len(x) /\ i + d - 1 < j + d - 1
    BY <1>4, <1>7, <1>8, <1>13, <2>1
  <2>3. QED BY <1>1, <2>1, <2>2
<1>14. /\ (AfterSetup \cup Callers) \cap (GuardedFrames \cup SetupCode \cup EnterCode) = {}
       /\ (SetupCode \cup EvaluateCode \cup AfterSetup \cup Callers)
            \cap (ReconnectFrames \cup EnterCode) = {}
  BY DEF AfterSetup, GuardedFrames, SetupCode, EnterCode, EvaluateCode, RadioFrames,
         ReconnectFrames, SetupFrames
<1>15. reconnectLock # t
  BY <1>6, <1>11, <1>14 DEF RadioInv, LocksGuard
<1>16. t \in Requesters =>
         /\ lifecycleLock = t <=> /\ "transition:exit" \in Elements(s)
                                  /\ "transition:lock" \notin Elements(s)
         /\ lifecycleLock = t => "transition:stop" \notin Frames(t)
  <2>1. "transition:lock" \notin Elements(s) /\ Frames(t) \cap EnterCode = {}
    BY <1>6, <1>10, <1>11, <1>14 DEF EnterCode
  <2>2. "transition:lock" \notin Frames(t) /\ "transition:stop" \notin Frames(t)
    BY <2>1 DEF EnterCode
  <2>3. QED BY <1>6, <1>12, <2>1, <2>2 DEF RadioInv, TransitionGuarded
<1>17. Frames(t) # {}
  BY <1>4, <1>6 DEF Elements
<1>18. /\ Elements(s) \cap (GuardedFrames \cup SetupCode) = {}
       /\ Elements(s) \cap EnterCode = {}
  BY <1>10, <1>14
<1>19. Resets(t, s)
  BY <1>2, <1>7, <1>13, <1>15, <1>16, <1>17, <1>18, Zenon DEF Resets
<1>20. QED BY <1>19, ResetsNext

LEMMA SetupNext ==
    ASSUME RadioInv, NEW t \in Tasks, Setup(t)
    PROVE  RadioInv'
BY SetupEntersNext, SetupLocksNext, SetupTakesRadioNext, SetupIdentityNext, SetupSyncsClockNext,
   SetupEndsNext, SetupTimesOutNext DEF Setup

-----------------------------------------------------------------------------
(* prepare_connected_radio *)

LEMMA PrepareStill ==
    /\ PrepareCode \cup {"setup", "disconnect"} \subseteq Points
    /\ \A f \in PrepareCode : Still(f, {})
    /\ \A f \in PrepareCode, g \in AfterSetup : Still(f, {"setup", g}) /\ Covers("setup", g)
    /\ \A f \in PrepareCode, g \in {"prepare:dropped", "prepare:rebooted"} :
         Still(f, {"disconnect", g}) /\ Covers("disconnect", g)
<1> USE DEF Still, Suits, Plain, Covers, DisconnectCode, EnterCode, BodyCode, PrepareCode,
            ReconnectCode, SetupCode, EvaluateCode, AfterSetup, RadioFrames, ReconnectFrames,
            SetupFrames
<1>1. PrepareCode \cup {"setup", "disconnect"} \subseteq Points
  BY DEF Points
<1>2. \A f \in PrepareCode : Still(f, {})
  OBVIOUS
<1>3. ASSUME NEW f \in PrepareCode, NEW g \in AfterSetup
      PROVE  Still(f, {"setup", g}) /\ Covers("setup", g)
  <2>1. Suits(f, {"setup", g}) /\ Covers("setup", g)
    OBVIOUS
  <2>2. Plain(f, {"setup", g})
    BY Zenon
  <2>3. {f, "setup", g} \cap (RadioFrames \cup ReconnectFrames \cup SetupFrames) = {}
    OBVIOUS
  <2>4. QED BY <2>1, <2>2, <2>3, Zenon
<1>4. ASSUME NEW f \in PrepareCode, NEW g \in {"prepare:dropped", "prepare:rebooted"}
      PROVE  Still(f, {"disconnect", g}) /\ Covers("disconnect", g)
  <2>1. Suits(f, {"disconnect", g}) /\ Covers("disconnect", g)
    OBVIOUS
  <2>2. Plain(f, {"disconnect", g})
    OBVIOUS
  <2>3. {f, "disconnect", g} \cap (RadioFrames \cup ReconnectFrames \cup SetupFrames) = {}
    OBVIOUS
  <2>4. QED BY <2>1, <2>2, <2>3, Zenon
<1>5. QED BY <1>1, <1>2, <1>3, <1>4, Zenon

LEMMA PrepareNext ==
    ASSUME RadioInv, NEW t \in Tasks, Prepare(t)
    PROVE  RadioInv'
<1>1. UNCHANGED <<mc, locks>>
  BY Zenon DEF Prepare, PrepareEnters, PrepareSetupFailed, PrepareRebooted, PrepareDone,
         PrepareDropped, transport
<1>2. PICK f \in PrepareCode : At(t, f)
  BY DEF Prepare, PrepareEnters, PrepareSetupFailed, PrepareRebooted, PrepareDone,
         PrepareDropped, PrepareCode, Reaches
<1>3. \/ \E v : Return(t, v)
      \/ \E g \in AfterSetup : Call(t, "setup", g)
      \/ \E g \in {"prepare:dropped", "prepare:rebooted"} : Call(t, "disconnect", g)
  BY Zenon DEF Prepare, PrepareEnters, PrepareSetupFailed, PrepareRebooted, PrepareDone,
         PrepareDropped, LeavePaused, AfterSetup
<1>4. CASE \E v : Return(t, v)
  <2>1. Fine(t, f, {})
    BY <1>1, <1>2, PrepareStill, StillFine
  <2>2. QED BY <1>2, <1>4, <2>1, Returns, Zenon DEF Return
<1>5. CASE \E g \in AfterSetup : Call(t, "setup", g)
  <2>1. PICK g \in AfterSetup : Call(t, "setup", g)
    BY <1>5
  <2>2. Fine(t, f, {"setup", g}) /\ g \in Points /\ "setup" \in Points /\ Covers("setup", g)
    BY <1>1, <1>2, <2>1, PrepareStill, StillFine DEF PrepareCode
  <2>3. QED BY <1>2, <2>1, <2>2, Calls, Zenon DEF Call
<1>6. CASE \E g \in {"prepare:dropped", "prepare:rebooted"} : Call(t, "disconnect", g)
  <2>1. PICK g \in {"prepare:dropped", "prepare:rebooted"} : Call(t, "disconnect", g)
    BY <1>6
  <2>2. /\ Fine(t, f, {"disconnect", g}) /\ Covers("disconnect", g)
        /\ g \in Points /\ "disconnect" \in Points
    BY <1>1, <1>2, <2>1, PrepareStill, StillFine DEF PrepareCode
  <2>3. QED BY <1>2, <2>1, <2>2, Calls, Zenon DEF Call
<1>7. QED BY <1>3, <1>4, <1>5, <1>6

-----------------------------------------------------------------------------
(* connection_monitor_loop *)

MonitorCode == {"monitor:sleep", "monitor:reconnected", "monitor:torn", "monitor:loop"}

\* What a pass of the loop calls, and where it goes on
MonitorCalls ==
    {<<"reconnect:lock", "monitor:reconnected">>, <<"disconnect", "monitor:torn">>,
     <<"disconnect", "monitor:loop">>, <<"prepare", "monitor:loop">>}

LEMMA MonitorStill ==
    /\ "monitor:sleep" \in Points
    /\ \A f \in MonitorCode : Still(f, {"monitor:sleep"})
    /\ \A f \in MonitorCode, call \in MonitorCalls :
         /\ Still(f, {call[1], call[2]}) /\ Covers(call[1], call[2])
         /\ call[1] \in Points /\ call[2] \in Points
<1>1. "monitor:sleep" \in Points
  BY DEF Points
<1> \A f \in MonitorCode : \A r : ~Covers(f, r)
  BY DEF Covers, DisconnectCode, EnterCode, BodyCode, Bodies, PrepareCode, ReconnectCode,
         SetupCode, EvaluateCode, AfterSetup, SetupFrames, MonitorCode
<1>2. ASSUME NEW f \in MonitorCode  PROVE  Still(f, {"monitor:sleep"})
  <2>1. Suits(f, {"monitor:sleep"})
    BY DEF Suits
  <2>2. Plain(f, {"monitor:sleep"})
    BY DEF Plain, SetupCode, SetupFrames, MonitorCode
  <2>3. {f, "monitor:sleep"} \cap (RadioFrames \cup ReconnectFrames \cup SetupFrames) = {}
    BY DEF RadioFrames, ReconnectFrames, SetupFrames, MonitorCode
  <2>4. QED BY <2>1, <2>2, <2>3 DEF Still, ReconnectFrames
<1>3. ASSUME NEW f \in MonitorCode, NEW call \in MonitorCalls
      PROVE  /\ Still(f, {call[1], call[2]}) /\ Covers(call[1], call[2])
             /\ call[1] \in Points /\ call[2] \in Points
  <2>1. call[1] \in Points /\ call[2] \in Points
    BY DEF Points, MonitorCalls, PrepareCode, ReconnectCode, DisconnectCode
  <2>2. Covers(call[1], call[2])
    BY DEF Covers, MonitorCalls, PrepareCode, ReconnectCode, DisconnectCode
  <2>3. Suits(f, {call[1], call[2]})
    BY DEF Suits
  <2>4. Plain(f, {call[1], call[2]})
    BY DEF Plain, SetupCode, SetupFrames, MonitorCode, MonitorCalls
  <2>5. {f, call[1], call[2]} \cap (RadioFrames \cup ReconnectFrames \cup SetupFrames) = {}
    BY DEF RadioFrames, ReconnectFrames, SetupFrames, MonitorCode, MonitorCalls
  <2>6. QED BY <2>1, <2>2, <2>3, <2>4, <2>5 DEF Still, ReconnectFrames
<1>4. QED BY <1>1, <1>2, <1>3

LEMMA MonitorLoopNext ==
    ASSUME RadioInv, MonitorPass \/ MonitorGoesOn
    PROVE  RadioInv'
<1>1. UNCHANGED <<mc, locks>> /\ Monitor \in Tasks
  BY TaskFacts DEF MonitorPass, MonitorGoesOn, transport
<1>2. PICK f \in MonitorCode : At(Monitor, f)
  BY DEF MonitorPass, MonitorGoesOn, MonitorCode, Resumes, Reaches
<1>3. \/ Await(Monitor, "monitor:sleep")
      \/ \E call \in MonitorCalls : Call(Monitor, call[1], call[2])
  BY DEF MonitorPass, MonitorGoesOn, KeepConnected, MonitorCalls
<1>4. CASE Await(Monitor, "monitor:sleep")
  <2>1. Fine(Monitor, f, {"monitor:sleep"})
    BY <1>1, <1>2, MonitorStill, StillFine
  <2>2. QED BY <1>1, <1>2, <1>4, <2>1, MonitorStill, Moves, Zenon DEF Await
<1>5. CASE \E call \in MonitorCalls : Call(Monitor, call[1], call[2])
  <2>1. PICK call \in MonitorCalls : Call(Monitor, call[1], call[2])
    BY <1>5
  <2>2. /\ Fine(Monitor, f, {call[1], call[2]}) /\ Covers(call[1], call[2])
        /\ call[1] \in Points /\ call[2] \in Points
    BY <1>1, <1>2, <2>1, MonitorStill, StillFine
  <2>3. QED BY <1>1, <1>2, <2>1, <2>2, Calls, Zenon DEF Call
<1>6. QED BY <1>3, <1>4, <1>5

LEMMA MonitorCancelledNext ==
    ASSUME RadioInv, MonitorCancelled
    PROVE  RadioInv'
<1>1. Monitor \in Tasks /\ Monitor \notin Requesters
  BY TaskFacts
<1>2. Elements(<<>>) = {} /\ <<>> \in Seq(Points) /\ Len(<<>>) = 0
  BY DEF Elements
<1>3. Resets(Monitor, <<>>)
  BY <1>1, <1>2 DEF Resets, MonitorCancelled
<1>4. QED BY <1>1, <1>3, ResetsNext
=============================================================================
