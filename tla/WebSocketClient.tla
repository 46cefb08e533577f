--------------------------- MODULE WebSocketClient ---------------------------
(***************************************************************************)
(* The hook useWebSocket: one current socket, a reconnect timer with a     *)
(* growing delay, a timer that calls the link stable, and the events of    *)
(* sockets that are no longer current.  A socket closes itself when the    *)
(* server refuses or drops it; the browser reports that with onclose.      *)
(***************************************************************************)
EXTENDS Integers

CONSTANT
  MaxAttempt  \* the exponent beyond which the delay no longer grows

ASSUME AttemptAssumption == MaxAttempt \in Nat \ {0}

VARIABLES
  mounted,   \* the effect is active: shouldReconnectRef
  cur,       \* wsRef: "none", "connecting" or "open"
  timer,     \* reconnectTimeoutRef is set
  stable,    \* stableTimerRef is set
  attempt,   \* attemptRef, up to MaxAttempt
  ever,      \* hasConnectedRef
  told,      \* the last onopen of the current socket called onReconnect
  stale      \* states of sockets that were replaced and still report events

sockVars == <<mounted, cur, timer, stable, attempt, ever, told, stale>>

SocketStates == {"none", "connecting", "open"}

SockTypeOK ==
  /\ mounted \in BOOLEAN /\ cur \in SocketStates /\ timer \in BOOLEAN /\ stable \in BOOLEAN
  /\ attempt \in 0..MaxAttempt /\ ever \in BOOLEAN /\ told \in BOOLEAN
  /\ stale \subseteq SocketStates

SockInit ==
  /\ mounted = FALSE /\ cur = "none" /\ timer = FALSE /\ stable = FALSE
  /\ attempt = 0 /\ ever = FALSE /\ told = FALSE /\ stale = {}

\* connect: the new socket becomes current, whatever was current before.
Connect ==
  /\ cur' = "connecting"
  /\ stale' = stale \cup ({cur} \ {"none"})

Mount ==
  /\ ~mounted
  /\ mounted' = TRUE /\ attempt' = 0
  /\ Connect
  /\ UNCHANGED <<timer, stable, ever, told>>

OnOpenAlwaysResyncs ==
  /\ cur = "connecting"
  /\ cur' = "open" /\ stable' = TRUE /\ timer' = FALSE
  /\ told' = TRUE /\ ever' = TRUE
  /\ UNCHANGED <<mounted, attempt, stale>>

OnOpen ==
  /\ cur = "connecting"
  /\ cur' = "open" /\ stable' = TRUE /\ timer' = FALSE
  /\ told' = ever /\ ever' = TRUE
  /\ UNCHANGED <<mounted, attempt, stale>>

NextAttemptUncapped == attempt + 1

\* reconnectDelayMs grows with the attempt up to its cap.
NextAttempt == IF attempt < MaxAttempt THEN attempt + 1 ELSE attempt

OnClose ==
  /\ cur # "none"
  /\ cur' = "none" /\ stable' = FALSE
  /\ timer' = mounted
  /\ attempt' = IF mounted THEN NextAttempt ELSE attempt
  /\ UNCHANGED <<mounted, ever, told, stale>>

\* A frame proves the link: the delay starts over.
OnMessage ==
  /\ cur = "open"
  /\ attempt' = 0
  /\ stable' = (stable /\ attempt = 0)
  /\ UNCHANGED <<mounted, cur, timer, ever, told, stale>>

StableTimer ==
  /\ stable
  /\ stable' = FALSE /\ attempt' = 0
  /\ UNCHANGED <<mounted, cur, timer, ever, told, stale>>

ReconnectTimer ==
  /\ timer
  /\ timer' = FALSE
  /\ Connect
  /\ UNCHANGED <<mounted, stable, attempt, ever, told>>

ReconnectNowKeepingTimer ==
  /\ mounted /\ cur = "none"
  /\ Connect
  /\ UNCHANGED <<mounted, timer, stable, attempt, ever, told>>

\* The browser comes online or the page to the foreground.
ReconnectNow ==
  /\ mounted /\ cur = "none"
  /\ timer' = FALSE
  /\ Connect
  /\ UNCHANGED <<mounted, stable, attempt, ever, told>>

\* Cleanup detaches the socket before it closes it.
Unmount ==
  /\ mounted
  /\ mounted' = FALSE /\ stable' = FALSE /\ timer' = FALSE
  /\ cur' = "none" /\ stale' = stale \cup ({cur} \ {"none"})
  /\ UNCHANGED <<attempt, ever, told>>

\* Events of sockets that are not current return at once.
StaleEvent ==
  /\ \E s \in stale : stale' = stale \ {s}
  /\ UNCHANGED <<mounted, cur, timer, stable, attempt, ever, told>>

SockNext ==
  \/ Mount \/ OnOpen \/ OnClose \/ OnMessage \/ StableTimer
  \/ ReconnectTimer \/ ReconnectNow \/ Unmount \/ StaleEvent

SockSpec == SockInit /\ [][SockNext]_sockVars

-----------------------------------------------------------------------------
\* A mounted client is never stranded without a socket and without a timer, never
\* waits for a timer while it has a socket, and an unmounted one has neither.
OneAttemptAtATime ==
  /\ mounted => (timer <=> cur = "none")
  /\ ~mounted => ~timer /\ cur = "none"
  /\ stable => cur = "open"

\* The link is up while the current socket is open.
Link == INSTANCE LiveLink WITH link <- cur = "open"

\* Every step of the socket is a step of the promised link or invisible to it: an
\* event of a replaced socket never opens or closes the link, and every opening
\* but the first asks for a resynchronisation.
ImplementsLink == Link!Spec

=============================================================================
