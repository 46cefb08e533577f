-------------------------- MODULE MCIncomingMessages --------------------------
(***************************************************************************)
(* IncomingMessages with two messages of one sender.  Two packets are      *)
(* heard, of the two messages or of one by two routes, and the sender's    *)
(* contact comes from two sources.                                         *)
(***************************************************************************)
EXTENDS IncomingMessages, TLC

CONSTANTS m1, m2, k1

MCMsgs == {m1, m2}
MCPeers == {k1}
MCFrom == [m \in MCMsgs |-> k1]
Symmetry == Permutations(MCMsgs) \cup Permutations(Observers) \cup Permutations(Adds)
=============================================================================
