---------------------------- MODULE MCKcpConnect ----------------------------
(***************************************************************************)
(* KcpConnect for TLC: conversation numbers and listeners are alike.        *)
(***************************************************************************)
EXTENDS KcpConnect, FiniteSets, TLC

PeerSymmetry == Permutations(Conv) \cup Permutations(Server)

\* Bound: packets in the network.
FewPackets == Cardinality(net) <= 9
=============================================================================
