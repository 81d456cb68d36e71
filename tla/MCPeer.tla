------------------------------- MODULE MCPeer -------------------------------
(* Values for model checking Peer: the addresses are model values. *)
EXTENDS Peer, TLC

Symmetry == Permutations(Addr)
=============================================================================
