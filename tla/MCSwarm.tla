------------------------------ MODULE MCSwarm ------------------------------
(* Names for the other peers: Swarm for TLC. *)
EXTENDS Swarm

CONSTANTS p1, p2
=============================================================================
