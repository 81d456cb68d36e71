----------------------------- MODULE MCTracker -----------------------------
(* Names for the clients: Tracker for TLC. *)
EXTENDS Tracker

CONSTANTS c1, c2, c3
=============================================================================
