-------------------------------- MODULE Spread --------------------------------
(***************************************************************************)
(* What a group of NanoTorrent clients promises, whatever the network does:*)
(* pieces only spread.  A client gets a piece, one at a time, only while   *)
(* some other client has it, keeps it for good, and never believes that    *)
(* another client has a piece which that client has not.                   *)
(***************************************************************************)
EXTENDS Naturals, FiniteSets

CONSTANTS
    Client,     \* the clients
    Piece       \* the pieces of the file

VARIABLES
    has,        \* the pieces each client has
    seen        \* the pieces each client believes each other client to have

vars == <<has, seen>>

Elsewhere(c) == UNION {has[d] : d \in Client \ {c}}

(* Client c takes a step: it may gain a piece, and it may hear of, or      *)
(* forget, the pieces of others.                                           *)
Gain(c) ==
    /\ has[c] \subseteq has'[c]
    /\ has'[c] \ has[c] \subseteq Elsewhere(c)
    /\ Cardinality(has'[c] \ has[c]) <= 1

Look(c) ==
    \A d \in Client :
        \/ seen'[c][d] = {}
        \/ /\ seen[c][d] \subseteq seen'[c][d]
           /\ seen'[c][d] \ seen[c][d] \subseteq has[d]

Others(c) ==
    \A d \in Client \ {c} : has'[d] = has[d] /\ seen'[d] = seen[d]

Init ==
    /\ has \in [Client -> SUBSET Piece]
    /\ seen = [c \in Client |-> [d \in Client |-> {}]]

Next == \E c \in Client : Gain(c) /\ Look(c) /\ Others(c)

Spec == Init /\ [][Next]_vars

-----------------------------------------------------------------------------
(* A piece that somebody has ends up with everybody. *)
Distributed ==
    \A i \in Piece : (\E c \in Client : i \in has[c])
                        ~> (\A c \in Client : i \in has[c])
=============================================================================
