------------------------------ MODULE MCExchange ------------------------------
(* Small groups of clients, and who hears whom: Exchange for TLC. *)
EXTENDS Exchange, TLC

CONSTANTS c1, c2, c3

Everyone == [c \in Addr |-> Addr \ {c}]
Line == [c \in Addr |-> IF c = c2 THEN {c1, c3} ELSE {c2}]
OneSeed == [c \in Addr |-> IF c = c1 THEN Piece ELSE {}]
=============================================================================
