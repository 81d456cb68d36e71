------------------------------- MODULE Registry -------------------------------
(***************************************************************************)
(* What a NanoTorrent tracker promises, whatever its threads read of each  *)
(* other's work: a peer is listed only by an announce of its own, and is   *)
(* removed only by its own STOPPED or because it was silent when the purge *)
(* began.  An announce is answered after the peer was listed and heard.    *)
(* The answer names other peers, each listed at some time while the list   *)
(* was read, and all that were listed throughout unless that is too many.  *)
(***************************************************************************)
EXTENDS Naturals, FiniteSets

CONSTANTS
    Client,     \* addresses of the clients
    NumWant,    \* number of peers that a client asks for
    Nobody      \* no client

VARIABLES
    listed,     \* the peers of the torrent
    silent,     \* listed peers that were not heard for long
    due,        \* the peers that were silent when the purge began
    announce,   \* the announce being answered: stage, its sender, STOPPED
    ever,       \* peers listed at some time, ...
    always,     \* ... and at all times since the list is being read
    named       \* the peers in the answer

vars == <<listed, silent, due, announce, ever, always, named>>

NoAnnounce == [stage |-> "none", peer |-> Nobody, stop |-> FALSE]

Stage(from, to) ==
    announce.stage = from /\ announce' = [announce EXCEPT !.stage = to]

(* An announce arrives. *)
Ask(p) ==
    /\ announce.stage = "none"
    /\ \E stop \in BOOLEAN :
        announce' = [stage |-> IF p \in listed THEN "listed" ELSE "unlisted",
                     peer |-> p, stop |-> stop]
    /\ UNCHANGED <<listed, silent, due, ever, always, named>>

Leave ==
    /\ announce.stop
    /\ Stage("listed", "done") \/ Stage("unlisted", "done")
    /\ listed' = listed \ {announce.peer}
    /\ silent' = silent \ {announce.peer}
    /\ UNCHANGED <<due, ever, always, named>>

Enter ==
    /\ ~announce.stop
    /\ Stage("unlisted", "listed")
    /\ listed' = listed \cup {announce.peer}
    /\ UNCHANGED <<silent, due, ever, always, named>>

Hear ==
    /\ ~announce.stop
    /\ Stage("listed", "heard")
    /\ silent' = silent \ {announce.peer}
    /\ UNCHANGED <<listed, due, ever, always, named>>

StartReading ==
    /\ Stage("heard", "reading")
    /\ ever' = listed /\ always' = listed
    /\ UNCHANGED <<listed, silent, due, named>>

NameNobody ==
    /\ NumWant = 0
    /\ Stage("heard", "done")
    /\ UNCHANGED <<listed, silent, due, ever, always, named>>

Name ==
    /\ Stage("reading", "done")
    /\ named' \in SUBSET (ever \ {announce.peer})
    /\ Cardinality(named') <= NumWant
    /\ Cardinality(named') < NumWant => always \ {announce.peer} \subseteq named'
    /\ ever' = {} /\ always' = {}
    /\ UNCHANGED <<listed, silent, due>>

(* The thread that answers has ended. *)
Fail ==
    /\ Stage("reading", "failed")
    /\ ever' = {} /\ always' = {}
    /\ UNCHANGED <<listed, silent, due, named>>

Answer ==
    /\ announce.stage = "done"
    /\ announce' = NoAnnounce
    /\ named' = {}
    /\ UNCHANGED <<listed, silent, due, ever, always>>

Silence(p) ==
    /\ p \in listed \ silent
    /\ silent' = silent \cup {p}
    /\ UNCHANGED <<listed, due, announce, ever, always, named>>

StartPurge == due' = silent /\ UNCHANGED <<listed, silent, announce, ever, always, named>>

Expire(p) ==
    /\ p \in due
    /\ listed' = listed \ {p}
    /\ silent' = silent \ {p}
    /\ always' = always \ {p}
    /\ UNCHANGED <<due, announce, ever, named>>

Init ==
    /\ listed = {} /\ silent = {} /\ due = {}
    /\ announce = NoAnnounce
    /\ ever = {} /\ always = {} /\ named = {}

Next ==
    \/ Leave \/ Enter \/ Hear \/ StartReading \/ NameNobody \/ Name \/ Fail \/ Answer
    \/ StartPurge
    \/ \E p \in Client : Ask(p) \/ Silence(p) \/ Expire(p)

Spec == Init /\ [][Next]_vars
=============================================================================
