------------------------------- MODULE Exchange -------------------------------
(***************************************************************************)
(* Several NanoTorrent clients (PeerNode) and the network between their    *)
(* peer processes.  Datagrams are lost, repeated and overtake each other,  *)
(* a client may not hear another one that hears it, and clients stop and   *)
(* start again.                                                            *)
(*                                                                         *)
(* The address of a client stands for the client: Addr is the set of all   *)
(* clients, and nobody hears itself.  With LocalAddr = Addr all addresses  *)
(* are link-local and the clients find each other by multicast; with       *)
(* LocalAddr = {} multicasts reach nobody, and the main process connects   *)
(* clients that the tracker named.                                         *)
(*                                                                         *)
(* A pass of the process loop is one step here: what other clients do      *)
(* meanwhile reaches this one only by datagrams, whose callbacks run after *)
(* the pass.  No handler reads a timer, so an expiry is noted in the pass  *)
(* that handles it (Peer has the expiries and TIMER events as steps of     *)
(* their own, and checks that such a pass always comes: ExpirySeen).       *)
(***************************************************************************)
EXTENDS PeerNode

CONSTANTS
    Hears,      \* the clients whose datagrams can reach a client
    Start,      \* the pieces in a client's file at the start
    MaxFlight   \* datagrams under way from one client to another

ASSUME ExchangeAssumption ==
    /\ Hears \in [Addr -> SUBSET Addr]
    /\ Start \in [Addr -> SUBSET Piece]
    /\ MaxFlight \in Nat \ {0}

VARIABLES
    node,       \* the clients, PeerNode records
    net         \* datagrams under way, by sender and receiver

vars == <<node, net>>

Links == {l \in Addr \X Addr : l[1] # l[2] /\ l[1] \in Hears[l[2]]}

TypeOK ==
    /\ node \in [Addr -> NodeType]
    /\ net \in [Links -> SUBSET Message]

-----------------------------------------------------------------------------
(* The network. *)

Reaches(m, d) == m.to = d \/ (m.to = Multicast /\ d \in LocalAddr)

SentTo(out, d) == {m \in out : Reaches(m, d)}

(* A link that would hold more than MaxFlight datagrams loses the older    *)
(* ones; Lose covers every other choice.                                   *)
Queued(old, new) ==
    IF Cardinality(old \cup new) <= MaxFlight THEN old \cup new ELSE new

(* Client c becomes s and hands what it sent to the network, which holds   *)
(* flight.                                                                 *)
Transmit(c, s, flight) ==
    /\ node' = [node EXCEPT ![c] = Emptied(s)]
    /\ net' = [l \in Links |->
                IF l[1] = c THEN Queued(flight[l], SentTo(s.out, l[2]))
                ELSE flight[l]]

Lose(l) ==
    /\ \E m \in net[l] : net' = [net EXCEPT ![l] = @ \ {m}]
    /\ UNCHANGED node

(* The UDP callback of the receiver; a datagram may come once more.        *)
Deliver(l, type) ==
    \E m \in net[l] :
        /\ m.type = type
        /\ \E left \in {net[l], net[l] \ {m}} :
            \E s \in HandleMessage(node[l[2]], l[1], m) :
                Transmit(l[2], s, [net EXCEPT ![l] = left])

-----------------------------------------------------------------------------
(* A pass of the process loop, and the timers it finds expired: c's own    *)
(* heartbeat, those of the connections in silent, the retries of those in  *)
(* late.  A connection outlives three heartbeat periods of the other side: *)
(* it falls silent only where heartbeats may be lost that often.           *)

Conns(s)   == {a \in Addr : Connected(s, a)}
Waiting(s) == {a \in Addr : s.retry[a].armed}

Expired(s, beats, silent, late) ==
    [s EXCEPT !.beat  = ~beats,
              !.alive = [a \in Addr |-> s.alive[a] /\ a \notin silent],
              !.retry = [a \in Addr |-> IF a \in late THEN RetryStop(s.retry[a])
                                        ELSE s.retry[a]]]

(* The loop visits the connections in the order of its list, which can be  *)
(* any: what is left behind once those in done were visited.               *)
Visiting(s, todo) ==
    LET after[done \in SUBSET todo] ==
            IF done = {} THEN {s}
            ELSE UNION {UNION {VisitConn(t, a) : t \in after[done \ {a}]} : a \in done}
    IN after

VisitAll(s, todo) == Visiting(s, todo)[todo]

PassWith(c, beats, silent, late) ==
    \E t \in VisitAll(Expired(node[c], beats, silent, late), Conns(node[c])) :
        \E s \in FinishPass(t) : Transmit(c, s, net)

(* A pass at which the retries in due, and perhaps more timers, expired. *)
LatePass(c, due) ==
    /\ due \subseteq Waiting(node[c])
    /\ \E beats \in BOOLEAN, silent \in SUBSET Conns(node[c]),
          more \in SUBSET (Waiting(node[c]) \ due) :
        PassWith(c, beats, silent, due \cup more)

Pass(c)         == LatePass(c, {})
RetryPass(c, a) == LatePass(c, {a})
HeartbeatPass(c) == PassWith(c, TRUE, {}, {})

-----------------------------------------------------------------------------
(* The main process connects with a client that the tracker named, when    *)
(* addresses are global; local clients are found by their multicasts.      *)
Becomes(c, s) == node' = [node EXCEPT ![c] = s] /\ UNCHANGED net

Connect(c, a) ==
    /\ c # a /\ a \notin LocalAddr
    /\ ~Connected(node[c], a)
    /\ CanConnect(node[c], a, "out")
    /\ Becomes(c, ConnectWith(node[c], a, "out"))

(* Mutant: the counts of the run before are kept. *)
RestartCounted(c) ==
    \E s \in Fresh(node[c].file, node[c].pending) :
        Becomes(c, [s EXCEPT !.counts = node[c].counts])

(* nanotorrent_stop and nanotorrent_start: the file survives, and so does  *)
(* the static variable pending_pieces.                                     *)
Restart(c) ==
    \E s \in Fresh(node[c].file, node[c].pending) : Becomes(c, s)

FileWith(held) == [i \in Piece |-> IF i \in held THEN Cells(i) ELSE {}]

Init ==
    /\ node \in {f \in [Addr -> UNION {Fresh(FileWith(Start[c]), {}) : c \in Addr}] :
                    \A c \in Addr : f[c].own = Start[c]}
    /\ net = [l \in Links |-> {}]

Next ==
    \/ \E l \in Links : Lose(l) \/ \E type \in MsgType : Deliver(l, type)
    \/ \E c \in Addr : Pass(c) \/ \E a \in Addr : Connect(c, a)

Spec == Init /\ [][Next]_vars

RestartSpec == Init /\ [][Next \/ \E c \in Addr : Restart(c)]_vars

-----------------------------------------------------------------------------
Swarmed == INSTANCE Spread WITH
    Client <- Addr,
    has  <- [c \in Addr |-> node[c].own],
    seen <- [c \in Addr |-> node[c].have]

(* Whatever is lost, repeated, overheard or restarted, every step of the   *)
(* clients is a step of Spread: a client gains at most one piece, one that *)
(* another client has at that moment, loses none, and its view of another  *)
(* client (conn->have, peer.c:234) never runs ahead of what that client    *)
(* has, however old the message it came from.                              *)
PiecesSpread == Swarmed!Spec

(* No request is in vain (distribution.tex:11): a REQUEST under way asks   *)
(* its receiver for a piece that it has, also after restarts on both sides *)
(* and for requests that began with overheard data (peer.c:371-391).       *)
RequestsMeetHolders ==
    \A l \in Links : \A m \in net[l] :
        m.type = "REQUEST" => m.piece \in node[l[2]].own

(* Peer is right about its environment: whatever a datagram under way can  *)
(* do to its receiver, old, repeated or out of order, Peer's client can    *)
(* hear too: Messages leaves out nothing that these clients send.          *)
EnvironmentCovers ==
    \A l \in Links : \A m \in net[l] : \A s \in HandleMessage(node[l[2]], l[1], m) :
        Emptied(s) \in Hearing(node[l[2]], l[1])

(* The tables of a client are sound however often it was restarted, and    *)
(* whatever the others still send it from before: counts start anew with   *)
(* the connections (piece-select.c:20), verified pieces are what is in the *)
(* file (piece.c:232), requests are for missing pieces of peers known to   *)
(* have them, twice in the end game only; received bytes are where the     *)
(* offset says unless offsets wrap (piece.c:107), and a request has its    *)
(* retry unless the file could not be written.                             *)
RestartsClean ==
    \A s \in {node[c] : c \in Addr} :
        /\ CountsMatchIn(s) /\ OwnVerifiedIn(s) /\ RequestsUnheldIn(s)
        /\ NoDuplicateRequestIn(s) /\ RequestServableIn(s)
        /\ PieceLength <= OffsetRange => PrefixWrittenIn(s)
        /\ ~FlakyStorage => RequestKeptAliveIn(s)

-----------------------------------------------------------------------------
(* Fairness: heartbeats go out and retries expire, because the motes'      *)
(* clocks run; a connection outlives three heartbeat periods, so it is not *)
(* dropped before each heartbeat (strong fairness of HeartbeatPass); the   *)
(* main process connects; and of the messages that are sent again and again*)
(* some arrive.                                                            *)
Fairness ==
    /\ \A c \in Addr : \A a \in Addr \ {c} :
        WF_vars(RetryPass(c, a)) /\ WF_vars(Connect(c, a))
    /\ \A c \in Addr : SF_vars(HeartbeatPass(c))
    /\ \A l \in Links : SF_vars(Deliver(l, "HAVE"))
    /\ \A type \in {"REQUEST", "REPLY"} : SF_vars(\E l \in Links : Deliver(l, type))

FairSpec == Spec /\ Fairness

(* The event queue is not full at every heartbeat. *)
PostingSpec == FairSpec /\ \A c \in Addr : WF_vars(HeartbeatPass(c) /\ node'[c].seeded)

(* A piece that somebody has ends up with everybody, although every message*)
(* may be lost or repeated, connections are dropped and opened again, and a*)
(* dropped peer gets a HAVE after its CLOSE (peer.c:714).                  *)
AllServed == Swarmed!Distributed

(* Again and again all clients with the whole file have posted the seeding *)
(* event, although the event queue may be full when a piece completes, or  *)
(* when a pass tries to make up for it (peer.c:340-351).                   *)
SeedingAnnounced == []<>(\A c \in Addr : Seed(node[c]) => node[c].seeded)
=============================================================================
