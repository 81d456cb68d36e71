-------------------------------- MODULE Peer --------------------------------
(***************************************************************************)
(* The peer process of one NanoTorrent client (src/peer/peer.c) in an open *)
(* environment: any other peer may send any message it could have reason   *)
(* to send, at any time and in any order, so loss, duplication, reordering *)
(* and restarts of the other peers are included.                           *)
(*                                                                         *)
(* Contiki schedules cooperatively.  A UDP callback and a pass of the      *)
(* process loop each run without interruption; a timer only marks itself   *)
(* expired and queues a TIMER event, and the pass it causes runs later,    *)
(* after whatever callbacks come first.  A pass is split into one step per *)
(* connection; no other action is enabled while it lasts.                  *)
(*                                                                         *)
(* What the client sent does not matter here, since the others may send    *)
(* anything: every action hands on its result with `out' emptied.          *)
(***************************************************************************)
EXTENDS PeerNode

CONSTANT MaxEvents    \* slots of the Contiki event queue left for TIMER events

ASSUME EventsAssumption == MaxEvents \in Nat \ {0}

VARIABLES
    node,      \* the client, a PeerNode record
    inPass,    \* a pass of the process loop is running
    todo,      \* connections the pass has still to visit
    events     \* queued TIMER events

vars == <<node, inPass, todo, events>>

TypeOK ==
    /\ node \in NodeType
    /\ inPass \in BOOLEAN
    /\ todo \in SUBSET Addr
    /\ events \in 0 .. MaxEvents

-----------------------------------------------------------------------------
Init ==
    /\ \E file \in Files : node \in Fresh(file, {})
    /\ inPass = FALSE
    /\ todo = {}
    /\ events = 0

(* The UDP callback. *)
Receive(a) ==
    /\ ~inPass
    /\ node' \in Hearing(node, a)
    /\ UNCHANGED <<inPass, todo, events>>

(* The main process connects with a peer known from the swarm. *)
Connect(a) ==
    /\ ~inPass
    /\ ~Connected(node, a)
    /\ CanConnect(node, a, "out")
    /\ node' = ConnectWith(node, a, "out")
    /\ UNCHANGED <<inPass, todo, events>>

-----------------------------------------------------------------------------
(* Contiki's timers: an expiry is registered when the TIMER event fits in  *)
(* the queue, and retried otherwise.                                       *)

QueueTimerEvent ==
    /\ ~inPass
    /\ events < MaxEvents
    /\ events' = events + 1
    /\ UNCHANGED <<inPass, todo>>

ConnHeartbeatExpires(a) ==
    /\ node.alive[a]
    /\ node' = [node EXCEPT !.alive[a] = FALSE]
    /\ QueueTimerEvent

RequestTimerExpires(a) ==
    /\ node.retry[a].armed
    /\ node' = [node EXCEPT !.retry[a] = RetryStop(node.retry[a])]
    /\ QueueTimerEvent

HeartbeatExpires ==
    /\ node.beat
    /\ node' = [node EXCEPT !.beat = FALSE]
    /\ QueueTimerEvent

-----------------------------------------------------------------------------
(* A pass of the process loop. *)

StartPass ==
    /\ ~inPass
    /\ events > 0
    /\ events' = events - 1
    /\ inPass' = TRUE
    /\ todo' = {a \in Addr : Connected(node, a)}
    /\ UNCHANGED node

Visit(a) ==
    /\ inPass
    /\ a \in todo
    /\ \E s \in VisitConn(node, a) : node' = Emptied(s)
    /\ todo' = todo \ {a}
    /\ UNCHANGED <<inPass, events>>

EndPass ==
    /\ inPass
    /\ todo = {}
    /\ \E s \in FinishPass(node) : node' = Emptied(s)
    /\ inPass' = FALSE
    /\ UNCHANGED <<todo, events>>

-----------------------------------------------------------------------------
Timers == \/ HeartbeatExpires
          \/ \E a \in Addr : ConnHeartbeatExpires(a) \/ RequestTimerExpires(a)

Pass == StartPass \/ EndPass \/ \E a \in Addr : Visit(a)

Next ==
    \/ \E a \in Addr : Receive(a) \/ Connect(a)
    \/ Timers
    \/ Pass

Spec == Init /\ [][Next]_vars

(* nanotorrent_stop followed by nanotorrent_start: the file survives, and  *)
(* so does the static variable pending_pieces.  Queued TIMER events reach  *)
(* the new process.                                                        *)
Restart ==
    /\ ~inPass
    /\ node' \in Fresh(node.file, node.pending)
    /\ UNCHANGED <<inPass, todo, events>>

RestartSpec == Init /\ [][Next \/ Restart]_vars

-----------------------------------------------------------------------------
(* Pending pieces are exactly the pieces some connection requests: the     *)
(* shared variable of peer.c:35 never lets a request be forgotten (the     *)
(* piece would be locked) nor leaks one (find_request would return NULL).  *)
PendingMatches == PendingMatchesIn(node)

(* Two connections request the same piece only in end-game mode            *)
(* (piece-select.c:43-64), whichever way the requests came about.          *)
NoDuplicateRequest == NoDuplicateRequestIn(node)

(* A request is held by an open connection, for a piece that is still      *)
(* missing: completing a piece on one connection cancels it on all others  *)
(* (peer.c:416).                                                           *)
RequestsUnheld == RequestsUnheldIn(node)

(* A piece is only requested from a peer known to have it, also when the   *)
(* request was created for overheard data (peer.c:371-391).                *)
RequestServable == RequestServableIn(node)

(* piece_counts is the number of open connections with the piece, through  *)
(* every accept, update and removal (piece-select.c:24-41); in particular  *)
(* the uint8_t never wraps below zero.                                     *)
CountsMatch == CountsMatchIn(node)

(* What is announced and served was verified: each piece of own_have is    *)
(* complete in the file.                                                   *)
OwnVerified == OwnVerifiedIn(node)

(* The bytes below the offset of a request are in the file, although data  *)
(* may have come from several peers, twice, or out of order: a piece whose *)
(* last byte arrives is complete.                                          *)
PrefixWritten == PrefixWrittenIn(node)

(* A request always has its retry (peer.c:386): started for this request,  *)
(* and either waiting for its timer or due in the next pass.               *)
RequestKeptAlive == RequestKeptAliveIn(node)

(* A timer that expired is not forgotten: while one waits to be handled, a *)
(* TIMER event is queued or a pass is under way that will still see it.    *)
ExpirySeen ==
    (\/ ~node.beat
     \/ \E a \in Addr : Connected(node, a) /\ ~node.alive[a])
        => events > 0 \/ inPass

(* A pass leaves no silent connection behind, not even one that owes a     *)
(* piece (peer.c:708-712): with ExpirySeen, a peer that vanished loses its *)
(* slot and its request in the end.                                        *)
SilentDropped ==
    inPass => \A a \in Addr \ todo : Connected(node, a) => node.alive[a]

(* A verified piece stays verified: late data, duplicates and end-game     *)
(* rivals (peer.c:593-625) do not make the client verify a piece again that*)
(* it holds, which would clear its bit whenever reading it fails.          *)
VerifiedForever ==
    [][KeepsVerified(node, node')]_vars

(* A request loses received bytes only by giving up after the last retry,  *)
(* or when all of them have come but the piece could not be verified       *)
(* (peer.c:418-428): old and repeated data never moves it back.            *)
NoBacktracking ==
    [][\A a \in Addr :
        node.request[a] # NoPiece /\ node'.request[a] = node.request[a]
        /\ node'.offset[a] < node.offset[a]
            => \/ node.retry[a].num = MaxRetries
               \/ Cells(node.request[a]) \subseteq node'.file[node.request[a]]]_vars

=============================================================================
