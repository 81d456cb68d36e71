-------------------------------- MODULE Swarm --------------------------------
(***************************************************************************)
(* The swarm process (src/peer/swarm.c, see SwarmNode) and the main process*)
(* (src/peer/nanotorrent.c) of one client, and the event queue between     *)
(* them.  The tracker is an open environment: once a request was sent, a   *)
(* reply with any list of peers may arrive at any time, late, repeated or  *)
(* never.  The peer process shows as the connections it opens and drops.   *)
(*                                                                         *)
(* The two processes are protothreads: each runs from one                  *)
(* PROCESS_WAIT_EVENT_UNTIL to the next without interruption, when an      *)
(* event is delivered to it and its condition holds.                       *)
(***************************************************************************)
EXTENDS SwarmNode

CONSTANTS
    MaxIn, MaxOut,  \* NANOTORRENT_MAX_IN_PEERS, NANOTORRENT_MAX_OUT_PEERS
    MaxInbox        \* bound on the events queued for the main process

ASSUME PoolAssumption ==
    MaxIn \in Nat /\ MaxOut \in Nat /\ MaxInbox \in Nat \ {0}

VARIABLES
    client,      \* what the handlers share
    swarmPc,     \* where the swarm process waits
    ready,       \* the poll timer for the global address is running
    tick,        \* some TIMER event is queued for the swarm process
    asked,       \* a request was sent on the socket: a reply may arrive
    conns,       \* connections of the peer process, and their pool
    seed,        \* nanotorrent_piece_is_seed
    seedTimer    \* "unset", or whether the seed timer runs

swarmVars == <<swarmPc, ready, tick>>
peerVars  == <<conns, seed>>
vars      == <<client, swarmVars, asked, peerVars, seedTimer>>

TypeOK ==
    /\ client \in ClientType
    /\ Len(client.known) <= MaxSwarmPeers
    /\ swarmPc \in {"waitReady", "joining", "joined", "ended"}
    /\ ready \in BOOLEAN
    /\ tick \in BOOLEAN
    /\ asked \in BOOLEAN
    /\ conns \in [Peers -> {"none", "in", "out"}]
    /\ seed \in BOOLEAN
    /\ seedTimer \in {"unset", "running", "expired"}

-----------------------------------------------------------------------------
(* nanotorrent.c *)

(* nanotorrent_connect_swarm pops peers from the list for as long as they  *)
(* are connected already or get a slot of the outgoing pool.               *)
FreeOut == MaxOut - Cardinality({p \in Peers : conns[p] = "out"})

Unconnected(q, n) == {q[i] : i \in 1 .. n} \cap {p \in Peers : conns[p] = "none"}

(* Mutant: one peer per event, connected already or not. *)
PoppedOne(q) == IF q # <<>> /\ FreeOut > 0 THEN 1 ELSE 0

Popped(q) ==
    CHOOSE n \in 0 .. Len(q) :
        /\ Cardinality(Unconnected(q, n)) <= FreeOut
        /\ n < Len(q) => Cardinality(Unconnected(q, n + 1)) > FreeOut

ConnectSwarm(c) ==
    LET n == Popped(c.known)
    IN /\ client' = [c EXCEPT !.known = SubSeq(c.known, n + 1, Len(c.known))]
       /\ conns' = [p \in Peers |-> IF p \in Unconnected(c.known, n) THEN "out"
                                    ELSE conns[p]]

Exit(c) ==
    /\ client' = [c EXCEPT !.main = "exited", !.inbox = <<>>]
    /\ UNCHANGED <<conns, seedTimer>>

(* keep_going starts the seed timer of a seed. *)
KeepGoing  == ~(seed /\ seedTimer = "expired")
SeedTiming == seedTimer' = IF seed /\ seedTimer = "unset" THEN "running" ELSE seedTimer

(* Mutant: goes on without looking at the swarm's state. *)
ExchangeRoundDeaf(c, e) ==
    IF KeepGoing
    THEN /\ IF e \in {"swarm", "peer"} THEN ConnectSwarm(c)
            ELSE client' = c /\ UNCHANGED conns
         /\ SeedTiming
    ELSE Exit(c)

(* One round of the loop that exchanges pieces, for event e. *)
ExchangeRound(c, e) ==
    IF KeepGoing /\ (e = "swarm" => c.state = "JOINED")
    THEN /\ IF e \in {"swarm", "peer"} THEN ConnectSwarm(c)
            ELSE client' = c /\ UNCHANGED conns
         /\ SeedTiming
    ELSE Exit(c)

Idle(c) == client' = c /\ UNCHANGED <<conns, seedTimer>>

(* What the main process does with an event, by the place where it waits.  *)
WaitJoining(c, e) ==
    /\ c.main = "waitJoining"
    /\ IF e # "swarm" THEN Idle(c)
       ELSE IF c.state = "JOINING" THEN Idle([c EXCEPT !.main = "waitJoined"])
       ELSE Exit(c)

(* nanotorrent_connect_swarm runs before the loop and, since ev is still   *)
(* the swarm event, in its first round too; the second call finds nothing  *)
(* more to connect.                                                        *)
WaitJoined(c, e) ==
    /\ c.main = "waitJoined"
    /\ IF e # "swarm" THEN Idle(c)
       ELSE IF c.state = "JOINED" THEN ExchangeRound([c EXCEPT !.main = "exchange"], e)
       ELSE Exit(c)

Exchange(c, e) ==
    /\ c.main = "exchange"
    /\ IF e \in {"swarm", "peer"} \/ seedTimer = "expired" THEN ExchangeRound(c, e)
       ELSE Idle(c)

-----------------------------------------------------------------------------
Quiet == [client EXCEPT !.sent = {}]
(* Bounds what the environment may queue on top of what is not handled yet.*)
Room  == Len(client.inbox) < MaxInbox

AskedNow == asked' = (asked \/ client'.sent # {})

(* An event is delivered to the main process. *)
MainHandles ==
    /\ client.inbox # <<>>
    /\ LET c == [Quiet EXCEPT !.inbox = Tail(client.inbox)]
           e == Head(client.inbox)
       IN WaitJoining(c, e) \/ WaitJoined(c, e) \/ Exchange(c, e)
    /\ UNCHANGED <<swarmVars, asked, seed>>

SeedTimerExpires ==
    /\ seedTimer = "running"
    /\ seedTimer' = "expired"
    /\ client' = IF client.main = "exited" THEN Quiet
                 ELSE [Quiet EXCEPT !.inbox = Append(client.inbox, "timer")]
    /\ UNCHANGED <<swarmVars, asked, peerVars>>

-----------------------------------------------------------------------------
(* The swarm process, from one wait to the next. *)

(* The first loop, which polls for a global address. *)
PollAddress ==
    /\ swarmPc = "waitReady" /\ ~ready
    /\ ready' = TRUE
    /\ client' = Quiet
    /\ UNCHANGED swarmPc

JoinWhenReady ==
    /\ swarmPc = "waitReady" /\ ~ready
    /\ swarmPc' = "joining"
    /\ client' \in Join([Quiet EXCEPT !.state = "LEFT"])
    /\ UNCHANGED ready

(* The second loop, which retries the STARTED request. *)
RetryJoin ==
    /\ LoopsJoining(swarmPc, client)
    /\ client' \in ProcessRetry(Quiet)
    /\ UNCHANGED <<swarmPc, ready>>

(* The third loop, and what follows it. *)
KeepJoined ==
    /\ LoopsJoined(swarmPc, client)
    /\ client' \in JoinedRound(Quiet)
    /\ swarmPc' = "joined"
    /\ UNCHANGED ready

EndSwarm ==
    /\ LoopEnds(swarmPc, client)
    /\ swarmPc' = "ended"
    /\ client' = Quiet
    /\ UNCHANGED ready

(* The condition it waits for does not hold. *)
KeepWaiting ==
    /\ CASE swarmPc = "waitReady" -> ready
         [] swarmPc = "joining"   -> ~RetryDue(client.retry)
         [] swarmPc = "joined"    -> ~JoinedLoopWakes(swarmPc, client)
         [] OTHER                 -> TRUE
    /\ client' = Quiet
    /\ UNCHANGED <<swarmPc, ready>>

SwarmRuns ==
    /\ PollAddress \/ JoinWhenReady \/ RetryJoin \/ KeepJoined \/ EndSwarm \/ KeepWaiting
    /\ AskedNow
    /\ UNCHANGED <<peerVars, seedTimer>>

(* The TIMER events are delivered; or an event that every process gets:    *)
(* nanotorrent_seeding_event, or the exit of some other process.           *)
SwarmTick  == tick /\ tick' = FALSE /\ SwarmRuns
SwarmWoken == UNCHANGED tick /\ swarmPc # "ended" /\ SwarmRuns

-----------------------------------------------------------------------------
(* The swarm process's timers; a TIMER event is never lost. *)
Tick ==
    /\ swarmPc # "ended"
    /\ tick' = TRUE
    /\ UNCHANGED <<swarmPc, asked, peerVars, seedTimer>>

PollExpires ==
    /\ ready
    /\ ready' = FALSE
    /\ client' = Quiet
    /\ Tick

RetryExpires ==
    /\ client.retry.armed
    /\ client' = [Quiet EXCEPT !.retry = RetryStop(client.retry)]
    /\ UNCHANGED ready
    /\ Tick

RefreshExpires ==
    /\ client.refresh
    /\ client' = [Quiet EXCEPT !.refresh = FALSE]
    /\ UNCHANGED ready
    /\ Tick

-----------------------------------------------------------------------------
(* The tracker and the peer process. *)

Reply ==
    /\ asked /\ Room
    /\ \E q \in Replies : client' \in HandleReply(Quiet, q)
    /\ UNCHANGED <<swarmVars, asked, peerVars, seedTimer>>

SlotFree(pool) ==
    Cardinality({p \in Peers : conns[p] = pool}) < IF pool = "in" THEN MaxIn ELSE MaxOut

(* Until Stop, which also closes both sockets. *)
PeerRuns == client.main # "exited" \/ swarmPc # "ended" \/ asked

(* Another peer was accepted, or overheard. *)
OpenConn(p) ==
    /\ PeerRuns
    /\ conns[p] = "none"
    /\ \E pool \in {"in", "out"} : SlotFree(pool) /\ conns' = [conns EXCEPT ![p] = pool]
    /\ client' = Quiet
    /\ UNCHANGED <<swarmVars, asked, seed, seedTimer>>

(* nanotorrent_peer_force_disconnect_conn *)
DropConn(p) ==
    /\ conns[p] # "none" /\ Room
    /\ conns' = [conns EXCEPT ![p] = "none"]
    /\ client' \in Post(Quiet, "peer")
    /\ UNCHANGED <<swarmVars, asked, seed, seedTimer>>

(* receive_data completes a piece, which may be the last. *)
CompletePiece ==
    /\ PeerRuns /\ ~seed /\ Room
    /\ seed' \in BOOLEAN
    /\ client' \in Post(Quiet, "peer")
    /\ UNCHANGED <<swarmVars, asked, conns, seedTimer>>

(* nanotorrent_stop while the main process runs: its exit handler stops    *)
(* the other processes; swarm_shutdown leaves without an announce, and the *)
(* event it posts has no receiver any more.                                *)
Stop ==
    /\ client.main # "exited"
    /\ client' = [LeaveQuiet(Quiet) EXCEPT !.main = "exited", !.inbox = <<>>]
    /\ swarmPc' = "ended"
    /\ asked' = FALSE
    /\ conns' = [p \in Peers |-> "none"]
    /\ UNCHANGED <<ready, tick, seed, seedTimer>>

-----------------------------------------------------------------------------
(* nanotorrent_init up to the first wait of each process: swarm_init, and  *)
(* the join when there already is a global address.                        *)
Init ==
    /\ \/ /\ swarmPc = "waitReady" /\ ready = TRUE
          /\ client = [Begun EXCEPT !.state = "INIT"]
       \/ /\ swarmPc = "joining" /\ ready = TRUE
          /\ client \in Join(Begun)
    /\ tick = FALSE
    /\ asked = (client.sent # {})
    /\ conns = [p \in Peers |-> "none"]
    /\ seed \in BOOLEAN
    /\ seedTimer = "unset"

Timers == PollExpires \/ RetryExpires \/ RefreshExpires \/ SeedTimerExpires

Next ==
    \/ MainHandles \/ SwarmTick \/ SwarmWoken \/ Timers
    \/ Reply \/ CompletePiece \/ Stop
    \/ \E p \in Peers : OpenConn(p) \/ DropConn(p)

Spec == Init /\ [][Next]_vars

-----------------------------------------------------------------------------
(* The announce event that is retried tells the states apart that a reply  *)
(* must tell apart: a reply taken for a refresh while the client is joining*)
(* would never make it a member (swarm.c:335-349).                         *)
EventTellsState == client.event = "STARTED" <=> client.state = "JOINING"

(* The swarm process sleeps until an event: as long as the client joins or *)
(* is a member, a timer runs or a TIMER event is queued, whatever replies, *)
(* stale TIMER events and wake-ups came before (swarm.c:371-390).          *)
SwarmDriven ==
    client.state \in {"JOINING", "JOINED"} =>
        client.retry.armed \/ client.refresh \/ tick

(* The list of known peers is kept to replace lost connections: while a    *)
(* slot of the outgoing pool is free and a peer is known, an event that    *)
(* makes the main process connect is queued (nanotorrent.c:166-177),       *)
(* unless a full queue dropped it.                                         *)
ReplacementPending ==
    client.main = "exchange" /\ client.known # <<>> /\ FreeOut > 0 =>
        \/ \E i \in 1 .. Len(client.inbox) : client.inbox[i] \in {"swarm", "peer"}
        \/ client.lost

(* The main process exchanges pieces as a member, or will learn that it is *)
(* none (nanotorrent.c:83-86), unless a full queue dropped the event.      *)
LossPending ==
    client.main = "exchange" =>
        \/ client.state = "JOINED"
        \/ \E i \in 1 .. Len(client.inbox) : client.inbox[i] = "swarm"
        \/ client.lost

-----------------------------------------------------------------------------
(* Fairness: the clock runs, so timers that run expire, and the scheduler  *)
(* delivers queued events.  Nothing is assumed of the tracker, of the      *)
(* network or of the other peers.                                          *)
Fairness ==
    /\ WF_vars(MainHandles) /\ WF_vars(SwarmTick)
    /\ WF_vars(PollExpires) /\ WF_vars(RetryExpires)
    /\ WF_vars(RefreshExpires) /\ WF_vars(SeedTimerExpires)

FairSpec == Spec /\ Fairness

(* A main process that exchanges pieces ends when the swarm was lost, if no*)
(* event was dropped.                                                      *)
LossHandled ==
    client.main = "exchange" /\ client.state = "LEFT"
        ~> client.main = "exited" \/ client.lost
=============================================================================
