------------------------------- MODULE SwarmNode -------------------------------
(***************************************************************************)
(* What the swarm process (src/peer/swarm.c) of one client does with the   *)
(* state its handlers share.  The module has no variables: the state is a  *)
(* record (ClientType), and a handler that may post an event returns the   *)
(* SET of records it can leave behind, which differ in whether the event   *)
(* got into Contiki's queue.  Swarm puts the process next to the main      *)
(* process, Membership next to the tracker and the clock.                  *)
(*                                                                         *)
(* Fields of a client                                                      *)
(*   state   swarm_state                                                   *)
(*   retry   announce_retry                                                *)
(*   event   announce_retry_event                                          *)
(*   refresh the refresh timer is running                                  *)
(*   known   the `peers' list of swarm.c, head first                       *)
(*   inbox   events queued for the main process                            *)
(*   main    where the main process waits                                  *)
(*   sent    announce events transmitted by the last step                  *)
(*   lost    process_post has found Contiki's queue full (history)         *)
(***************************************************************************)
EXTENDS Naturals, Sequences, FiniteSets, Retry

CONSTANTS
    Peers,          \* addresses of the other peers
    MaxSwarmPeers,  \* NANOTORRENT_MAX_SWARM_PEERS
    MaxRetries      \* NANOTORRENT_MAX_ANNOUNCE_RETRIES

ASSUME PeersAssumption == IsFiniteSet(Peers)
ASSUME AnnounceAssumption ==
    MaxSwarmPeers \in Nat \ {0} /\ MaxRetries \in Nat \ {0}

SwarmState == {"INIT", "LEFT", "JOINING", "JOINED"}

(* Of the announce events, STOPPED and COMPLETED are never sent: nothing   *)
(* calls nanotorrent_swarm_leave and nanotorrent_swarm_complete.           *)
AnnounceEvent == {"REFRESH", "STARTED"}

ClientType ==
    [state    : SwarmState,
     retry    : RetryRecord(MaxRetries),
     event    : AnnounceEvent,
     refresh  : BOOLEAN,
     known    : Seq(Peers),
     inbox    : Seq({"swarm", "peer", "timer"}),
     main     : {"waitJoining", "waitJoined", "exchange", "exited"},
     sent     : SUBSET AnnounceEvent,
     lost     : BOOLEAN]

-----------------------------------------------------------------------------
(* process_post to the main process; nothing is delivered once it exited.  *)
(* When the queue is full the event is dropped, and nobody looks.          *)
Post(c, e) ==
    IF c.main = "exited" THEN {c}
    ELSE {[c EXCEPT !.inbox = Append(c.inbox, e)], [c EXCEPT !.lost = TRUE]}

AnnounceSend(c, e) == [c EXCEPT !.sent = c.sent \cup {e}]

(* retry_start transmits at once through the again callback. *)
AnnounceStart(c, e) ==
    AnnounceSend([c EXCEPT !.event = e,
                           !.retry = RetryStart(c.retry, MaxRetries)], e)

(* Mutant: the event outlives the retry. *)
AnnounceStopTimer(c) == [c EXCEPT !.retry = RetryStop(c.retry)]

(* announce_retry_event = 0 is NANOTRACKER_ANNOUNCE_REFRESH. *)
AnnounceStop(c) == [c EXCEPT !.event = "REFRESH", !.retry = RetryStop(c.retry)]

LeaveQuiet(c) ==
    AnnounceStop([c EXCEPT !.state = "LEFT", !.known = <<>>, !.refresh = FALSE])

(* Mutant: leaves without telling the main process. *)
ForceLeaveSilent(c) == {LeaveQuiet(c)}

ForceLeave(c) ==
    IF c.state = "JOINED" THEN Post(LeaveQuiet(c), "swarm") ELSE {LeaveQuiet(c)}

Join(c) == Post([AnnounceStart(c, "STARTED") EXCEPT !.state = "JOINING"], "swarm")

(* Mutant: gives up without leaving. *)
ProcessRetryOnly(c) ==
    LET t == [c EXCEPT !.retry = RetryNext(c.retry)]
    IN IF ~RetryDue(c.retry) THEN {c}
       ELSE IF WillTryAgain(c.retry) THEN {AnnounceSend(t, c.event)} ELSE {t}

(* nanotorrent_retry_process with the two callbacks of swarm.c. *)
ProcessRetry(c) ==
    LET t == [c EXCEPT !.retry = RetryNext(c.retry)]
    IN IF ~RetryDue(c.retry) THEN {c}
       ELSE IF WillTryAgain(c.retry) THEN {AnnounceSend(t, c.event)}
       ELSE ForceLeave(t)

(* The part of the joined loop after the retries. *)
RefreshWhenDue(c) ==
    IF c.refresh THEN c
    ELSE IF c.state = "JOINED"
    THEN AnnounceStart([c EXCEPT !.refresh = TRUE], "REFRESH")
    ELSE [c EXCEPT !.refresh = TRUE]

MinOf(m, n) == IF m <= n THEN m ELSE n

(* The peers of a reply: no one twice, at most the number asked for. *)
Replies ==
    {q \in UNION {[1 .. n -> Peers] : n \in 0 .. MinOf(MaxSwarmPeers, Cardinality(Peers))} :
        \A i, j \in DOMAIN q : i # j => q[i] # q[j]}

(* list_push puts a peer at the head of the list. *)
Pushed(q) == [i \in 1 .. Len(q) |-> q[Len(q) + 1 - i]]

(* Mutant: the refresh timer is not started. *)
HandleReplyUntimed(c, q) ==
    LET t == AnnounceStop([c EXCEPT !.known = Pushed(q)])
    IN Post([t EXCEPT !.state = "JOINED"], "swarm")

(* Mutant: the old list is not cleared. *)
HandleReplyGrowing(c, q) ==
    LET t == AnnounceStop([c EXCEPT !.known = Pushed(q) \o c.known, !.refresh = TRUE])
    IN Post([t EXCEPT !.state = "JOINED"], "swarm")

(* handle_reply: handle_join or handle_refresh, as the event that is being *)
(* retried says.                                                           *)
HandleReply(c, q) ==
    LET t == AnnounceStop([c EXCEPT !.known = Pushed(q), !.refresh = TRUE])
    IN IF c.event = "STARTED" THEN Post([t EXCEPT !.state = "JOINED"], "swarm")
       ELSE Post(t, "swarm")

(* swarm_init, before the main process waits for the first time. *)
Begun ==
    LeaveQuiet([state |-> "INIT", retry |-> RetryInit, event |-> "REFRESH",
                refresh |-> FALSE, known |-> <<>>, inbox |-> <<>>,
                main |-> "waitJoining", sent |-> {}, lost |-> FALSE])

-----------------------------------------------------------------------------
(* The process's two loops after the address is known: which part runs     *)
(* when an event is delivered at pc, and what the third loop does.  After a*)
(* reply, which stops the announce retry, the retry is due at once, since a*)
(* stopped timer counts as expired.                                        *)

LoopsJoining(pc, c) == pc = "joining" /\ RetryDue(c.retry) /\ c.state # "JOINED"

JoinedLoopWakes(pc, c) == pc = "joined" /\ (RetryDue(c.retry) \/ ~c.refresh)

LoopsJoined(pc, c) ==
    /\ \/ pc = "joining" /\ RetryDue(c.retry)
       \/ JoinedLoopWakes(pc, c)
    /\ c.state = "JOINED"

LoopEnds(pc, c) == JoinedLoopWakes(pc, c) /\ c.state # "JOINED"

JoinedRound(c) == {RefreshWhenDue(t) : t \in ProcessRetry(c)}
=============================================================================
