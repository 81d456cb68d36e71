------------------------------ MODULE Membership ------------------------------
(***************************************************************************)
(* How long a client stays in the tracker's table: the swarm process of one*)
(* client (SwarmNode), the tracker's entry for it, the network between     *)
(* them, and the clocks of both.                                           *)
(*                                                                         *)
(* Time advances in units of which a datagram takes less than one: what is *)
(* under way is delivered, perhaps twice, or lost before the next.  So no  *)
(* reply comes when the client has given up, which is a timeout after its  *)
(* last try.  Timers are urgent: time does not advance past one that has   *)
(* run out.  Between two of its timers the swarm process may be woken, at  *)
(* any time, by an event for all processes (nanotorrent_seeding_event, the *)
(* exit of one).                                                           *)
(*                                                                         *)
(* Other clients have entries of their own, and show here only as peers in *)
(* replies, which Swarm has and this module leaves out.  Of the main       *)
(* process, which Swarm has too, only its end matters.  The entry's races  *)
(* with the purge are Tracker's: here each announce and each purge is one  *)
(* step.                                                                   *)
(***************************************************************************)
EXTENDS SwarmNode

CONSTANTS
    RetryTimeout,   \* NANOTORRENT_ANNOUNCE_RETRY_TIMEOUT
    RefreshPeriod,  \* NANOTORRENT_ANNOUNCE_REFRESH_PERIOD
    MaxAge,         \* MAX_PEER_AGE
    PurgePeriod,    \* PURGE_PERIOD
    Woken,          \* whether events for all processes come at any time
    Repeats         \* whether datagrams may be delivered twice

ASSUME ClockAssumption ==
    /\ RetryTimeout \in Nat \ {0} /\ RefreshPeriod \in Nat \ {0}
    /\ MaxAge \in Nat \ {0} /\ PurgePeriod \in Nat \ {0}
    /\ RefreshPeriod <= MaxAge
    /\ Woken \in BOOLEAN /\ Repeats \in BOOLEAN

VARIABLES
    client,     \* the client, of SwarmNode's ClientType
    swarmPc,    \* where the swarm process waits
    left,       \* time until the announce retry and the refresh timer expire
    net,        \* announces and a reply under way
    tracked,    \* the client is in the tracker's table
    age,        \* time since its lastAnnounceTime (0 when not tracked)
    purgeIn,    \* time until the tracker's next purge
    answered,   \* a reply came since the announces were last begun (history)
    missed      \* announces lost since one arrived, up to Misses (history)

clientVars  == <<client, swarmPc, left, answered>>
trackerVars == <<tracked, age, purgeIn>>
vars        == <<clientVars, trackerVars, net, missed>>

(* The time of the (n+1)-th transmission: exponential back-off. *)
BackOff(n) == RetryTimeout * 2 ^ n

(* The announces that a member sends, at least, until it looks old. *)
Misses == (MaxAge \div RefreshPeriod - 1) * MaxRetries

TypeOK ==
    /\ client \in ClientType
    /\ swarmPc \in {"joining", "joined", "ended", "stopped"}
    /\ left \in [retry : 0 .. BackOff(MaxRetries - 1), refresh : 0 .. RefreshPeriod]
    /\ net \subseteq AnnounceEvent \cup {"reply"}
    /\ tracked \in BOOLEAN
    /\ age \in Nat /\ (tracked \/ age = 0)
    /\ purgeIn \in 0 .. PurgePeriod
    /\ answered \in BOOLEAN
    /\ missed \in 0 .. Misses

-----------------------------------------------------------------------------
(* The client. *)

(* The main process takes what is posted to it, or the event is lost.  *)
Handled(c) == [c EXCEPT !.inbox = <<>>, !.lost = FALSE]

(* Mutant: the back-off doubles once too often. *)
RetryLeftLate(c) == BackOff(c.retry.num)

(* What nanotorrent_retry_next set the timer to, num_retries ago. *)
RetryLeft(c) == BackOff(c.retry.num - 1)

(* What was delivered may come again.  *)
Repeated(flight) == IF Repeats THEN {flight} ELSE {}

(* Every transmission sets the retry timer; the refresh timer is set when  *)
(* renewed holds.                                                          *)
Timed(c, renewed) ==
    [retry   |-> IF ~c.retry.armed THEN 0
                 ELSE IF c.sent # {} THEN RetryLeft(c) ELSE left.retry,
     refresh |-> IF ~c.refresh THEN 0
                 ELSE IF renewed THEN RefreshPeriod ELSE left.refresh]

Becomes(c, renewed) ==
    /\ client' = Handled([c EXCEPT !.sent = {}])
    /\ left' = Timed(c, renewed)
    /\ net' = net \cup c.sent

(* nanotorrent_retry_start counts from 0 and transmits at once. *)
Begins(c) == c.sent # {} /\ c.retry.num = 1

(* The timers that have run out no longer run. *)
Expired ==
    [client EXCEPT
        !.retry   = IF client.retry.armed /\ left.retry = 0 THEN RetryStop(client.retry)
                    ELSE client.retry,
        !.refresh = client.refresh /\ left.refresh # 0]

(* The swarm process gets an event: of a timer, or one for all processes. *)
Loop(pc, rounds) ==
    /\ swarmPc' = pc
    /\ \E c \in rounds :
        /\ Becomes(c, c.refresh /\ ~Expired.refresh)
        /\ answered' = (answered /\ ~Begins(c))

SwarmRuns ==
    /\ Woken \/ Expired # client
    /\ \/ LoopsJoining(swarmPc, Expired) /\ Loop("joining", ProcessRetry(Expired))
       \/ LoopsJoined(swarmPc, Expired) /\ Loop("joined", JoinedRound(Expired))
       \/ LoopEnds(swarmPc, Expired) /\ Loop("ended", {Expired})
    /\ UNCHANGED <<trackerVars, missed>>

HandleTimer == Expired # client /\ SwarmRuns

(* The UDP callback; the exit handler closes the socket. *)
ReceiveReply ==
    /\ "reply" \in net /\ swarmPc # "stopped"
    /\ \E c \in HandleReply(client, <<>>) :
        /\ client' = Handled(c)
        /\ left' = Timed(c, TRUE)
    /\ answered' = TRUE
    /\ net' \in {net \ {"reply"}} \cup Repeated(net)
    /\ UNCHANGED <<swarmPc, trackerVars, missed>>

(* The main process ends by itself, because the time to seed is over or the*)
(* swarm was lost.  Its exit handler does not run, so the swarm process    *)
(* goes on.                                                                *)
MainEnds ==
    /\ client.main # "exited"
    /\ client' = [client EXCEPT !.main = "exited"]
    /\ UNCHANGED <<swarmPc, left, answered, trackerVars, net, missed>>

(* nanotorrent_stop: the exit handlers run, and no STOPPED is announced. *)
Stop ==
    /\ client.main # "exited"
    /\ client' = [LeaveQuiet(client) EXCEPT !.main = "exited"]
    /\ swarmPc' = "stopped"
    /\ left' = [retry |-> 0, refresh |-> 0]
    /\ UNCHANGED <<answered, trackerVars, net, missed>>

(* nanotorrent_start, when both processes have ended.  *)
Start ==
    /\ client.main = "exited" /\ swarmPc \in {"ended", "stopped"}
    /\ \E c \in Join(Begun) : Becomes(c, FALSE)
    /\ swarmPc' = "joining"
    /\ answered' = FALSE
    /\ UNCHANGED <<trackerVars, missed>>

-----------------------------------------------------------------------------
(* The network and the tracker. *)

Lose(m) ==
    /\ m \in net
    /\ net' = net \ {m}
    /\ missed' = IF m # "reply" /\ missed < Misses THEN missed + 1 ELSE missed
    /\ UNCHANGED <<clientVars, trackerVars>>

(* Mutant: a peer that is not in the table has to announce STARTED. *)
HandleAnnounceKnown(e) ==
    /\ e \in net \cap AnnounceEvent
    /\ tracked \/ e = "STARTED"
    /\ tracked' = TRUE
    /\ age' = 0
    /\ missed' = 0
    /\ net' \in {(net \ {e}) \cup {"reply"}} \cup Repeated(net \cup {"reply"})
    /\ UNCHANGED <<clientVars, purgeIn>>

(* handleAnnounceRequest: whatever the event, an unknown peer is added.    *)
HandleAnnounce(e) ==
    /\ e \in net \cap AnnounceEvent
    /\ tracked' = TRUE
    /\ age' = 0
    /\ missed' = 0
    /\ net' \in {(net \ {e}) \cup {"reply"}} \cup Repeated(net \cup {"reply"})
    /\ UNCHANGED <<clientVars, purgeIn>>

(* Mutant: old peers are logged and not removed. *)
KeptLogged == tracked

(* purgePeers removes the entry when lastAnnounceTime is before minTime. *)
Kept == tracked /\ age <= MaxAge

Purge ==
    /\ purgeIn = 0
    /\ purgeIn' = PurgePeriod
    /\ tracked' = Kept
    /\ age' = IF Kept THEN age ELSE 0
    /\ UNCHANGED <<clientVars, net, missed>>

(* The table is in memory only. *)
RestartTracker ==
    /\ tracked' = FALSE
    /\ age' = 0
    /\ purgeIn' = PurgePeriod
    /\ UNCHANGED <<clientVars, net, missed>>

-----------------------------------------------------------------------------
Running(on, time) == on => time > 0

Elapsed(on, time) == IF on THEN time - 1 ELSE time

Advance ==
    /\ net = {} /\ purgeIn > 0
    /\ Running(client.retry.armed, left.retry)
    /\ Running(client.refresh, left.refresh)
    /\ left' = [retry   |-> Elapsed(client.retry.armed, left.retry),
                refresh |-> Elapsed(client.refresh, left.refresh)]
    /\ age' = IF tracked THEN age + 1 ELSE age
    /\ purgeIn' = purgeIn - 1
    /\ UNCHANGED <<client, swarmPc, answered, tracked, net, missed>>

Init ==
    /\ \E c \in Join(Begun) :
        /\ client = Handled([c EXCEPT !.sent = {}])
        /\ left = [retry |-> RetryLeft(c), refresh |-> 0]
        /\ net = c.sent
    /\ swarmPc = "joining"
    /\ tracked = FALSE /\ age = 0
    /\ purgeIn \in 0 .. PurgePeriod
    /\ answered = FALSE
    /\ missed = 0

Next ==
    \/ SwarmRuns \/ ReceiveReply \/ MainEnds \/ Stop \/ Start
    \/ \E m \in AnnounceEvent \cup {"reply"} : Lose(m)
    \/ \E e \in AnnounceEvent : HandleAnnounce(e)
    \/ Purge \/ RestartTracker \/ Advance

Spec == Init /\ [][Next]_vars

-----------------------------------------------------------------------------
(* A client that stops is not announced as STOPPED (nanotorrent.c:129), and*)
(* one that crashes or loses its network is not either: the tracker forgets*)
(* each of them in the end, MaxAge and one purge after it last heard of it.*)
ForgottenInTime == tracked => age <= MaxAge + PurgePeriod

(* A member looks old to the tracker, and may be purged, only after so many*)
(* announces in a row were lost: lost replies, stale retries and wake-ups  *)
(* do not make it announce itself less (implementation.tex:79).            *)
OldOnlyUnheard ==
    client.state = "JOINED" /\ tracked /\ age > MaxAge => missed = Misses

LeavesByItself ==
    client.state = "JOINED" /\ client'.state = "LEFT" /\ swarmPc' # "stopped"

(* A member gives up on the tracker only when its announces were not       *)
(* answered (implementation.tex:79).                                       *)
LeaveUnanswered == [][LeavesByItself => ~answered]_vars

-----------------------------------------------------------------------------
(* Fairness: the clocks run, expired timers are handled (wake-ups need not *)
(* come), what is under way does not stay there, and of the announces that *)
(* are sent again and again some arrive.                                   *)
Fairness ==
    /\ WF_vars(Advance) /\ WF_vars(HandleTimer) /\ WF_vars(Purge)
    /\ \A e \in AnnounceEvent : SF_vars(HandleAnnounce(e))
    /\ \A m \in AnnounceEvent \cup {"reply"} : WF_vars(Lose(m))

FairSpec == Spec /\ Fairness

(* A member that the tracker does not know, because it was restarted or has*)
(* purged it, announces itself until it is known again (Tracker.java:60-84,*)
(* swarm.c:379-384).                                                       *)
BackInTable ==
    client.state = "JOINED" /\ ~tracked ~> tracked \/ client.state # "JOINED"

(* A member that gets no reply "after a number of retries [...] assumes that*)
(* the tracker has become unavailable or unreachable and marks itself as   *)
(* having left the swarm" (implementation.tex:79), as long as its main     *)
(* process goes on.  In the code each refresh begins anew before the       *)
(* retries are used up (swarm.c:382).                                      *)
SilenceNoticed ==
    client.state = "JOINED" /\ ~answered
        ~> answered \/ client.state # "JOINED" \/ client.main = "exited"
=============================================================================
