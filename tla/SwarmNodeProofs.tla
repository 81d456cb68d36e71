--------------------------- MODULE SwarmNodeProofs ---------------------------
(***************************************************************************)
(* What the handlers of the swarm process keep, for any number of peers,   *)
(* any limits, and an event queue that may be full at any time.  The       *)
(* lemmas are about the operators of SwarmNode; SwarmProofs puts them next *)
(* to the main process, MembershipProofs next to the tracker.              *)
(***************************************************************************)
EXTENDS SwarmNode, SequenceTheorems, FiniteSetTheorems, TLAPS

(* The record of a client, and the bound of its list of peers. *)
WellTyped(c) == c \in ClientType /\ Len(c.known) <= MaxSwarmPeers

(* The announce event tells the states apart, and a client that joins has  *)
(* not used up its tries.                                                  *)
Joins(c) ==
    /\ c.event = "STARTED" <=> c.state = "JOINING"
    /\ c.state = "JOINING" => c.retry.num <= c.retry.max

(* The main process will learn of e, unless it is gone or e was dropped. *)
Told(c, e) ==
    \/ c.main = "exited"
    \/ c.lost
    \/ \E i \in 1 .. Len(c.inbox) : c.inbox[i] = e

(* What the steps of the swarm process do to a client, as far as the main  *)
(* process is concerned: it is told of everything it acts upon.            *)
Informs(c, t) ==
    /\ t.main = c.main
    /\ \A e : Told(c, e) => Told(t, e)
    /\ c.state = "JOINED" => t.state = "JOINED" \/ Told(t, "swarm")
    /\ t.known = c.known \/ t.known = <<>> \/ Told(t, "swarm")

StepsTo(c, t) == WellTyped(t) /\ Joins(t) /\ Informs(c, t)

-----------------------------------------------------------------------------
(* retry.c keeps the counter within the limit plus one, and the first      *)
(* transmission of retry_start leaves the timer armed.                     *)
LEMMA AnnounceRetryTypes ==
    ASSUME NEW r \in RetryRecord(MaxRetries)
    PROVE  /\ RetryStop(r) \in RetryRecord(MaxRetries)
           /\ RetryNext(r) \in RetryRecord(MaxRetries)
           /\ RetryStart(r, MaxRetries) \in RetryRecord(MaxRetries)
           /\ RetryInit \in RetryRecord(MaxRetries)
           /\ RetryStart(r, MaxRetries).armed
           /\ RetryStart(r, MaxRetries).num = 1
           /\ RetryStart(r, MaxRetries).max = MaxRetries
<1>1. MaxRetries \in Nat \ {0}
  BY AnnounceAssumption
<1>2. RetryStop(r) \in RetryRecord(MaxRetries)
  BY DEF RetryRecord, RetryStop
<1>3. \A q \in RetryRecord(MaxRetries) : RetryNext(q) \in RetryRecord(MaxRetries)
  <2> TAKE q \in RetryRecord(MaxRetries)
  <2>1. /\ q.num \in 0 .. MaxRetries + 1 /\ q.max \in 0 .. MaxRetries
        /\ q.armed \in BOOLEAN /\ q.bound \in BOOLEAN
    BY DEF RetryRecord
  <2>2. RetryNext(q).num \in 0 .. MaxRetries + 1
    BY <1>1, <2>1 DEF RetryNext
  <2>4. RetryNext(q).armed \in BOOLEAN
    BY <2>1 DEF RetryNext
  <2>3. RetryNext(q) = [num |-> RetryNext(q).num, max |-> q.max,
                        armed |-> RetryNext(q).armed, bound |-> q.bound]
    BY DEF RetryNext
  <2> QED BY <2>1, <2>2, <2>3, <2>4 DEF RetryRecord
<1>4. /\ RetryStart(r, MaxRetries) \in RetryRecord(MaxRetries)
      /\ RetryStart(r, MaxRetries).armed
      /\ RetryStart(r, MaxRetries).num = 1
      /\ RetryStart(r, MaxRetries).max = MaxRetries
  <2> DEFINE q == [num |-> 0, max |-> MaxRetries, armed |-> r.armed, bound |-> TRUE]
  <2>1. q \in RetryRecord(MaxRetries)
    BY <1>1 DEF RetryRecord
  <2>2. RetryStart(r, MaxRetries) = RetryNext(q)
    BY DEF RetryStart
  <2>3. RetryNext(q).armed /\ RetryNext(q).num = 1 /\ RetryNext(q).max = MaxRetries
    BY <1>1 DEF RetryNext, WillTryAgain
  <2> QED BY <2>1, <2>2, <2>3, <1>3
<1>5. RetryInit \in RetryRecord(MaxRetries)
  BY <1>1 DEF RetryRecord, RetryInit
<1> QED BY <1>2, <1>3, <1>4, <1>5

(* Posting changes the queue only, and the main process is told.           *)
LEMMA PostInforms ==
    ASSUME NEW c, WellTyped(c), NEW e \in {"swarm", "peer", "timer"},
           NEW t \in Post(c, e)
    PROVE  /\ WellTyped(t)
           /\ t.state = c.state /\ t.retry = c.retry /\ t.event = c.event
           /\ t.refresh = c.refresh /\ t.known = c.known /\ t.main = c.main
           /\ t.sent = c.sent
           /\ Told(t, e)
           /\ \A f : Told(c, f) => Told(t, f)
<1>1. CASE c.main = "exited"
  <2>1. t = c
    BY <1>1 DEF Post
  <2> QED BY <1>1, <2>1 DEF Told
<1>2. CASE c.main # "exited" /\ t = [c EXCEPT !.lost = TRUE]
  BY <1>2 DEF WellTyped, ClientType, Told
<1>3. CASE c.main # "exited" /\ t = [c EXCEPT !.inbox = Append(c.inbox, e)]
  <2>1. c.inbox \in Seq({"swarm", "peer", "timer"})
    BY DEF WellTyped, ClientType
  <2>2. /\ Append(c.inbox, e) \in Seq({"swarm", "peer", "timer"})
        /\ Len(Append(c.inbox, e)) = Len(c.inbox) + 1
        /\ Len(c.inbox) \in Nat
        /\ \A i \in 1 .. Len(c.inbox) : Append(c.inbox, e)[i] = c.inbox[i]
        /\ Append(c.inbox, e)[Len(c.inbox) + 1] = e
    BY <2>1, AppendProperties, LenProperties
  <2> DEFINE q == Append(c.inbox, e)
  <2>3. /\ t.inbox = q
        /\ t.state = c.state /\ t.retry = c.retry /\ t.event = c.event
        /\ t.refresh = c.refresh /\ t.known = c.known /\ t.main = c.main
        /\ t.sent = c.sent /\ t.lost = c.lost
        /\ WellTyped(t)
    BY <1>3, <2>2 DEF WellTyped, ClientType
  <2> HIDE DEF q
  <2>4. Told(t, e)
    BY <2>2, <2>3 DEF Told, q
  <2>5. ASSUME NEW f, Told(c, f) PROVE Told(t, f)
    <3>1. CASE c.main = "exited" \/ c.lost
      BY <2>3, <3>1 DEF Told
    <3>2. ASSUME NEW i \in 1 .. Len(c.inbox), c.inbox[i] = f PROVE Told(t, f)
      BY <2>2, <2>3, <3>2 DEF Told, q
    <3> QED BY <2>5, <3>1, <3>2 DEF Told
  <2> QED BY <2>3, <2>4, <2>5
<1> QED BY <1>1, <1>2, <1>3 DEF Post

(* Who is told depends on the queue and on the main process alone.         *)
LEMMA SameQueueTold ==
    ASSUME NEW c, NEW t, t.main = c.main, t.lost = c.lost, t.inbox = c.inbox
    PROVE  \A e : Told(c, e) <=> Told(t, e)
BY DEF Told

(* What announce_stop leaves of a client is a client.                      *)
LEMMA StoppedTyped ==
    ASSUME NEW c \in ClientType, NEW r \in RetryRecord(MaxRetries),
           NEW t, t = [c EXCEPT !.event = "REFRESH", !.retry = r]
    PROVE  t \in ClientType
<1> DEFINE Retries == RetryRecord(MaxRetries)
           Names == Seq(Peers)
           Queues == Seq({"swarm", "peer", "timer"})
           Sents == SUBSET AnnounceEvent
<1>1. /\ "REFRESH" \in AnnounceEvent /\ r \in Retries
      /\ c \in [state : SwarmState, retry : Retries, event : AnnounceEvent,
               refresh : BOOLEAN, known : Names, inbox : Queues,
               main : {"waitJoining", "waitJoined", "exchange", "exited"},
               sent : Sents, lost : BOOLEAN]
  BY DEF ClientType, AnnounceEvent
<1> SUFFICES t \in [state : SwarmState, retry : Retries, event : AnnounceEvent,
                   refresh : BOOLEAN, known : Names, inbox : Queues,
                   main : {"waitJoining", "waitJoined", "exchange", "exited"},
                   sent : Sents, lost : BOOLEAN]
  BY DEF ClientType
<1> HIDE DEF Retries, Names, Queues, Sents
<1> QED BY <1>1

(* swarm_force_leave without its event.                                    *)
LEMMA LeaveQuietFields ==
    ASSUME NEW c, WellTyped(c), NEW t, t = LeaveQuiet(c)
    PROVE  /\ WellTyped(t) /\ Joins(t)
           /\ t.state = "LEFT" /\ t.event = "REFRESH" /\ ~t.retry.armed
           /\ ~t.refresh /\ t.known = <<>>
           /\ t.main = c.main /\ t.lost = c.lost /\ t.inbox = c.inbox
           /\ t.sent = c.sent /\ t.retry = RetryStop(c.retry)
<1>1. /\ t.state = "LEFT" /\ t.event = "REFRESH" /\ t.retry = RetryStop(c.retry)
      /\ ~t.refresh /\ t.known = <<>>
      /\ t.main = c.main /\ t.lost = c.lost /\ t.inbox = c.inbox /\ t.sent = c.sent
  BY DEF LeaveQuiet, AnnounceStop, WellTyped, ClientType
<1>2. RetryStop(c.retry) \in RetryRecord(MaxRetries)
  BY AnnounceRetryTypes DEF WellTyped, ClientType
<1>3. ~RetryStop(c.retry).armed
  BY DEF RetryStop, WellTyped, ClientType, RetryRecord
<1>4. <<>> \in Seq(Peers) /\ Len(<<>>) = 0
  BY EmptySeq
<1> DEFINE u == [c EXCEPT !.state = "LEFT", !.known = <<>>, !.refresh = FALSE]
<1>5. u \in ClientType /\ u.retry = c.retry
  BY <1>4 DEF WellTyped, ClientType, SwarmState
<1>6. t \in ClientType
  <2>1. t = [u EXCEPT !.event = "REFRESH", !.retry = RetryStop(u.retry)]
    BY DEF LeaveQuiet, AnnounceStop
  <2> HIDE DEF u
  <2> QED BY <1>2, <1>5, <2>1, StoppedTyped
<1>7. Len(t.known) <= MaxSwarmPeers
  BY <1>1, <1>4, AnnounceAssumption
<1> QED BY <1>1, <1>3, <1>6, <1>7 DEF WellTyped, Joins

(* A member that leaves tells the main process (swarm.c:243-254).          *)
LEMMA ForceLeaveHandled ==
    ASSUME NEW c, WellTyped(c), NEW t \in ForceLeave(c)
    PROVE  /\ StepsTo(c, t) /\ t.state = "LEFT" /\ ~t.refresh /\ t.sent = c.sent
           /\ t.retry = RetryStop(c.retry)
<1> DEFINE u == LeaveQuiet(c)
<1>1. /\ WellTyped(u) /\ Joins(u)
      /\ u.state = "LEFT" /\ u.event = "REFRESH" /\ ~u.refresh /\ u.known = <<>>
      /\ u.main = c.main /\ u.lost = c.lost /\ u.inbox = c.inbox /\ u.sent = c.sent
      /\ u.retry = RetryStop(c.retry)
  BY LeaveQuietFields
<1>2. \A e : Told(c, e) <=> Told(u, e)
  BY <1>1, SameQueueTold
<1>3. CASE c.state = "JOINED"
  <2>1. t \in Post(u, "swarm")
    BY <1>3 DEF ForceLeave
  <2> HIDE DEF u
  <2>2. /\ WellTyped(t) /\ Told(t, "swarm") /\ \A e : Told(u, e) => Told(t, e)
        /\ t.state = u.state /\ t.retry = u.retry /\ t.event = u.event
        /\ t.refresh = u.refresh /\ t.known = u.known /\ t.main = u.main
        /\ t.sent = u.sent
    BY <1>1, <2>1, PostInforms
  <2> QED BY <1>1, <1>2, <2>2 DEF StepsTo, Joins, Informs
<1>4. CASE c.state # "JOINED"
  <2>1. t = u
    BY <1>4 DEF ForceLeave
  <2> HIDE DEF u
  <2> QED BY <1>1, <1>2, <1>4, <2>1 DEF StepsTo, Informs
<1> QED BY <1>3, <1>4

(* A transmission changes what was sent, and nothing else.                 *)
LEMMA SendFields ==
    ASSUME NEW c, WellTyped(c), NEW e \in AnnounceEvent, NEW t, t = AnnounceSend(c, e)
    PROVE  /\ WellTyped(t)
           /\ t.state = c.state /\ t.retry = c.retry /\ t.event = c.event
           /\ t.refresh = c.refresh /\ t.known = c.known /\ t.main = c.main
           /\ t.lost = c.lost /\ t.inbox = c.inbox
           /\ t.sent = c.sent \cup {e}
BY DEF AnnounceSend, WellTyped, ClientType

(* A round of retries: the timer is armed again, or the client leaves.     *)
LEMMA ProcessRetryHandled ==
    ASSUME NEW c, WellTyped(c), Joins(c), NEW t \in ProcessRetry(c)
    PROVE  /\ StepsTo(c, t)
           /\ \/ ~RetryDue(c.retry) /\ t = c
              \/ /\ RetryDue(c.retry)
                 /\ t.state = c.state /\ t.event = c.event /\ t.refresh = c.refresh
                 /\ t.known = c.known
                 /\ t.retry.armed
                 /\ WillTryAgain(c.retry)
                 /\ t.retry.num = c.retry.num + 1 /\ t.retry.max = c.retry.max
                 /\ t.sent = c.sent \cup {c.event}
              \/ /\ RetryDue(c.retry) /\ WillGiveUp(c.retry)
                 /\ t.state = "LEFT" /\ ~t.refresh /\ t.sent = c.sent
                 /\ ~t.retry.armed
                 /\ t.retry.num = c.retry.num + 1 /\ t.retry.max = c.retry.max
<1>0. /\ c.retry \in RetryRecord(MaxRetries) /\ c.event \in AnnounceEvent
      /\ c.retry.num \in Nat /\ c.retry.max \in Nat
  BY AnnounceAssumption DEF WellTyped, ClientType, RetryRecord
<1>1. CASE ~RetryDue(c.retry)
  <2>1. t = c
    BY <1>1 DEF ProcessRetry
  <2> QED BY <1>1, <2>1 DEF StepsTo, Informs
<1> DEFINE u == [c EXCEPT !.retry = RetryNext(c.retry)]
<1>2. RetryNext(c.retry) \in RetryRecord(MaxRetries)
  BY <1>0, AnnounceRetryTypes
<1>3. /\ WellTyped(u)
      /\ u.retry = RetryNext(c.retry)
      /\ u.state = c.state /\ u.event = c.event /\ u.refresh = c.refresh
      /\ u.known = c.known /\ u.main = c.main /\ u.sent = c.sent
      /\ u.lost = c.lost /\ u.inbox = c.inbox
  BY <1>2 DEF WellTyped, ClientType
<1>4. CASE RetryDue(c.retry) /\ WillTryAgain(c.retry)
  <2>1. t = AnnounceSend(u, c.event)
    BY <1>4 DEF ProcessRetry
  <2> HIDE DEF u
  <2>2. /\ WellTyped(t)
        /\ t.state = u.state /\ t.retry = u.retry /\ t.event = u.event
        /\ t.refresh = u.refresh /\ t.known = u.known /\ t.main = u.main
        /\ t.lost = u.lost /\ t.inbox = u.inbox
        /\ t.sent = u.sent \cup {c.event}
    BY <1>0, <1>3, <2>1, SendFields
  <2>3. /\ t.retry.armed /\ t.retry.num = c.retry.num + 1 /\ t.retry.max = c.retry.max
        /\ c.retry.num + 1 <= c.retry.max
    BY <1>0, <1>3, <1>4, <2>2 DEF RetryNext, WillTryAgain
  <2>4. \A e : Told(c, e) <=> Told(t, e)
    BY <1>3, <2>2, SameQueueTold
  <2>5. Joins(t)
    BY <1>3, <2>2, <2>3 DEF Joins
  <2>6. Informs(c, t)
    BY <1>3, <2>2, <2>4 DEF Informs
  <2> QED BY <1>3, <1>4, <2>2, <2>3, <2>5, <2>6 DEF StepsTo
<1>5. CASE RetryDue(c.retry) /\ ~WillTryAgain(c.retry)
  <2>1. t \in ForceLeave(u)
    BY <1>5 DEF ProcessRetry
  <2> HIDE DEF u
  <2>2. /\ StepsTo(u, t) /\ t.state = "LEFT" /\ ~t.refresh /\ t.sent = u.sent
        /\ t.retry = RetryStop(u.retry)
    BY <1>3, <2>1, ForceLeaveHandled
  <2>3. \A e : Told(c, e) <=> Told(u, e)
    BY <1>3, SameQueueTold
  <2>4. StepsTo(c, t)
    BY <1>3, <2>2, <2>3 DEF StepsTo, Informs
  <2>5. WillGiveUp(c.retry)
    BY <1>0, <1>5 DEF RetryDue, WillTryAgain, WillGiveUp
  <2>6. /\ ~t.retry.armed
        /\ t.retry.num = c.retry.num + 1 /\ t.retry.max = c.retry.max
    BY <1>0, <1>3, <2>2, <2>5 DEF RetryStop, RetryNext, WillGiveUp, RetryRecord
  <2> QED BY <1>3, <1>5, <2>2, <2>4, <2>5, <2>6
<1> QED BY <1>1, <1>4, <1>5

(* retry_start begins anew and transmits at once (retry.c:20-30).          *)
LEMMA StartFields ==
    ASSUME NEW c, WellTyped(c), NEW e \in AnnounceEvent, NEW t, t = AnnounceStart(c, e)
    PROVE  /\ WellTyped(t)
           /\ t.state = c.state /\ t.refresh = c.refresh /\ t.known = c.known
           /\ t.main = c.main /\ t.lost = c.lost /\ t.inbox = c.inbox
           /\ t.event = e /\ t.sent = c.sent \cup {e}
           /\ t.retry.armed /\ t.retry.num = 1 /\ t.retry.max = MaxRetries
<1> DEFINE r == RetryStart(c.retry, MaxRetries)
           u == [c EXCEPT !.event = e, !.retry = r]
<1>1. r \in RetryRecord(MaxRetries) /\ r.armed /\ r.num = 1 /\ r.max = MaxRetries
  BY AnnounceRetryTypes DEF WellTyped, ClientType
<1>2. t = AnnounceSend(u, e)
  BY DEF AnnounceStart
<1> HIDE DEF r
<1>3. /\ WellTyped(u)
      /\ u.event = e /\ u.retry = r
      /\ u.state = c.state /\ u.refresh = c.refresh
      /\ u.known = c.known /\ u.main = c.main /\ u.sent = c.sent
      /\ u.lost = c.lost /\ u.inbox = c.inbox
  BY <1>1 DEF WellTyped, ClientType
<1> HIDE DEF u
<1> QED BY <1>1, <1>2, <1>3, SendFields

(* The joined loop after its retries: the refresh timer runs, and a member *)
(* whose timer had expired begins a new announce (swarm.c:379-384).        *)
LEMMA RefreshWhenDueHandled ==
    ASSUME NEW c, WellTyped(c), Joins(c), c.state # "JOINING",
           NEW t, t = RefreshWhenDue(c)
    PROVE  /\ StepsTo(c, t)
           /\ t.state = c.state /\ t.refresh /\ t.event = "REFRESH"
           /\ \/ t.retry = c.retry /\ t.sent = c.sent
                 /\ (~c.refresh => c.state # "JOINED")
              \/ /\ ~c.refresh
                 /\ t.retry.armed /\ t.retry.num = 1 /\ t.retry.max = MaxRetries
                 /\ t.sent = c.sent \cup {"REFRESH"}
<1>0. c.event = "REFRESH" /\ c.refresh \in BOOLEAN
  BY DEF WellTyped, ClientType, AnnounceEvent, Joins
<1>1. CASE c.refresh
  <2>1. t = c
    BY <1>1 DEF RefreshWhenDue
  <2> QED BY <1>0, <1>1, <2>1 DEF StepsTo, Informs
<1> DEFINE u == [c EXCEPT !.refresh = TRUE]
<1>2. /\ WellTyped(u) /\ Joins(u) /\ u.refresh
      /\ u.event = c.event /\ u.retry = c.retry /\ u.state = c.state
      /\ u.known = c.known /\ u.main = c.main /\ u.sent = c.sent
      /\ u.lost = c.lost /\ u.inbox = c.inbox
  BY DEF WellTyped, ClientType, Joins
<1>3. CASE ~c.refresh /\ c.state # "JOINED"
  <2>1. t = u
    BY <1>3 DEF RefreshWhenDue
  <2> HIDE DEF u
  <2>2. \A e : Told(c, e) <=> Told(t, e)
    BY <1>2, <2>1, SameQueueTold
  <2> QED BY <1>0, <1>2, <1>3, <2>1, <2>2 DEF StepsTo, Informs
<1>4. CASE ~c.refresh /\ c.state = "JOINED"
  <2>1. t = AnnounceStart(u, "REFRESH")
    BY <1>4 DEF RefreshWhenDue
  <2> HIDE DEF u
  <2>2. /\ WellTyped(t)
        /\ t.state = u.state /\ t.refresh = u.refresh /\ t.known = u.known
        /\ t.main = u.main /\ t.lost = u.lost /\ t.inbox = u.inbox
        /\ t.event = "REFRESH" /\ t.sent = u.sent \cup {"REFRESH"}
        /\ t.retry.armed /\ t.retry.num = 1 /\ t.retry.max = MaxRetries
    <3>1. WellTyped(u) /\ "REFRESH" \in AnnounceEvent
      BY <1>2 DEF AnnounceEvent
    <3> QED BY <2>1, <3>1, StartFields
  <2>3. \A e : Told(c, e) <=> Told(t, e)
    BY <1>2, <2>2, SameQueueTold
  <2> QED BY <1>0, <1>2, <1>4, <2>2, <2>3 DEF StepsTo, Informs, Joins
<1> QED BY <1>0, <1>1, <1>3, <1>4

(* Pushing the peers of a reply keeps them, in reverse order.              *)
LEMMA PushedTypes ==
    ASSUME NEW q \in Replies
    PROVE  /\ Pushed(q) \in Seq(Peers)
           /\ Len(Pushed(q)) <= MaxSwarmPeers
<1>1. Cardinality(Peers) \in Nat
  BY PeersAssumption, FS_CardinalityType
<1>2. PICK n \in 0 .. MinOf(MaxSwarmPeers, Cardinality(Peers)) : q \in [1 .. n -> Peers]
  BY DEF Replies
<1>3. n \in Nat /\ n <= MaxSwarmPeers
  BY <1>1, <1>2, AnnounceAssumption DEF MinOf
<1>4. q \in Seq(Peers) /\ Len(q) = n
  BY <1>2, <1>3, IsASeq, LenProperties
<1>5. Pushed(q) \in [1 .. n -> Peers]
  BY <1>2, <1>3, <1>4 DEF Pushed
<1>6. Pushed(q) \in Seq(Peers)
  BY <1>3, <1>5, IsASeq
<1>7. Len(Pushed(q)) = n
  BY <1>3, <1>5, <1>6, LenProperties
<1> QED BY <1>3, <1>6, <1>7

(* A reply: whoever joined is a member, its timers are set, and the main   *)
(* process is told.                                                        *)
LEMMA HandleReplyHandled ==
    ASSUME NEW c, WellTyped(c), Joins(c), NEW q \in Seq(Peers),
           Len(Pushed(q)) <= MaxSwarmPeers, Pushed(q) \in Seq(Peers),
           NEW t \in HandleReply(c, q)
    PROVE  /\ StepsTo(c, t)
           /\ t.state = (IF c.state = "JOINING" THEN "JOINED" ELSE c.state)
           /\ t.refresh /\ t.retry = RetryStop(c.retry) /\ t.sent = c.sent
           /\ t.event = "REFRESH"
           /\ Told(t, "swarm")
<1> DEFINE r == RetryStop(c.retry)
           u == AnnounceStop([c EXCEPT !.known = Pushed(q), !.refresh = TRUE])
           v == [u EXCEPT !.state = "JOINED"]
<1>1. r \in RetryRecord(MaxRetries)
  BY AnnounceRetryTypes DEF WellTyped, ClientType
<1>2. /\ u.event = "REFRESH" /\ u.retry = r /\ u.state = c.state
      /\ u.known = Pushed(q) /\ u.refresh
      /\ u.main = c.main /\ u.sent = c.sent
      /\ u.lost = c.lost /\ u.inbox = c.inbox
  BY DEF AnnounceStop, WellTyped, ClientType
<1> DEFINE p == [c EXCEPT !.known = Pushed(q), !.refresh = TRUE]
<1>3. p \in ClientType /\ p.retry = c.retry
  BY DEF WellTyped, ClientType
<1>4. WellTyped(u)
  <2>1. u = [p EXCEPT !.event = "REFRESH", !.retry = RetryStop(p.retry)]
    BY DEF AnnounceStop
  <2> HIDE DEF u, p
  <2>2. u \in ClientType
    BY <1>1, <1>3, <2>1, StoppedTyped
  <2> QED BY <1>2, <2>2 DEF WellTyped
<1>5. /\ v.event = "REFRESH" /\ v.retry = r /\ v.state = "JOINED"
      /\ v.known = Pushed(q) /\ v.refresh
      /\ v.main = c.main /\ v.sent = c.sent
      /\ v.lost = c.lost /\ v.inbox = c.inbox
      /\ WellTyped(v)
  <2> HIDE DEF u, r
  <2> QED BY <1>2, <1>4 DEF WellTyped, ClientType, SwarmState
<1> DEFINE w == IF c.event = "STARTED" THEN v ELSE u
<1>6. t \in Post(w, "swarm")
  BY DEF HandleReply
<1> HIDE DEF u, v
<1>7. /\ w.event = "REFRESH" /\ w.retry = r
      /\ w.state = (IF c.state = "JOINING" THEN "JOINED" ELSE c.state)
      /\ w.refresh /\ w.main = c.main /\ w.sent = c.sent
      /\ w.lost = c.lost /\ w.inbox = c.inbox
      /\ WellTyped(w)
  BY <1>2, <1>4, <1>5 DEF Joins
<1> HIDE DEF w, r
<1>8. /\ WellTyped(t) /\ Told(t, "swarm") /\ \A e : Told(w, e) => Told(t, e)
      /\ t.state = w.state /\ t.retry = w.retry /\ t.event = w.event
      /\ t.refresh = w.refresh /\ t.known = w.known /\ t.main = w.main
      /\ t.sent = w.sent
  BY <1>6, <1>7, PostInforms
<1>9. \A e : Told(c, e) <=> Told(w, e)
  BY <1>7, SameQueueTold
<1>10. Joins(t) /\ Informs(c, t)
  BY <1>7, <1>8, <1>9 DEF Joins, Informs
<1> QED BY <1>7, <1>8, <1>10 DEF StepsTo, r

(* swarm_join begins to announce STARTED (swarm.c:227-234).                *)
LEMMA JoinHandled ==
    ASSUME NEW c, WellTyped(c), NEW t \in Join(c), c.state # "JOINED"
    PROVE  /\ StepsTo(c, t)
           /\ t.state = "JOINING" /\ t.refresh = c.refresh
           /\ t.retry.armed /\ t.retry.num = 1 /\ t.retry.max = MaxRetries
           /\ t.sent = c.sent \cup {"STARTED"}
           /\ t.event = "STARTED"
           /\ Told(t, "swarm")
<1> DEFINE u == AnnounceStart(c, "STARTED")
           v == [u EXCEPT !.state = "JOINING"]
<1>1. /\ WellTyped(u)
      /\ u.state = c.state /\ u.refresh = c.refresh /\ u.known = c.known
      /\ u.main = c.main /\ u.lost = c.lost /\ u.inbox = c.inbox
      /\ u.event = "STARTED" /\ u.sent = c.sent \cup {"STARTED"}
      /\ u.retry.armed /\ u.retry.num = 1 /\ u.retry.max = MaxRetries
  BY StartFields DEF AnnounceEvent
<1>2. t \in Post(v, "swarm")
  BY DEF Join
<1> HIDE DEF u
<1>3. /\ WellTyped(v)
      /\ v.state = "JOINING" /\ v.refresh = c.refresh /\ v.known = c.known
      /\ v.main = c.main /\ v.lost = c.lost /\ v.inbox = c.inbox
      /\ v.event = "STARTED" /\ v.sent = c.sent \cup {"STARTED"}
      /\ v.retry.armed /\ v.retry.num = 1 /\ v.retry.max = MaxRetries
  BY <1>1 DEF WellTyped, ClientType, SwarmState
<1> HIDE DEF v
<1>4. /\ WellTyped(t) /\ Told(t, "swarm") /\ \A e : Told(v, e) => Told(t, e)
      /\ t.state = v.state /\ t.retry = v.retry /\ t.event = v.event
      /\ t.refresh = v.refresh /\ t.known = v.known /\ t.main = v.main
      /\ t.sent = v.sent
  BY <1>2, <1>3, PostInforms
<1>5. \A e : Told(c, e) <=> Told(v, e)
  BY <1>3, SameQueueTold
<1>6. Joins(t) /\ Informs(c, t)
  BY <1>3, <1>4, <1>5, AnnounceAssumption DEF Joins, Informs
<1> QED BY <1>3, <1>4, <1>6 DEF StepsTo

(* A client that was started, before it joins.                             *)
LEMMA BegunFields ==
    /\ WellTyped(Begun) /\ Joins(Begun)
    /\ Begun.state = "LEFT" /\ Begun.refresh = FALSE /\ Begun.main = "waitJoining"
    /\ Begun.known = <<>> /\ Begun.inbox = <<>> /\ Begun.sent = {} /\ ~Begun.lost
<1> DEFINE b == [state |-> "INIT", retry |-> RetryInit, event |-> "REFRESH",
                 refresh |-> FALSE, known |-> <<>>, inbox |-> <<>>,
                 main |-> "waitJoining", sent |-> {}, lost |-> FALSE]
<1>1. RetryInit \in RetryRecord(MaxRetries)
  BY AnnounceAssumption DEF RetryInit, RetryRecord
<1>2. /\ <<>> \in Seq(Peers) /\ Len(<<>>) = 0
      /\ <<>> \in Seq({"swarm", "peer", "timer"})
  BY EmptySeq
<1>3. WellTyped(b)
  BY <1>1, <1>2, AnnounceAssumption DEF WellTyped, ClientType, SwarmState, AnnounceEvent
<1>4. /\ b.main = "waitJoining" /\ b.inbox = <<>> /\ b.sent = {} /\ ~b.lost
  OBVIOUS
<1>5. Begun = LeaveQuiet(b)
  BY DEF Begun
<1> HIDE DEF b
<1> QED BY <1>3, <1>4, <1>5, LeaveQuietFields
=============================================================================
