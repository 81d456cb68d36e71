----------------------------- MODULE SwarmProofs -----------------------------
(***************************************************************************)
(* Proofs about the swarm process and the main process of one client, for  *)
(* any number of peers, any pool sizes and limits, an event queue that may *)
(* be full at any time, and a tracker that answers as it likes.            *)
(*                                                                         *)
(* SwarmDriven is not inductive: that a joining client has tries left, and *)
(* that a new member's retry is due, is what makes the next TIMER event    *)
(* start a timer again (Driven, and Joins of SwarmNodeProofs).             *)
(* ReplacementPending rests on the pool never being overfull, or the main  *)
(* process could not tell how many peers to take from the list (Pools).    *)
(***************************************************************************)
EXTENDS Swarm, SwarmNodeProofs, WellFoundedInduction

(* What the place where the swarm process waits says about the client. *)
Driven ==
    /\ swarmPc = "waitReady" => client.state = "INIT" /\ ~asked
    /\ client.state = "JOINING" => swarmPc = "joining"
    /\ swarmPc = "joining" /\ client.state = "JOINED" => RetryDue(client.retry)
    /\ swarmPc = "ended" => client.state # "JOINED"

OutPeers == {p \in Peers : conns[p] = "out"}

Pools == Cardinality(OutPeers) <= MaxOut

Base == TypeOK /\ Joins(client) /\ Pools

Inv == Base /\ Driven /\ SwarmDriven /\ LossPending /\ ReplacementPending

-----------------------------------------------------------------------------
(* Counting peers is counting a finite set.                                *)
LEMMA PeersFinite ==
    ASSUME NEW S, S \subseteq Peers
    PROVE  IsFiniteSet(S) /\ Cardinality(S) \in Nat
<1>1. S \in SUBSET Peers
  OBVIOUS
<1>2. IsFiniteSet(S)
  BY <1>1, PeersAssumption, FS_Subset
<1> QED BY <1>2, FS_CardinalityType

(* A set of natural numbers that is not empty has a least element.         *)
LEMMA LeastNatural ==
    ASSUME NEW T \in SUBSET Nat, T # {}
    PROVE  \E n \in T : \A k \in T : n <= k
<1>1. PICK n \in T : \A k \in T : ~(<<k, n>> \in OpToRel(<, Nat))
  BY NatLessThanWellFounded, WFMin
<1>2. \A k \in T : ~(k < n)
  BY <1>1 DEF OpToRel
<1>3. \A k \in T : n <= k
  BY <1>2
<1> QED BY <1>3

(* The number of peers that nanotorrent_connect_swarm takes from the list  *)
(* exists and is as large as the free slots allow (nanotorrent.c:166-177). *)
LEMMA PoppedFills ==
    ASSUME TypeOK, Pools, NEW q \in Seq(Peers), NEW n, n = Popped(q)
    PROVE  /\ n \in 0 .. Len(q)
           /\ Cardinality(Unconnected(q, n)) <= FreeOut
           /\ n < Len(q) => Cardinality(Unconnected(q, n)) = FreeOut
<1>1. /\ Len(q) \in Nat
      /\ \A i \in 1 .. Len(q) : q[i] \in Peers
  BY ElementOfSeq, LenProperties
<1>2. Cardinality(OutPeers) \in Nat /\ MaxOut \in Nat
  BY PeersFinite, PoolAssumption DEF OutPeers
<1>3. FreeOut \in Nat
  BY <1>2 DEF FreeOut, Pools, OutPeers
<1> DEFINE taken(k) == Cardinality(Unconnected(q, k))
<1>4. \A k : IsFiniteSet(Unconnected(q, k)) /\ taken(k) \in Nat
  BY PeersFinite DEF Unconnected
<1>5. taken(0) = 0
  <2>1. Unconnected(q, 0) = {}
    BY DEF Unconnected
  <2> QED BY <2>1, FS_EmptySet
<1>6. \A k \in 0 .. Len(q) - 1 : taken(k + 1) <= taken(k) + 1
  <2> TAKE k \in 0 .. Len(q) - 1
  <2> DEFINE U == Unconnected(q, k)
  <2>1. Unconnected(q, k + 1) \in SUBSET (U \cup {q[k + 1]})
    BY <1>1 DEF Unconnected
  <2>2. /\ IsFiniteSet(U \cup {q[k + 1]})
        /\ Cardinality(U \cup {q[k + 1]}) <= Cardinality(U) + 1
    <3>1. IsFiniteSet(U) /\ Cardinality(U) \in Nat
      BY <1>4
    <3> HIDE DEF U, taken
    <3>2. /\ IsFiniteSet(U \cup {q[k + 1]})
          /\ Cardinality(U \cup {q[k + 1]}) =
                IF q[k + 1] \in U THEN Cardinality(U) ELSE Cardinality(U) + 1
      BY <3>1, FS_AddElement
    <3> QED BY <3>1, <3>2
  <2>3. taken(k + 1) <= Cardinality(U \cup {q[k + 1]})
    BY <2>1, <2>2, FS_Subset
  <2>4. Cardinality(U \cup {q[k + 1]}) \in Nat
    BY <2>2, FS_CardinalityType
  <2> HIDE DEF taken
  <2>5. Cardinality(U) = taken(k)
    BY DEF taken
  <2> QED BY <1>4, <2>2, <2>3, <2>4, <2>5
<1> HIDE DEF taken
<1> DEFINE Full == {k \in Nat : k >= Len(q) \/ taken(k + 1) > FreeOut}
<1>7. PICK m \in Full : \A k \in Full : m <= k
  <2>1. Len(q) \in Full
    BY <1>1
  <2>2. Full \in SUBSET Nat
    OBVIOUS
  <2> HIDE DEF Full
  <2> QED BY <2>1, <2>2, LeastNatural
<1>8. /\ m \in 0 .. Len(q)
      /\ taken(m) <= FreeOut
      /\ m < Len(q) => taken(m + 1) > FreeOut
  <2>1. m \in Nat /\ m <= Len(q)
    BY <1>1, <1>7
  <2>2. CASE m = 0
    BY <1>1, <1>3, <1>5, <1>7, <2>1, <2>2
  <2>3. CASE m > 0
    <3>1. m - 1 \in Nat /\ m - 1 \notin Full
      BY <1>7, <2>1, <2>3
    <3>2. m - 1 + 1 = m
      BY <2>1
    <3>3. taken(m) <= FreeOut
      BY <1>1, <1>3, <1>4, <2>1, <3>1, <3>2
    <3> QED BY <1>1, <1>7, <2>1, <3>3
  <2> QED BY <2>1, <2>2, <2>3
<1>9. /\ n \in 0 .. Len(q)
      /\ taken(n) <= FreeOut
      /\ n < Len(q) => taken(n + 1) > FreeOut
  BY <1>8 DEF Popped, taken
<1>10. n < Len(q) => taken(n) = FreeOut
  BY <1>1, <1>3, <1>4, <1>6, <1>9
<1> QED BY <1>9, <1>10 DEF taken

(* A connection that is opened to peers without one fills as many slots.   *)
LEMMA ConnectingFills ==
    ASSUME TypeOK, NEW U \in SUBSET {p \in Peers : conns[p] = "none"},
           conns' = [p \in Peers |-> IF p \in U THEN "out" ELSE conns[p]]
    PROVE  /\ conns' \in [Peers -> {"none", "in", "out"}]
           /\ Cardinality(OutPeers') = Cardinality(OutPeers) + Cardinality(U)
<1>1. conns' \in [Peers -> {"none", "in", "out"}]
  BY DEF TypeOK
<1>2. OutPeers' = OutPeers \cup U /\ OutPeers \cap U = {}
  BY DEF OutPeers, TypeOK
<1>3. /\ IsFiniteSet(OutPeers) /\ Cardinality(OutPeers) \in Nat
      /\ IsFiniteSet(U) /\ Cardinality(U) \in Nat
  BY PeersFinite DEF OutPeers
<1>4. Cardinality(OutPeers \cup U) =
          Cardinality(OutPeers) + Cardinality(U) - Cardinality(OutPeers \cap U)
  BY <1>3, FS_Union
<1>5. Cardinality(OutPeers \cap U) = 0
  BY <1>2, FS_EmptySet
<1> QED BY <1>1, <1>2, <1>3, <1>4, <1>5

(* What the handlers of an event do to the client.                         *)
SameButKnown(c) ==
    /\ WellTyped(client') /\ Joins(client')
    /\ client'.state = c.state /\ client'.retry = c.retry /\ client'.event = c.event
    /\ client'.refresh = c.refresh /\ client'.main = c.main
    /\ client'.inbox = c.inbox /\ client'.sent = c.sent /\ client'.lost = c.lost

ConnsKept == conns' \in [Peers -> {"none", "in", "out"}] /\ Pools'

(* After nanotorrent_connect_swarm either the list is empty or no slot is  *)
(* free.                                                                   *)
LEMMA ConnectSwarmFills ==
    ASSUME TypeOK, Pools, NEW c, WellTyped(c), Joins(c), ConnectSwarm(c)
    PROVE  /\ SameButKnown(c) /\ ConnsKept
           /\ client'.known = <<>> \/ ~(FreeOut' > 0)
<1> DEFINE n == Popped(c.known)
           U == Unconnected(c.known, n)
           rest == SubSeq(c.known, n + 1, Len(c.known))
<1>1. c.known \in Seq(Peers) /\ Len(c.known) \in Nat /\ Len(c.known) <= MaxSwarmPeers
  BY LenProperties DEF WellTyped, ClientType
<1>2. /\ n \in 0 .. Len(c.known)
      /\ Cardinality(U) <= FreeOut
      /\ n < Len(c.known) => Cardinality(U) = FreeOut
  BY <1>1, PoppedFills
<1>3. client' = [c EXCEPT !.known = rest]
  BY DEF ConnectSwarm
<1>4. conns' = [p \in Peers |-> IF p \in U THEN "out" ELSE conns[p]]
  BY DEF ConnectSwarm
<1>5. U \in SUBSET {p \in Peers : conns[p] = "none"}
  BY DEF Unconnected
<1> HIDE DEF n, U
<1>6. /\ conns' \in [Peers -> {"none", "in", "out"}]
      /\ Cardinality(OutPeers') = Cardinality(OutPeers) + Cardinality(U)
  BY <1>4, <1>5, ConnectingFills
<1>7. /\ Cardinality(OutPeers) \in Nat /\ Cardinality(U) \in Nat /\ MaxOut \in Nat
      /\ FreeOut = MaxOut - Cardinality(OutPeers)
      /\ FreeOut' = MaxOut - Cardinality(OutPeers')
  BY <1>5, PeersFinite, PoolAssumption DEF OutPeers, FreeOut
<1>8. ConnsKept
  BY <1>2, <1>6, <1>7 DEF ConnsKept, Pools
<1>9. /\ rest \in Seq(Peers) /\ Len(rest) = Len(c.known) - n
      /\ n = Len(c.known) => rest = <<>>
  <2>1. CASE n = Len(c.known)
    BY <1>1, <2>1, SubSeqEmpty, EmptySeq
  <2>2. CASE n < Len(c.known)
    <3>1. n + 1 \in 1 .. Len(c.known) /\ Len(c.known) \in n + 1 .. Len(c.known)
      BY <1>1, <1>2, <2>2
    <3>2. rest \in Seq(Peers) /\ Len(rest) = Len(c.known) - (n + 1) + 1
      BY <1>1, <3>1, SubSeqProperties
    <3> QED BY <1>1, <1>2, <2>2, <3>2
  <2> QED BY <1>1, <1>2, <2>1, <2>2
<1>10. client'.known = <<>> \/ ~(FreeOut' > 0)
  <2>1. CASE n = Len(c.known)
    BY <1>3, <1>9, <2>1 DEF WellTyped, ClientType
  <2>2. CASE n < Len(c.known)
    BY <1>2, <1>6, <1>7, <2>2
  <2> QED BY <1>1, <1>2, <2>1, <2>2
<1>11. SameButKnown(c)
  <2>1. Len(rest) <= MaxSwarmPeers
    BY <1>1, <1>2, <1>9, AnnounceAssumption
  <2> HIDE DEF rest
  <2> QED BY <1>3, <1>9, <2>1 DEF SameButKnown, WellTyped, ClientType, Joins
<1> QED BY <1>8, <1>10, <1>11

-----------------------------------------------------------------------------
(* What the main process does.  Owing says that it will do what it has to, *)
(* in the words of Told, of a client c.                                    *)

Owing(c) ==
    c.main = "exchange" =>
        /\ c.state = "JOINED" \/ Told(c, "swarm")
        /\ c.known # <<>> /\ FreeOut > 0 => Told(c, "swarm") \/ Told(c, "peer")

(* Owing is what LossPending and ReplacementPending say.                   *)
LEMMA OwingPending ==
    Owing(client) <=> LossPending /\ ReplacementPending
BY DEF Owing, LossPending, ReplacementPending, Told

(* What the main process leaves of the swarm process's state.              *)
LeavesSwarm ==
    /\ WellTyped(client') /\ Joins(client')
    /\ client'.state = client.state /\ client'.retry = client.retry
    /\ client'.event = client.event /\ client'.refresh = client.refresh

(* Client c is what the main process starts an event with. *)
SameSwarm(c) ==
    /\ WellTyped(c) /\ Joins(c)
    /\ c.state = client.state /\ c.retry = client.retry
    /\ c.event = client.event /\ c.refresh = client.refresh

(* What was sent is forgotten at the next step, and nothing else.          *)
LEMMA QuietFields ==
    ASSUME Base
    PROVE  /\ SameSwarm(Quiet)
           /\ Quiet.main = client.main /\ Quiet.lost = client.lost
           /\ Quiet.inbox = client.inbox /\ Quiet.known = client.known
           /\ Quiet.sent = {}
           /\ \A e : Told(client, e) <=> Told(Quiet, e)
<1>1. /\ SameSwarm(Quiet)
      /\ Quiet.main = client.main /\ Quiet.lost = client.lost
      /\ Quiet.inbox = client.inbox /\ Quiet.known = client.known
      /\ Quiet.sent = {}
  BY DEF Quiet, Base, TypeOK, WellTyped, ClientType, Joins, SameSwarm
<1> QED BY <1>1, SameQueueTold

(* The main process exits: it owes nothing more.                           *)
LEMMA ExitOwes ==
    ASSUME Base, NEW c, SameSwarm(c), Exit(c)
    PROVE  LeavesSwarm /\ ConnsKept /\ Owing(client)'
<1>1. /\ LeavesSwarm /\ client'.main = "exited"
      /\ client' = [c EXCEPT !.main = "exited", !.inbox = <<>>]
  <2>1. <<>> \in Seq({"swarm", "peer", "timer"})
    BY EmptySeq
  <2> QED BY <2>1 DEF Exit, SameSwarm, LeavesSwarm, WellTyped, ClientType, Joins
<1>2. ConnsKept
  BY DEF Exit, Base, TypeOK, Pools, OutPeers, ConnsKept
<1> QED BY <1>1, <1>2 DEF Owing

(* A round of the loop that exchanges pieces, for an event of the queue or *)
(* of the seed timer: the state of the swarm is looked at when it may have *)
(* changed, and peers are taken from the list when there may be a slot.    *)
LEMMA ExchangeRoundOwes ==
    ASSUME Base, NEW c, SameSwarm(c), NEW e, c.main = "exchange",
           e = "swarm" \/ c.state = "JOINED" \/ Told(c, "swarm"),
           \/ e \in {"swarm", "peer"}
           \/ c.known # <<>> /\ FreeOut > 0 => Told(c, "swarm") \/ Told(c, "peer"),
           ExchangeRound(c, e)
    PROVE  LeavesSwarm /\ ConnsKept /\ Owing(client)'
<1>1. CASE Exit(c)
  BY <1>1, ExitOwes
<1>2. CASE (e = "swarm" => c.state = "JOINED") /\ e \in {"swarm", "peer"} /\ ConnectSwarm(c)
  <2>1. SameButKnown(c) /\ ConnsKept /\ (client'.known = <<>> \/ ~(FreeOut' > 0))
    BY <1>2, ConnectSwarmFills DEF Base, SameSwarm
  <2>2. \A f : Told(c, f) <=> Told(client', f)
    BY <2>1, SameQueueTold DEF SameButKnown
  <2>3. LeavesSwarm
    BY <2>1 DEF LeavesSwarm, SameButKnown, SameSwarm
  <2>4. client'.state = "JOINED" \/ Told(client', "swarm")
    BY <1>2, <2>1, <2>2 DEF SameButKnown
  <2>5. Owing(client)'
    BY <2>1, <2>4 DEF Owing
  <2> QED BY <2>1, <2>3, <2>5
<1>3. CASE e \notin {"swarm", "peer"} /\ client' = c /\ UNCHANGED conns
  <2>1. LeavesSwarm
    BY <1>3 DEF LeavesSwarm, SameSwarm
  <2>2. ConnsKept
    BY <1>3 DEF Base, TypeOK, Pools, OutPeers, ConnsKept
  <2>3. FreeOut' = FreeOut
    BY <1>3 DEF FreeOut
  <2>4. Owing(client)'
    BY <1>3, <2>3 DEF Owing
  <2> QED BY <2>1, <2>2, <2>4
<1> QED BY <1>1, <1>2, <1>3 DEF ExchangeRound

(* An event leaves the head of the queue.                                  *)
LEMMA TakenFields ==
    ASSUME Base, client.inbox # <<>>,
           NEW c, c = [Quiet EXCEPT !.inbox = Tail(client.inbox)],
           NEW e, e = Head(client.inbox)
    PROVE  /\ SameSwarm(c)
           /\ c.main = client.main /\ c.known = client.known
           /\ e \in {"swarm", "peer", "timer"}
           /\ \A f : Told(client, f) => Told(c, f) \/ f = e
<1>1. client.inbox \in Seq({"swarm", "peer", "timer"})
  BY DEF Base, TypeOK, ClientType
<1>2. /\ e \in {"swarm", "peer", "timer"}
      /\ Tail(client.inbox) \in Seq({"swarm", "peer", "timer"})
      /\ Len(Tail(client.inbox)) = Len(client.inbox) - 1
      /\ \A i \in 1 .. Len(Tail(client.inbox)) :
            Tail(client.inbox)[i] = client.inbox[i + 1]
      /\ Len(client.inbox) \in Nat
  BY <1>1, HeadTailProperties, LenProperties
<1> DEFINE rest == Tail(client.inbox)
<1>3. /\ SameSwarm(c)
      /\ c.main = client.main /\ c.lost = client.lost
      /\ c.inbox = rest /\ c.known = client.known
  <2> HIDE DEF rest
  <2>1. rest \in Seq({"swarm", "peer", "timer"}) /\ c = [Quiet EXCEPT !.inbox = rest]
    BY <1>2 DEF rest
  <2> QED BY <2>1, QuietFields DEF SameSwarm, WellTyped, ClientType, Joins
<1>4. ASSUME NEW f, Told(client, f), f # e PROVE Told(c, f)
  <2>1. CASE client.main = "exited" \/ client.lost
    BY <1>3, <2>1 DEF Told
  <2>2. ASSUME NEW i \in 1 .. Len(client.inbox), client.inbox[i] = f
        PROVE  Told(c, f)
    <3>1. i # 1
      BY <1>4, <2>2
    <3>2. i - 1 \in 1 .. Len(rest) /\ rest[i - 1] = client.inbox[i - 1 + 1]
      BY <1>2, <3>1
    <3>3. rest[i - 1] = f
      BY <1>2, <2>2, <3>2
    <3> QED BY <1>3, <3>2, <3>3 DEF Told
  <2> QED BY <1>4, <2>1, <2>2 DEF Told
<1> QED BY <1>2, <1>3, <1>4

(* Before it exchanges pieces the main process owes nothing.               *)
LEMMA IdleOwes ==
    ASSUME Base, NEW c, SameSwarm(c), Idle(c), Owing(c)
    PROVE  LeavesSwarm /\ ConnsKept /\ Owing(client)'
<1>1. LeavesSwarm
  BY DEF Idle, LeavesSwarm, SameSwarm
<1>2. ConnsKept /\ FreeOut' = FreeOut
  BY DEF Idle, Base, TypeOK, Pools, OutPeers, ConnsKept, FreeOut
<1>3. Owing(client)'
  BY <1>2 DEF Idle, Owing
<1> QED BY <1>1, <1>2, <1>3

(* Whatever event is delivered to the main process, it still owes nothing  *)
(* that is not queued (nanotorrent.c:62-121).                              *)
LEMMA MainHandlesOwes ==
    ASSUME Base, Owing(client), MainHandles
    PROVE  LeavesSwarm /\ ConnsKept /\ Owing(client)'
<1> DEFINE c == [Quiet EXCEPT !.inbox = Tail(client.inbox)]
           e == Head(client.inbox)
<1>1. /\ client.inbox # <<>>
      /\ WaitJoining(c, e) \/ WaitJoined(c, e) \/ Exchange(c, e)
  BY DEF MainHandles
<1>2. /\ SameSwarm(c)
      /\ c.main = client.main /\ c.known = client.known
      /\ e \in {"swarm", "peer", "timer"}
      /\ \A f : Told(client, f) => Told(c, f) \/ f = e
  BY <1>1, TakenFields
<1> HIDE DEF c, e
<1>3. CASE c.main # "exchange" /\ Idle(c)
  BY <1>2, <1>3, IdleOwes DEF Owing
<1>4. CASE Exit(c)
  BY <1>2, <1>4, ExitOwes
<1>5. CASE WaitJoining(c, e)
  <2> DEFINE d == [c EXCEPT !.main = "waitJoined"]
  <2>1. CASE Idle(d)
    <3>1. SameSwarm(d) /\ d.main = "waitJoined"
      BY <1>2 DEF SameSwarm, WellTyped, ClientType, Joins
    <3> HIDE DEF d
    <3> QED BY <2>1, <3>1, IdleOwes DEF Owing
  <2> QED BY <1>3, <1>4, <1>5, <2>1 DEF WaitJoining
<1>6. CASE WaitJoined(c, e)
  <2> DEFINE d == [c EXCEPT !.main = "exchange"]
  <2>1. CASE e = "swarm" /\ c.state = "JOINED" /\ ExchangeRound(d, e)
    <3>1. SameSwarm(d) /\ d.main = "exchange" /\ d.state = "JOINED"
      BY <1>2, <2>1 DEF SameSwarm, WellTyped, ClientType, Joins
    <3> HIDE DEF d
    <3> QED BY <2>1, <3>1, ExchangeRoundOwes
  <2> QED BY <1>3, <1>4, <1>6, <2>1 DEF WaitJoined
<1>7. CASE Exchange(c, e)
  <2>0. c.main = "exchange" /\ c.state = client.state
    BY <1>2, <1>7 DEF Exchange, SameSwarm
  <2>1. e = "swarm" \/ c.state = "JOINED" \/ Told(c, "swarm")
    BY <1>2, <2>0 DEF Owing
  <2>2. \/ e \in {"swarm", "peer"}
        \/ c.known # <<>> /\ FreeOut > 0 => Told(c, "swarm") \/ Told(c, "peer")
    BY <1>2, <2>0 DEF Owing
  <2>3. CASE ExchangeRound(c, e)
    BY <1>2, <2>0, <2>1, <2>2, <2>3, ExchangeRoundOwes
  <2>4. CASE e \notin {"swarm", "peer"} /\ Idle(c)
    <3>1. Owing(c)
      BY <2>1, <2>2, <2>4 DEF Owing
    <3> QED BY <1>2, <2>4, <3>1, IdleOwes
  <2> QED BY <1>7, <2>3, <2>4 DEF Exchange
<1> QED BY <1>1, <1>5, <1>6, <1>7

-----------------------------------------------------------------------------
(* What the swarm process does. *)

(* The step of an event or of the swarm process tells the main process     *)
(* what it needs to know.                                                  *)
LEMMA InformsOwes ==
    ASSUME Base, Owing(client), Informs(Quiet, client'),
           FreeOut' > 0 => FreeOut > 0 \/ Told(client', "peer")
    PROVE  Owing(client)'
<1>1. /\ Quiet.main = client.main /\ Quiet.known = client.known
      /\ Quiet.state = client.state
      /\ \A e : Told(client, e) <=> Told(Quiet, e)
  BY QuietFields DEF SameSwarm
<1> QED BY <1>1 DEF Owing, Informs

(* What a step of the swarm process promises of the client and of the place*)
(* where it waits next: a timer runs.                                      *)
Drives ==
    /\ WellTyped(client') /\ Joins(client') /\ Informs(Quiet, client')
    /\ Driven'
    /\ swarmPc' \in {"waitReady", "joining", "joined", "ended"}
    /\ client'.state \in {"JOINING", "JOINED"} => client'.retry.armed \/ client'.refresh

(* Going on waiting changes nothing; whoever joins or is a member then has *)
(* a timer that runs.                                                      *)
LEMMA QuietDrives ==
    ASSUME Base, Driven, client' = Quiet, swarmPc' = swarmPc,
           swarmPc = "waitReady" => asked' = asked,
           client.state \in {"JOINING", "JOINED"} => client.retry.armed \/ client.refresh
    PROVE  Drives
<1>1. SameSwarm(Quiet)
  BY QuietFields
<1>2. Informs(Quiet, client')
  BY DEF Informs
<1>3. Driven'
  BY <1>1 DEF Driven, SameSwarm
<1>4. swarmPc' \in {"waitReady", "joining", "joined", "ended"}
  BY DEF Base, TypeOK
<1> QED BY <1>1, <1>2, <1>3, <1>4 DEF Drives, SameSwarm

(* The first loop: polling for an address, and joining with one            *)
(* (swarm.c:359-369).                                                      *)
LEMMA AddressDrives ==
    ASSUME Base, Driven, AskedNow, PollAddress \/ JoinWhenReady
    PROVE  Drives
<1>1. /\ SameSwarm(Quiet) /\ Quiet.sent = {}
  BY QuietFields
<1>2. swarmPc = "waitReady" /\ client.state = "INIT" /\ ~asked
  BY DEF PollAddress, JoinWhenReady, Driven
<1>3. CASE PollAddress
  <2>1. client' = Quiet /\ swarmPc' = swarmPc /\ asked' = asked
    BY <1>1, <1>2, <1>3 DEF PollAddress, AskedNow, Base, TypeOK
  <2> QED BY <1>2, <2>1, QuietDrives
<1>4. CASE JoinWhenReady
  <2> DEFINE d == [Quiet EXCEPT !.state = "LEFT"]
  <2>1. /\ WellTyped(d) /\ d.state = "LEFT"
        /\ d.main = Quiet.main /\ d.lost = Quiet.lost /\ d.inbox = Quiet.inbox
        /\ d.known = Quiet.known
    BY <1>1 DEF SameSwarm, WellTyped, ClientType, SwarmState
  <2>2. client' \in Join(d) /\ swarmPc' = "joining"
    BY <1>4 DEF JoinWhenReady
  <2> HIDE DEF d
  <2>3. StepsTo(d, client') /\ client'.state = "JOINING" /\ client'.retry.armed
    BY <2>1, <2>2, JoinHandled
  <2>4. \A e : Told(Quiet, e) <=> Told(d, e)
    BY <2>1, SameQueueTold
  <2>5. Informs(Quiet, client')
    BY <1>1, <1>2, <2>1, <2>3, <2>4 DEF StepsTo, Informs, SameSwarm
  <2>6. Driven'
    BY <2>2, <2>3 DEF Driven
  <2> QED BY <2>2, <2>3, <2>5, <2>6 DEF Drives, StepsTo
<1> QED BY <1>3, <1>4

(* The second loop: the client goes on joining, or gives up.               *)
LEMMA RetryJoinDrives ==
    ASSUME Base, Driven, RetryJoin
    PROVE  Drives
<1>1. SameSwarm(Quiet)
  BY QuietFields
<1>2. /\ swarmPc = "joining" /\ client.state # "JOINED" /\ RetryDue(client.retry)
      /\ client' \in ProcessRetry(Quiet) /\ swarmPc' = "joining"
  BY DEF RetryJoin, LoopsJoining
<1>3. Quiet.retry = client.retry /\ Quiet.state = client.state
  BY <1>1 DEF SameSwarm
<1>4. /\ StepsTo(Quiet, client')
      /\ \/ client'.state = client.state /\ client'.retry.armed
         \/ client'.state = "LEFT"
  BY <1>1, <1>2, <1>3, ProcessRetryHandled DEF SameSwarm
<1>5. client'.state # "JOINED"
  BY <1>2, <1>4
<1>6. Driven'
  BY <1>2, <1>5 DEF Driven
<1> QED BY <1>2, <1>4, <1>5, <1>6 DEF Drives, StepsTo

(* The third loop: a member that is not made to leave has its refresh timer*)
(* running afterwards (swarm.c:373-390).                                   *)
LEMMA KeepJoinedDrives ==
    ASSUME Base, Driven, KeepJoined
    PROVE  Drives
<1>1. SameSwarm(Quiet)
  BY QuietFields
<1>2. client.state = "JOINED" /\ swarmPc' = "joined"
  BY DEF KeepJoined, LoopsJoined
<1>3. PICK t \in ProcessRetry(Quiet) : client' = RefreshWhenDue(t)
  BY DEF KeepJoined, JoinedRound
<1>4. Quiet.state = "JOINED"
  BY <1>1, <1>2 DEF SameSwarm
<1>5. StepsTo(Quiet, t) /\ t.state \in {"JOINED", "LEFT"}
  BY <1>1, <1>3, <1>4, ProcessRetryHandled DEF SameSwarm
<1>6. StepsTo(t, client') /\ client'.state = t.state /\ client'.refresh
  BY <1>3, <1>5, RefreshWhenDueHandled DEF StepsTo
<1>7. Informs(Quiet, client')
  BY <1>5, <1>6 DEF StepsTo, Informs
<1>8. Driven'
  BY <1>2, <1>5, <1>6 DEF Driven
<1> QED BY <1>2, <1>6, <1>7, <1>8 DEF Drives, StepsTo

(* The loop ends only for a client that is no member.                      *)
LEMMA EndSwarmDrives ==
    ASSUME Base, Driven, EndSwarm
    PROVE  Drives
<1>1. SameSwarm(Quiet)
  BY QuietFields
<1>2. /\ client' = Quiet /\ swarmPc = "joined" /\ swarmPc' = "ended"
      /\ client.state # "JOINED"
  BY DEF EndSwarm, LoopEnds, JoinedLoopWakes
<1>3. client.state # "JOINING"
  BY <1>2 DEF Driven
<1>4. Driven' /\ Informs(Quiet, client')
  BY <1>1, <1>2, <1>3 DEF Driven, Informs, SameSwarm
<1> QED BY <1>1, <1>2, <1>3, <1>4 DEF Drives, SameSwarm

(* Whatever wakes the swarm process, a timer runs afterwards if the client *)
(* joins or is a member: it never sleeps for good.                         *)
LEMMA SwarmRunsDrives ==
    ASSUME Base, Driven, SwarmRuns
    PROVE  Drives /\ asked' \in BOOLEAN /\ ready' \in BOOLEAN
<1>1. asked' \in BOOLEAN
  BY DEF SwarmRuns, AskedNow, Base, TypeOK
<1>2. ready' \in BOOLEAN
  BY DEF SwarmRuns, PollAddress, JoinWhenReady, RetryJoin, KeepJoined, EndSwarm,
         KeepWaiting, Base, TypeOK
<1>3. CASE KeepWaiting
  <2>1. client' = Quiet /\ swarmPc' = swarmPc
    BY <1>3 DEF KeepWaiting
  <2>2. asked' = asked
    BY <2>1, QuietFields DEF SwarmRuns, AskedNow, Base, TypeOK
  <2>3. client.state \in {"JOINING", "JOINED"} => client.retry.armed \/ client.refresh
    <3>1. CASE swarmPc = "joining"
      BY <1>3, <3>1 DEF KeepWaiting, RetryDue, Driven, Base, Joins
    <3>2. CASE swarmPc = "joined"
      BY <1>3, <3>2 DEF KeepWaiting, JoinedLoopWakes
    <3>3. CASE swarmPc \in {"waitReady", "ended"}
      BY <3>3 DEF Driven
    <3> QED BY <3>1, <3>2, <3>3 DEF Base, TypeOK
  <2> QED BY <1>1, <1>2, <2>1, <2>2, <2>3, QuietDrives
<1>4. CASE PollAddress \/ JoinWhenReady
  BY <1>1, <1>2, <1>4, AddressDrives DEF SwarmRuns
<1>5. CASE RetryJoin \/ KeepJoined \/ EndSwarm
  BY <1>1, <1>2, <1>5, RetryJoinDrives, KeepJoinedDrives, EndSwarmDrives
<1> QED BY <1>3, <1>4, <1>5 DEF SwarmRuns

-----------------------------------------------------------------------------
(* The invariant. *)

(* The variables that have no part in the other conjuncts. *)
PlainTypes ==
    /\ swarmPc \in {"waitReady", "joining", "joined", "ended"}
    /\ ready \in BOOLEAN /\ tick \in BOOLEAN /\ asked \in BOOLEAN
    /\ conns \in [Peers -> {"none", "in", "out"}]
    /\ seed \in BOOLEAN
    /\ seedTimer \in {"unset", "running", "expired"}

(* The invariant in the words of the lemmas.                               *)
LEMMA InvParts ==
    Inv <=> /\ WellTyped(client) /\ Joins(client) /\ PlainTypes /\ Pools
            /\ Driven /\ SwarmDriven /\ Owing(client)
<1>1. TypeOK <=> WellTyped(client) /\ PlainTypes
  BY DEF TypeOK, WellTyped, PlainTypes
<1> QED BY <1>1, OwingPending DEF Inv, Base

(* The same of the state after a step.                                     *)
LEMMA PartsKept ==
    ASSUME WellTyped(client'), Joins(client'), PlainTypes', Pools',
           Driven', SwarmDriven', Owing(client)'
    PROVE  Inv'
<1>1. TypeOK'
  BY DEF TypeOK, WellTyped, PlainTypes
<1>2. LossPending' /\ ReplacementPending'
  BY DEF Owing, LossPending, ReplacementPending, Told
<1> QED BY <1>1, <1>2 DEF Inv, Base

(* The steps that only post an event keep the invariant.                   *)
LEMMA PostKeeps ==
    ASSUME Inv, NEW e \in {"swarm", "peer", "timer"}, client' \in Post(Quiet, e),
           UNCHANGED <<swarmPc, tick, asked>>, PlainTypes', Pools',
           FreeOut' > 0 => FreeOut > 0 \/ e = "peer"
    PROVE  Inv'
<1>1. /\ SameSwarm(Quiet) /\ Quiet.main = client.main /\ Quiet.known = client.known
  BY QuietFields DEF Inv
<1>2. /\ WellTyped(client') /\ Told(client', e)
      /\ client'.state = Quiet.state /\ client'.retry = Quiet.retry
      /\ client'.event = Quiet.event /\ client'.refresh = Quiet.refresh
      /\ client'.known = Quiet.known /\ client'.main = Quiet.main
      /\ \A f : Told(Quiet, f) => Told(client', f)
  BY <1>1, PostInforms DEF SameSwarm
<1>3. Joins(client') /\ Informs(Quiet, client')
  BY <1>1, <1>2 DEF SameSwarm, Joins, Informs
<1>4. Owing(client)'
  BY <1>2, <1>3, InformsOwes, InvParts DEF Inv
<1>5. Driven' /\ SwarmDriven'
  BY <1>1, <1>2 DEF Inv, Driven, SwarmDriven, SameSwarm
<1> QED BY <1>2, <1>3, <1>4, <1>5, PartsKept

(* Steps that leave the connections alone leave their numbers alone.       *)
LEMMA ConnsUnchanged ==
    ASSUME Base, UNCHANGED conns
    PROVE  Pools' /\ FreeOut' = FreeOut /\ conns' \in [Peers -> {"none", "in", "out"}]
BY DEF Base, TypeOK, Pools, OutPeers, FreeOut

(* An event for the main process.                                          *)
LEMMA MainHandlesKeeps ==
    ASSUME Inv, MainHandles
    PROVE  Inv'
<1>1. LeavesSwarm /\ ConnsKept /\ Owing(client)'
  BY MainHandlesOwes, InvParts DEF Inv
<1>2. UNCHANGED <<swarmPc, ready, tick, asked, seed>>
  BY DEF MainHandles, swarmVars
<1>3. seedTimer' \in {"unset", "running", "expired"}
  <2>1. seedTimer' = seedTimer \/ SeedTiming
    BY DEF MainHandles, WaitJoining, WaitJoined, Exchange, ExchangeRound, Exit, Idle
  <2> QED BY <2>1 DEF SeedTiming, Inv, Base, TypeOK
<1>4. PlainTypes' /\ Pools'
  BY <1>1, <1>2, <1>3 DEF PlainTypes, ConnsKept, Inv, Base, TypeOK
<1>5. Driven' /\ SwarmDriven'
  BY <1>1, <1>2 DEF LeavesSwarm, Driven, SwarmDriven, Inv
<1> QED BY <1>1, <1>4, <1>5, PartsKept DEF LeavesSwarm

(* An event for the swarm process.                                         *)
LEMMA SwarmRunsKeeps ==
    ASSUME Inv, SwarmTick \/ SwarmWoken
    PROVE  Inv'
<1>1. SwarmRuns /\ tick' \in BOOLEAN
  BY DEF SwarmTick, SwarmWoken, Inv, Base, TypeOK
<1>2. Drives /\ asked' \in BOOLEAN /\ ready' \in BOOLEAN
  BY <1>1, SwarmRunsDrives DEF Inv
<1>3. UNCHANGED <<conns, seed, seedTimer>>
  BY <1>1 DEF SwarmRuns, peerVars
<1>4. Pools' /\ FreeOut' = FreeOut
  BY <1>3, ConnsUnchanged DEF Inv
<1>5. PlainTypes'
  BY <1>1, <1>2, <1>3 DEF PlainTypes, Drives, Inv, Base, TypeOK
<1>6. Owing(client)'
  BY <1>2, <1>4, InformsOwes, InvParts DEF Inv, Drives
<1>7. SwarmDriven'
  BY <1>2 DEF Drives, SwarmDriven
<1> QED BY <1>2, <1>4, <1>5, <1>6, <1>7, PartsKept DEF Drives

(* A timer that expires queues a TIMER event.                              *)
LEMMA TimersKeep ==
    ASSUME Inv, Timers
    PROVE  Inv'
<1>1. /\ SameSwarm(Quiet) /\ Quiet.main = client.main /\ Quiet.lost = client.lost
      /\ Quiet.inbox = client.inbox /\ Quiet.known = client.known
  BY QuietFields DEF Inv
<1>2. CASE SeedTimerExpires
  <2>1. client' \in Post(Quiet, "timer")
    BY <1>1, <1>2 DEF SeedTimerExpires, Post
  <2>2. UNCHANGED <<swarmPc, ready, tick, asked, conns, seed>> /\ seedTimer' = "expired"
    BY <1>2 DEF SeedTimerExpires, swarmVars, peerVars
  <2>3. Pools' /\ FreeOut' = FreeOut /\ PlainTypes'
    BY <2>2, ConnsUnchanged DEF PlainTypes, Inv, Base, TypeOK
  <2> QED BY <2>1, <2>2, <2>3, PostKeeps
<1>3. ASSUME Tick, ready' \in BOOLEAN,
             WellTyped(client'), Joins(client'), Informs(Quiet, client'), Driven'
      PROVE  Inv'
  <2>1. UNCHANGED <<swarmPc, asked, conns, seed, seedTimer>> /\ tick'
    BY <1>3 DEF Tick, peerVars
  <2>2. Pools' /\ FreeOut' = FreeOut /\ PlainTypes'
    BY <1>3, <2>1, ConnsUnchanged DEF PlainTypes, Tick, Inv, Base, TypeOK
  <2>3. Owing(client)' /\ SwarmDriven'
    BY <1>3, <2>1, <2>2, InformsOwes, InvParts DEF Inv, SwarmDriven
  <2> QED BY <1>3, <2>2, <2>3, PartsKept
<1>4. CASE PollExpires
  <2>1. client' = Quiet /\ UNCHANGED <<swarmPc, asked>> /\ ready' \in BOOLEAN /\ Tick
    BY <1>4 DEF PollExpires, Tick
  <2>2. Driven' /\ Informs(Quiet, client')
    BY <1>1, <2>1 DEF Driven, Informs, Inv, SameSwarm
  <2> QED BY <1>1, <1>3, <2>1, <2>2 DEF SameSwarm
<1>5. CASE RetryExpires
  <2> DEFINE r == RetryStop(client.retry)
  <2>1. /\ client' = [Quiet EXCEPT !.retry = r]
        /\ UNCHANGED <<swarmPc, asked>> /\ ready' \in BOOLEAN /\ Tick
    BY <1>5 DEF RetryExpires, Tick, Inv, Base, TypeOK
  <2>2. /\ r \in RetryRecord(MaxRetries) /\ ~r.armed
        /\ r.num = client.retry.num /\ r.max = client.retry.max
    <3>1. client.retry \in RetryRecord(MaxRetries)
      BY DEF Inv, Base, TypeOK, ClientType
    <3> QED BY <3>1, AnnounceRetryTypes DEF RetryStop, RetryRecord
  <2> HIDE DEF r
  <2>3. /\ WellTyped(client')
        /\ client'.retry = r /\ client'.state = client.state
        /\ client'.event = client.event /\ client'.main = Quiet.main
        /\ client'.lost = Quiet.lost /\ client'.inbox = Quiet.inbox
        /\ client'.known = Quiet.known
    BY <1>1, <2>1, <2>2 DEF SameSwarm, WellTyped, ClientType
  <2>4. Joins(client')
    BY <2>2, <2>3 DEF Joins, Inv, Base
  <2>5. \A e : Told(Quiet, e) <=> Told(client', e)
    BY <2>3, SameQueueTold
  <2>6. Informs(Quiet, client')
    BY <1>1, <2>3, <2>5 DEF Informs, SameSwarm
  <2>7. Driven'
    BY <2>1, <2>2, <2>3 DEF Driven, RetryDue, Inv
  <2> QED BY <1>3, <2>1, <2>3, <2>4, <2>6, <2>7
<1>6. CASE RefreshExpires
  <2>1. /\ client' = [Quiet EXCEPT !.refresh = FALSE]
        /\ UNCHANGED <<swarmPc, asked>> /\ ready' \in BOOLEAN /\ Tick
    BY <1>6 DEF RefreshExpires, Tick, Inv, Base, TypeOK
  <2>2. /\ WellTyped(client') /\ Joins(client')
        /\ client'.retry = client.retry /\ client'.state = client.state
        /\ client'.main = Quiet.main
        /\ client'.lost = Quiet.lost /\ client'.inbox = Quiet.inbox
        /\ client'.known = Quiet.known
    BY <1>1, <2>1 DEF SameSwarm, WellTyped, ClientType, Joins
  <2>3. \A e : Told(Quiet, e) <=> Told(client', e)
    BY <2>2, SameQueueTold
  <2>4. Driven' /\ Informs(Quiet, client')
    BY <1>1, <2>1, <2>2, <2>3 DEF Driven, Informs, Inv, SameSwarm
  <2> QED BY <1>3, <2>1, <2>2, <2>4
<1> QED BY <1>2, <1>4, <1>5, <1>6 DEF Timers

(* A reply, however late: the timers of a client that joined run.          *)
LEMMA ReplyKeeps ==
    ASSUME Inv, Reply
    PROVE  Inv'
<1>1. PICK q \in Replies : client' \in HandleReply(Quiet, q)
  BY DEF Reply
<1>2. asked /\ UNCHANGED <<swarmPc, ready, tick, asked, conns, seed, seedTimer>>
  BY DEF Reply, swarmVars, peerVars
<1>3. SameSwarm(Quiet)
  BY QuietFields DEF Inv
<1>4. q \in Seq(Peers) /\ Pushed(q) \in Seq(Peers) /\ Len(Pushed(q)) <= MaxSwarmPeers
  <2>1. Cardinality(Peers) \in Nat
    BY PeersFinite
  <2>2. PICK n \in 0 .. MinOf(MaxSwarmPeers, Cardinality(Peers)) : q \in [1 .. n -> Peers]
    BY DEF Replies
  <2>3. n \in Nat
    BY <2>1, <2>2, AnnounceAssumption DEF MinOf
  <2>4. q \in Seq(Peers)
    BY <2>2, <2>3, IsASeq
  <2> QED BY <2>4, PushedTypes
<1>5. /\ StepsTo(Quiet, client')
      /\ client'.state = (IF client.state = "JOINING" THEN "JOINED" ELSE client.state)
      /\ client'.refresh /\ client'.retry = RetryStop(client.retry)
  BY <1>1, <1>3, <1>4, HandleReplyHandled DEF SameSwarm
<1>6. /\ ~client'.retry.armed /\ client'.retry.num = client.retry.num
      /\ client'.retry.max = client.retry.max
  BY <1>5 DEF RetryStop, Inv, Base, TypeOK, ClientType, RetryRecord
<1>7. Pools' /\ FreeOut' = FreeOut /\ PlainTypes'
  BY <1>2, ConnsUnchanged DEF PlainTypes, Inv, Base, TypeOK
<1>8. Owing(client)'
  BY <1>5, <1>7, InformsOwes, InvParts DEF Inv, StepsTo
<1>9. Driven'
  BY <1>2, <1>5, <1>6 DEF Driven, RetryDue, Joins, Inv, Base
<1>10. SwarmDriven'
  BY <1>5 DEF SwarmDriven
<1> QED BY <1>5, <1>7, <1>8, <1>9, <1>10, PartsKept DEF StepsTo

(* A connection is opened only in a pool with a free slot.                 *)
LEMMA OpenConnKeeps ==
    ASSUME Inv, NEW p \in Peers, OpenConn(p)
    PROVE  Inv'
<1>1. PICK pool \in {"in", "out"} : SlotFree(pool) /\ conns' = [conns EXCEPT ![p] = pool]
  BY DEF OpenConn
<1>2. /\ conns \in [Peers -> {"none", "in", "out"}] /\ conns[p] = "none"
      /\ client' = Quiet
      /\ UNCHANGED <<swarmPc, ready, tick, asked, seed, seedTimer>>
  BY DEF OpenConn, Inv, Base, TypeOK, swarmVars
<1>3. PlainTypes'
  BY <1>1, <1>2 DEF PlainTypes, Inv, Base, TypeOK
<1>4. /\ IsFiniteSet(OutPeers) /\ Cardinality(OutPeers) \in Nat
      /\ MaxOut \in Nat
  BY PeersFinite, PoolAssumption DEF OutPeers
<1>5. Pools' /\ (FreeOut' > 0 => FreeOut > 0)
  <2>1. CASE pool = "in"
    <3>1. OutPeers' = OutPeers
      BY <1>1, <1>2, <2>1 DEF OutPeers
    <3> QED BY <3>1 DEF Pools, FreeOut, OutPeers, Inv, Base
  <2>2. CASE pool = "out"
    <3>1. OutPeers' = OutPeers \cup {p} /\ p \notin OutPeers
      BY <1>1, <1>2, <2>2 DEF OutPeers
    <3>2. Cardinality(OutPeers \cup {p}) = Cardinality(OutPeers) + 1
      BY <1>4, <3>1, FS_AddElement
    <3>3. Cardinality(OutPeers) < MaxOut
      BY <1>1, <2>2 DEF SlotFree, OutPeers
    <3>4. /\ FreeOut = MaxOut - Cardinality(OutPeers)
          /\ FreeOut' = MaxOut - Cardinality(OutPeers')
      BY DEF FreeOut, OutPeers
    <3> QED BY <1>4, <3>1, <3>2, <3>3, <3>4 DEF Pools
  <2> QED BY <2>1, <2>2
<1>6. SameSwarm(Quiet) /\ Informs(Quiet, client')
  BY <1>2, QuietFields DEF Inv, Informs
<1>7. Owing(client)'
  BY <1>5, <1>6, InformsOwes, InvParts DEF Inv
<1>8. Driven' /\ SwarmDriven'
  BY <1>2, <1>6 DEF Inv, Driven, SwarmDriven, SameSwarm
<1> QED BY <1>2, <1>3, <1>5, <1>6, <1>7, <1>8, PartsKept DEF SameSwarm

(* A dropped connection is reported to the main process (peer.c:714).      *)
LEMMA DropConnKeeps ==
    ASSUME Inv, NEW p \in Peers, DropConn(p)
    PROVE  Inv'
<1>1. /\ conns \in [Peers -> {"none", "in", "out"}]
      /\ conns' = [conns EXCEPT ![p] = "none"]
      /\ client' \in Post(Quiet, "peer")
      /\ UNCHANGED <<swarmPc, ready, tick, asked, seed, seedTimer>>
  BY DEF DropConn, Inv, Base, TypeOK, swarmVars
<1>2. PlainTypes'
  BY <1>1 DEF PlainTypes, Inv, Base, TypeOK
<1>3. Pools'
  <2>1. OutPeers' \in SUBSET OutPeers
    BY <1>1 DEF OutPeers
  <2>2. IsFiniteSet(OutPeers) /\ Cardinality(OutPeers) \in Nat /\ MaxOut \in Nat
    BY PeersFinite, PoolAssumption DEF OutPeers
  <2>3. Cardinality(OutPeers') <= Cardinality(OutPeers)
    BY <2>1, <2>2, FS_Subset
  <2>4. Cardinality(OutPeers') \in Nat
    BY <2>1, <2>2, FS_Subset, FS_CardinalityType
  <2> QED BY <2>2, <2>3, <2>4 DEF Pools, Inv, Base
<1> QED BY <1>1, <1>2, <1>3, PostKeeps

(* A completed piece is reported too.                                      *)
LEMMA CompletePieceKeeps ==
    ASSUME Inv, CompletePiece
    PROVE  Inv'
<1>1. /\ client' \in Post(Quiet, "peer") /\ seed' \in BOOLEAN
      /\ UNCHANGED <<swarmPc, ready, tick, asked, conns, seedTimer>>
  BY DEF CompletePiece, swarmVars
<1>2. Pools' /\ FreeOut' = FreeOut /\ PlainTypes'
  BY <1>1, ConnsUnchanged DEF PlainTypes, Inv, Base, TypeOK
<1> QED BY <1>1, <1>2, PostKeeps

(* nanotorrent_stop leaves nobody who could owe anything.                  *)
LEMMA StopKeeps ==
    ASSUME Inv, Stop
    PROVE  Inv'
<1>1. SameSwarm(Quiet)
  BY QuietFields DEF Inv
<1> DEFINE u == LeaveQuiet(Quiet)
<1>2. /\ WellTyped(u) /\ Joins(u) /\ u.state = "LEFT"
  BY <1>1, LeaveQuietFields DEF SameSwarm
<1>3. /\ client' = [u EXCEPT !.main = "exited", !.inbox = <<>>]
      /\ swarmPc' = "ended" /\ asked' = FALSE
      /\ conns' = [p \in Peers |-> "none"]
      /\ UNCHANGED <<ready, tick, seed, seedTimer>>
  BY DEF Stop
<1> HIDE DEF u
<1>4. /\ WellTyped(client') /\ Joins(client')
      /\ client'.state = "LEFT" /\ client'.main = "exited"
  <2>1. <<>> \in Seq({"swarm", "peer", "timer"})
    BY EmptySeq
  <2> QED BY <1>2, <1>3, <2>1 DEF WellTyped, ClientType, Joins
<1>5. Pools'
  <2>1. OutPeers' = {}
    BY <1>3 DEF OutPeers
  <2> QED BY <2>1, FS_EmptySet, PoolAssumption DEF Pools
<1>6. PlainTypes'
  BY <1>3 DEF PlainTypes, Inv, Base, TypeOK
<1>7. Driven' /\ SwarmDriven' /\ Owing(client)'
  BY <1>3, <1>4 DEF Driven, SwarmDriven, Owing
<1> QED BY <1>4, <1>5, <1>6, <1>7, PartsKept

(* The invariant holds initially.                                          *)
LEMMA InitInv == Init => Inv
<1> SUFFICES ASSUME Init PROVE Inv
  OBVIOUS
<1>1. Pools
  <2>1. OutPeers = {}
    BY DEF Init, OutPeers
  <2> QED BY <2>1, FS_EmptySet, PoolAssumption DEF Pools
<1>2. CASE swarmPc = "waitReady" /\ client = [Begun EXCEPT !.state = "INIT"]
  <2>1. /\ WellTyped(client) /\ Joins(client) /\ client.state = "INIT"
        /\ client.main = "waitJoining" /\ client.sent = {}
    BY <1>2, BegunFields DEF WellTyped, ClientType, SwarmState, Joins
  <2>2. PlainTypes
    BY <1>2 DEF Init, PlainTypes
  <2>3. Driven /\ SwarmDriven /\ Owing(client)
    BY <1>2, <2>1 DEF Init, Driven, SwarmDriven, Owing
  <2> QED BY <1>1, <2>1, <2>2, <2>3, InvParts
<1>3. CASE swarmPc = "joining" /\ client \in Join(Begun)
  <2>1. /\ StepsTo(Begun, client) /\ client.state = "JOINING" /\ client.retry.armed
    BY <1>3, BegunFields, JoinHandled
  <2>2. /\ WellTyped(client) /\ Joins(client) /\ client.main = "waitJoining"
    BY <2>1, BegunFields DEF StepsTo, Informs
  <2>3. PlainTypes
    BY <1>3 DEF Init, PlainTypes
  <2>4. Driven /\ SwarmDriven /\ Owing(client)
    BY <1>3, <2>1, <2>2 DEF Init, Driven, SwarmDriven, Owing
  <2> QED BY <1>1, <2>2, <2>3, <2>4, InvParts
<1> QED BY <1>2, <1>3 DEF Init

(* Every step keeps it, stuttering included.                               *)
LEMMA NextInv == Inv /\ [Next]_vars => Inv'
<1> SUFFICES ASSUME Inv, [Next]_vars PROVE Inv'
  OBVIOUS
<1>1. CASE MainHandles
  BY <1>1, MainHandlesKeeps
<1>2. CASE SwarmTick \/ SwarmWoken
  BY <1>2, SwarmRunsKeeps
<1>3. CASE Timers
  BY <1>3, TimersKeep
<1>4. CASE Reply
  BY <1>4, ReplyKeeps
<1>5. CASE CompletePiece
  BY <1>5, CompletePieceKeeps
<1>6. CASE Stop
  BY <1>6, StopKeeps
<1>7. ASSUME NEW p \in Peers, OpenConn(p) \/ DropConn(p) PROVE Inv'
  BY <1>7, OpenConnKeeps, DropConnKeeps
<1>8. CASE UNCHANGED vars
  <2>1. UNCHANGED <<client, swarmPc, ready, tick, asked, conns, seed, seedTimer>>
    BY <1>8 DEF vars, swarmVars, peerVars
  <2>2. Pools'
    BY <2>1, ConnsUnchanged DEF Inv
  <2>3. /\ WellTyped(client') /\ Joins(client') /\ PlainTypes'
        /\ Driven' /\ SwarmDriven' /\ Owing(client)'
    BY <2>1, InvParts DEF PlainTypes, Driven, SwarmDriven, Owing, FreeOut
  <2> QED BY <2>2, <2>3, PartsKept
<1> QED BY <1>1, <1>2, <1>3, <1>4, <1>5, <1>6, <1>7, <1>8 DEF Next

(* It holds in every reachable state.                                      *)
THEOREM Invariance == Spec => []Inv
BY InitInv, NextInv, PTL DEF Spec

-----------------------------------------------------------------------------
(* The two processes and what they share are well typed, the list of known *)
(* peers as long as it may be.                                             *)
THEOREM TypeCorrect == Spec => []TypeOK
<1>1. Inv => TypeOK
  BY DEF Inv, Base
<1> QED BY Invariance, <1>1, PTL

(* Whatever replies come, and however late, the announce event that is     *)
(* retried tells a reply to a join from one to a refresh (swarm.c:335-349).*)
THEOREM EventTells == Spec => []EventTellsState
<1>1. Inv => EventTellsState
  BY DEF Inv, Base, Joins, EventTellsState
<1> QED BY Invariance, <1>1, PTL

(* The swarm process never sleeps for good while the client joins or is a  *)
(* member (swarm.c:371-390).                                               *)
THEOREM DrivenAlways == Spec => []SwarmDriven
<1>1. Inv => SwarmDriven
  BY DEF Inv
<1> QED BY Invariance, <1>1, PTL

(* The main process that exchanges pieces is a member, or will be told,    *)
(* unless an event was dropped (nanotorrent.c:83-86).                      *)
THEOREM LossTold == Spec => []LossPending
<1>1. Inv => LossPending
  BY DEF Inv
<1> QED BY Invariance, <1>1, PTL

(* A free slot and a known peer are not left alone, whatever the sizes of  *)
(* the pools and of the list, unless an event was dropped                  *)
(* (nanotorrent.c:166-177).                                                *)
THEOREM ReplacementTold == Spec => []ReplacementPending
<1>1. Inv => ReplacementPending
  BY DEF Inv
<1> QED BY Invariance, <1>1, PTL
=============================================================================
