-------------------------- MODULE MembershipProofs --------------------------
(***************************************************************************)
(* Proofs about the membership of one client in the tracker's table, for   *)
(* any periods, timeouts and retry limits, with or without wake-ups and    *)
(* repeated datagrams.  What the theorems need to know of the periods is   *)
(* stated in TriesFit and TriesOutlast.                                    *)
(***************************************************************************)
EXTENDS Membership, SwarmNodeProofs

-----------------------------------------------------------------------------
(* The powers of two of the back-off, as numbers of subsets. *)

Pow(n) == 2^n

(* A power of two is a number of subsets.                                  *)
LEMMA PowersCount ==
    ASSUME NEW n \in Nat
    PROVE  /\ IsFiniteSet(SUBSET (1 .. n)) /\ Cardinality(SUBSET (1 .. n)) = Pow(n)
           /\ Pow(n) \in Nat
<1>1. IsFiniteSet(1 .. n) /\ Cardinality(1 .. n) = n
  BY FS_Interval
<1>2. IsFiniteSet(SUBSET (1 .. n)) /\ Cardinality(SUBSET (1 .. n)) = 2^Cardinality(1 .. n)
  BY <1>1, FS_SUBSET
<1>3. Cardinality(SUBSET (1 .. n)) \in Nat
  BY <1>2, FS_CardinalityType
<1>4. Cardinality(SUBSET (1 .. n)) = Pow(n)
  BY <1>1, <1>2, Zenon DEF Pow
<1> QED BY <1>2, <1>3, <1>4

(* It is positive and grows with n.                                        *)
LEMMA PowersGrow ==
    ASSUME NEW n \in Nat
    PROVE  /\ Pow(n) \in Nat /\ Pow(n) >= 1
           /\ \A m \in 0 .. n : Pow(m) <= Pow(n)
<1>1. Pow(n) # 0
  <2>1. SUBSET (1 .. n) # {}
    OBVIOUS
  <2> QED BY <2>1, PowersCount, FS_EmptySet
<1>2. ASSUME NEW m \in 0 .. n PROVE Pow(m) <= Pow(n)
  <2> DEFINE P == SUBSET (1 .. m)
             Q == SUBSET (1 .. n)
  <2>1. P \in SUBSET Q
    OBVIOUS
  <2>2. Cardinality(P) = Pow(m) /\ IsFiniteSet(Q) /\ Cardinality(Q) = Pow(n)
    BY PowersCount
  <2> HIDE DEF P, Q
  <2>3. Cardinality(P) <= Cardinality(Q)
    BY <2>1, <2>2, FS_Subset
  <2> QED BY <2>2, <2>3
<1>3. Pow(n) \in Nat
  BY PowersCount
<1> QED BY <1>1, <1>2, <1>3

(* The back-off doubles (retry.c:42).                                      *)
LEMMA PowersDouble ==
    ASSUME NEW n \in Nat
    PROVE  Pow(n + 1) = 2 * Pow(n)
<1> DEFINE S == 1 .. n
           A == SUBSET S
           B == {s \cup {n + 1} : s \in A}
           f == [s \in A |-> s \cup {n + 1}]
<1>1. n + 1 \in Nat
  OBVIOUS
<1>2. /\ IsFiniteSet(A) /\ Cardinality(A) = Pow(n)
      /\ Cardinality(SUBSET (1 .. n + 1)) = Pow(n + 1)
  BY <1>1, PowersCount, Zenon
<1>3. SUBSET (1 .. n + 1) = A \cup B
  <2>1. ASSUME NEW s \in SUBSET (1 .. n + 1) PROVE s \in A \cup B
    <3>1. CASE n + 1 \in s
      <4>1. s \ {n + 1} \in A /\ s = (s \ {n + 1}) \cup {n + 1}
        BY <3>1
      <4> QED BY <4>1
    <3>2. CASE n + 1 \notin s
      BY <3>2
    <3> QED BY <3>1, <3>2
  <2>2. \A s \in A \cup B : s \in SUBSET (1 .. n + 1)
    OBVIOUS
  <2> QED BY <2>1, <2>2
<1>4. A \cap B = {}
  OBVIOUS
<1>5. IsFiniteSet(B) /\ Cardinality(B) = Cardinality(A)
  <2>1. f \in Bijection(A, B)
    <3>1. f \in [A -> B] /\ \A t \in B : \E s \in A : f[s] = t
      OBVIOUS
    <3>2. ASSUME NEW s \in A, NEW t \in A, f[s] = f[t] PROVE s = t
      <4>1. s = f[s] \ {n + 1} /\ t = f[t] \ {n + 1}
        OBVIOUS
      <4> QED BY <3>2, <4>1
    <3> HIDE DEF A, B, f
    <3> QED BY <3>1, <3>2 DEF Bijection, Injection, IsInjective, Surjection
  <2>2. ExistsBijection(A, B)
    BY <2>1 DEF ExistsBijection
  <2> QED BY <1>2, <2>2, FS_Bijection
<1>6. Cardinality(A \cup B) = Cardinality(A) + Cardinality(B) - Cardinality(A \cap B)
  BY <1>2, <1>5, FS_Union
<1>7. Cardinality(A \cap B) = 0
  BY <1>4, FS_EmptySet
<1>8. Pow(n) \in Nat
  BY PowersCount
<1>9. Cardinality(A \cup B) = Pow(n + 1)
  BY <1>2, <1>3
<1> HIDE DEF A, B
<1>10. Pow(n + 1) = Pow(n) + Pow(n) - 0
  BY <1>2, <1>5, <1>6, <1>7, <1>9
<1> QED BY <1>8, <1>10

(* The back-off before each try, at least one unit and doubling.           *)
LEMMA BackOffs ==
    ASSUME NEW n \in Nat
    PROVE  /\ BackOff(n) \in Nat /\ BackOff(n) >= 1
           /\ BackOff(n + 1) = 2 * BackOff(n)
           /\ \A m \in 0 .. n : BackOff(m) <= BackOff(n)
<1>1. RetryTimeout \in Nat /\ RetryTimeout >= 1
  BY ClockAssumption
<1>2. \A k \in Nat : BackOff(k) = RetryTimeout * Pow(k)
  BY DEF BackOff, Pow
<1>3. /\ Pow(n) \in Nat /\ Pow(n) >= 1
      /\ \A m \in 0 .. n : Pow(m) <= Pow(n)
  BY PowersGrow
<1>4. \A p, q \in Nat : p <= q => RetryTimeout * p <= RetryTimeout * q
  BY <1>1
<1>5. BackOff(n) \in Nat /\ BackOff(n) >= 1
  BY <1>1, <1>2, <1>3, <1>4
<1>6. BackOff(n + 1) = 2 * BackOff(n)
  <2>1. Pow(n + 1) = 2 * Pow(n) /\ n + 1 \in Nat
    BY PowersDouble
  <2>2. RetryTimeout * (2 * Pow(n)) = 2 * (RetryTimeout * Pow(n))
    BY <1>1, <1>3
  <2>3. BackOff(n) = RetryTimeout * Pow(n) /\ BackOff(n + 1) = RetryTimeout * Pow(n + 1)
    BY <1>2, <2>1
  <2> QED BY <2>1, <2>2, <2>3
<1>7. ASSUME NEW m \in 0 .. n PROVE BackOff(m) <= BackOff(n)
  <2>1. m \in Nat /\ Pow(m) \in Nat /\ Pow(m) <= Pow(n)
    BY <1>3, PowersGrow
  <2>2. BackOff(m) = RetryTimeout * Pow(m) /\ BackOff(n) = RetryTimeout * Pow(n)
    BY <1>2, <2>1
  <2> QED BY <1>3, <1>4, <2>1, <2>2
<1> QED BY <1>5, <1>6, <1>7

(* The first timer runs for one timeout.                                   *)
LEMMA FirstBackOff == BackOff(0) = RetryTimeout
<1>1. 2^0 = 1
  OBVIOUS
<1> QED BY <1>1, ClockAssumption DEF BackOff

-----------------------------------------------------------------------------
(* The inductive invariant. *)

(* The retry counter of a client that has tried. *)
Tried(r) ==
    /\ r.max = MaxRetries /\ r.num >= 1
    /\ r.armed => r.num <= MaxRetries

(* The client between two steps: what was sent was handed over, a timer    *)
(* that runs has the time of its try left, and a member's refresh timer is *)
(* set.                                                                    *)
Shape ==
    /\ WellTyped(client) /\ Joins(client)
    /\ client.sent = {}
    /\ Tried(client.retry)
    /\ client.state = "JOINED" => client.refresh

Timing ==
    /\ left = [retry |-> left.retry, refresh |-> left.refresh]
    /\ left.retry \in Nat /\ left.refresh \in 0 .. RefreshPeriod
    /\ IF client.retry.armed THEN left.retry <= BackOff(client.retry.num - 1)
       ELSE left.retry = 0
    /\ ~client.refresh => left.refresh = 0

PlainTypes ==
    /\ swarmPc \in {"joining", "joined", "ended", "stopped"}
    /\ net \subseteq AnnounceEvent \cup {"reply"}
    /\ tracked \in BOOLEAN
    /\ age \in Nat /\ (tracked \/ age = 0)
    /\ purgeIn \in 0 .. PurgePeriod
    /\ answered \in BOOLEAN
    /\ missed \in 0 .. Misses

(* The tracker purges before an entry can grow older. *)
PurgeDue == tracked => age + purgeIn <= MaxAge + PurgePeriod

(* A reply follows an announce at once. *)
RepliesFresh == "reply" \in net /\ tracked => age = 0

Inv == Shape /\ Timing /\ PlainTypes /\ PurgeDue /\ RepliesFresh

-----------------------------------------------------------------------------
(* A client that is well formed and what it leaves behind after a round. *)

(* Client c is what a handler leaves, before what it sent is handed over.  *)
Fit(c) ==
    /\ WellTyped(c) /\ Joins(c) /\ Tried(c.retry)
    /\ c.retry.armed /\ c.sent = {} => c.retry = client.retry
    /\ c.sent # {} => c.retry.armed
    /\ c.state = "JOINED" => c.refresh

(* What is left of a client when its posts were taken. *)
Carries(c) ==
    /\ client'.state = c.state /\ client'.retry = c.retry /\ client'.event = c.event
    /\ client'.refresh = c.refresh /\ client'.known = c.known /\ client'.main = c.main

(* Handing over keeps the client well formed.                              *)
LEMMA HandedOver ==
    ASSUME NEW c, WellTyped(c), Joins(c), client' = Handled([c EXCEPT !.sent = {}])
    PROVE  WellTyped(client') /\ Joins(client') /\ client'.sent = {} /\ Carries(c)
<1>1. <<>> \in Seq({"swarm", "peer", "timer"})
  BY EmptySeq
<1> DEFINE d == [c EXCEPT !.sent = {}]
<1>2. /\ WellTyped(d) /\ d.sent = {} /\ Joins(d)
      /\ d.state = c.state /\ d.retry = c.retry /\ d.event = c.event
      /\ d.refresh = c.refresh /\ d.known = c.known /\ d.main = c.main
  BY DEF WellTyped, ClientType, Joins
<1> HIDE DEF d
<1>3. client' = [d EXCEPT !.inbox = <<>>, !.lost = FALSE]
  BY DEF Handled, d
<1>4. /\ WellTyped(client') /\ client'.sent = {}
      /\ Carries(c)
  BY <1>1, <1>2, <1>3 DEF WellTyped, ClientType, Carries
<1>5. Joins(client')
  BY <1>2, <1>4 DEF Joins, Carries
<1> QED BY <1>4, <1>5

(* ... and its timers as long as they may be.                              *)
LEMMA FitTimes ==
    ASSUME Shape, Timing, NEW c, Fit(c), NEW renewed \in BOOLEAN,
           client' = Handled([c EXCEPT !.sent = {}]), left' = Timed(c, renewed)
    PROVE  /\ Shape' /\ Timing' /\ Carries(c)
           /\ left'.retry = (IF ~c.retry.armed THEN 0
                             ELSE IF c.sent # {} THEN BackOff(c.retry.num - 1)
                             ELSE left.retry)
           /\ left'.refresh = (IF ~c.refresh THEN 0
                               ELSE IF renewed THEN RefreshPeriod ELSE left.refresh)
<1>1. WellTyped(client') /\ Joins(client') /\ client'.sent = {} /\ Carries(c)
  BY HandedOver DEF Fit
<1>2. Shape'
  BY <1>1 DEF Shape, Fit, Carries
<1>3. /\ left' = [retry |-> left'.retry, refresh |-> left'.refresh]
      /\ left'.retry = (IF ~c.retry.armed THEN 0
                        ELSE IF c.sent # {} THEN BackOff(c.retry.num - 1)
                        ELSE left.retry)
      /\ left'.refresh = (IF ~c.refresh THEN 0
                          ELSE IF renewed THEN RefreshPeriod ELSE left.refresh)
  BY DEF Timed, RetryLeft
<1>4. left'.refresh \in 0 .. RefreshPeriod
  BY <1>3, ClockAssumption DEF Timing
<1>5. left'.retry \in Nat /\ (IF c.retry.armed THEN left'.retry <= BackOff(c.retry.num - 1)
                              ELSE left'.retry = 0)
  <2>1. CASE ~c.retry.armed
    BY <1>3, <2>1
  <2>2. CASE c.retry.armed /\ c.sent # {}
    <3>1. c.retry.num - 1 \in Nat
      BY <2>2, AnnounceAssumption DEF Fit, Tried, WellTyped, ClientType, RetryRecord
    <3>2. BackOff(c.retry.num - 1) \in Nat
      BY <3>1, BackOffs
    <3> QED BY <1>3, <2>2, <3>2
  <2>3. CASE c.retry.armed /\ c.sent = {}
    <3>1. c.retry = client.retry /\ left'.retry = left.retry
      BY <1>3, <2>3 DEF Fit
    <3> QED BY <2>3, <3>1 DEF Timing
  <2> QED BY <2>1, <2>2, <2>3
<1>6. Timing'
  BY <1>1, <1>3, <1>4, <1>5 DEF Timing, Carries
<1> QED BY <1>1, <1>2, <1>3, <1>6

(* The timers that have run out, as the swarm process sees them.           *)
LEMMA ExpiredFields ==
    ASSUME Shape, Timing
    PROVE  /\ WellTyped(Expired) /\ Joins(Expired) /\ Tried(Expired.retry)
           /\ Expired.state = client.state /\ Expired.event = client.event
           /\ Expired.sent = {} /\ Expired.main = client.main
           /\ Expired.retry.num = client.retry.num
           /\ Expired.retry.max = client.retry.max
           /\ Expired.retry.armed = (client.retry.armed /\ left.retry > 0)
           /\ Expired.retry.armed => Expired.retry = client.retry
           /\ Expired.refresh = (client.refresh /\ left.refresh > 0)
<1> DEFINE r == IF client.retry.armed /\ left.retry = 0 THEN RetryStop(client.retry)
                ELSE client.retry
           f == client.refresh /\ left.refresh # 0
<1>1. client.retry \in RetryRecord(MaxRetries)
  BY DEF Shape, WellTyped, ClientType
<1>2. /\ r \in RetryRecord(MaxRetries)
      /\ r.num = client.retry.num /\ r.max = client.retry.max
      /\ r.armed = (client.retry.armed /\ left.retry > 0)
      /\ r.armed => r = client.retry
  <2>1. CASE client.retry.armed /\ left.retry = 0
    <3>1. /\ RetryStop(client.retry) \in RetryRecord(MaxRetries)
          /\ ~RetryStop(client.retry).armed
          /\ RetryStop(client.retry).num = client.retry.num
          /\ RetryStop(client.retry).max = client.retry.max
      BY <1>1, AnnounceRetryTypes DEF RetryStop, RetryRecord
    <3>2. r = RetryStop(client.retry)
      BY <2>1
    <3>3. (client.retry.armed /\ left.retry > 0) = FALSE
      BY <2>1
    <3>4. r.armed = FALSE
      <4>1. r.armed \in BOOLEAN /\ ~r.armed
        BY <3>1, <3>2 DEF RetryRecord
      <4> QED BY <4>1
    <3> QED BY <3>1, <3>2, <3>3, <3>4
  <2>2. CASE ~(client.retry.armed /\ left.retry = 0)
    <3>1. client.retry.armed \in BOOLEAN
      BY <1>1 DEF RetryRecord
    <3>2. left.retry \in Nat
      BY DEF Timing
    <3>3. r = client.retry
      BY <2>2
    <3>4. client.retry.armed = (client.retry.armed /\ left.retry > 0)
      <4>1. client.retry.armed => left.retry > 0
        BY <2>2, <3>2
      <4> QED BY <3>1, <4>1
    <3> QED BY <1>1, <3>3, <3>4
  <2> QED BY <2>1, <2>2
<1>3. f \in BOOLEAN /\ f = (client.refresh /\ left.refresh > 0)
  BY DEF Timing
<1>4. Expired = [client EXCEPT !.retry = r, !.refresh = f]
  BY DEF Expired
<1> HIDE DEF r, f
<1>5. /\ WellTyped(Expired)
      /\ Expired.retry = r /\ Expired.refresh = f
      /\ Expired.state = client.state /\ Expired.event = client.event
      /\ Expired.sent = client.sent /\ Expired.main = client.main
  BY <1>2, <1>3, <1>4 DEF Shape, WellTyped, ClientType
<1>6. Joins(Expired) /\ Tried(Expired.retry)
  BY <1>2, <1>5 DEF Shape, Joins, Tried
<1> QED BY <1>2, <1>3, <1>5, <1>6 DEF Shape

(* One more try: the client transmits and waits twice as long.             *)
Tries(c) ==
    /\ RetryDue(Expired.retry) /\ WillTryAgain(client.retry)
    /\ c.retry.armed /\ c.retry.num = client.retry.num + 1
    /\ c.sent = {client.event} /\ c.state = client.state
    /\ c.refresh = Expired.refresh

(* The last try was in vain. *)
GivesUp(c) ==
    /\ RetryDue(Expired.retry) /\ WillGiveUp(client.retry)
    /\ c.state = "LEFT" /\ ~c.retry.armed /\ c.sent = {}

(* The refresh timer of a member has run out. *)
Refreshes(c) ==
    /\ ~Expired.refresh /\ c.refresh
    /\ RetryDue(Expired.retry) => WillTryAgain(client.retry)
    /\ c.retry.armed /\ c.retry.num = 1
    /\ c.sent # {} /\ c.sent \subseteq {client.event, "REFRESH"}
    /\ c.state = "JOINED" /\ client.state = "JOINED"

(* Nothing was due, or the client is none that cares. *)
Rests(c) ==
    /\ c.retry = Expired.retry /\ c.sent = {} /\ c.state = client.state
    /\ c.refresh = Expired.refresh
    /\ client.state = "JOINED" => Expired.refresh /\ ~RetryDue(Expired.retry)

(* A round of the retries.                                                 *)
LEMMA RetryRound ==
    ASSUME Shape, Timing, NEW c \in ProcessRetry(Expired)
    PROVE  /\ WellTyped(c) /\ Joins(c) /\ Tried(c.retry)
           /\ c.state \in {client.state, "LEFT"}
           /\ c.sent \subseteq {client.event}
           /\ \/ Tries(c)
              \/ GivesUp(c) /\ ~c.refresh
              \/ ~RetryDue(Expired.retry) /\ c = Expired
<1>1. /\ WellTyped(Expired) /\ Joins(Expired) /\ Tried(Expired.retry)
      /\ Expired.state = client.state /\ Expired.event = client.event
      /\ Expired.sent = {}
      /\ Expired.retry.num = client.retry.num /\ Expired.retry.max = client.retry.max
  BY ExpiredFields
<1> DEFINE x == Expired
<1>2. /\ StepsTo(x, c)
      /\ \/ ~RetryDue(x.retry) /\ c = x
         \/ /\ RetryDue(x.retry)
            /\ c.state = x.state /\ c.event = x.event /\ c.refresh = x.refresh
            /\ c.retry.armed
            /\ WillTryAgain(x.retry)
            /\ c.retry.num = x.retry.num + 1 /\ c.retry.max = x.retry.max
            /\ c.sent = x.sent \cup {x.event}
         \/ /\ RetryDue(x.retry) /\ WillGiveUp(x.retry)
            /\ c.state = "LEFT" /\ ~c.refresh /\ c.sent = x.sent
            /\ ~c.retry.armed
            /\ c.retry.num = x.retry.num + 1 /\ c.retry.max = x.retry.max
  BY <1>1, ProcessRetryHandled
<1>3. /\ WillTryAgain(x.retry) <=> WillTryAgain(client.retry)
      /\ WillGiveUp(x.retry) <=> WillGiveUp(client.retry)
  BY <1>1 DEF WillTryAgain, WillGiveUp
<1>4. x.retry.num \in Nat /\ x.retry.max \in Nat
  BY <1>1, AnnounceAssumption DEF WellTyped, ClientType, RetryRecord
<1>5. WellTyped(c) /\ Joins(c)
  BY <1>2 DEF StepsTo
<1> HIDE DEF x
<1>6. CASE ~RetryDue(x.retry) /\ c = x
  BY <1>1, <1>5, <1>6 DEF x
<1>7. CASE /\ RetryDue(x.retry)
           /\ c.state = x.state /\ c.event = x.event /\ c.refresh = x.refresh
           /\ c.retry.armed
           /\ WillTryAgain(x.retry)
           /\ c.retry.num = x.retry.num + 1 /\ c.retry.max = x.retry.max
           /\ c.sent = x.sent \cup {x.event}
  <2>1. Tried(c.retry)
    BY <1>1, <1>4, <1>7 DEF Tried, WillTryAgain, x
  <2>2. Tries(c)
    BY <1>1, <1>3, <1>7 DEF Tries, x
  <2> QED BY <1>5, <2>1, <2>2 DEF Tries
<1>8. CASE /\ RetryDue(x.retry) /\ WillGiveUp(x.retry)
           /\ c.state = "LEFT" /\ ~c.refresh /\ c.sent = x.sent
           /\ ~c.retry.armed
           /\ c.retry.num = x.retry.num + 1 /\ c.retry.max = x.retry.max
  <2>1. Tried(c.retry)
    BY <1>1, <1>4, <1>8 DEF Tried, x
  <2>2. GivesUp(c)
    BY <1>1, <1>3, <1>8 DEF GivesUp, x
  <2> QED BY <1>5, <1>8, <2>1, <2>2 DEF GivesUp
<1> QED BY <1>2, <1>6, <1>7, <1>8

(* A round of the joined loop: retries, and then the refresh timer.        *)
LEMMA JoinedRoundOf ==
    ASSUME Shape, Timing, client.state = "JOINED", NEW c \in JoinedRound(Expired)
    PROVE  /\ WellTyped(c) /\ Joins(c) /\ Tried(c.retry)
           /\ c.sent \subseteq AnnounceEvent
           /\ c.state = "JOINED" => c.refresh
           /\ Tries(c) \/ GivesUp(c) \/ Refreshes(c) \/ Rests(c)
<1>1. PICK t \in ProcessRetry(Expired) : c = RefreshWhenDue(t)
  BY DEF JoinedRound
<1>2. /\ WellTyped(t) /\ Joins(t) /\ Tried(t.retry)
      /\ t.state \in {"JOINED", "LEFT"}
      /\ t.sent \subseteq {client.event}
      /\ \/ Tries(t)
         \/ GivesUp(t) /\ ~t.refresh
         \/ ~RetryDue(Expired.retry) /\ t = Expired
  BY RetryRound
<1>3. /\ StepsTo(t, c)
      /\ c.state = t.state /\ c.refresh
      /\ \/ c.retry = t.retry /\ c.sent = t.sent /\ (~t.refresh => t.state # "JOINED")
         \/ /\ ~t.refresh
            /\ c.retry.armed /\ c.retry.num = 1 /\ c.retry.max = MaxRetries
            /\ c.sent = t.sent \cup {"REFRESH"}
  BY <1>1, <1>2, RefreshWhenDueHandled
<1>4. t.refresh => c = t
  BY <1>1 DEF RefreshWhenDue
<1>5. t.state = "LEFT" => c = [t EXCEPT !.refresh = TRUE] \/ c = t
  BY <1>1 DEF RefreshWhenDue
<1>6. client.event \in AnnounceEvent /\ "REFRESH" \in AnnounceEvent
  BY DEF Shape, WellTyped, ClientType, AnnounceEvent
<1>7. WellTyped(c) /\ Joins(c)
  BY <1>3 DEF StepsTo
<1>8. Tried(c.retry)
  BY <1>2, <1>3, AnnounceAssumption DEF Tried
<1>9. c.sent \subseteq AnnounceEvent
  BY <1>2, <1>3, <1>6
<1>10. /\ Expired.state = client.state /\ Expired.sent = {}
  BY ExpiredFields
<1>11. Tries(c) \/ GivesUp(c) \/ Refreshes(c) \/ Rests(c)
  <2>1. CASE t.refresh
    BY <1>2, <1>4, <1>10, <2>1 DEF Rests
  <2>2. CASE GivesUp(t)
    <3>1. c.retry = t.retry /\ c.sent = t.sent /\ c.state = t.state
      BY <1>2, <1>5, <2>2 DEF GivesUp, WellTyped, ClientType
    <3> QED BY <2>2, <3>1 DEF GivesUp
  <2>3. CASE ~t.refresh /\ ~GivesUp(t)
    <3>1. t.state = "JOINED" /\ Expired.refresh = t.refresh
      BY <1>2, <1>10, <2>3 DEF Tries
    <3>2. RetryDue(Expired.retry) => WillTryAgain(client.retry)
      BY <1>2, <2>3 DEF Tries
    <3> QED BY <1>2, <1>3, <2>3, <3>1, <3>2 DEF Refreshes
  <2> QED BY <2>1, <2>2, <2>3
<1> QED BY <1>3, <1>7, <1>8, <1>9, <1>11

-----------------------------------------------------------------------------
(* What each step keeps. *)

(* How a loop of the swarm process leaves the client.                      *)
LoopLeaves(c) ==
    /\ Fit(c) /\ c.sent \subseteq AnnounceEvent
    /\ Becomes(c, c.refresh /\ ~Expired.refresh)
    /\ answered' = (answered /\ ~Begins(c))
    /\ IF client.state = "JOINED"
       THEN Tries(c) \/ GivesUp(c) \/ Refreshes(c) \/ Rests(c)
       ELSE c.state # "JOINED"

(* The tries, the last one, a refresh and a round without any leave the    *)
(* client well formed.                                                     *)
LEMMA RoundsFit ==
    ASSUME Shape, Timing, NEW c, WellTyped(c), Joins(c), Tried(c.retry),
           c.state = "JOINED" => c.refresh,
           \/ Tries(c) \/ GivesUp(c) \/ Refreshes(c) \/ Rests(c)
    PROVE  Fit(c)
<1>1. CASE Tries(c)
  BY <1>1 DEF Tries, Fit
<1>2. CASE GivesUp(c)
  BY <1>2 DEF GivesUp, Fit
<1>3. CASE Refreshes(c)
  BY <1>3 DEF Refreshes, Fit
<1>4. CASE Rests(c)
  BY <1>4, ExpiredFields DEF Rests, Fit
<1> QED BY <1>1, <1>2, <1>3, <1>4

(* ... and so does every loop.                                             *)
LEMMA LoopOf ==
    ASSUME Inv, SwarmRuns
    PROVE  /\ \E c : LoopLeaves(c)
           /\ swarmPc' \in {"joining", "joined", "ended"}
           /\ UNCHANGED <<trackerVars, missed>>
<1>1. Shape /\ Timing
  BY DEF Inv
<1>2. /\ WellTyped(Expired) /\ Joins(Expired) /\ Tried(Expired.retry)
      /\ Expired.state = client.state /\ Expired.sent = {}
      /\ Expired.retry.armed => Expired.retry = client.retry
  BY <1>1, ExpiredFields
<1>3. client.event \in AnnounceEvent
  BY <1>1 DEF Shape, WellTyped, ClientType
<1>4. ASSUME LoopsJoining(swarmPc, Expired), Loop("joining", ProcessRetry(Expired))
      PROVE  \E c : LoopLeaves(c)
  <2>1. client.state # "JOINED"
    BY <1>2, <1>4 DEF LoopsJoining
  <2>2. PICK c \in ProcessRetry(Expired) :
            /\ Becomes(c, c.refresh /\ ~Expired.refresh)
            /\ answered' = (answered /\ ~Begins(c))
    BY <1>4 DEF Loop
  <2>3. /\ WellTyped(c) /\ Joins(c) /\ Tried(c.retry)
        /\ c.state \in {client.state, "LEFT"}
        /\ c.sent \subseteq {client.event}
        /\ \/ Tries(c)
           \/ GivesUp(c) /\ ~c.refresh
           \/ ~RetryDue(Expired.retry) /\ c = Expired
    BY <1>1, RetryRound
  <2>4. c.state # "JOINED" /\ c.sent \subseteq AnnounceEvent
    BY <1>3, <2>1, <2>3
  <2>5. Fit(c)
    <3>1. CASE Tries(c) \/ GivesUp(c)
      BY <1>1, <2>3, <2>4, <3>1, RoundsFit
    <3>2. CASE c = Expired
      BY <1>2, <2>3, <2>4, <3>2 DEF Fit
    <3> QED BY <2>3, <3>1, <3>2
  <2> QED BY <2>1, <2>2, <2>4, <2>5 DEF LoopLeaves
<1>5. ASSUME LoopsJoined(swarmPc, Expired), Loop("joined", JoinedRound(Expired))
      PROVE  \E c : LoopLeaves(c)
  <2>1. client.state = "JOINED"
    BY <1>2, <1>5 DEF LoopsJoined
  <2>2. PICK c \in JoinedRound(Expired) :
            /\ Becomes(c, c.refresh /\ ~Expired.refresh)
            /\ answered' = (answered /\ ~Begins(c))
    BY <1>5 DEF Loop
  <2>3. /\ WellTyped(c) /\ Joins(c) /\ Tried(c.retry)
        /\ c.sent \subseteq AnnounceEvent
        /\ c.state = "JOINED" => c.refresh
        /\ Tries(c) \/ GivesUp(c) \/ Refreshes(c) \/ Rests(c)
    BY <1>1, <2>1, JoinedRoundOf
  <2>4. Fit(c)
    BY <1>1, <2>3, RoundsFit
  <2> QED BY <2>1, <2>2, <2>3, <2>4 DEF LoopLeaves
<1>6. ASSUME LoopEnds(swarmPc, Expired), Loop("ended", {Expired})
      PROVE  \E c : LoopLeaves(c)
  <2>1. client.state # "JOINED"
    BY <1>2, <1>6 DEF LoopEnds
  <2>2. PICK c \in {Expired} :
            /\ Becomes(c, c.refresh /\ ~Expired.refresh)
            /\ answered' = (answered /\ ~Begins(c))
    BY <1>6 DEF Loop
  <2>3. c = Expired
    OBVIOUS
  <2>4. Fit(c) /\ c.sent \subseteq AnnounceEvent /\ c.state # "JOINED"
    BY <1>2, <2>1, <2>3 DEF Fit
  <2> QED BY <2>1, <2>2, <2>4 DEF LoopLeaves
<1> QED BY <1>4, <1>5, <1>6 DEF SwarmRuns, Loop

(* The client's timers and state after a loop.                             *)
LEMMA LoopTimes ==
    ASSUME Inv, NEW c, LoopLeaves(c)
    PROVE  /\ Shape' /\ Timing' /\ Carries(c)
           /\ left'.retry = (IF ~c.retry.armed THEN 0
                             ELSE IF c.sent # {} THEN BackOff(c.retry.num - 1)
                             ELSE left.retry)
           /\ left'.refresh = (IF ~c.refresh THEN 0
                               ELSE IF Expired.refresh THEN left.refresh
                               ELSE RefreshPeriod)
           /\ net' = net \cup c.sent
           /\ answered' \in BOOLEAN
<1> DEFINE renewed == c.refresh /\ ~Expired.refresh
<1>1. /\ client' = Handled([c EXCEPT !.sent = {}])
      /\ left' = Timed(c, renewed) /\ net' = net \cup c.sent
      /\ Fit(c) /\ answered' = (answered /\ ~Begins(c))
  BY DEF LoopLeaves, Becomes
<1>2. renewed \in BOOLEAN /\ (c.refresh => (renewed <=> ~Expired.refresh))
  OBVIOUS
<1> HIDE DEF renewed
<1>3. /\ Shape' /\ Timing' /\ Carries(c)
      /\ left'.retry = (IF ~c.retry.armed THEN 0
                        ELSE IF c.sent # {} THEN BackOff(c.retry.num - 1)
                        ELSE left.retry)
      /\ left'.refresh = (IF ~c.refresh THEN 0
                          ELSE IF renewed THEN RefreshPeriod ELSE left.refresh)
  BY <1>1, <1>2, FitTimes DEF Inv
<1> QED BY <1>1, <1>2, <1>3

(* A step of the swarm process leaves the tracker alone.                   *)
LEMMA SwarmRunsKeeps ==
    ASSUME Inv, SwarmRuns
    PROVE  Inv'
<1>1. PICK c : LoopLeaves(c)
  BY LoopOf
<1>2. Shape' /\ Timing' /\ net' = net \cup c.sent /\ answered' \in BOOLEAN
  BY <1>1, LoopTimes
<1>3. c.sent \subseteq AnnounceEvent /\ "reply" \notin AnnounceEvent
  BY <1>1 DEF LoopLeaves, AnnounceEvent
<1>4. /\ swarmPc' \in {"joining", "joined", "ended"}
      /\ tracked' = tracked /\ age' = age /\ purgeIn' = purgeIn /\ missed' = missed
  BY LoopOf DEF trackerVars
<1>5. PlainTypes'
  BY <1>2, <1>3, <1>4 DEF Inv, PlainTypes
<1>6. PurgeDue' /\ RepliesFresh'
  BY <1>2, <1>3, <1>4 DEF Inv, PurgeDue, RepliesFresh
<1> QED BY <1>2, <1>5, <1>6 DEF Inv

(* A reply sets the refresh timer and stops the retries.                   *)
LEMMA ReplyLeaves ==
    ASSUME Inv, ReceiveReply
    PROVE  /\ Shape' /\ Timing'
           /\ client'.state = (IF client.state = "JOINING" THEN "JOINED" ELSE client.state)
           /\ ~client'.retry.armed /\ left'.refresh = RefreshPeriod
           /\ answered' = TRUE
           /\ "reply" \in net /\ net' \in {net, net \ {"reply"}}
           /\ UNCHANGED <<swarmPc, trackerVars, missed>>
<1>1. PICK c \in HandleReply(client, <<>>) :
            client' = Handled(c) /\ left' = Timed(c, TRUE)
  BY DEF ReceiveReply
<1>2. /\ <<>> \in Seq(Peers) /\ Pushed(<<>>) \in Seq(Peers)
      /\ Len(Pushed(<<>>)) <= MaxSwarmPeers
  <2>1. <<>> \in Seq(Peers) /\ Len(<<>>) = 0
    BY EmptySeq
  <2>2. Pushed(<<>>) = <<>>
    BY DEF Pushed
  <2>3. Pushed(<<>>) \in Seq(Peers)
    BY <2>1, <2>2, Zenon
  <2>4. Len(Pushed(<<>>)) = 0
    BY <2>1, <2>2, Zenon
  <2>5. 0 <= MaxSwarmPeers
    BY AnnounceAssumption
  <2> QED BY <2>1, <2>3, <2>4, <2>5
<1>3. /\ WellTyped(client) /\ Joins(client) /\ client.sent = {} /\ Tried(client.retry)
      /\ client.retry \in RetryRecord(MaxRetries)
  BY DEF Inv, Shape, WellTyped, ClientType
<1>4. /\ StepsTo(client, c)
      /\ c.state = (IF client.state = "JOINING" THEN "JOINED" ELSE client.state)
      /\ c.refresh /\ c.retry = RetryStop(client.retry) /\ c.sent = client.sent
  BY <1>2, <1>3, HandleReplyHandled
<1>5. ~c.retry.armed /\ Tried(c.retry)
  BY <1>3, <1>4 DEF RetryStop, RetryRecord, Tried
<1>6. Fit(c)
  BY <1>3, <1>4, <1>5 DEF Fit, StepsTo
<1>7. c = [c EXCEPT !.sent = {}]
  BY <1>3, <1>4 DEF StepsTo, WellTyped, ClientType
<1>8. client' = Handled([c EXCEPT !.sent = {}])
  BY <1>1, <1>7
<1>9. /\ Shape' /\ Timing' /\ Carries(c)
      /\ left'.refresh = (IF ~c.refresh THEN 0
                          ELSE IF TRUE THEN RefreshPeriod ELSE left.refresh)
  BY <1>1, <1>6, <1>8, FitTimes DEF Inv
<1> QED BY <1>4, <1>5, <1>9 DEF ReceiveReply, Repeated, Carries

(* ... so that the invariant holds after it.                               *)
LEMMA ReceiveReplyKeeps ==
    ASSUME Inv, ReceiveReply
    PROVE  Inv'
<1>1. /\ Shape' /\ Timing' /\ answered' = TRUE
      /\ "reply" \in net /\ net' \in {net, net \ {"reply"}}
      /\ swarmPc' = swarmPc /\ tracked' = tracked /\ age' = age
      /\ purgeIn' = purgeIn /\ missed' = missed
  BY ReplyLeaves DEF trackerVars
<1>2. PlainTypes'
  BY <1>1 DEF Inv, PlainTypes
<1>3. PurgeDue' /\ RepliesFresh'
  BY <1>1 DEF Inv, PurgeDue, RepliesFresh
<1> QED BY <1>1, <1>2, <1>3 DEF Inv

(* The end of the main process.                                            *)
LEMMA MainEndsKeeps ==
    ASSUME Inv, MainEnds
    PROVE  Inv'
<1>1. /\ WellTyped(client)
      /\ client' = [client EXCEPT !.main = "exited"]
      /\ swarmPc' = swarmPc /\ left' = left /\ answered' = answered
      /\ tracked' = tracked /\ age' = age /\ purgeIn' = purgeIn
      /\ net' = net /\ missed' = missed
  BY DEF Inv, Shape, MainEnds, trackerVars
<1>2. /\ WellTyped(client')
      /\ client'.state = client.state /\ client'.retry = client.retry
      /\ client'.event = client.event /\ client'.refresh = client.refresh
      /\ client'.sent = client.sent
  BY <1>1 DEF WellTyped, ClientType
<1>3. Shape'
  BY <1>2 DEF Inv, Shape, Joins
<1>4. Timing'
  BY <1>1, <1>2 DEF Inv, Timing
<1>5. PlainTypes' /\ PurgeDue' /\ RepliesFresh'
  BY <1>1 DEF Inv, PlainTypes, PurgeDue, RepliesFresh
<1> QED BY <1>3, <1>4, <1>5 DEF Inv

(* A client that is stopped has no timers.                                 *)
LEMMA StopKeeps ==
    ASSUME Inv, Stop
    PROVE  Inv' /\ client'.state = "LEFT" /\ swarmPc' = "stopped"
<1> DEFINE q == LeaveQuiet(client)
<1>1. /\ WellTyped(client) /\ client.sent = {} /\ Tried(client.retry)
      /\ client.retry \in RetryRecord(MaxRetries)
  BY DEF Inv, Shape, WellTyped, ClientType
<1>2. /\ WellTyped(q) /\ Joins(q)
      /\ q.state = "LEFT" /\ ~q.retry.armed /\ ~q.refresh
      /\ q.sent = {} /\ q.retry = RetryStop(client.retry)
  BY <1>1, LeaveQuietFields
<1>3. Tried(q.retry)
  BY <1>1, <1>2 DEF Tried, RetryStop, RetryRecord
<1>4. /\ client' = [q EXCEPT !.main = "exited"]
      /\ swarmPc' = "stopped" /\ left' = [retry |-> 0, refresh |-> 0]
      /\ answered' = answered
      /\ tracked' = tracked /\ age' = age /\ purgeIn' = purgeIn
      /\ net' = net /\ missed' = missed
  BY DEF Stop, trackerVars
<1> HIDE DEF q
<1>5. /\ WellTyped(client')
      /\ client'.state = q.state /\ client'.retry = q.retry
      /\ client'.event = q.event /\ client'.refresh = q.refresh
      /\ client'.sent = q.sent
  BY <1>2, <1>4 DEF WellTyped, ClientType
<1>6. Shape'
  BY <1>2, <1>3, <1>5 DEF Shape, Joins
<1>7. Timing'
  BY <1>2, <1>4, <1>5, ClockAssumption DEF Timing
<1>8. PlainTypes' /\ PurgeDue' /\ RepliesFresh'
  BY <1>4 DEF Inv, PlainTypes, PurgeDue, RepliesFresh
<1> QED BY <1>2, <1>4, <1>5, <1>6, <1>7, <1>8 DEF Inv

(* A client that begins to join.                                           *)
LEMMA JoinFits ==
    ASSUME NEW c \in Join(Begun)
    PROVE  /\ WellTyped(c) /\ Joins(c) /\ Tried(c.retry)
           /\ c.state = "JOINING" /\ c.retry.armed /\ c.retry.num = 1
           /\ ~c.refresh /\ c.sent = {"STARTED"}
<1>1. /\ WellTyped(Begun) /\ Begun.state = "LEFT" /\ Begun.refresh = FALSE
      /\ Begun.sent = {}
  BY BegunFields
<1>2. /\ StepsTo(Begun, c)
      /\ c.state = "JOINING" /\ c.refresh = Begun.refresh
      /\ c.retry.armed /\ c.retry.num = 1 /\ c.retry.max = MaxRetries
      /\ c.sent = Begun.sent \cup {"STARTED"}
  BY <1>1, JoinHandled
<1>3. Tried(c.retry)
  BY <1>2, AnnounceAssumption DEF Tried
<1> QED BY <1>1, <1>2, <1>3 DEF StepsTo

(* A client that starts again announces itself.                            *)
LEMMA StartKeeps ==
    ASSUME Inv, Start
    PROVE  Inv' /\ client'.state = "JOINING"
<1>1. PICK c \in Join(Begun) : Becomes(c, FALSE)
  BY DEF Start
<1>2. /\ WellTyped(c) /\ Joins(c) /\ Tried(c.retry)
      /\ c.state = "JOINING" /\ c.retry.armed /\ c.retry.num = 1
      /\ ~c.refresh /\ c.sent = {"STARTED"}
  BY JoinFits
<1>3. Fit(c)
  BY <1>2 DEF Fit
<1>4. Shape' /\ Timing' /\ Carries(c)
  BY <1>1, <1>3, FitTimes DEF Inv, Becomes
<1>5. net' = net \cup {"STARTED"}
  BY <1>1, <1>2 DEF Becomes
<1>6. /\ swarmPc' = "joining" /\ answered' = FALSE
      /\ tracked' = tracked /\ age' = age /\ purgeIn' = purgeIn /\ missed' = missed
  BY DEF Start, trackerVars
<1>7. PlainTypes'
  BY <1>5, <1>6 DEF Inv, PlainTypes, AnnounceEvent
<1>8. PurgeDue' /\ RepliesFresh'
  BY <1>5, <1>6 DEF Inv, PurgeDue, RepliesFresh
<1> QED BY <1>2, <1>4, <1>7, <1>8 DEF Inv, Carries

(* The steps of the network and of the tracker leave the client alone.     *)
LEMMA ClientKept ==
    ASSUME Shape, Timing, UNCHANGED clientVars
    PROVE  Shape' /\ Timing'
<1>1. client' = client /\ left' = left
  BY DEF clientVars
<1> QED BY <1>1 DEF Shape, Timing, Joins

(* What the client is due to lose before it looks old is a number.         *)
LEMMA MissesType == Misses \in Nat
<1> DEFINE k == MaxAge \div RefreshPeriod
<1>1. k \in Nat /\ k >= 1
  BY ClockAssumption
<1> HIDE DEF k
<1>2. k - 1 \in Nat /\ MaxRetries \in Nat
  BY <1>1, AnnounceAssumption
<1>3. \A a, b \in Nat : a * b \in Nat
  OBVIOUS
<1> QED BY <1>2, <1>3 DEF Misses, k

(* A lost datagram counts as missed when it is an announce.                *)
LEMMA LoseKeeps ==
    ASSUME Inv, NEW m, Lose(m)
    PROVE  Inv'
<1>1. Shape' /\ Timing'
  BY ClientKept DEF Inv, Lose
<1>2. /\ net' = net \ {m}
      /\ swarmPc' = swarmPc /\ answered' = answered
      /\ tracked' = tracked /\ age' = age /\ purgeIn' = purgeIn
  BY DEF Lose, clientVars, trackerVars
<1>3. missed' \in 0 .. Misses
  <2>1. missed \in 0 .. Misses
    BY DEF Inv, PlainTypes
  <2>2. missed' = IF m # "reply" /\ missed < Misses THEN missed + 1 ELSE missed
    BY DEF Lose
  <2> QED BY <2>1, <2>2, MissesType
<1>4. PlainTypes'
  BY <1>2, <1>3 DEF Inv, PlainTypes
<1>5. PurgeDue' /\ RepliesFresh'
  BY <1>2 DEF Inv, PurgeDue, RepliesFresh
<1> QED BY <1>1, <1>4, <1>5 DEF Inv

(* An announce makes the entry new.                                        *)
LEMMA HandleAnnounceKeeps ==
    ASSUME Inv, NEW e, HandleAnnounce(e)
    PROVE  Inv'
<1>1. Shape' /\ Timing'
  BY ClientKept DEF Inv, HandleAnnounce
<1>2. /\ net' \subseteq net \cup {"reply"}
      /\ tracked' = TRUE /\ age' = 0 /\ missed' = 0
      /\ swarmPc' = swarmPc /\ answered' = answered /\ purgeIn' = purgeIn
  BY DEF HandleAnnounce, Repeated, clientVars
<1>3. PlainTypes'
  BY <1>2, MissesType DEF Inv, PlainTypes
<1>4. PurgeDue' /\ RepliesFresh'
  <2>1. purgeIn \in 0 .. PurgePeriod
    BY DEF Inv, PlainTypes
  <2> QED BY <1>2, <2>1, ClockAssumption DEF PurgeDue, RepliesFresh
<1> QED BY <1>1, <1>3, <1>4 DEF Inv

(* A purge removes what is too old by then.                                *)
LEMMA PurgeKeeps ==
    ASSUME Inv, Purge
    PROVE  Inv'
<1>1. Shape' /\ Timing'
  BY ClientKept DEF Inv, Purge
<1>2. /\ tracked' = Kept /\ age' = (IF Kept THEN age ELSE 0)
      /\ purgeIn' = PurgePeriod
      /\ net' = net /\ missed' = missed /\ swarmPc' = swarmPc /\ answered' = answered
  BY DEF Purge, clientVars
<1>3. Kept \in BOOLEAN /\ (Kept => tracked /\ age <= MaxAge)
  BY DEF Kept
<1>4. PlainTypes'
  BY <1>2, <1>3, ClockAssumption DEF Inv, PlainTypes
<1>5. PurgeDue' /\ RepliesFresh'
  <2>1. age \in Nat
    BY DEF Inv, PlainTypes
  <2> QED BY <1>2, <1>3, <2>1, ClockAssumption DEF Inv, PurgeDue, RepliesFresh
<1> QED BY <1>1, <1>4, <1>5 DEF Inv

(* A restart empties the table.                                            *)
LEMMA RestartTrackerKeeps ==
    ASSUME Inv, RestartTracker
    PROVE  Inv'
<1>1. Shape' /\ Timing'
  BY ClientKept DEF Inv, RestartTracker
<1>2. /\ tracked' = FALSE /\ age' = 0 /\ purgeIn' = PurgePeriod
      /\ net' = net /\ missed' = missed /\ swarmPc' = swarmPc /\ answered' = answered
  BY DEF RestartTracker, clientVars
<1>3. PlainTypes'
  <2>1. PurgePeriod \in 0 .. PurgePeriod
    BY ClockAssumption
  <2> QED BY <1>2, <2>1 DEF Inv, PlainTypes
<1>4. PurgeDue' /\ RepliesFresh'
  BY <1>2 DEF PurgeDue, RepliesFresh
<1> QED BY <1>1, <1>3, <1>4 DEF Inv

(* Time passes for every timer that runs.                                  *)
LEMMA AdvanceKeeps ==
    ASSUME Inv, Advance
    PROVE  /\ Inv'
           /\ left'.retry = Elapsed(client.retry.armed, left.retry)
           /\ left'.refresh = Elapsed(client.refresh, left.refresh)
<1>1. /\ client' = client /\ swarmPc' = swarmPc /\ answered' = answered
      /\ tracked' = tracked /\ net' = net /\ missed' = missed
      /\ age' = (IF tracked THEN age + 1 ELSE age)
      /\ purgeIn > 0 /\ purgeIn' = purgeIn - 1 /\ net = {}
  BY DEF Advance
<1>2. /\ left' = [retry |-> left'.retry, refresh |-> left'.refresh]
      /\ left'.retry = Elapsed(client.retry.armed, left.retry)
      /\ left'.refresh = Elapsed(client.refresh, left.refresh)
  BY DEF Advance
<1>3. Shape'
  BY <1>1 DEF Inv, Shape, Joins
<1>4. /\ left'.refresh \in 0 .. RefreshPeriod
      /\ ~client.refresh => left'.refresh = 0
  BY <1>2, ClockAssumption DEF Inv, Timing, Advance, Running, Elapsed
<1>5. left'.retry \in Nat /\ (IF client.retry.armed
                              THEN left'.retry <= BackOff(client.retry.num - 1)
                              ELSE left'.retry = 0)
  <2>1. CASE client.retry.armed
    <3>1. client.retry.num - 1 \in Nat
      BY <2>1 DEF Inv, Shape, Tried, WellTyped, ClientType, RetryRecord
    <3>2. BackOff(client.retry.num - 1) \in Nat
      BY <3>1, BackOffs
    <3>3. left.retry \in Nat /\ left.retry > 0 /\ left.retry <= BackOff(client.retry.num - 1)
      BY <2>1 DEF Inv, Timing, Advance, Running
    <3>4. left'.retry = left.retry - 1
      BY <1>2, <2>1 DEF Elapsed
    <3> QED BY <2>1, <3>2, <3>3, <3>4
  <2>2. CASE ~client.retry.armed
    BY <1>2, <2>2 DEF Inv, Timing, Elapsed
  <2> QED BY <2>1, <2>2
<1>6. Timing'
  BY <1>1, <1>2, <1>4, <1>5 DEF Timing
<1>7. PlainTypes'
  <2>1. purgeIn' \in 0 .. PurgePeriod
    BY <1>1, ClockAssumption DEF Inv, PlainTypes
  <2>2. age' \in Nat /\ (tracked' \/ age' = 0)
    BY <1>1 DEF Inv, PlainTypes
  <2> QED BY <1>1, <2>1, <2>2 DEF Inv, PlainTypes
<1>8. PurgeDue' /\ RepliesFresh'
  <2>1. age \in Nat /\ purgeIn \in Nat
    BY DEF Inv, PlainTypes
  <2> QED BY <1>1, <2>1, ClockAssumption DEF Inv, PurgeDue, RepliesFresh
<1> QED BY <1>2, <1>3, <1>6, <1>7, <1>8 DEF Inv

(* A client that has just been started, before the tracker knows it.       *)
LEMMA InitHolds ==
    ASSUME Init
    PROVE  Inv /\ client.state = "JOINING"
<1>1. PICK c \in Join(Begun) :
            /\ client = Handled([c EXCEPT !.sent = {}])
            /\ left = [retry |-> RetryLeft(c), refresh |-> 0]
            /\ net = c.sent
  BY DEF Init
<1>2. /\ WellTyped(c) /\ Joins(c) /\ Tried(c.retry)
      /\ c.state = "JOINING" /\ c.retry.armed /\ c.retry.num = 1
      /\ ~c.refresh /\ c.sent = {"STARTED"}
  BY JoinFits
<1> DEFINE d == [c EXCEPT !.sent = {}]
<1>3. /\ WellTyped(d) /\ d.sent = {} /\ Joins(d)
      /\ d.state = c.state /\ d.retry = c.retry /\ d.event = c.event
      /\ d.refresh = c.refresh
  BY <1>2 DEF WellTyped, ClientType, Joins
<1>4. client = [d EXCEPT !.inbox = <<>>, !.lost = FALSE]
  BY <1>1 DEF Handled
<1> HIDE DEF d
<1>5. <<>> \in Seq({"swarm", "peer", "timer"})
  BY EmptySeq
<1>6. /\ WellTyped(client) /\ client.sent = {}
      /\ client.state = c.state /\ client.retry = c.retry /\ client.event = c.event
      /\ client.refresh = c.refresh
  BY <1>3, <1>4, <1>5 DEF WellTyped, ClientType
<1>7. Shape
  BY <1>2, <1>6 DEF Shape, Joins
<1>8. left.retry = BackOff(0) /\ left.refresh = 0 /\ BackOff(0) \in Nat
  BY <1>1, <1>2, BackOffs DEF RetryLeft
<1>9. Timing
  BY <1>1, <1>2, <1>6, <1>8, ClockAssumption DEF Timing
<1>10. /\ net = {"STARTED"} /\ swarmPc = "joining" /\ tracked = FALSE /\ age = 0
       /\ purgeIn \in 0 .. PurgePeriod /\ answered = FALSE /\ missed = 0
  BY <1>1, <1>2 DEF Init
<1>11. PlainTypes
  <2>1. 0 \in 0 .. Misses
    BY MissesType
  <2> QED BY <1>10, <2>1 DEF PlainTypes, AnnounceEvent
<1>12. PurgeDue /\ RepliesFresh
  BY <1>10 DEF PurgeDue, RepliesFresh
<1> QED BY <1>2, <1>6, <1>7, <1>9, <1>11, <1>12 DEF Inv

(* The invariant holds of every behaviour, whatever is delivered, lost or  *)
(* repeated.                                                               *)
LEMMA StepKeeps ==
    ASSUME Inv, [Next]_vars
    PROVE  Inv'
<1>1. ASSUME UNCHANGED vars PROVE Inv'
  <2>1. Shape' /\ Timing'
    BY <1>1, ClientKept DEF Inv, vars
  <2>2. PlainTypes' /\ PurgeDue' /\ RepliesFresh'
    BY <1>1 DEF Inv, PlainTypes, PurgeDue, RepliesFresh, vars, clientVars, trackerVars
  <2> QED BY <2>1, <2>2 DEF Inv
<1>2. ASSUME NEW m \in AnnounceEvent \cup {"reply"}, Lose(m) PROVE Inv'
  BY <1>2, LoseKeeps
<1>3. ASSUME NEW e \in AnnounceEvent, HandleAnnounce(e) PROVE Inv'
  BY <1>3, HandleAnnounceKeeps
<1> QED BY <1>1, <1>2, <1>3, SwarmRunsKeeps, ReceiveReplyKeeps, MainEndsKeeps, StopKeeps,
           StartKeeps, PurgeKeeps, RestartTrackerKeeps, AdvanceKeeps DEF Next

(* The inductive invariant of the specification.                           *)
THEOREM Invariance == Spec => []Inv
<1>1. Init => Inv
  BY InitHolds
<1>2. Inv /\ [Next]_vars => Inv'
  BY StepKeeps
<1> QED BY <1>1, <1>2, PTL DEF Spec

(* Every variable keeps its type: a retry timer runs for no longer than    *)
(* the last back-off (retry.c:42).                                         *)
THEOREM TypeCorrect == Spec => []TypeOK
<1>1. ASSUME Inv PROVE TypeOK
  <2>1. MaxRetries \in Nat /\ MaxRetries >= 1
    BY AnnounceAssumption
  <2>2. BackOff(MaxRetries - 1) \in Nat
        /\ \A m \in 0 .. MaxRetries - 1 : BackOff(m) <= BackOff(MaxRetries - 1)
    BY <2>1, BackOffs
  <2>3. left.retry \in 0 .. BackOff(MaxRetries - 1)
    <3>1. left.retry \in Nat
      BY <1>1 DEF Inv, Timing
    <3>2. CASE client.retry.armed
      <4>1. client.retry.num - 1 \in 0 .. MaxRetries - 1
        BY <1>1, <2>1, <3>2 DEF Inv, Shape, Tried, WellTyped, ClientType, RetryRecord
      <4>2. left.retry <= BackOff(client.retry.num - 1)
        BY <1>1, <3>2 DEF Inv, Timing
      <4>3. BackOff(client.retry.num - 1) \in Nat
        BY <4>1, BackOffs
      <4> DEFINE now == left.retry
                 round == BackOff(client.retry.num - 1)
                 last == BackOff(MaxRetries - 1)
      <4>4. round <= last
        BY <2>2, <4>1, Zenon
      <4>5. now \in Nat /\ now <= round /\ round \in Nat /\ last \in Nat
        BY <2>2, <3>1, <4>2, <4>3
      <4> HIDE DEF now, round, last
      <4>6. now \in 0 .. last
        BY <4>4, <4>5
      <4> QED BY <4>6 DEF now, last
    <3>3. CASE ~client.retry.armed
      BY <1>1, <2>2, <3>3 DEF Inv, Timing
    <3> QED BY <3>2, <3>3
  <2>4. left \in [retry : 0 .. BackOff(MaxRetries - 1), refresh : 0 .. RefreshPeriod]
    <3>1. left = [retry |-> left.retry, refresh |-> left.refresh]
          /\ left.refresh \in 0 .. RefreshPeriod
      BY <1>1 DEF Inv, Timing
    <3> QED BY <2>3, <3>1
  <2> QED BY <1>1, <2>4 DEF Inv, Shape, PlainTypes, WellTyped, TypeOK
<1> QED BY <1>1, Invariance, PTL

(* A client that is never heard of again is forgotten, MaxAge and at most  *)
(* one purge period after its last announce (Tracker.java, purgePeers).*)
THEOREM Forgotten == Spec => []ForgottenInTime
<1>1. ASSUME Inv PROVE ForgottenInTime
  BY <1>1, ClockAssumption DEF Inv, PurgeDue, PlainTypes, ForgottenInTime
<1> QED BY <1>1, Invariance, PTL

-----------------------------------------------------------------------------
(* A member between its announces. *)

(* A member tries again. *)
AgainStep ==
    /\ client.retry.armed => left.retry = 0
    /\ client'.retry.armed /\ client'.retry.num = client.retry.num + 1
    /\ left'.retry = BackOff(client.retry.num) /\ left'.refresh = left.refresh
    /\ net' = net \cup {"REFRESH"}
    /\ answered' = answered

(* It begins to announce itself anew. *)
RefreshStep ==
    /\ left.refresh = 0
    /\ client'.retry.armed /\ client'.retry.num = 1
    /\ left'.retry = RetryTimeout /\ left'.refresh = RefreshPeriod
    /\ net' = net \cup {"REFRESH"}

(* It was woken for nothing. *)
RestStep ==
    /\ client.retry.armed => client'.retry = client.retry /\ left'.retry = left.retry
    /\ left'.refresh = left.refresh
    /\ net' = net
    /\ answered' = answered

(* It gives up. *)
LastStep ==
    /\ client.retry.armed => left.retry = 0
    /\ client.retry.num = MaxRetries
    /\ client'.state = "LEFT"

MemberStep == client'.state = "JOINED" /\ (AgainStep \/ RefreshStep \/ RestStep)

(* What a step of the swarm process does to a member.                      *)
LEMMA MemberRuns ==
    ASSUME Inv, SwarmRuns, client.state = "JOINED"
    PROVE  MemberStep \/ LastStep
<1>1. PICK c : LoopLeaves(c)
  BY LoopOf
<1>2. /\ Carries(c)
      /\ left'.retry = (IF ~c.retry.armed THEN 0
                        ELSE IF c.sent # {} THEN BackOff(c.retry.num - 1)
                        ELSE left.retry)
      /\ left'.refresh = (IF ~c.refresh THEN 0
                          ELSE IF Expired.refresh THEN left.refresh
                          ELSE RefreshPeriod)
      /\ net' = net \cup c.sent
  BY <1>1, LoopTimes
<1>3. /\ client.event = "REFRESH" /\ client.refresh
      /\ client.retry.max = MaxRetries
      /\ client.retry.num \in Nat /\ client.retry.num >= 1
      /\ client.retry.armed => client.retry.num <= client.retry.max
      /\ left.retry \in Nat /\ left.refresh \in Nat /\ answered \in BOOLEAN
      /\ MaxRetries \in Nat
  BY AnnounceAssumption, ClockAssumption
     DEF Inv, Shape, Timing, PlainTypes, Joins, Tried, WellTyped, ClientType,
         AnnounceEvent, RetryRecord
<1>4. /\ Expired.retry.num = client.retry.num /\ Expired.retry.max = client.retry.max
      /\ Expired.retry.armed = (client.retry.armed /\ left.retry > 0)
      /\ Expired.retry.armed => Expired.retry = client.retry
      /\ Expired.refresh = (client.refresh /\ left.refresh > 0)
  BY ExpiredFields DEF Inv
<1>5. /\ Tries(c) \/ GivesUp(c) \/ Refreshes(c) \/ Rests(c)
      /\ c.state = "JOINED" => c.refresh
      /\ answered' = (answered /\ ~Begins(c))
  BY <1>1 DEF LoopLeaves, Fit
<1>6. /\ Expired.retry.armed <=> (client.retry.armed /\ left.retry > 0)
      /\ Expired.refresh <=> (client.refresh /\ left.refresh > 0)
  BY <1>4, Zenon
<1>7. RetryDue(Expired.retry) => (client.retry.armed => left.retry = 0)
  BY <1>3, <1>6 DEF RetryDue
<1>8. CASE Tries(c)
  <2>1. /\ c.state = "JOINED" /\ c.refresh /\ Expired.refresh
        /\ c.sent = {"REFRESH"} /\ c.retry.armed
        /\ c.retry.num = client.retry.num + 1
        /\ RetryDue(Expired.retry)
    BY <1>3, <1>5, <1>8 DEF Tries
  <2>2. ~Begins(c)
    BY <1>3, <2>1 DEF Begins
  <2>3. answered' = answered
    BY <1>3, <1>5, <2>2
  <2>4. c.retry.num - 1 = client.retry.num
    BY <1>3, <2>1
  <2>5. left'.retry = BackOff(client.retry.num) /\ left'.refresh = left.refresh
    BY <1>2, <2>1, <2>4
  <2> QED BY <1>2, <1>7, <2>1, <2>3, <2>5 DEF MemberStep, AgainStep, Carries
<1>9. CASE GivesUp(c)
  BY <1>2, <1>3, <1>7, <1>9 DEF GivesUp, WillGiveUp, LastStep, Carries
<1>10. CASE Refreshes(c)
  <2>1. /\ ~Expired.refresh /\ c.refresh /\ c.state = "JOINED"
        /\ c.retry.armed /\ c.retry.num = 1 /\ c.sent = {"REFRESH"}
    BY <1>3, <1>10 DEF Refreshes
  <2>2. left.refresh = 0
    BY <1>3, <1>6, <2>1
  <2>3. left'.retry = RetryTimeout
    BY <1>2, <2>1, FirstBackOff
  <2> QED BY <1>2, <2>1, <2>2, <2>3 DEF MemberStep, RefreshStep, Carries
<1>11. CASE Rests(c)
  <2>1. /\ c.retry = Expired.retry /\ c.sent = {} /\ c.state = "JOINED"
        /\ c.refresh /\ Expired.refresh /\ ~RetryDue(Expired.retry)
    BY <1>5, <1>11 DEF Rests
  <2>2. client.retry.armed => Expired.retry.armed
    BY <1>3, <1>4, <2>1 DEF RetryDue
  <2>3. ~Begins(c)
    BY <2>1 DEF Begins
  <2>4. answered' = answered
    BY <1>3, <1>5, <2>3
  <2>5. client.retry.armed => client'.retry = client.retry /\ left'.retry = left.retry
    BY <1>2, <1>4, <2>1, <2>2 DEF Carries
  <2>6. left'.refresh = left.refresh /\ net' = net /\ client'.state = "JOINED"
    BY <1>2, <2>1 DEF Carries
  <2> QED BY <2>4, <2>5, <2>6 DEF MemberStep, RestStep
<1> QED BY <1>5, <1>8, <1>9, <1>10, <1>11

(* Whoever is no member when the swarm process runs is none afterwards.    *)
LEMMA OthersRun ==
    ASSUME Inv, SwarmRuns, client.state # "JOINED"
    PROVE  client'.state # "JOINED"
<1>1. PICK c : LoopLeaves(c)
  BY LoopOf
<1> QED BY <1>1, LoopTimes DEF LoopLeaves, Carries

(* The numbers of a member's timers.                                       *)
LEMMA MemberNumbers ==
    ASSUME Inv, client.state = "JOINED"
    PROVE  /\ client.refresh
           /\ client.retry.num \in Nat /\ client.retry.num >= 1
           /\ client.retry.armed => client.retry.num <= MaxRetries
           /\ left.retry \in Nat /\ left.refresh \in Nat /\ left.refresh <= RefreshPeriod
           /\ MaxRetries \in Nat /\ MaxRetries >= 1
           /\ RefreshPeriod \in Nat /\ RefreshPeriod >= 1 /\ RetryTimeout \in Nat
           /\ BackOff(client.retry.num) \in Nat
           /\ BackOff(client.retry.num - 1) \in Nat
           /\ BackOff(client.retry.num - 1) >= 1
           /\ BackOff(client.retry.num) = 2 * BackOff(client.retry.num - 1)
           /\ BackOff(client.retry.num + 1) = 2 * BackOff(client.retry.num)
           /\ BackOff(MaxRetries) \in Nat
           /\ BackOff(MaxRetries - 1) \in Nat
<1>1. /\ client.refresh
      /\ client.retry.num \in Nat /\ client.retry.num >= 1
      /\ client.retry.armed => client.retry.num <= MaxRetries
      /\ left.retry \in Nat /\ left.refresh \in Nat /\ left.refresh <= RefreshPeriod
      /\ MaxRetries \in Nat /\ MaxRetries >= 1
      /\ RefreshPeriod \in Nat /\ RefreshPeriod >= 1 /\ RetryTimeout \in Nat
  BY AnnounceAssumption, ClockAssumption
     DEF Inv, Shape, Timing, Tried, WellTyped, ClientType, RetryRecord
<1> DEFINE n == client.retry.num - 1
<1>2. n \in Nat /\ client.retry.num = n + 1 /\ MaxRetries - 1 \in Nat
  BY <1>1
<1> HIDE DEF n
<1>3. /\ BackOff(n) \in Nat /\ BackOff(n) >= 1 /\ BackOff(n + 1) = 2 * BackOff(n)
  BY <1>2, BackOffs
<1>4. /\ BackOff(client.retry.num) \in Nat
      /\ BackOff(client.retry.num + 1) = 2 * BackOff(client.retry.num)
      /\ BackOff(MaxRetries) \in Nat /\ BackOff(MaxRetries - 1) \in Nat
  BY <1>1, <1>2, BackOffs
<1> QED BY <1>1, <1>2, <1>3, <1>4 DEF n

(* The steps that are not the swarm process's, as far as a member goes.    *)
LEMMA MemberKept ==
    ASSUME Inv, [Next]_vars, ~SwarmRuns, ~ReceiveReply, ~Advance, client'.state = "JOINED"
    PROVE  /\ client.state = "JOINED"
           /\ client'.retry = client.retry /\ client'.refresh = client.refresh
           /\ left' = left /\ answered' = answered
<1>1. CASE MainEnds
  <2>1. /\ WellTyped(client)
        /\ client' = [client EXCEPT !.main = "exited"]
        /\ left' = left /\ answered' = answered
    BY <1>1 DEF MainEnds, Inv, Shape
  <2> QED BY <2>1 DEF WellTyped, ClientType
<1>2. CASE Stop \/ Start
  BY <1>2, StopKeeps, StartKeeps
<1>3. CASE UNCHANGED clientVars
  BY <1>3 DEF clientVars
<1>4. CASE \/ \E m \in AnnounceEvent \cup {"reply"} : Lose(m)
           \/ \E e \in AnnounceEvent : HandleAnnounce(e)
           \/ Purge \/ RestartTracker \/ UNCHANGED vars
  <2>1. UNCHANGED clientVars
    BY <1>4 DEF Lose, HandleAnnounce, Purge, RestartTracker, vars
  <2> QED BY <1>3, <2>1
<1> QED BY <1>1, <1>2, <1>4 DEF Next

-----------------------------------------------------------------------------
(* A tracker that is silent. *)

(* A member's tries outlast the refresh period: 3 s doubling, five times,  *)
(* are 93 s, and it refreshes every 60 s (config.h:100-106).               *)
TriesOutlast == RefreshPeriod < BackOff(MaxRetries) - RetryTimeout

(* A member whose announces were not answered refreshes before its tries   *)
(* end.                                                                    *)
Outlasting ==
    client.state = "JOINED" /\ ~answered =>
        /\ client.retry.armed
        /\ left.refresh + BackOff(client.retry.num) < left.retry + BackOff(MaxRetries)

(* The steps keep it.                                                      *)
LEMMA OutlastingKept ==
    ASSUME TriesOutlast, Inv, Outlasting, [Next]_vars
    PROVE  Outlasting'
<1> SUFFICES ASSUME client'.state = "JOINED", ~answered'
             PROVE  /\ client'.retry.armed
                    /\ left'.refresh + BackOff(client'.retry.num)
                         < left'.retry + BackOff(MaxRetries)
  BY DEF Outlasting
<1>1. CASE SwarmRuns
  <2>1. client.state = "JOINED"
    BY <1>1, OthersRun
  <2>2. AgainStep \/ RefreshStep \/ RestStep
    BY <1>1, <2>1, MemberRuns DEF MemberStep, LastStep
  <2> DEFINE n == client.retry.num
  <2>3. /\ left.retry \in Nat /\ left.refresh \in Nat
        /\ RefreshPeriod \in Nat /\ RetryTimeout \in Nat
        /\ BackOff(n) \in Nat /\ BackOff(n + 1) = 2 * BackOff(n)
        /\ BackOff(MaxRetries) \in Nat
    BY <2>1, MemberNumbers
  <2>4. CASE AgainStep
    <3>1. client.retry.armed /\ left.retry = 0
          /\ left.refresh + BackOff(n) < 0 + BackOff(MaxRetries)
      BY <2>1, <2>4 DEF AgainStep, Outlasting
    <3>2. left.refresh + BackOff(n + 1) < BackOff(n) + BackOff(MaxRetries)
      BY <2>3, <3>1
    <3> QED BY <2>4, <3>2 DEF AgainStep
  <2>5. CASE RefreshStep
    <3>1. BackOff(1) = 2 * RetryTimeout
      <4>1. BackOff(0 + 1) = 2 * BackOff(0)
        BY BackOffs
      <4>2. 0 + 1 = 1
        OBVIOUS
      <4> QED BY <4>1, <4>2, FirstBackOff
    <3>2. RefreshPeriod + BackOff(1) < RetryTimeout + BackOff(MaxRetries)
      BY <2>3, <3>1 DEF TriesOutlast
    <3> QED BY <2>5, <3>2 DEF RefreshStep
  <2>6. CASE RestStep
    BY <2>1, <2>6 DEF RestStep, Outlasting
  <2> QED BY <2>2, <2>4, <2>5, <2>6
<1>2. CASE ReceiveReply
  BY <1>2, ReplyLeaves
<1>3. CASE Advance
  <2>1. client' = client /\ answered' = answered
    BY <1>3 DEF Advance
  <2>2. /\ client.refresh /\ client.retry.armed
        /\ left.retry > 0 /\ left.refresh > 0
        /\ left.refresh + BackOff(client.retry.num) < left.retry + BackOff(MaxRetries)
    BY <1>3, <2>1, MemberNumbers DEF Advance, Running, Outlasting
  <2>3. left'.retry = left.retry - 1 /\ left'.refresh = left.refresh - 1
    BY <1>3, <2>2, AdvanceKeeps DEF Elapsed
  <2> QED BY <2>1, <2>2, <2>3, MemberNumbers
<1>4. CASE ~SwarmRuns /\ ~ReceiveReply /\ ~Advance
  BY <1>4, MemberKept DEF Outlasting
<1> QED BY <1>1, <1>2, <1>3, <1>4

(* The silence of the tracker goes unnoticed: a member leaves only when it *)
(* is stopped, or at a moment at which its announces have been answered.   *)
SilenceRiddenOut == [][LeavesByItself => answered]_vars

(* Why SilenceNoticed fails, for all periods with TriesOutlast, those of   *)
(* config.h among them: the refresh comes before the tries are used up     *)
(* (swarm.c:379-384), so that no member ever leaves for want of a reply.   *)
THEOREM SilenceOutlasted ==
    ASSUME TriesOutlast
    PROVE  Spec => SilenceRiddenOut
<1>1. Init => Inv /\ Outlasting
  BY InitHolds DEF Outlasting
<1>2. Inv /\ Outlasting /\ [Next]_vars => Inv' /\ Outlasting'
  BY StepKeeps, OutlastingKept
<1>3. ASSUME Inv, Outlasting, [Next]_vars PROVE [LeavesByItself => answered]_vars
  <2> SUFFICES ASSUME LeavesByItself, ~answered PROVE FALSE
    OBVIOUS
  <2>1. /\ client.state = "JOINED" /\ client'.state = "LEFT" /\ swarmPc' # "stopped"
    BY DEF LeavesByItself
  <2>2. CASE SwarmRuns
    <3>1. LastStep
      BY <2>1, <2>2, MemberRuns, <1>3 DEF MemberStep
    <3>2. left.refresh + BackOff(MaxRetries) < 0 + BackOff(MaxRetries)
      BY <1>3, <2>1, <3>1 DEF LastStep, Outlasting
    <3> QED BY <1>3, <2>1, <3>2, MemberNumbers
  <2>3. CASE ReceiveReply
    BY <1>3, <2>1, <2>3, ReplyLeaves
  <2>4. CASE MainEnds
    BY <1>3, <2>1, <2>4 DEF MainEnds, Inv, Shape, WellTyped, ClientType
  <2>5. CASE Stop \/ Start
    BY <1>3, <2>1, <2>5, StopKeeps, StartKeeps
  <2>6. CASE \/ \E m \in AnnounceEvent \cup {"reply"} : Lose(m)
             \/ \E e \in AnnounceEvent : HandleAnnounce(e)
             \/ Purge \/ RestartTracker \/ Advance \/ UNCHANGED vars
    <3>1. client' = client
      BY <2>6 DEF Lose, HandleAnnounce, Purge, RestartTracker, Advance, vars, clientVars
    <3> QED BY <2>1, <3>1
  <2> QED BY <1>3, <2>2, <2>3, <2>4, <2>5, <2>6 DEF Next
<1> QED BY <1>1, <1>2, <1>3, PTL DEF Spec, SilenceRiddenOut

-----------------------------------------------------------------------------
(* A member that the tracker does not hear. *)

(* All tries of a refresh are sent before the next one: 3 s doubling, four *)
(* times, are 45 s of the 60 s (config.h:100-106).                         *)
TriesFit == BackOff(MaxRetries - 1) - RetryTimeout < RefreshPeriod

(* Since the tracker heard of the member, no refresh timer has expired. *)
Heard == age + left.refresh <= RefreshPeriod

(* Announces that may yet arrive.  *)
Pending == IF "REFRESH" \in net THEN 1 ELSE 0

(* In the k rounds before this one every try was missed, and in this one   *)
(* all that were sent, but for one that may still arrive.                  *)
Silent(k) ==
    /\ client.retry.armed
    /\ age + left.refresh <= (k + 2) * RefreshPeriod
    /\ left.retry + RefreshPeriod + RetryTimeout = BackOff(client.retry.num) + left.refresh
    /\ "REFRESH" \in net => left.retry = BackOff(client.retry.num - 1)
    /\ k * MaxRetries + client.retry.num <= missed + Pending \/ missed = Misses

Unheard ==
    client.state = "JOINED" /\ tracked => Heard \/ \E k \in Nat : Silent(k)

(* A member tries again, when it is heard or not.                          *)
LEMMA AgainKeeps ==
    ASSUME Inv, client.state = "JOINED", AgainStep, age' = age, missed' = missed
    PROVE  /\ Heard => Heard'
           /\ \A k \in Nat : Silent(k) => Silent(k)'
<1> DEFINE n == client.retry.num
<1>1. /\ n \in Nat /\ left.retry \in Nat /\ left.refresh \in Nat
      /\ RefreshPeriod \in Nat /\ RetryTimeout \in Nat /\ MaxRetries \in Nat
      /\ BackOff(n) \in Nat /\ BackOff(n + 1) = 2 * BackOff(n)
      /\ BackOff(n - 1) \in Nat /\ BackOff(n - 1) >= 1
  BY MemberNumbers
<1>2. /\ client.retry.armed => left.retry = 0
      /\ client'.retry.armed /\ client'.retry.num = n + 1
      /\ left'.retry = BackOff(n) /\ left'.refresh = left.refresh
      /\ "REFRESH" \in net'
  BY DEF AgainStep
<1>3. missed \in Nat
  BY MissesType DEF Inv, PlainTypes
<1>4. ASSUME NEW k \in Nat, Silent(k) PROVE Silent(k)'
  <2>1. /\ client.retry.armed /\ left.retry = 0
        /\ age + left.refresh <= (k + 2) * RefreshPeriod
        /\ left.retry + RefreshPeriod + RetryTimeout = BackOff(n) + left.refresh
        /\ "REFRESH" \in net => left.retry = BackOff(n - 1)
        /\ k * MaxRetries + n <= missed + Pending \/ missed = Misses
    BY <1>2, <1>4 DEF Silent
  <2>2. Pending = 0 /\ Pending' = 1
    BY <1>1, <1>2, <2>1 DEF Pending
  <2>3. left'.retry + RefreshPeriod + RetryTimeout = BackOff(n + 1) + left'.refresh
    BY <1>1, <1>2, <2>1
  <2>4. k * MaxRetries \in Nat
    BY <1>1
  <2>5. k * MaxRetries + (n + 1) <= missed + 1 \/ missed = Misses
    BY <1>1, <1>3, <2>1, <2>2, <2>4
  <2>6. (n + 1) - 1 = n
    BY <1>1
  <2>7. left'.retry = BackOff(client'.retry.num - 1)
    BY <1>2, <2>6
  <2> QED BY <1>2, <2>1, <2>2, <2>3, <2>5, <2>7 DEF Silent
<1>5. Heard => Heard'
  BY <1>2 DEF Heard
<1> QED BY <1>4, <1>5

(* A refresh begins the next round.                                        *)
LEMMA RefreshKeeps ==
    ASSUME TriesFit, Inv, client.state = "JOINED", RefreshStep,
           age' = age, missed' = missed
    PROVE  /\ Heard => Silent(0)'
           /\ \A k \in Nat : Silent(k) => Silent(k + 1)'
<1> DEFINE n == client.retry.num
<1>1. /\ n \in Nat /\ n >= 1 /\ left.retry \in Nat
      /\ client.retry.armed => n <= MaxRetries
      /\ RefreshPeriod \in Nat /\ RetryTimeout \in Nat /\ MaxRetries \in Nat
      /\ MaxRetries >= 1
      /\ BackOff(n) \in Nat /\ BackOff(n - 1) \in Nat /\ BackOff(n) = 2 * BackOff(n - 1)
      /\ BackOff(MaxRetries - 1) \in Nat
  BY MemberNumbers
<1>2. /\ left.refresh = 0
      /\ client'.retry.armed /\ client'.retry.num = 1
      /\ left'.retry = RetryTimeout /\ left'.refresh = RefreshPeriod
      /\ "REFRESH" \in net'
  BY DEF RefreshStep
<1>3. missed \in Nat /\ age \in Nat
  BY MissesType DEF Inv, PlainTypes
<1>4. /\ left'.retry + RefreshPeriod + RetryTimeout = BackOff(client'.retry.num) + left'.refresh
      /\ left'.retry = BackOff(client'.retry.num - 1)
      /\ Pending' = 1
  <2>1. BackOff(0 + 1) = 2 * BackOff(0)
    BY BackOffs
  <2>2. 0 + 1 = 1 /\ 1 - 1 = 0
    OBVIOUS
  <2>3. BackOff(1) = 2 * RetryTimeout /\ BackOff(1 - 1) = RetryTimeout
    BY <2>1, <2>2, FirstBackOff
  <2>4. RetryTimeout + RefreshPeriod + RetryTimeout = 2 * RetryTimeout + RefreshPeriod
    BY <1>1
  <2> QED BY <1>2, <2>3, <2>4 DEF Pending
<1>5. ASSUME Heard PROVE Silent(0)'
  <2>1. age <= RefreshPeriod
    BY <1>2, <1>3, <1>5 DEF Heard
  <2>2. age + RefreshPeriod <= (0 + 2) * RefreshPeriod
    BY <1>1, <1>3, <2>1
  <2>3. 0 * MaxRetries + 1 <= missed + 1
    BY <1>1, <1>3
  <2> QED BY <1>2, <1>4, <2>2, <2>3 DEF Silent
<1>6. ASSUME NEW k \in Nat, Silent(k) PROVE Silent(k + 1)'
  <2>1. /\ client.retry.armed
        /\ age <= (k + 2) * RefreshPeriod
        /\ left.retry + RefreshPeriod + RetryTimeout = BackOff(n)
        /\ "REFRESH" \in net => left.retry = BackOff(n - 1)
        /\ k * MaxRetries + n <= missed + Pending \/ missed = Misses
    BY <1>1, <1>2, <1>3, <1>6 DEF Silent
  <2>2. n = MaxRetries
    <3>1. SUFFICES ASSUME n < MaxRetries PROVE FALSE
      BY <1>1, <2>1
    <3>2. n \in 0 .. MaxRetries - 1 /\ MaxRetries - 1 \in Nat
      BY <1>1, <3>1
    <3>3. BackOff(n) <= BackOff(MaxRetries - 1)
      BY <3>2, BackOffs
    <3> QED BY <1>1, <2>1, <3>3 DEF TriesFit
  <2>3. Pending = 0
    <3>1. SUFFICES ASSUME "REFRESH" \in net PROVE FALSE
      BY DEF Pending
    <3>2. BackOff(n - 1) = BackOff(MaxRetries - 1)
      BY <2>2
    <3>3. left.retry = BackOff(n - 1)
      BY <2>1, <3>1
    <3> QED BY <1>1, <2>1, <3>2, <3>3 DEF TriesFit
  <2>4. /\ k * MaxRetries \in Nat /\ (k + 1) * MaxRetries = k * MaxRetries + MaxRetries
        /\ ((k + 1) + 2) * RefreshPeriod = (k + 2) * RefreshPeriod + RefreshPeriod
        /\ (k + 2) * RefreshPeriod \in Nat
    BY <1>1
  <2>5. age + RefreshPeriod <= ((k + 1) + 2) * RefreshPeriod
    BY <1>1, <1>3, <2>1, <2>4
  <2>6. (k + 1) * MaxRetries + 1 <= missed + 1 \/ missed = Misses
    BY <1>1, <1>3, <2>1, <2>2, <2>3, <2>4
  <2> QED BY <1>2, <1>4, <2>5, <2>6 DEF Silent
<1> QED BY <1>5, <1>6

(* The steps keep it.                                                      *)
LEMMA UnheardKept ==
    ASSUME TriesFit, Inv, Unheard, [Next]_vars
    PROVE  Unheard'
<1> SUFFICES ASSUME client'.state = "JOINED", tracked'
             PROVE  Heard' \/ \E k \in Nat : Silent(k)'
  BY DEF Unheard
<1>1. CASE SwarmRuns
  <2>1. client.state = "JOINED"
    BY <1>1, OthersRun
  <2>2. AgainStep \/ RefreshStep \/ RestStep
    BY <1>1, <2>1, MemberRuns DEF MemberStep, LastStep
  <2>3. tracked' = tracked /\ age' = age /\ missed' = missed
    BY <1>1, LoopOf DEF trackerVars
  <2>4. Heard \/ \E k \in Nat : Silent(k)
    BY <2>1, <2>3 DEF Unheard
  <2>5. CASE AgainStep
    BY <2>1, <2>3, <2>4, <2>5, AgainKeeps
  <2>6. CASE RefreshStep
    <3>1. \A k \in Nat : k + 1 \in Nat
      OBVIOUS
    <3>2. 0 \in Nat
      OBVIOUS
    <3>3. /\ Heard => Silent(0)'
          /\ \A k \in Nat : Silent(k) => Silent(k + 1)'
      BY <2>1, <2>3, <2>6, RefreshKeeps
    <3> QED BY <2>4, <3>1, <3>2, <3>3
  <2>7. CASE RestStep
    <3>1. Heard => Heard'
      BY <2>3, <2>7 DEF Heard, RestStep
    <3>2. ASSUME NEW k \in Nat, Silent(k) PROVE Silent(k)'
      BY <2>3, <2>7, <3>2 DEF Silent, RestStep, Pending
    <3> QED BY <2>4, <3>1, <3>2
  <2> QED BY <2>2, <2>5, <2>6, <2>7
<1>2. CASE ReceiveReply
  <2>1. /\ "reply" \in net /\ tracked' = tracked /\ age' = age
        /\ left'.refresh = RefreshPeriod
    BY <1>2, ReplyLeaves DEF trackerVars
  <2>2. age = 0
    BY <2>1 DEF Inv, RepliesFresh
  <2> QED BY <2>1, <2>2, ClockAssumption DEF Heard
<1>3. CASE Advance
  <2>1. /\ client' = client /\ tracked' = tracked /\ net = {} /\ net' = net
        /\ missed' = missed /\ age' = age + 1
    BY <1>3 DEF Advance
  <2>2. Heard \/ \E k \in Nat : Silent(k)
    BY <2>1 DEF Unheard
  <2>3. /\ client.refresh /\ left.refresh \in Nat /\ left.refresh > 0
        /\ left.retry \in Nat /\ RefreshPeriod \in Nat /\ RetryTimeout \in Nat
        /\ BackOff(client.retry.num) \in Nat
        /\ client.retry.armed => left.retry > 0
    BY <1>3, <2>1, MemberNumbers DEF Advance, Running
  <2>4. left'.refresh = left.refresh - 1
        /\ (client.retry.armed => left'.retry = left.retry - 1)
    BY <1>3, <2>3, AdvanceKeeps DEF Elapsed
  <2>5. age \in Nat
    BY DEF Inv, PlainTypes
  <2>6. age' + left'.refresh = age + left.refresh
    BY <2>1, <2>3, <2>4, <2>5
  <2>7. Heard => Heard'
    BY <2>6 DEF Heard
  <2>8. ASSUME NEW k \in Nat, Silent(k) PROVE Silent(k)'
    <3>1. /\ client.retry.armed
          /\ age + left.refresh <= (k + 2) * RefreshPeriod
          /\ left.retry + RefreshPeriod + RetryTimeout
               = BackOff(client.retry.num) + left.refresh
          /\ k * MaxRetries + client.retry.num <= missed + Pending \/ missed = Misses
      BY <2>8 DEF Silent
    <3>2. age' + left'.refresh <= (k + 2) * RefreshPeriod
      BY <2>6, <3>1
    <3>3. left'.retry + RefreshPeriod + RetryTimeout
            = BackOff(client'.retry.num) + left'.refresh
      <4>1. left'.retry = left.retry - 1 /\ left'.refresh = left.refresh - 1
        BY <2>4, <3>1
      <4>2. BackOff(client'.retry.num) = BackOff(client.retry.num)
        BY <2>1
      <4>3. left.retry + RefreshPeriod + RetryTimeout
              = BackOff(client.retry.num) + left.refresh
        BY <3>1
      <4> QED BY <2>3, <4>1, <4>2, <4>3
    <3>4. Pending' = Pending /\ "REFRESH" \notin net'
      BY <2>1 DEF Pending
    <3> QED BY <2>1, <3>1, <3>2, <3>3, <3>4 DEF Silent
  <2> QED BY <2>2, <2>7, <2>8
<1>4. CASE \E e \in AnnounceEvent : HandleAnnounce(e)
  <2>1. age' = 0 /\ left' = left
    BY <1>4 DEF HandleAnnounce, clientVars
  <2>2. left.refresh \in Nat /\ left.refresh <= RefreshPeriod
    BY ClockAssumption DEF Inv, Timing
  <2> QED BY <2>1, <2>2 DEF Heard
<1>5. CASE \/ \E m \in AnnounceEvent \cup {"reply"} : Lose(m)
           \/ MainEnds \/ Stop \/ Start \/ Purge \/ RestartTracker \/ UNCHANGED vars
  <2>1. CASE SwarmRuns \/ ReceiveReply \/ Advance
    BY <1>1, <1>2, <1>3, <2>1
  <2>2. CASE ~SwarmRuns /\ ~ReceiveReply /\ ~Advance
    <3>1. /\ client.state = "JOINED"
          /\ client'.retry = client.retry /\ left' = left
      BY <2>2, MemberKept
    <3>2. CASE \E m \in AnnounceEvent \cup {"reply"} : Lose(m)
      <4>1. PICK m : Lose(m)
        BY <3>2
      <4>2. /\ m \in net /\ net' = net \ {m} /\ tracked' = tracked /\ age' = age
            /\ missed' = IF m # "reply" /\ missed < Misses THEN missed + 1 ELSE missed
        BY <4>1 DEF Lose, trackerVars
      <4>3. missed \in 0 .. Misses /\ Misses \in Nat
        BY MissesType DEF Inv, PlainTypes
      <4>4. /\ client.retry.num \in Nat /\ MaxRetries \in Nat
        BY <3>1, MemberNumbers
      <4>5. Heard => Heard'
        BY <3>1, <4>2 DEF Heard
      <4>6. ASSUME NEW k \in Nat, Silent(k) PROVE Silent(k)'
        <5>1. k * MaxRetries \in Nat
          BY <4>4
        <5>2. k * MaxRetries + client.retry.num <= missed' + Pending' \/ missed' = Misses
          <6>1. k * MaxRetries + client.retry.num <= missed + Pending \/ missed = Misses
            BY <4>6 DEF Silent
          <6> DEFINE s == k * MaxRetries + client.retry.num
          <6>2. s \in Nat
            BY <4>4, <5>1
          <6> HIDE DEF s
          <6>3. s <= missed + Pending \/ missed = Misses
            BY <6>1 DEF s
          <6>4. s <= missed' + Pending' \/ missed' = Misses
            <7>1. CASE m = "REFRESH"
              <8>1. Pending = 1 /\ Pending' = 0
                BY <4>2, <7>1 DEF Pending
              <8> QED BY <4>2, <4>3, <6>2, <6>3, <7>1, <8>1
            <7>2. CASE m # "REFRESH"
              <8>1. Pending' = Pending /\ Pending \in Nat
                BY <4>2, <7>2 DEF Pending
              <8> QED BY <4>2, <4>3, <6>2, <6>3, <8>1
            <7> QED BY <7>1, <7>2
          <6> QED BY <6>4 DEF s
        <5> QED BY <3>1, <4>2, <4>6, <5>2 DEF Silent
      <4> QED BY <3>1, <4>2, <4>5, <4>6 DEF Unheard
    <3>3. CASE MainEnds \/ UNCHANGED vars
      <4>1. /\ tracked' = tracked /\ age' = age /\ net' = net /\ missed' = missed
        BY <3>3 DEF MainEnds, vars, trackerVars
      <4> QED BY <3>1, <4>1 DEF Unheard, Heard, Silent, Pending
    <3>4. CASE Stop \/ Start
      BY <3>4, StopKeeps, StartKeeps
    <3>5. CASE Purge
      <4>1. tracked /\ age' = age /\ net' = net /\ missed' = missed
        BY <3>5 DEF Purge, Kept
      <4> QED BY <3>1, <4>1 DEF Unheard, Heard, Silent, Pending
    <3>6. CASE RestartTracker
      BY <3>6 DEF RestartTracker
    <3> QED BY <1>5, <3>2, <3>3, <3>4, <3>5, <3>6
  <2> QED BY <2>1, <2>2
<1> QED BY <1>1, <1>2, <1>3, <1>4, <1>5 DEF Next

(* A member looks old to the tracker only when it was not heard for so many*)
(* announces in a row (implementation.tex:79).                             *)
THEOREM OldUnheard ==
    ASSUME TriesFit
    PROVE  Spec => []OldOnlyUnheard
<1>1. Init => Inv /\ Unheard
  BY InitHolds DEF Unheard
<1>2. Inv /\ Unheard /\ [Next]_vars => Inv' /\ Unheard'
  BY StepKeeps, UnheardKept
<1>3. ASSUME Inv, Unheard PROVE OldOnlyUnheard
  <2> SUFFICES ASSUME client.state = "JOINED", tracked, age > MaxAge
               PROVE  missed = Misses
    BY DEF OldOnlyUnheard
  <2>1. /\ age \in Nat /\ missed \in 0 .. Misses /\ Misses \in Nat
        /\ left.refresh \in Nat /\ MaxAge \in Nat /\ RefreshPeriod <= MaxAge
        /\ RefreshPeriod \in Nat \ {0} /\ MaxRetries \in Nat
        /\ client.retry.num \in Nat /\ client.retry.num >= 1
    BY <1>3, MissesType, MemberNumbers, ClockAssumption DEF Inv, PlainTypes
  <2>2. ~Heard
    BY <2>1 DEF Heard
  <2>3. PICK k \in Nat : Silent(k)
    BY <1>3, <2>2 DEF Unheard
  <2>4. (k + 2) * RefreshPeriod \in Nat /\ k * MaxRetries \in Nat
    BY <2>1
  <2>5. MaxAge < (k + 2) * RefreshPeriod
    BY <2>1, <2>3, <2>4 DEF Silent
  <2> DEFINE d == MaxAge \div RefreshPeriod
  <2>6. d \in Nat /\ d >= 1 /\ d - 1 <= k
    BY <2>1, <2>5
  <2> HIDE DEF d
  <2>7. (d - 1) * MaxRetries <= k * MaxRetries
    <3>1. \A a, b, c \in Nat : a <= b => a * c <= b * c
      OBVIOUS
    <3>2. d - 1 \in Nat
      BY <2>6
    <3> QED BY <2>1, <2>6, <3>1, <3>2
  <2>8. Misses <= k * MaxRetries
    BY <2>7 DEF Misses, d
  <2>9. Pending <= 1 /\ Pending \in Nat
    BY DEF Pending
  <2>10. k * MaxRetries + client.retry.num <= missed + Pending \/ missed = Misses
    BY <2>3 DEF Silent
  <2> QED BY <2>1, <2>4, <2>8, <2>9, <2>10
<1> QED BY <1>1, <1>2, <1>3, PTL DEF Spec
=============================================================================
