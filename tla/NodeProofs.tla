----------------------------- MODULE NodeProofs -----------------------------
(***************************************************************************)
(* What the handlers of one client preserve, for any number of peers and   *)
(* pieces, any pool sizes and retry limits, and storage that may fail.  The*)
(* lemmas are about the operators of PeerNode; PeerProofs and              *)
(* ExchangeProofs lift them to the two state machines built from those.    *)
(*                                                                         *)
(* Core is a conjunction of facts about one client that are inductive only *)
(* together: completing a piece keeps own_have verified because a request  *)
(* is never for a piece that is held, which depends on every requested     *)
(* piece being in pending_pieces.  Each handler is shown once to turn a    *)
(* client that satisfies Core into a Good one.                             *)
(***************************************************************************)
EXTENDS PeerNode, FiniteSetTheorems, TLAPS

USE DEF Piece, Cell

(* A piece has at least one byte and at most PieceLength (piece.c:37-56).  *)
LEMMA PieceSizeRange ==
    ASSUME NEW i \in Piece
    PROVE  PieceSize(i) \in 1 .. PieceLength
<1>1. FileSize \in Int /\ PieceLength \in Nat \ {0} /\ NumPieces \in 1 .. 31
  BY TorrentAssumption
<1>2. FileSize % PieceLength \in 0 .. PieceLength - 1
  BY <1>1
<1>3. CASE i = 0 /\ NumPieces = 1
  BY <1>1, <1>3, TorrentAssumption DEF PieceSize
<1>4. CASE ~(i = 0 /\ NumPieces = 1)
  BY <1>1, <1>2, <1>4 DEF PieceSize
<1> QED BY <1>3, <1>4

(* The operations of retry.c keep the retry counter within its limit plus  *)
(* one.                                                                    *)
LEMMA RetryTypes ==
    ASSUME NEW r \in RetryRecord(MaxRetries)
    PROVE  /\ RetryStop(r) \in RetryRecord(MaxRetries)
           /\ RetryNext(r) \in RetryRecord(MaxRetries)
           /\ RetryStart(r, MaxRetries) \in RetryRecord(MaxRetries)
           /\ RetryInit \in RetryRecord(MaxRetries)
<1>1. MaxRetries \in Nat \ {0}
  BY LimitAssumption
<1>2. RetryStop(r) \in RetryRecord(MaxRetries)
  BY DEF RetryRecord, RetryStop
<1>3. \A q \in RetryRecord(MaxRetries) : RetryNext(q) \in RetryRecord(MaxRetries)
  <2> TAKE q \in RetryRecord(MaxRetries)
  <2>1. /\ q.num \in 0 .. MaxRetries + 1 /\ q.max \in 0 .. MaxRetries
        /\ q.armed \in BOOLEAN /\ q.bound \in BOOLEAN
    BY DEF RetryRecord
  <2>2. RetryNext(q).num \in 0 .. MaxRetries + 1
    BY <1>1, <2>1 DEF RetryNext
  <2>3. RetryNext(q).armed \in BOOLEAN
    BY <2>1 DEF RetryNext
  <2>4. RetryNext(q).max = q.max /\ RetryNext(q).bound = q.bound
    BY DEF RetryNext
  <2>5. RetryNext(q) = [num |-> RetryNext(q).num, max |-> q.max,
                        armed |-> RetryNext(q).armed, bound |-> q.bound]
    BY DEF RetryNext
  <2> QED BY <2>1, <2>2, <2>3, <2>5 DEF RetryRecord
<1>4. RetryStart(r, MaxRetries) \in RetryRecord(MaxRetries)
  <2> DEFINE q == [num |-> 0, max |-> MaxRetries, armed |-> r.armed, bound |-> TRUE]
  <2>1. q \in RetryRecord(MaxRetries)
    BY <1>1 DEF RetryRecord
  <2> QED BY <2>1, <1>3 DEF RetryStart
<1>5. RetryInit \in RetryRecord(MaxRetries)
  BY <1>1 DEF RetryRecord, RetryInit
<1> QED
  BY <1>2, <1>3, <1>4, <1>5

-----------------------------------------------------------------------------
(* The inductive invariant, over a client record, and what a handler step  *)
(* must establish.                                                         *)

(* Every requested piece is pending.  PendingMatchesIn also says the       *)
(* converse, which a client that was restarted need not satisfy.           *)
RequestsPendingIn(s) ==
    \A a \in Addr : s.request[a] # NoPiece => s.request[a] \in s.pending

PendingKept(s, t) ==
    /\ RequestsPendingIn(t)
    /\ PendingMatchesIn(s) => PendingMatchesIn(t)

Core(s) ==
    /\ s \in NodeType
    /\ RequestsPendingIn(s)
    /\ RequestsUnheldIn(s)
    /\ OwnVerifiedIn(s)
    /\ CountsMatchIn(s)

Good(s, t) == Core(t) /\ KeepsVerified(s, t) /\ PendingKept(s, t)

(* Two good steps in a row make a good step.                               *)
LEMMA GoodTransitive ==
    ASSUME NEW s, NEW t, NEW u, Good(s, t), Good(t, u)
    PROVE  Good(s, u)
BY DEF Good, KeepsVerified, PendingKept

(* Leaving the client alone is good.                                       *)
LEMMA GoodReflexive ==
    ASSUME NEW s, Core(s)
    PROVE  Good(s, s)
BY DEF Good, KeepsVerified, PendingKept, Core

(* Two records that agree on everything the invariant reads. *)
LEMMA CoreFrame ==
    ASSUME NEW s, NEW t, Core(s), t \in NodeType,
           t.pool = s.pool, t.have = s.have, t.request = s.request,
           t.pending = s.pending, t.counts = s.counts, t.own = s.own,
           t.file = s.file
    PROVE  Good(s, t)
BY DEF Core, Good, KeepsVerified, PendingKept, RequestsPendingIn,
       PendingMatchesIn, RequestsUnheldIn,
       OwnVerifiedIn, CountsMatchIn, Connected

-----------------------------------------------------------------------------
(* Sending does not touch what the invariant reads. *)

(* Sending a message is good.                                              *)
LEMMA SendGood ==
    ASSUME NEW s, Core(s), NEW m \in Message
    PROVE  Good(s, Send(s, m))
<1> DEFINE t == Send(s, m)
<1>1. t \in NodeType
  BY DEF Core, Send, NodeType
<1>2. /\ t.pool = s.pool /\ t.have = s.have /\ t.request = s.request
      /\ t.pending = s.pending /\ t.counts = s.counts /\ t.own = s.own
      /\ t.file = s.file
  BY DEF Core, Send, NodeType
<1> QED BY <1>1, <1>2, CoreFrame

(* CLOSE and HAVE are well-formed messages.                                *)
LEMMA PlainIsMessage ==
    ASSUME NEW s \in NodeType, NEW type \in {"CLOSE", "HAVE"},
           NEW to \in Addr \cup {Multicast}
    PROVE  Plain(type, to, s) \in Message
BY DEF Plain, Message, MsgType, NodeType

(* Sending a CLOSE or a HAVE is good.                                      *)
LEMMA SendPlainGood ==
    ASSUME NEW s, Core(s), NEW to \in Addr \cup {Multicast}
    PROVE  Good(s, SendClose(s, to)) /\ Good(s, SendHave(s, to))
<1>1. s \in NodeType
  BY DEF Core
<1> QED BY <1>1, PlainIsMessage, SendGood DEF SendClose, SendHave

(* Sending the request of a connection is good.                            *)
LEMMA SendRequestGood ==
    ASSUME NEW s, Core(s), NEW a \in Addr
    PROVE  Good(s, SendRequest(s, a))
<1> DEFINE m == [type |-> "REQUEST", to |-> a, have |-> s.own,
                 piece |-> s.request[a], start |-> s.offset[a], len |-> 0]
<1>1. /\ s.own \in SUBSET Piece /\ s.request[a] \in Piece \cup {NoPiece}
      /\ s.offset[a] \in Cell
  BY DEF Core, NodeType
<1>2. m \in Message
  BY <1>1, TorrentAssumption DEF Message, MsgType
<1> QED BY <1>2, SendGood DEF SendRequest

-----------------------------------------------------------------------------
(* Requests. *)

(* request_start on an open connection, for a missing piece, is good when  *)
(* the connection has no request or one for the same piece.                *)
LEMMA RequestStartGood ==
    ASSUME NEW s, Core(s), NEW a \in Addr, NEW i \in Piece, NEW start \in Cell,
           Connected(s, a), i \notin s.own, s.request[a] \in {NoPiece, i}
    PROVE  Good(s, RequestStart(s, a, i, start))
<1> DEFINE t == [s EXCEPT !.request[a] = i,
                          !.offset[a]  = start,
                          !.pending    = s.pending \cup {i},
                          !.retry[a]   = RetryStart(s.retry[a], MaxRetries)]
<1>1. t \in NodeType
  BY RetryTypes DEF Core, NodeType
<1>2. /\ t.pool = s.pool /\ t.have = s.have /\ t.counts = s.counts
      /\ t.own = s.own /\ t.file = s.file
      /\ t.pending = s.pending \cup {i}
      /\ t.request = [s.request EXCEPT ![a] = i]
  BY DEF Core, NodeType
<1>3. s.request \in [Addr -> Piece \cup {NoPiece}] /\ NoPiece \notin Piece
  BY TorrentAssumption DEF Core, NodeType
<1>4. PendingKept(s, t)
  BY <1>2, <1>3 DEF Core, PendingKept,
         RequestsPendingIn, PendingMatchesIn
<1>5. RequestsUnheldIn(t)
  BY <1>2, <1>3 DEF Core, RequestsUnheldIn, Connected
<1>6. OwnVerifiedIn(t) /\ CountsMatchIn(t) /\ KeepsVerified(s, t)
  BY <1>2 DEF Core, OwnVerifiedIn, CountsMatchIn, KeepsVerified
<1>7. Good(s, t)
  BY <1>1, <1>4, <1>5, <1>6 DEF Core, Good, PendingKept
<1> HIDE DEF t
<1>8. Good(t, SendRequest(t, a))
  BY <1>7, SendRequestGood DEF Good
<1> QED BY <1>7, <1>8, GoodTransitive DEF RequestStart, t

(* request_stop, also for a connection that has just left the list. *)
LEMMA RequestStopEffect ==
    ASSUME NEW s \in NodeType, NEW a \in Addr, RequestsPendingIn(s)
    PROVE  LET t == RequestStop(s, a)
           IN /\ t \in NodeType
              /\ PendingKept(s, t)
              /\ t.request = [s.request EXCEPT ![a] = NoPiece]
              /\ t.pool = s.pool /\ t.have = s.have /\ t.counts = s.counts
              /\ t.own = s.own /\ t.file = s.file
<1> DEFINE p == StopPartial(s, a)
           t == RequestStop(s, a)
<1>1. /\ p \in NodeType
      /\ p.request = [s.request EXCEPT ![a] = NoPiece]
      /\ p.pool = s.pool /\ p.have = s.have /\ p.counts = s.counts
      /\ p.own = s.own /\ p.file = s.file /\ p.pending = s.pending
  <2>1. 0 \in Cell
    BY TorrentAssumption
  <2> QED BY <2>1, RetryTypes DEF StopPartial, NodeType
<1> HIDE DEF p
<1>2. t = [p EXCEPT !.pending =
               IF s.request[a] = NoPiece \/ \E b \in Addr : p.request[b] = s.request[a]
               THEN s.pending ELSE s.pending \ {s.request[a]}]
  BY DEF RequestStop, p
<1>3. s.pending \in SUBSET Piece
  BY DEF NodeType
<1>4. /\ t \in NodeType
      /\ t.request = p.request /\ t.pool = p.pool /\ t.have = p.have
      /\ t.counts = p.counts /\ t.own = p.own /\ t.file = p.file
      /\ t.pending = IF s.request[a] = NoPiece \/ \E b \in Addr : p.request[b] = s.request[a]
                     THEN s.pending ELSE s.pending \ {s.request[a]}
  BY <1>1, <1>2, <1>3 DEF NodeType
<1>5. PendingKept(s, t)
  <2>1. s.request \in [Addr -> Piece \cup {NoPiece}] /\ NoPiece \notin Piece
    BY TorrentAssumption DEF NodeType
  <2> QED BY <2>1, <1>1, <1>4 DEF PendingKept, RequestsPendingIn, PendingMatchesIn
<1> QED BY <1>1, <1>4, <1>5

(* request_stop is good.                                                   *)
LEMMA RequestStopGood ==
    ASSUME NEW s, Core(s), NEW a \in Addr
    PROVE  /\ Good(s, RequestStop(s, a))
           /\ RequestStop(s, a).request[a] = NoPiece
           /\ RequestStop(s, a).pool = s.pool
           /\ RequestStop(s, a).own = s.own
           /\ RequestStop(s, a).file = s.file
<1> DEFINE t == RequestStop(s, a)
<1>1. /\ t \in NodeType /\ PendingKept(s, t)
      /\ t.request = [s.request EXCEPT ![a] = NoPiece]
      /\ t.pool = s.pool /\ t.have = s.have /\ t.counts = s.counts
      /\ t.own = s.own /\ t.file = s.file
  BY RequestStopEffect DEF Core
<1>2. s.request \in [Addr -> Piece \cup {NoPiece}]
  BY DEF Core, NodeType
<1>3. RequestsUnheldIn(t)
  BY <1>1, <1>2 DEF Core, RequestsUnheldIn, Connected
<1>4. OwnVerifiedIn(t) /\ CountsMatchIn(t) /\ KeepsVerified(s, t)
  BY <1>1 DEF Core, OwnVerifiedIn, CountsMatchIn, KeepsVerified
<1> QED BY <1>1, <1>2, <1>3, <1>4 DEF Core, Good, PendingKept

(* request_next on an open connection is good.                             *)
LEMMA RequestNextGood ==
    ASSUME NEW s, Core(s), NEW a \in Addr, Connected(s, a),
           NEW t \in RequestNext(s, a)
    PROVE  Good(s, t)
<1>1. CASE t = s
  BY <1>1, GoodReflexive
<1>2. CASE t # s
  <2>1. /\ s.request[a] = NoPiece
        /\ \E i \in SelectNext(s, a) : t = RequestStart(s, a, i, 0)
    BY <1>2 DEF RequestNext
  <2>2. PICK i \in SelectNext(s, a) : t = RequestStart(s, a, i, 0)
    BY <2>1
  <2>3. i \in s.have[a] /\ i \notin s.own
    BY <2>2 DEF SelectNext, Wanted, Interesting, InterestingEndGame
  <2>4. i \in Piece /\ 0 \in Cell
    BY <2>3, TorrentAssumption DEF Core, NodeType
  <2> QED BY <2>1, <2>2, <2>3, <2>4, RequestStartGood
<1> QED BY <1>1, <1>2

(* A change of one retry counter is good.                                  *)
LEMMA RetryFrame ==
    ASSUME NEW s, Core(s), NEW a \in Addr, NEW r \in RetryRecord(MaxRetries)
    PROVE  /\ Good(s, [s EXCEPT !.retry[a] = r])
           /\ [s EXCEPT !.retry[a] = r].pool = s.pool
<1> DEFINE t == [s EXCEPT !.retry[a] = r]
<1>1. t \in NodeType
  BY DEF Core, NodeType
<1>2. /\ t.pool = s.pool /\ t.have = s.have /\ t.request = s.request
      /\ t.pending = s.pending /\ t.counts = s.counts /\ t.own = s.own
      /\ t.file = s.file
  BY DEF Core, NodeType
<1> QED BY <1>1, <1>2, CoreFrame

(* nanotorrent_retry_process with its callbacks is good on an open         *)
(* connection.                                                             *)
LEMMA ProcessRetryGood ==
    ASSUME NEW s, Core(s), NEW a \in Addr, Connected(s, a),
           NEW t \in ProcessRetry(s, a)
    PROVE  Good(s, t)
<1> DEFINE r == RetryNext(s.retry[a])
           u == [s EXCEPT !.retry[a] = r]
<1>1. r \in RetryRecord(MaxRetries)
  BY RetryTypes DEF Core, NodeType
<1>2. Good(s, u) /\ u.pool = s.pool
  BY <1>1, RetryFrame
<1> HIDE DEF u
<1>3. \/ t = s
      \/ t = u
      \/ t = SendRequest(u, a)
      \/ t \in RequestNext(RequestStop(u, a), a)
  BY DEF ProcessRetry, u
<1>4. Good(u, SendRequest(u, a))
  BY <1>2, SendRequestGood DEF Good
<1>5. ASSUME t \in RequestNext(RequestStop(u, a), a)
      PROVE  Good(u, t)
  <2>1. Good(u, RequestStop(u, a)) /\ RequestStop(u, a).pool = s.pool
    BY <1>2, RequestStopGood DEF Good
  <2>2. Good(RequestStop(u, a), t)
    BY <1>5, <2>1, RequestNextGood DEF Good, Connected
  <2> QED BY <2>1, <2>2, GoodTransitive
<1> QED BY <1>2, <1>3, <1>4, <1>5, GoodTransitive, GoodReflexive

-----------------------------------------------------------------------------
(* Connections. *)

(* connect_with is good; the connection is open afterwards and requests    *)
(* stay as they are.                                                       *)
LEMMA ConnectGood ==
    ASSUME NEW s, Core(s), NEW a \in Addr, NEW p \in {"in", "out"}
    PROVE  /\ Good(s, ConnectWith(s, a, p))
           /\ Connected(ConnectWith(s, a, p), a)
           /\ ConnectWith(s, a, p).request = s.request
           /\ ConnectWith(s, a, p).pending = s.pending
           /\ ConnectWith(s, a, p).own = s.own
<1>1. CASE Connected(s, a)
  BY <1>1, GoodReflexive DEF ConnectWith
<1>2. CASE ~Connected(s, a)
  <2> DEFINE t == [s EXCEPT !.pool[a] = p, !.alive[a] = TRUE]
  <2>1. t \in NodeType
    BY DEF Core, NodeType
  <2>2. /\ t.pool = [s.pool EXCEPT ![a] = p]
        /\ t.have = s.have /\ t.request = s.request
        /\ t.pending = s.pending /\ t.counts = s.counts /\ t.own = s.own
        /\ t.file = s.file
    BY DEF Core, NodeType
  <2>3. s.pool \in [Addr -> {"none", "in", "out"}]
    BY DEF Core, NodeType
  <2>4. RequestsUnheldIn(t) /\ Connected(t, a)
    BY <2>2, <2>3 DEF Core, RequestsUnheldIn, Connected
  <2>5. /\ PendingKept(s, t) /\ OwnVerifiedIn(t) /\ CountsMatchIn(t)
        /\ KeepsVerified(s, t)
    BY <2>2 DEF Core, PendingKept,
         RequestsPendingIn, PendingMatchesIn, OwnVerifiedIn, CountsMatchIn, KeepsVerified
  <2> QED BY <1>2, <2>1, <2>2, <2>4, <2>5 DEF ConnectWith, Core, Good, PendingKept
<1> QED BY <1>1, <1>2

(* The piece counts after the have field of one connection changed. *)
LEMMA RecountMatches ==
    ASSUME NEW s, Core(s), NEW a \in Addr, NEW new \in SUBSET Piece,
           NEW t, t.have = [s.have EXCEPT ![a] = new],
           t.counts = Recount(s.counts, s.have[a], new)
    PROVE  CountsMatchIn(t)
<1> SUFFICES ASSUME NEW i \in Piece
             PROVE  Recount(s.counts, s.have[a], new)[i]
                        = Cardinality(Holders(t.have, i))
  BY DEF CountsMatchIn
<1> DEFINE H == Holders(s.have, i)
           N == Holders(t.have, i)
<1>1. IsFiniteSet(H)
  BY AddrAssumption, FS_Subset DEF Holders
<1>2. s.counts[i] = Cardinality(H)
  BY DEF Core, CountsMatchIn
<1>3. s.have \in [Addr -> SUBSET Piece] /\ s.counts \in [Piece -> Int]
  BY DEF Core, NodeType
<1>4. CASE i \in new \ s.have[a]
  <2>1. N = H \cup {a} /\ a \notin H
    BY <1>3, <1>4 DEF Holders
  <2>2. Cardinality(N) = Cardinality(H) + 1
    BY <1>1, <2>1, FS_AddElement
  <2> QED BY <1>2, <1>4, <2>2 DEF Recount
<1>5. CASE i \in s.have[a] \ new
  <2>1. N = H \ {a} /\ a \in H
    BY <1>3, <1>5 DEF Holders
  <2>2. Cardinality(N) = Cardinality(H) - 1
    BY <1>1, <2>1, FS_RemoveElement
  <2> QED BY <1>2, <1>5, <2>2 DEF Recount
<1>6. CASE i \in s.have[a] <=> i \in new
  <2>1. N = H
    BY <1>3, <1>6 DEF Holders
  <2> QED BY <1>2, <1>6, <2>1 DEF Recount
<1> QED BY <1>4, <1>5, <1>6

(* nanotorrent_select_update_have returns a table of counts.               *)
LEMMA RecountType ==
    ASSUME NEW counts \in [Piece -> Int], NEW old, NEW new
    PROVE  Recount(counts, old, new) \in [Piece -> Int]
BY DEF Recount

(* peer_update_have is good.                                               *)
LEMMA UpdateHaveGood ==
    ASSUME NEW s, Core(s), NEW a \in Addr, NEW h \in SUBSET Piece
    PROVE  /\ Good(s, UpdateHave(s, a, h))
           /\ UpdateHave(s, a, h).pool = s.pool
<1> DEFINE t == UpdateHave(s, a, h)
           new == s.have[a] \cup h
<1>1. /\ s.have \in [Addr -> SUBSET Piece] /\ s.counts \in [Piece -> Int]
      /\ new \in SUBSET Piece
  BY DEF Core, NodeType
<1>2. Recount(s.counts, s.have[a], new) \in [Piece -> Int]
  BY <1>1, RecountType
<1>3. t \in NodeType
  BY <1>1, <1>2 DEF UpdateHave, Core, NodeType
<1>4. /\ t.pool = s.pool /\ t.request = s.request /\ t.pending = s.pending
      /\ t.own = s.own /\ t.file = s.file
      /\ t.counts = Recount(s.counts, s.have[a], new)
      /\ t.have = [s.have EXCEPT ![a] = new]
  BY DEF UpdateHave, Core, NodeType
<1>5. CountsMatchIn(t)
  <2> HIDE DEF t, new
  <2> QED BY <1>1, <1>4, RecountMatches
<1>6. /\ PendingKept(s, t) /\ RequestsUnheldIn(t) /\ OwnVerifiedIn(t)
      /\ KeepsVerified(s, t)
  BY <1>4 DEF Core, PendingKept,
         RequestsPendingIn, PendingMatchesIn, RequestsUnheldIn, OwnVerifiedIn,
              KeepsVerified, Connected
<1> QED BY <1>3, <1>4, <1>5, <1>6 DEF Core, Good, PendingKept

(* force_disconnect_conn is good.                                          *)
LEMMA ForceDisconnectGood ==
    ASSUME NEW s, Core(s), NEW a \in Addr
    PROVE  /\ Good(s, ForceDisconnect(s, a))
           /\ ForceDisconnect(s, a).request[a] = NoPiece
<1> DEFINE p == [s EXCEPT !.pool[a] = "none",
                          !.counts  = Recount(s.counts, s.have[a], {}),
                          !.have[a] = {}]
           q == RequestStop(p, a)
           t == ForceDisconnect(s, a)
<1>1. /\ s.have \in [Addr -> SUBSET Piece] /\ s.counts \in [Piece -> Int]
      /\ s.request \in [Addr -> Piece \cup {NoPiece}]
      /\ s.pool \in [Addr -> {"none", "in", "out"}]
  BY DEF Core, NodeType
<1>2. Recount(s.counts, s.have[a], {}) \in [Piece -> Int]
  BY <1>1, RecountType
<1>3. /\ p \in NodeType
      /\ p.pool = [s.pool EXCEPT ![a] = "none"]
      /\ p.have = [s.have EXCEPT ![a] = {}]
      /\ p.counts = Recount(s.counts, s.have[a], {})
      /\ p.request = s.request /\ p.pending = s.pending
      /\ p.own = s.own /\ p.file = s.file
  BY <1>1, <1>2 DEF Core, NodeType
<1>4. PendingKept(s, p)
  BY <1>3 DEF Core, PendingKept,
         RequestsPendingIn, PendingMatchesIn
<1> HIDE DEF p
<1>5. /\ q \in NodeType /\ PendingKept(p, q)
      /\ q.request = [p.request EXCEPT ![a] = NoPiece]
      /\ q.pool = p.pool /\ q.have = p.have /\ q.counts = p.counts
      /\ q.own = p.own /\ q.file = p.file
  BY <1>3, <1>4, RequestStopEffect DEF PendingKept
<1>6. t = [q EXCEPT !.alive[a] = FALSE, !.retry[a] = RetryInit]
  BY DEF ForceDisconnect, p
<1> HIDE DEF q, t
<1>7. RetryInit \in RetryRecord(MaxRetries)
  BY LimitAssumption DEF RetryInit, RetryRecord
<1>8. /\ t \in NodeType
      /\ t.request = q.request /\ t.pool = q.pool /\ t.have = q.have
      /\ t.counts = q.counts /\ t.own = q.own /\ t.file = q.file
      /\ t.pending = q.pending
  BY <1>5, <1>6, <1>7 DEF NodeType
<1>9. PendingKept(s, t)
  BY <1>5, <1>8, <1>4 DEF PendingKept, RequestsPendingIn, PendingMatchesIn
<1>10. RequestsUnheldIn(t) /\ t.request[a] = NoPiece
  BY <1>1, <1>3, <1>5, <1>8 DEF Core, RequestsUnheldIn, Connected
<1>11. CountsMatchIn(t)
  <2>1. t.have = [s.have EXCEPT ![a] = {}] /\ t.counts = Recount(s.counts, s.have[a], {})
    BY <1>3, <1>5, <1>8
  <2> QED BY <2>1, RecountMatches
<1>12. OwnVerifiedIn(t) /\ KeepsVerified(s, t)
  BY <1>3, <1>5, <1>8 DEF Core, OwnVerifiedIn, KeepsVerified
<1> QED BY <1>8, <1>9, <1>10, <1>11, <1>12 DEF Core, Good, t, PendingKept

-----------------------------------------------------------------------------
(* Receiving data. *)

(* nanotorrent_peer_request_stop_all after set_complete(i, true): together *)
(* they keep the invariant although neither does alone.                    *)
LEMMA CompleteGood ==
    ASSUME NEW s, Core(s), NEW i \in Piece, s.file[i] = Cells(i)
    PROVE  Good(s, RequestStopAll(SetComplete(s, i, TRUE), i))
<1> DEFINE c == SetComplete(s, i, TRUE)
           t == RequestStopAll(c, i)
<1>1. /\ c \in NodeType /\ c.own = s.own \cup {i}
      /\ c.pool = s.pool /\ c.have = s.have /\ c.counts = s.counts
      /\ c.file = s.file /\ c.request = s.request /\ c.pending = s.pending
  BY DEF SetComplete, Core, NodeType
<1> HIDE DEF c
<1>2. 0 \in Cell
  BY TorrentAssumption
<1>3. \A a \in Addr : RetryStop(c.retry[a]) \in RetryRecord(MaxRetries)
  BY <1>1, RetryTypes DEF NodeType
<1>4. /\ t \in NodeType
      /\ t.request = [a \in Addr |-> IF c.request[a] = i THEN NoPiece
                                     ELSE c.request[a]]
      /\ t.pending = c.pending \ {i}
      /\ t.pool = c.pool /\ t.have = c.have /\ t.counts = c.counts
      /\ t.own = c.own /\ t.file = c.file
  BY <1>1, <1>2, <1>3 DEF RequestStopAll, NodeType
<1> HIDE DEF t
<1>5. s.request \in [Addr -> Piece \cup {NoPiece}] /\ NoPiece \notin Piece
  BY TorrentAssumption DEF Core, NodeType
<1>6. PendingKept(s, t)
  BY <1>1, <1>4, <1>5 DEF Core, PendingKept,
         RequestsPendingIn, PendingMatchesIn
<1>7. RequestsUnheldIn(t)
  BY <1>1, <1>4, <1>5 DEF Core, RequestsUnheldIn, Connected
<1>8. OwnVerifiedIn(t) /\ CountsMatchIn(t) /\ KeepsVerified(s, t)
  BY <1>1, <1>4 DEF Core, OwnVerifiedIn, CountsMatchIn, KeepsVerified
<1> QED BY <1>4, <1>6, <1>7, <1>8 DEF Core, Good, c, t, PendingKept

(* post_seeding is good.                                                   *)
LEMMA PostSeedingGood ==
    ASSUME NEW s, Core(s), NEW t \in PostSeeding(s)
    PROVE  Good(s, t)
<1> DEFINE u == [s EXCEPT !.seeded = TRUE]
<1>1. u \in NodeType
  BY DEF Core, NodeType
<1>2. /\ u.pool = s.pool /\ u.have = s.have /\ u.request = s.request
      /\ u.pending = s.pending /\ u.counts = s.counts /\ u.own = s.own
      /\ u.file = s.file
  BY DEF Core, NodeType
<1>3. t = s \/ t = u
  BY DEF PostSeeding
<1> QED BY <1>1, <1>2, <1>3, CoreFrame, GoodReflexive

(* receive_data is good for the piece the connection requests.             *)
LEMMA ReceiveDataGood ==
    ASSUME NEW s, Core(s), NEW b \in Addr, NEW i \in Piece, NEW next \in Nat,
           s.request[b] = i, NEW t \in ReceiveData(s, b, i, next)
    PROVE  Good(s, t)
<1>1. Connected(s, b) /\ i \notin s.own
  BY TorrentAssumption DEF Core, RequestsUnheldIn
<1>2. CASE next < PieceSize(i)
  <2>1. next \in Cell
    BY <1>2, PieceSizeRange, TorrentAssumption
  <2>2. t = RequestStart(s, b, i, next)
    BY <1>2 DEF ReceiveData
  <2> QED BY <1>1, <2>1, <2>2, RequestStartGood
<1>3. CASE ~(next < PieceSize(i))
  <2> DEFINE u == RequestStop(s, b)
  <2>1. Good(s, u) /\ u.own = s.own /\ u.file = s.file
    BY RequestStopGood
  <2> HIDE DEF u
  <2>2. PICK v \in Verdicts(s, i) : t \in FinishPiece(u, i, v)
    BY <1>3 DEF ReceiveData, u
  <2>3. CASE v = TRUE
    <3>1. u.file[i] = Cells(i)
      BY <2>1, <2>2, <2>3 DEF Verdicts
    <3>2. Good(u, RequestStopAll(SetComplete(u, i, TRUE), i))
      BY <2>1, <3>1, CompleteGood DEF Good
    <3>3. Good(RequestStopAll(SetComplete(u, i, TRUE), i), t)
      BY <2>2, <2>3, <3>2, PostSeedingGood DEF Good, FinishPiece
    <3> QED BY <2>1, <3>2, <3>3, GoodTransitive
  <2>4. CASE v = FALSE
    <3>1. t = SetComplete(u, i, FALSE)
      BY <2>2, <2>4 DEF FinishPiece
    <3>2. /\ t \in NodeType
          /\ t.own = u.own \ {i}
          /\ t.pool = u.pool /\ t.have = u.have /\ t.request = u.request
          /\ t.pending = u.pending /\ t.counts = u.counts /\ t.file = u.file
      BY <2>1, <3>1 DEF SetComplete, Good, Core, NodeType
    <3>3. t.own = u.own
      BY <1>1, <2>1, <3>2
    <3>4. Good(u, t)
      BY <2>1, <3>2, <3>3, CoreFrame DEF Good
    <3> QED BY <2>1, <3>4, GoodTransitive
  <2> QED BY <2>2, <2>3, <2>4 DEF Verdicts
<1> QED BY <1>2, <1>3

(* The bytes transferred stay within the piece. *)
LEMMA TransferredRange ==
    ASSUME NEW i \in Piece, NEW start \in Nat, NEW len \in Nat,
           NEW n \in Transferred(i, start, len)
    PROVE  /\ n \in Nat
           /\ Narrow(start) .. Narrow(start) + n - 1 \subseteq Cell
<1>1. PieceSize(i) \in 1 .. PieceLength /\ PieceLength \in Nat
  BY PieceSizeRange, TorrentAssumption
<1>2. Narrow(start) \in Nat
  BY LimitAssumption DEF Narrow
<1>3. CASE n = 0
  BY <1>1, <1>2, <1>3
<1>4. CASE n # 0
  <2>1. Narrow(start) < PieceSize(i)
    BY <1>1, <1>2, <1>4 DEF Transferred
  <2>2. n \in 0 .. MinOf(len, PieceSize(i) - Narrow(start))
    BY <1>1, <1>2, <2>1 DEF Transferred, MinOf
  <2>3. n \in Nat /\ n <= PieceSize(i) - Narrow(start)
    BY <1>1, <1>2, <2>1, <2>2 DEF MinOf
  <2> QED BY <1>1, <1>2, <2>3
<1> QED BY <1>3, <1>4

(* Writing into a missing piece is good and leaves the requests alone.     *)
LEMMA WriteCellsGood ==
    ASSUME NEW s, Core(s), NEW i \in Piece, i \notin s.own,
           NEW start \in Nat, NEW len \in Nat,
           NEW n \in Transferred(i, start, len)
    PROVE  /\ Good(s, WriteCells(s, i, start, n))
           /\ WriteCells(s, i, start, n).request = s.request
<1> DEFINE t == WriteCells(s, i, start, n)
           w == Narrow(start) .. Narrow(start) + n - 1
<1>1. w \subseteq Cell
  BY TransferredRange
<1>2. s.file \in [Piece -> SUBSET Cell] /\ s.own \subseteq Piece
  BY DEF Core, NodeType
<1> HIDE DEF w
<1>3. t = [s EXCEPT !.file[i] = s.file[i] \cup w]
  BY DEF WriteCells, w
<1>4. /\ t \in NodeType
      /\ t.pool = s.pool /\ t.have = s.have /\ t.request = s.request
      /\ t.pending = s.pending /\ t.counts = s.counts /\ t.own = s.own
      /\ t.file = [s.file EXCEPT ![i] = s.file[i] \cup w]
  <2>1. s.file[i] \cup w \in SUBSET Cell
    BY <1>1, <1>2
  <2>2. [s.file EXCEPT ![i] = s.file[i] \cup w] \in [Piece -> SUBSET Cell]
    BY <1>2, <2>1
  <2> HIDE DEF Cell, Piece, t
  <2> QED BY <1>2, <1>3, <2>2 DEF Core, NodeType, t
<1>5. OwnVerifiedIn(t) /\ KeepsVerified(s, t)
  BY <1>2, <1>4 DEF Core, OwnVerifiedIn, KeepsVerified
<1>6. PendingKept(s, t) /\ RequestsUnheldIn(t) /\ CountsMatchIn(t)
  BY <1>4 DEF Core, PendingKept,
         RequestsPendingIn, PendingMatchesIn, RequestsUnheldIn, CountsMatchIn, Connected
<1> QED BY <1>4, <1>5, <1>6 DEF Core, Good, PendingKept

(* What the invariant needs to know of a data message. *)
IsData(m) ==
    m.piece \in Piece /\ m.start \in Nat /\ m.len \in Nat

(* Storing the data of a reply is good for a connection that requests the  *)
(* piece.                                                                  *)
LEMMA StoreDataGood ==
    ASSUME NEW s, Core(s), NEW b \in Addr, NEW m, IsData(m),
           s.request[b] = m.piece, NEW t \in StoreData(s, b, m)
    PROVE  Good(s, t)
<1>1. PICK n \in Transferred(m.piece, m.start, m.len) :
          t \in IF n = 0 THEN {s}
               ELSE ReceiveData(WriteCells(s, m.piece, m.start, n), b,
                                m.piece, m.start + n)
  BY DEF StoreData
<1>2. CASE n = 0
  BY <1>1, <1>2, GoodReflexive
<1>3. CASE n # 0
  <2> DEFINE w == WriteCells(s, m.piece, m.start, n)
  <2>1. m.piece \in Piece /\ m.start \in Nat /\ m.len \in Nat
    BY DEF IsData
  <2>2. m.piece \notin s.own
    BY <2>1, TorrentAssumption DEF Core, RequestsUnheldIn
  <2>3. Good(s, w) /\ w.request = s.request
    BY <1>1, <2>1, <2>2, WriteCellsGood
  <2>4. m.start + n \in Nat
    BY <1>1, <2>1, TransferredRange
  <2>5. t \in ReceiveData(w, b, m.piece, m.start + n)
    BY <1>1, <1>3
  <2>6. Good(w, t)
    <3> HIDE DEF w
    <3> QED BY <2>1, <2>3, <2>4, <2>5, ReceiveDataGood DEF Good
  <2> QED BY <2>3, <2>6, GoodTransitive
<1> QED BY <1>2, <1>3

(* data_receiver and what follows are good for a pending piece.            *)
LEMMA ReceiveRequestedGood ==
    ASSUME NEW s, Core(s), NEW a \in Addr, NEW m, IsData(m),
           NEW t \in ReceiveRequested(s, a, m)
    PROVE  Good(s, t)
<1>1. CASE t = s
  BY <1>1, GoodReflexive
<1>2. CASE t # s
  <2>1. PICK b \in FindRequest(s, a, m.piece) : t \in OfferData(s, b, m)
    BY <1>2 DEF ReceiveRequested
  <2>2. b \in Addr /\ s.request[b] = m.piece
    BY DEF FindRequest
  <2>3. t \in StoreData(s, b, m)
    BY <1>2, <2>1 DEF OfferData
  <2> QED BY <2>2, <2>3, StoreDataGood
<1> QED BY <1>1, <1>2

(* data_receiver and what follows are good for an overheard piece that is  *)
(* missing.                                                                *)
LEMMA ReceiveOverheardGood ==
    ASSUME NEW s, Core(s), NEW a \in Addr, NEW m, IsData(m),
           m.piece \notin s.own, NEW t \in ReceiveOverheard(s, a, m)
    PROVE  Good(s, t)
<1>1. CASE t = s
  BY <1>1, GoodReflexive
<1>2. CASE t # s
  <2> DEFINE c == ConnectWith(s, a, "out")
             r == [c EXCEPT !.request[a] = m.piece,
                            !.offset[a]  = 0,
                            !.pending    = s.pending \cup {m.piece}]
  <2>1. s.request[a] = NoPiece /\ t \in StoreData(r, a, m)
    BY <1>2 DEF ReceiveOverheard
  <2>2. /\ Good(s, c) /\ Connected(c, a) /\ c.request = s.request
        /\ c.pending = s.pending /\ c.own = s.own
    BY ConnectGood
  <2> HIDE DEF c
  <2>3. m.piece \in Piece /\ 0 \in Cell /\ NoPiece \notin Piece
    BY TorrentAssumption DEF IsData
  <2>4. /\ r \in NodeType
        /\ r.pool = c.pool /\ r.have = c.have /\ r.counts = c.counts
        /\ r.own = c.own /\ r.file = c.file
        /\ r.pending = c.pending \cup {m.piece}
        /\ r.request = [c.request EXCEPT ![a] = m.piece]
    BY <2>2, <2>3 DEF Good, Core, NodeType
  <2> HIDE DEF r
  <2>5. c.request \in [Addr -> Piece \cup {NoPiece}]
    BY <2>2 DEF Good, Core, NodeType
  <2>6. PendingKept(c, r)
    BY <2>1, <2>2, <2>3, <2>4, <2>5 DEF Good, Core, PendingKept,
         RequestsPendingIn, PendingMatchesIn
  <2>7. RequestsUnheldIn(r)
    BY <2>2, <2>3, <2>4, <2>5 DEF Good, Core, RequestsUnheldIn, Connected
  <2>8. OwnVerifiedIn(r) /\ CountsMatchIn(r) /\ KeepsVerified(c, r)
    BY <2>2, <2>4 DEF Good, Core, OwnVerifiedIn, CountsMatchIn, KeepsVerified
  <2>9. Good(c, r) /\ r.request[a] = m.piece
    BY <2>4, <2>5, <2>6, <2>7, <2>8 DEF Good, Core, PendingKept
  <2>10. Good(r, t)
    BY <2>1, <2>9, StoreDataGood DEF Good
  <2> QED BY <2>2, <2>9, <2>10, GoodTransitive
<1> QED BY <1>1, <1>2

(* handle_data_reply is good.                                              *)
LEMMA HandleReplyGood ==
    ASSUME NEW s, Core(s), NEW a \in Addr, NEW m, IsData(m),
           NEW t \in HandleReply(s, a, m)
    PROVE  Good(s, t)
BY GoodReflexive, ReceiveRequestedGood, ReceiveOverheardGood DEF HandleReply

(* handle_data_request is good.                                            *)
LEMMA HandleRequestGood ==
    ASSUME NEW s, Core(s), NEW a \in Addr, NEW m, IsData(m),
           NEW t \in HandleRequest(s, a, m)
    PROVE  Good(s, t)
<1>1. CASE t = s
  BY <1>1, GoodReflexive
<1>2. CASE t # s
  <2> DEFINE reply(n) ==
             [type |-> "REPLY", to |-> IF a \in LocalAddr THEN Multicast ELSE a,
              have |-> s.own, piece |-> m.piece, start |-> m.start, len |-> n]
  <2>1. PICK n \in Transferred(m.piece, m.start, MaxPayload) :
            t = Send(s, reply(n))
    BY <1>2 DEF HandleRequest
  <2>2. m.piece \in Piece /\ m.start \in Nat /\ MaxPayload \in Nat
    BY LimitAssumption DEF IsData
  <2>3. n \in Nat
    BY <2>1, <2>2, TransferredRange
  <2>4. s.own \in SUBSET Piece
    BY DEF Core, NodeType
  <2>5. reply(n) \in Message
    BY <2>2, <2>3, <2>4 DEF Message, MsgType
  <2> HIDE DEF reply
  <2> QED BY <2>1, <2>5, SendGood
<1> QED BY <1>1, <1>2

-----------------------------------------------------------------------------
(* Messages and passes. *)

(* The part of handle_message after the data was handled is good.          *)
LEMMA WelcomeGood ==
    ASSUME NEW s, Core(s), NEW a \in Addr, NEW m,
           m.have \in SUBSET Piece, m.type = "REQUEST" => IsData(m),
           NEW t \in Welcome(s, a, m)
    PROVE  Good(s, t)
<1>1. CASE ~CanConnect(s, a, "in")
  BY <1>1, GoodReflexive, SendPlainGood DEF Welcome
<1>2. CASE CanConnect(s, a, "in")
  <2> DEFINE c == ConnectWith(s, a, "in")
             u == UpdateHave(c, a, m.have)
  <2>1. Good(s, c) /\ Connected(c, a)
    BY ConnectGood
  <2> HIDE DEF c
  <2>2. Good(c, u) /\ Connected(u, a)
    BY <2>1, UpdateHaveGood DEF Good, Connected
  <2>3. IF m.type = "REQUEST" THEN t \in HandleRequest(u, a, m)
        ELSE t \in RequestNext(u, a)
    BY <1>2 DEF Welcome, c
  <2> HIDE DEF u
  <2>4. Good(u, t)
    BY <2>2, <2>3, HandleRequestGood, RequestNextGood DEF Good
  <2> QED BY <2>1, <2>2, <2>4, GoodTransitive
<1> QED BY <1>1, <1>2

(* handle_message is good for every message type.                          *)
LEMMA HandleMessageGood ==
    ASSUME NEW s, Core(s), NEW a \in Addr, NEW m,
           m.have \in SUBSET Piece,
           m.type \in {"REQUEST", "REPLY"} => IsData(m),
           NEW t \in HandleMessage(s, a, m)
    PROVE  Good(s, t)
<1>1. CASE m.type = "CLOSE"
  BY <1>1, GoodReflexive, ForceDisconnectGood DEF HandleMessage
<1>2. CASE m.type = "REPLY"
  <2>1. PICK u \in HandleReply(s, a, m) : t \in Welcome(u, a, m)
    BY <1>2 DEF HandleMessage
  <2>2. Good(s, u)
    BY <1>2, <2>1, HandleReplyGood
  <2>3. Good(u, t)
    BY <1>2, <2>1, <2>2, WelcomeGood DEF Good
  <2> QED BY <2>2, <2>3, GoodTransitive
<1>3. CASE m.type \notin {"CLOSE", "REPLY"}
  BY <1>3, WelcomeGood DEF HandleMessage
<1> QED BY <1>1, <1>2, <1>3

(* One iteration of the process loop over the connections is good.         *)
LEMMA VisitConnGood ==
    ASSUME NEW s, Core(s), NEW a \in Addr, NEW t \in VisitConn(s, a)
    PROVE  Good(s, t)
<1> DEFINE d == IF s.alive[a] THEN s ELSE SendClose(ForceDisconnect(s, a), a)
           q == IF d.request[a] = NoPiece THEN {d} ELSE ProcessRetry(d, a)
<1>1. Good(s, d)
  <2>1. Good(s, ForceDisconnect(s, a))
    BY ForceDisconnectGood
  <2>2. Good(ForceDisconnect(s, a), SendClose(ForceDisconnect(s, a), a))
    BY <2>1, SendPlainGood DEF Good
  <2> QED BY <2>1, <2>2, GoodTransitive, GoodReflexive
<1>2. PICK u \in q : t \in {u, SendHave(u, a)}
  BY DEF VisitConn
<1> HIDE DEF d
<1>3. Good(d, u)
  <2>1. CASE d.request[a] = NoPiece
    BY <1>1, <1>2, <2>1, GoodReflexive DEF Good
  <2>2. CASE d.request[a] # NoPiece
    <3>1. Connected(d, a)
      BY <1>1, <2>2 DEF Good, Core, RequestsUnheldIn
    <3> QED BY <1>1, <1>2, <2>2, <3>1, ProcessRetryGood DEF Good
  <2> QED BY <2>1, <2>2
<1>4. Good(u, t)
  BY <1>2, <1>3, SendPlainGood, GoodReflexive DEF Good
<1> QED BY <1>1, <1>3, <1>4, GoodTransitive

(* The end of a pass of the process loop is good.                          *)
LEMMA FinishPassGood ==
    ASSUME NEW s, Core(s), NEW t \in FinishPass(s)
    PROVE  Good(s, t)
<1> DEFINE h == SendHave(s, Multicast)
           u == [h EXCEPT !.beat = TRUE]
<1>1. Good(s, h)
  BY SendPlainGood
<1> HIDE DEF h
<1>2. u \in NodeType
  BY <1>1 DEF Good, Core, NodeType
<1>3. /\ u.pool = h.pool /\ u.have = h.have /\ u.request = h.request
      /\ u.pending = h.pending /\ u.counts = h.counts /\ u.own = h.own
      /\ u.file = h.file
  BY <1>1 DEF Good, Core, NodeType
<1>4. Good(s, u)
  BY <1>1, <1>2, <1>3, CoreFrame, GoodTransitive DEF Good
<1>5. t \in PostSeeding(s) \/ t \in PostSeeding(u)
  BY DEF FinishPass, h
<1> HIDE DEF u
<1> QED BY <1>4, <1>5, PostSeedingGood, GoodTransitive DEF Good

-----------------------------------------------------------------------------
(* A client that starts. *)

(* A client that has just started satisfies Core, whatever pending_pieces  *)
(* holds.                                                                  *)
LEMMA StartGood ==
    ASSUME NEW file \in [Piece -> SUBSET Cell], NEW own \in Verified(file),
           NEW pending \in SUBSET Piece
    PROVE  Core(StartState(file, own, pending))
<1> DEFINE t == StartState(file, own, pending)
<1>1. own \in SUBSET Piece /\ \A i \in own : file[i] = Cells(i)
  BY LimitAssumption DEF Verified
<1>2. RetryInit \in RetryRecord(MaxRetries)
  BY LimitAssumption DEF RetryInit, RetryRecord
<1>3. 0 \in Cell
  BY TorrentAssumption
<1>4. t \in NodeType
  BY <1>1, <1>2, <1>3 DEF StartState, NodeType
<1>5. RequestsPendingIn(t) /\ RequestsUnheldIn(t) /\ OwnVerifiedIn(t)
  BY <1>1, TorrentAssumption
     DEF StartState, RequestsPendingIn, RequestsUnheldIn, OwnVerifiedIn
<1>6. CountsMatchIn(t)
  <2> SUFFICES ASSUME NEW i \in Piece
               PROVE  t.counts[i] = Cardinality(Holders(t.have, i))
    BY DEF CountsMatchIn
  <2>1. Holders(t.have, i) = {} /\ t.counts[i] = 0
    BY DEF Holders, StartState
  <2> QED BY <2>1, FS_EmptySet
<1> QED BY <1>4, <1>5, <1>6 DEF Core

(* Handing the sent messages to the network is good.                       *)
LEMMA TakenGood ==
    ASSUME NEW s, Core(s)
    PROVE  Good(s, [s EXCEPT !.out = {}])
<1> DEFINE t == [s EXCEPT !.out = {}]
<1>1. t \in NodeType
  BY DEF Core, NodeType
<1>2. /\ t.pool = s.pool /\ t.have = s.have /\ t.request = s.request
      /\ t.pending = s.pending /\ t.counts = s.counts /\ t.own = s.own
      /\ t.file = s.file
  BY DEF Core, NodeType
<1> QED BY <1>1, <1>2, CoreFrame

-----------------------------------------------------------------------------
(* The second layer: what a client requests, receives and sends.           *)
(*                                                                         *)
(* Offsets reach every byte of a piece when pieces have no more bytes than *)
(* a data_offset has values; what is written is where it should be then,   *)
(* and when writing does not fail either, what is written is what was      *)
(* received; when verifying does not fail, a whole piece is a verified one.*)
NoWrap == PieceLength <= OffsetRange
Exact  == NoWrap /\ ~FlakyStorage
Sure   == Exact /\ Unreadable = {}

(* What a handler is told and may count on: a message comes from `from' and*)
(* claims that it has the pieces in claims; the client may complete the    *)
(* pieces in gains; the others have no less than world says.               *)
Setting ==
    {e \in [from : Addr, claims : SUBSET Piece, gains : SUBSET Piece,
            world : [Addr -> SUBSET Piece]] : e.claims \subseteq e.world[e.from]}

FilesIn(s) == \A i \in Piece : s.file[i] \subseteq Cells(i)

(* A request for overheard data comes before the sender's have field is    *)
(* noted.                                                                  *)
ServableDuring(s, e) ==
    \A b \in Addr : s.request[b] # NoPiece =>
        s.request[b] \in s.have[b] \cup (IF b = e.from THEN e.claims ELSE {})

(* The retries of all but the connections in D run. *)
KeptAliveBut(s, D) ==
    \A b \in Addr \ D : s.request[b] # NoPiece =>
        /\ s.retry[b].bound
        /\ s.retry[b].num \in 1 .. MaxRetries
        /\ s.retry[b].max = MaxRetries

(* A request stands within its piece. *)
OffsetsWithinIn(s) ==
    \A b \in Addr : s.request[b] # NoPiece => s.offset[b] \in Cells(s.request[b])

(* A reply carries bytes of a piece that its sender has. *)
IsReply(m) ==
    /\ IsData(m)
    /\ ReplyFor(m.have, m.piece, m.start, m.len)

Honest(m, own, world) ==
    /\ m \in Message
    /\ m.have \subseteq own
    /\ m.type \in {"CLOSE", "HAVE"} => m.piece = NoPiece
    /\ m.type = "REPLY" => IsReply(m)
    /\ m.type = "REQUEST" =>
          /\ m.to \in Addr /\ m.piece \in world[m.to]
          /\ m.start \in Cells(m.piece)

Firm(s, e, D) ==
    /\ NoDuplicateRequestIn(s)
    /\ ServableDuring(s, e)
    /\ FilesIn(s)
    /\ OffsetsWithinIn(s)
    /\ NoWrap => PrefixWrittenIn(s)
    /\ ~FlakyStorage => KeptAliveBut(s, D)
    /\ \A b \in Addr : s.have[b] \subseteq e.world[b]
    /\ \A m \in s.out : Honest(m, s.own, e.world)

(* No connection falls silent: only its heartbeat timer does that. *)
NoneSilenced(s, t) ==
    \A b \in Addr : Connected(t, b) /\ ~t.alive[b] => Connected(s, b) /\ ~s.alive[b]

Quiet(s, t, e) ==
    /\ t.have = s.have
    /\ t.beat = s.beat
    /\ t.own \subseteq s.own \cup e.gains
    /\ NoneSilenced(s, t)

(* A request goes on where it is, or further on, until its piece is owned, *)
(* or is whole but could not be verified.                                  *)
Forward(s, t) ==
    /\ \A i \in Piece : s.file[i] \subseteq t.file[i]
    /\ \A b \in Addr : s.request[b] # NoPiece =>
          \/ s.request[b] \in t.own
          \/ t.request[b] = s.request[b] /\ s.offset[b] <= t.offset[b]
          \/ Cells(s.request[b]) \subseteq t.file[s.request[b]]

(* The last byte of a piece arrives when the piece is complete. *)
LastMissing(s) == \A i \in Piece \ s.own : PieceSize(i) - 1 \notin s.file[i]

Fine(s, t, e) ==
    /\ Good(s, t)
    /\ Firm(t, e, {})
    /\ Quiet(s, t, e)
    /\ Exact => Forward(s, t)
    /\ Sure /\ LastMissing(s) => LastMissing(t)

(* A reply starts within its piece, before and after the narrowing of its  *)
(* offset, and has at least one byte.                                      *)
LEMMA ReplyFacts ==
    ASSUME NEW m, IsReply(m)
    PROVE  /\ IsData(m) /\ m.piece \in m.have
           /\ Narrow(m.start) < PieceSize(m.piece)
           /\ m.len >= 1
<1>1. PieceSize(m.piece) \in Nat /\ Narrow(m.start) \in Nat
  BY PieceSizeRange, LimitAssumption, TorrentAssumption DEF IsReply, IsData, Narrow
<1>2. Narrow(m.start) < PieceSize(m.piece)
  BY <1>1 DEF IsReply, ReplyFor, Cells
<1>3. m.len >= 1
  BY <1>1, <1>2, LimitAssumption DEF IsReply, ReplyFor, MinOf
<1> QED BY <1>2, <1>3 DEF IsReply, ReplyFor

(* A request that goes on twice goes on.                                   *)
LEMMA ForwardTransitive ==
    ASSUME NEW s, NEW t, NEW u, Core(s), Good(s, t), Good(t, u),
           Forward(s, t), Forward(t, u)
    PROVE  Forward(s, u)
<1>1. \A i \in Piece : s.file[i] \subseteq t.file[i] /\ t.file[i] \subseteq u.file[i]
  BY DEF Forward
<1>2. ASSUME NEW b \in Addr, s.request[b] # NoPiece
      PROVE  \/ s.request[b] \in u.own
             \/ u.request[b] = s.request[b] /\ s.offset[b] <= u.offset[b]
             \/ Cells(s.request[b]) \subseteq u.file[s.request[b]]
  <2>1. s.request[b] \in Piece
    BY <1>2 DEF Core, NodeType
  <2>2. CASE s.request[b] \in t.own
    BY <2>2 DEF Good, KeepsVerified
  <2>3. CASE t.request[b] = s.request[b] /\ s.offset[b] <= t.offset[b]
    <3>1. \/ s.request[b] \in u.own
          \/ u.request[b] = s.request[b] /\ t.offset[b] <= u.offset[b]
          \/ Cells(s.request[b]) \subseteq u.file[s.request[b]]
      BY <1>2, <2>3 DEF Forward
    <3>2. s.offset[b] \in Int /\ t.offset[b] \in Int /\ u.offset[b] \in Int
      BY TorrentAssumption DEF Good, Core, NodeType
    <3> QED BY <2>3, <3>1, <3>2
  <2>4. CASE Cells(s.request[b]) \subseteq t.file[s.request[b]]
    BY <1>1, <2>1, <2>4
  <2> QED BY <1>2, <2>2, <2>3, <2>4 DEF Forward
<1> QED BY <1>1, <1>2 DEF Forward

(* Two fine steps in a row make a fine step.                               *)
LEMMA FineTransitive ==
    ASSUME NEW e, NEW s, NEW t, NEW u, Core(s), Fine(s, t, e), Fine(t, u, e)
    PROVE  Fine(s, u, e)
<1>1. Good(s, u)
  BY GoodTransitive DEF Fine
<1>2. Quiet(s, u, e)
  BY DEF Fine, Quiet, NoneSilenced
<1>3. Exact => Forward(s, u)
  BY ForwardTransitive DEF Fine
<1> QED BY <1>1, <1>2, <1>3 DEF Fine

(* Leaving the client alone is fine.                                       *)
LEMMA FineReflexive ==
    ASSUME NEW e, NEW s, Core(s), Firm(s, e, {})
    PROVE  Fine(s, s, e)
<1>1. Good(s, s)
  BY GoodReflexive
<1>2. Quiet(s, s, e) /\ Forward(s, s)
  BY TorrentAssumption DEF Quiet, NoneSilenced, Forward, Core, NodeType
<1> QED BY <1>1, <1>2 DEF Fine

(* A step that leaves requests and stored data alone is fine when what it  *)
(* sends is honest.                                                        *)
LEMMA FineFrame ==
    ASSUME NEW e, NEW s, NEW t, Core(s), Firm(s, e, {}), Good(s, t),
           t.have = s.have, t.request = s.request, t.offset = s.offset,
           t.retry = s.retry, t.own = s.own, t.file = s.file, t.beat = s.beat,
           NoneSilenced(s, t), \A m \in t.out : Honest(m, s.own, e.world)
    PROVE  Fine(s, t, e)
<1>1. Quiet(s, t, e)
  BY DEF Quiet
<1>2. Forward(s, t)
  BY TorrentAssumption DEF Forward, Core, NodeType
<1>3. LastMissing(s) => LastMissing(t)
  BY DEF LastMissing
<1>4. Firm(t, e, {})
  BY DEF Firm, NoDuplicateRequestIn, EndGame, ServableDuring, FilesIn,
         OffsetsWithinIn, PrefixWrittenIn, KeptAliveBut
<1> QED BY <1>1, <1>2, <1>3, <1>4 DEF Fine

(* Sending an honest message is fine.                                      *)
LEMMA SendFine ==
    ASSUME NEW e, NEW s, Core(s), Firm(s, e, {}),
           NEW m, Honest(m, s.own, e.world)
    PROVE  Fine(s, Send(s, m), e)
<1> DEFINE t == Send(s, m)
<1>1. Good(s, t)
  BY SendGood DEF Honest
<1>2. /\ t.pool = s.pool /\ t.have = s.have /\ t.request = s.request
      /\ t.offset = s.offset /\ t.retry = s.retry /\ t.alive = s.alive
      /\ t.own = s.own /\ t.file = s.file /\ t.beat = s.beat
      /\ t.out = s.out \cup {m}
  BY DEF Send, Core, NodeType
<1> HIDE DEF t
<1>3. NoneSilenced(s, t)
  BY <1>2 DEF NoneSilenced, Connected
<1>4. \A k \in t.out : Honest(k, s.own, e.world)
  BY <1>2 DEF Firm
<1> QED BY <1>1, <1>2, <1>3, <1>4, FineFrame DEF t

(* Sending a CLOSE or a HAVE is fine: it tells what the client has.        *)
LEMMA SendPlainFine ==
    ASSUME NEW e, NEW s, Core(s), Firm(s, e, {}), NEW to \in Addr \cup {Multicast}
    PROVE  Fine(s, SendClose(s, to), e) /\ Fine(s, SendHave(s, to), e)
<1>1. ASSUME NEW type \in {"CLOSE", "HAVE"}
      PROVE  Honest(Plain(type, to, s), s.own, e.world)
  <2>1. Plain(type, to, s) \in Message
    BY PlainIsMessage DEF Core
  <2>2. /\ Plain(type, to, s).have = s.own /\ Plain(type, to, s).type = type
        /\ Plain(type, to, s).piece = NoPiece
    BY DEF Plain
  <2> QED BY <2>1, <2>2 DEF Honest
<1> QED BY <1>1, SendFine DEF SendClose, SendHave

-----------------------------------------------------------------------------
(* Requests, second layer. *)

(* The end game does not end.                                              *)
LEMMA EndGameStays ==
    ASSUME NEW s, NEW t, s.own \subseteq t.own, t.own \in SUBSET Piece, EndGame(s)
    PROVE  EndGame(t)
<1>1. IsFiniteSet(Piece)
  BY TorrentAssumption, FS_Interval
<1>2. IsFiniteSet(t.own)
  BY <1>1, FS_Subset
<1>3. Cardinality(s.own) <= Cardinality(t.own) /\ IsFiniteSet(s.own)
  BY <1>2, FS_Subset
<1>4. Cardinality(s.own) \in Nat /\ Cardinality(t.own) \in Nat
  BY <1>2, <1>3, FS_CardinalityType
<1>5. EndGamePercent * NumPieces \in Nat
  BY TorrentAssumption, LimitAssumption
<1> QED BY <1>3, <1>4, <1>5 DEF EndGame

(* A running retry is more than is asked of any set of connections.        *)
LEMMA FirmWeaker ==
    ASSUME NEW e, NEW s, NEW D, Firm(s, e, {})
    PROVE  Firm(s, e, D)
BY DEF Firm, KeptAliveBut

(* What retry_start leaves behind.                                         *)
LEMMA RetryStarted ==
    ASSUME NEW r
    PROVE  LET q == RetryStart(r, MaxRetries)
           IN q.bound /\ q.num = 1 /\ q.max = MaxRetries /\ q.armed
<1>1. MaxRetries \in Nat \ {0}
  BY LimitAssumption
<1> QED BY <1>1 DEF RetryStart, RetryNext, WillTryAgain

(* What request_start changes.                                             *)
LEMMA RequestStartEffect ==
    ASSUME NEW s \in NodeType, NEW a \in Addr, NEW i \in Piece, NEW start \in Cell
    PROVE  LET t == RequestStart(s, a, i, start)
           IN /\ t.pool = s.pool /\ t.have = s.have /\ t.alive = s.alive
              /\ t.own = s.own /\ t.file = s.file /\ t.beat = s.beat
              /\ t.request = [s.request EXCEPT ![a] = i]
              /\ t.offset = [s.offset EXCEPT ![a] = start]
              /\ t.retry = [s.retry EXCEPT ![a] = RetryStart(s.retry[a], MaxRetries)]
              /\ t.out = s.out \cup
                    {[type |-> "REQUEST", to |-> a, have |-> s.own,
                      piece |-> i, start |-> start, len |-> 0]}
<1> DEFINE p == [s EXCEPT !.request[a] = i,
                          !.offset[a]  = start,
                          !.pending    = s.pending \cup {i},
                          !.retry[a]   = RetryStart(s.retry[a], MaxRetries)]
<1>1. /\ p.pool = s.pool /\ p.have = s.have /\ p.alive = s.alive
      /\ p.own = s.own /\ p.file = s.file /\ p.beat = s.beat /\ p.out = s.out
      /\ p.request = [s.request EXCEPT ![a] = i]
      /\ p.offset = [s.offset EXCEPT ![a] = start]
      /\ p.retry = [s.retry EXCEPT ![a] = RetryStart(s.retry[a], MaxRetries)]
      /\ p \in NodeType
  BY RetryTypes DEF NodeType
<1>2. p.request[a] = i /\ p.offset[a] = start
  BY <1>1 DEF NodeType
<1> HIDE DEF p
<1>3. RequestStart(s, a, i, start) =
          [p EXCEPT !.out = p.out \cup
              {[type |-> "REQUEST", to |-> a, have |-> s.own,
                piece |-> i, start |-> start, len |-> 0]}]
  BY <1>1, <1>2 DEF RequestStart, SendRequest, Send, p
<1> QED BY <1>1, <1>3 DEF NodeType

(* request_start is fine for a piece that the peer has and nobody else is  *)
(* asked for, unless in the end game, or for the piece already requested.  *)
LEMMA RequestStartFine ==
    ASSUME NEW e \in Setting, NEW s, Core(s), NEW a \in Addr, Firm(s, e, {a}),
           NEW i \in Piece, NEW start \in Cells(i), Connected(s, a), i \notin s.own,
           \/ s.request[a] = i
           \/ /\ s.request[a] = NoPiece
              /\ i \in s.have[a]
              /\ EndGame(s) \/ \A b \in Addr : s.request[b] # i,
           NoWrap => 0 .. start - 1 \subseteq s.file[i],
           Exact /\ s.request[a] = i => s.offset[a] <= start
    PROVE  Fine(s, RequestStart(s, a, i, start), e)
<1> DEFINE t == RequestStart(s, a, i, start)
           m == [type |-> "REQUEST", to |-> a, have |-> s.own,
                 piece |-> i, start |-> start, len |-> 0]
<1>1. s \in NodeType /\ NoPiece \notin Piece /\ start \in Cell
  BY PieceSizeRange, TorrentAssumption DEF Core, Cells
<1>2. Good(s, t)
  BY <1>1, RequestStartGood
<1>3. /\ t.pool = s.pool /\ t.have = s.have /\ t.alive = s.alive
      /\ t.own = s.own /\ t.file = s.file /\ t.beat = s.beat
      /\ t.request = [s.request EXCEPT ![a] = i]
      /\ t.offset = [s.offset EXCEPT ![a] = start]
      /\ t.retry = [s.retry EXCEPT ![a] = RetryStart(s.retry[a], MaxRetries)]
      /\ t.out = s.out \cup {m}
  BY <1>1, RequestStartEffect
<1>4. /\ s.request \in [Addr -> Piece \cup {NoPiece}]
      /\ s.offset \in [Addr -> Cell]
      /\ s.retry \in [Addr -> RetryRecord(MaxRetries)]
      /\ s.have \in [Addr -> SUBSET Piece] /\ s.own \in SUBSET Piece
  BY <1>1 DEF NodeType
<1> HIDE DEF t
<1>5. i \in s.have[a] \cup (IF a = e.from THEN e.claims ELSE {})
  BY <1>1 DEF Firm, ServableDuring
<1>6. NoDuplicateRequestIn(t)
  <2>1. EndGame(s) => EndGame(t)
    BY <1>3, <1>4, EndGameStays
  <2> QED BY <1>1, <1>3, <1>4, <2>1 DEF Firm, NoDuplicateRequestIn
<1>7. ServableDuring(t, e)
  BY <1>3, <1>4, <1>5 DEF Firm, ServableDuring
<1>8. FilesIn(t) /\ OffsetsWithinIn(t) /\ \A b \in Addr : t.have[b] \subseteq e.world[b]
  BY <1>3, <1>4 DEF Firm, FilesIn, OffsetsWithinIn
<1>9. NoWrap => PrefixWrittenIn(t)
  BY <1>3, <1>4 DEF Firm, PrefixWrittenIn
<1>10. ~FlakyStorage => KeptAliveBut(t, {})
  <2>1. MaxRetries \in Nat \ {0}
    BY LimitAssumption
  <2> QED BY <1>3, <1>4, <2>1, RetryStarted DEF Firm, KeptAliveBut
<1>11. Honest(m, s.own, e.world)
  <2>1. start \in Nat
    BY <1>1, TorrentAssumption
  <2>2. m \in Message
    BY <1>4, <2>1 DEF Message, MsgType
  <2>3. i \in e.world[a]
    BY <1>5 DEF Firm, Setting
  <2> QED BY <2>2, <2>3 DEF Honest
<1>12. Firm(t, e, {})
  BY <1>3, <1>6, <1>7, <1>8, <1>9, <1>10, <1>11 DEF Firm
<1>13. Quiet(s, t, e)
  BY <1>3 DEF Quiet, NoneSilenced, Connected
<1>14. Exact => Forward(s, t)
  BY <1>1, <1>3, <1>4, TorrentAssumption DEF Forward
<1>15. LastMissing(s) => LastMissing(t)
  BY <1>3 DEF LastMissing
<1> QED BY <1>2, <1>12, <1>13, <1>14, <1>15 DEF Fine, t

(* request_next is fine on an open connection.                             *)
LEMMA RequestNextFine ==
    ASSUME NEW e \in Setting, NEW s, Core(s), Firm(s, e, {}), NEW a \in Addr,
           Connected(s, a), NEW t \in RequestNext(s, a)
    PROVE  Fine(s, t, e)
<1>1. CASE t = s
  BY <1>1, FineReflexive
<1>2. CASE t # s
  <2>1. /\ s.request[a] = NoPiece
        /\ \E i \in SelectNext(s, a) : t = RequestStart(s, a, i, 0)
    BY <1>2 DEF RequestNext
  <2>2. PICK i \in SelectNext(s, a) : t = RequestStart(s, a, i, 0)
    BY <2>1
  <2>3. /\ i \in s.have[a] /\ i \notin s.own
        /\ EndGame(s) \/ i \notin s.pending
    BY <2>2 DEF SelectNext, Wanted, Interesting, InterestingEndGame
  <2>4. i \in Piece /\ 0 \in Cells(i) /\ NoPiece \notin Piece
    BY <2>3, PieceSizeRange, TorrentAssumption DEF Core, NodeType, Cells
  <2>5. EndGame(s) \/ \A b \in Addr : s.request[b] # i
    BY <2>3, <2>4 DEF Core, RequestsPendingIn
  <2>6. Firm(s, e, {a})
    BY FirmWeaker
  <2>7. 0 .. 0 - 1 \subseteq s.file[i]
    OBVIOUS
  <2> HIDE DEF Piece, Cell
  <2> QED BY <2>1, <2>2, <2>3, <2>4, <2>5, <2>6, <2>7, RequestStartFine
<1> QED BY <1>1, <1>2

(* What request_stop changes besides pending_pieces.                       *)
LEMMA RequestStopFields ==
    ASSUME NEW s \in NodeType, NEW a \in Addr
    PROVE  LET t == RequestStop(s, a)
           IN /\ t.pool = s.pool /\ t.have = s.have /\ t.alive = s.alive
              /\ t.own = s.own /\ t.file = s.file /\ t.beat = s.beat
              /\ t.out = s.out
              /\ t.request = [s.request EXCEPT ![a] = NoPiece]
              /\ t.offset = [s.offset EXCEPT ![a] = 0]
              /\ t.retry = [s.retry EXCEPT ![a] = RetryStop(s.retry[a])]
<1> DEFINE p == StopPartial(s, a)
           t == RequestStop(s, a)
<1>1. /\ p.pool = s.pool /\ p.have = s.have /\ p.alive = s.alive
      /\ p.own = s.own /\ p.file = s.file /\ p.beat = s.beat /\ p.out = s.out
      /\ p.request = [s.request EXCEPT ![a] = NoPiece]
      /\ p.offset = [s.offset EXCEPT ![a] = 0]
      /\ p.retry = [s.retry EXCEPT ![a] = RetryStop(s.retry[a])]
      /\ p \in NodeType
  <2>1. 0 \in Cell
    BY TorrentAssumption
  <2> QED BY <2>1, RetryTypes DEF StopPartial, NodeType
<1> HIDE DEF p
<1>2. t = [p EXCEPT !.pending =
               IF s.request[a] = NoPiece \/ \E b \in Addr : p.request[b] = s.request[a]
               THEN s.pending ELSE s.pending \ {s.request[a]}]
  BY DEF RequestStop, p
<1> HIDE DEF t
<1>3. /\ t.pool = p.pool /\ t.have = p.have /\ t.alive = p.alive
      /\ t.own = p.own /\ t.file = p.file /\ t.beat = p.beat /\ t.out = p.out
      /\ t.request = p.request /\ t.offset = p.offset /\ t.retry = p.retry
  BY <1>1, <1>2 DEF NodeType
<1> QED BY <1>1, <1>3 DEF t

(* Stopping a request leaves every other request as it was.                *)
LEMMA RequestStopFirm ==
    ASSUME NEW e \in Setting, NEW s, Core(s), NEW a \in Addr, Firm(s, e, {a})
    PROVE  LET t == RequestStop(s, a)
           IN /\ Firm(t, e, {}) /\ Quiet(s, t, e)
              /\ t.own = s.own /\ t.file = s.file /\ t.request[a] = NoPiece
              /\ t.pool = s.pool
              /\ \A b \in Addr \ {a} :
                    t.request[b] = s.request[b] /\ t.offset[b] = s.offset[b]
<1> DEFINE t == RequestStop(s, a)
<1>1. s \in NodeType
  BY DEF Core
<1>2. /\ t.pool = s.pool /\ t.have = s.have /\ t.alive = s.alive
      /\ t.own = s.own /\ t.file = s.file /\ t.beat = s.beat
      /\ t.out = s.out
      /\ t.request = [s.request EXCEPT ![a] = NoPiece]
      /\ t.offset = [s.offset EXCEPT ![a] = 0]
      /\ t.retry = [s.retry EXCEPT ![a] = RetryStop(s.retry[a])]
  BY <1>1, RequestStopFields
<1>3. /\ s.request \in [Addr -> Piece \cup {NoPiece}]
      /\ s.offset \in [Addr -> Cell]
      /\ s.retry \in [Addr -> RetryRecord(MaxRetries)]
  BY <1>1 DEF NodeType
<1> HIDE DEF t
<1>4. NoDuplicateRequestIn(t)
  BY <1>2, <1>3 DEF Firm, NoDuplicateRequestIn, EndGame
<1>5. /\ ServableDuring(t, e) /\ FilesIn(t) /\ OffsetsWithinIn(t)
      /\ \A b \in Addr : t.have[b] \subseteq e.world[b]
  BY <1>2, <1>3 DEF Firm, ServableDuring, FilesIn, OffsetsWithinIn
<1>6. NoWrap => PrefixWrittenIn(t)
  BY <1>2, <1>3 DEF Firm, PrefixWrittenIn
<1>7. ~FlakyStorage => KeptAliveBut(t, {})
  BY <1>2, <1>3 DEF Firm, KeptAliveBut
<1>8. \A m \in t.out : Honest(m, t.own, e.world)
  BY <1>2 DEF Firm
<1>9. Quiet(s, t, e)
  BY <1>2 DEF Quiet, NoneSilenced, Connected
<1> QED BY <1>2, <1>3, <1>4, <1>5, <1>6, <1>7, <1>8, <1>9 DEF Firm, t

Completed(s, i) == RequestStopAll(SetComplete(s, i, TRUE), i)

(* Completing a piece ends the requests for it, on all connections.        *)
LEMMA CompleteFirm ==
    ASSUME NEW e \in Setting, NEW s, Core(s), Firm(s, e, {}),
           NEW i \in Piece, i \in e.gains
    PROVE  /\ Firm(Completed(s, i), e, {}) /\ Quiet(s, Completed(s, i), e)
           /\ Completed(s, i).own = s.own \cup {i}
           /\ Completed(s, i).file = s.file
           /\ \A b \in Addr : s.request[b] # i =>
                 /\ Completed(s, i).request[b] = s.request[b]
                 /\ Completed(s, i).offset[b] = s.offset[b]
<1> DEFINE t == Completed(s, i)
           c == SetComplete(s, i, TRUE)
<1>1. /\ c \in NodeType /\ c.own = s.own \cup {i}
      /\ c.pool = s.pool /\ c.have = s.have /\ c.alive = s.alive
      /\ c.file = s.file /\ c.beat = s.beat /\ c.out = s.out
      /\ c.request = s.request /\ c.offset = s.offset /\ c.retry = s.retry
  BY DEF SetComplete, Core, NodeType
<1>2. /\ t.pool = c.pool /\ t.have = c.have /\ t.alive = c.alive
      /\ t.own = c.own /\ t.file = c.file /\ t.beat = c.beat /\ t.out = c.out
      /\ t.request = [a \in Addr |-> IF c.request[a] = i THEN NoPiece
                                     ELSE c.request[a]]
      /\ t.offset = [a \in Addr |-> IF c.request[a] = i THEN 0 ELSE c.offset[a]]
      /\ t.retry = [a \in Addr |-> IF c.request[a] = i THEN RetryStop(c.retry[a])
                                   ELSE c.retry[a]]
  BY <1>1 DEF Completed, RequestStopAll, NodeType
<1> HIDE DEF c, t
<1>3. /\ s.request \in [Addr -> Piece \cup {NoPiece}] /\ NoPiece \notin Piece
      /\ s.retry \in [Addr -> RetryRecord(MaxRetries)] /\ s.own \in SUBSET Piece
  BY TorrentAssumption DEF Core, NodeType
<1>4. NoDuplicateRequestIn(t)
  <2>1. EndGame(s) => EndGame(t)
    BY <1>1, <1>2, <1>3, EndGameStays
  <2> QED BY <1>1, <1>2, <1>3, <2>1 DEF Firm, NoDuplicateRequestIn
<1>5. /\ ServableDuring(t, e) /\ FilesIn(t) /\ OffsetsWithinIn(t)
      /\ \A b \in Addr : t.have[b] \subseteq e.world[b]
  BY <1>1, <1>2, <1>3 DEF Firm, ServableDuring, FilesIn, OffsetsWithinIn
<1>6. NoWrap => PrefixWrittenIn(t)
  BY <1>1, <1>2, <1>3 DEF Firm, PrefixWrittenIn
<1>7. ~FlakyStorage => KeptAliveBut(t, {})
  BY <1>1, <1>2, <1>3 DEF Firm, KeptAliveBut
<1>8. \A m \in t.out : Honest(m, t.own, e.world)
  BY <1>1, <1>2 DEF Firm, Honest
<1>9. Quiet(s, t, e)
  BY <1>1, <1>2 DEF Quiet, NoneSilenced, Connected
<1>10. Firm(t, e, {})
  BY <1>4, <1>5, <1>6, <1>7, <1>8 DEF Firm
<1>11. /\ t.own = s.own \cup {i} /\ t.file = s.file
       /\ \A b \in Addr : s.request[b] # i =>
             t.request[b] = s.request[b] /\ t.offset[b] = s.offset[b]
  BY <1>1, <1>2
<1> QED BY <1>9, <1>10, <1>11 DEF t

(* post_seeding is fine.                                                   *)
LEMMA PostSeedingFine ==
    ASSUME NEW e, NEW s, Core(s), Firm(s, e, {}), NEW t \in PostSeeding(s)
    PROVE  Fine(s, t, e)
<1> DEFINE u == [s EXCEPT !.seeded = TRUE]
<1>1. CASE t = s
  BY <1>1, FineReflexive
<1>2. CASE t # s
  <2>1. t = u
    BY <1>2 DEF PostSeeding
  <2>2. /\ t.pool = s.pool /\ t.have = s.have /\ t.request = s.request
        /\ t.offset = s.offset /\ t.retry = s.retry /\ t.alive = s.alive
        /\ t.own = s.own /\ t.file = s.file /\ t.beat = s.beat /\ t.out = s.out
    BY <2>1 DEF Core, NodeType
  <2>3. Good(s, t)
    BY PostSeedingGood
  <2>4. NoneSilenced(s, t)
    BY <2>2 DEF NoneSilenced, Connected
  <2>5. \A m \in t.out : Honest(m, s.own, e.world)
    BY <2>2 DEF Firm
  <2> QED BY <2>2, <2>3, <2>4, <2>5, FineFrame
<1> QED BY <1>1, <1>2

-----------------------------------------------------------------------------
(* Receiving data, second layer. *)

(* Offsets within a piece survive the narrowing when pieces are small.     *)
LEMMA NarrowExact ==
    ASSUME NoWrap, NEW start \in Cell
    PROVE  Narrow(start) = start
<1>1. start \in Nat /\ start < OffsetRange /\ OffsetRange \in Nat \ {0}
  BY TorrentAssumption, LimitAssumption DEF NoWrap
<1> HIDE DEF Cell
<1> QED BY <1>1 DEF Narrow

(* An offset before a cell of a piece is a cell too.                       *)
LEMMA CellBelow ==
    ASSUME NEW cell \in Cell, NEW start \in Nat, start <= cell
    PROVE  start \in Cell
<1>1. PieceLength \in Nat
  BY TorrentAssumption
<1> QED BY <1>1

(* What piece_read and piece_write do to a buffer that starts within the   *)
(* piece: all of it or up to the end of the piece, if storage is sound.    *)
LEMMA TransferredExact ==
    ASSUME NEW i \in Piece, NEW start \in Nat, NEW len \in Nat,
           NEW n \in Transferred(i, start, len),
           len >= 1, Narrow(start) < PieceSize(i)
    PROVE  /\ n \in Nat
           /\ n <= len /\ Narrow(start) + n <= PieceSize(i)
           /\ ~FlakyStorage => n >= 1 /\ (n = len \/ Narrow(start) + n = PieceSize(i))
<1>1. PieceSize(i) \in Nat /\ Narrow(start) \in Nat
  BY PieceSizeRange, LimitAssumption, TorrentAssumption DEF Narrow
<1> QED BY <1>1 DEF Transferred, MinOf

(* Writing data touches nothing but the file.                              *)
LEMMA WriteCellsFirm ==
    ASSUME NEW e \in Setting, NEW s, Core(s), NEW b \in Addr, Firm(s, e, {b}),
           NEW i \in Piece, NEW start \in Nat, NEW n \in Nat,
           Narrow(start) + n <= PieceSize(i)
    PROVE  /\ Firm(WriteCells(s, i, start, n), e, {b})
           /\ Quiet(s, WriteCells(s, i, start, n), e)
<1> DEFINE t == WriteCells(s, i, start, n)
           w == Narrow(start) .. Narrow(start) + n - 1
<1>1. s.file \in [Piece -> SUBSET Cell]
  BY DEF Core, NodeType
<1>2. w \subseteq Cells(i)
  <2>1. PieceSize(i) \in Nat /\ Narrow(start) \in Nat
    BY PieceSizeRange, LimitAssumption, TorrentAssumption DEF Narrow
  <2> QED BY <2>1 DEF Cells
<1> HIDE DEF w
<1>3. t = [s EXCEPT !.file[i] = s.file[i] \cup w]
  BY DEF WriteCells, w
<1> HIDE DEF t
<1>4. /\ t.pool = s.pool /\ t.have = s.have /\ t.request = s.request
      /\ t.offset = s.offset /\ t.retry = s.retry /\ t.alive = s.alive
      /\ t.own = s.own /\ t.beat = s.beat /\ t.out = s.out
      /\ t.file = [s.file EXCEPT ![i] = s.file[i] \cup w]
  BY <1>3 DEF Core, NodeType
<1>5. \A j \in Piece : s.file[j] \subseteq t.file[j]
  BY <1>1, <1>4
<1>6. FilesIn(t)
  BY <1>1, <1>2, <1>4 DEF Firm, FilesIn
<1>7. NoWrap => PrefixWrittenIn(t)
  <2> SUFFICES ASSUME NoWrap, NEW a \in Addr, s.request[a] # NoPiece
               PROVE  0 .. s.offset[a] - 1 \subseteq t.file[s.request[a]]
    BY <1>4 DEF PrefixWrittenIn
  <2>1. s.request[a] \in Piece
    BY DEF Core, NodeType
  <2> QED BY <1>5, <2>1 DEF Firm, PrefixWrittenIn
<1>8. /\ NoDuplicateRequestIn(t) /\ ServableDuring(t, e) /\ OffsetsWithinIn(t)
      /\ ~FlakyStorage => KeptAliveBut(t, {b})
  BY <1>4 DEF Firm, NoDuplicateRequestIn, EndGame, ServableDuring, OffsetsWithinIn,
              KeptAliveBut
<1>9. /\ \A a \in Addr : t.have[a] \subseteq e.world[a]
      /\ \A m \in t.out : Honest(m, t.own, e.world)
  BY <1>4 DEF Firm
<1>10. Quiet(s, t, e)
  BY <1>4 DEF Quiet, NoneSilenced, Connected
<1>11. Firm(t, e, {b})
  BY <1>6, <1>7, <1>8, <1>9 DEF Firm
<1> QED BY <1>4, <1>10, <1>11 DEF t, w

(* receive_data, after `next' bytes of the piece arrived: the request goes *)
(* on behind them, or the piece is complete.                               *)
LEMMA ReceiveDataFine ==
    ASSUME NEW e \in Setting, NEW s, Core(s), NEW b \in Addr, Firm(s, e, {b}),
           NEW i \in Piece, i \in e.gains, s.request[b] = i, NEW next \in Nat,
           NoWrap => 0 .. next - 1 \subseteq s.file[i],
           Exact /\ next < PieceSize(i) => s.offset[b] <= next,
           NEW t \in ReceiveData(s, b, i, next)
    PROVE  /\ Good(s, t) /\ Firm(t, e, {}) /\ Quiet(s, t, e)
           /\ Exact => Forward(s, t)
           /\ (/\ Sure
               /\ \A j \in Piece \ s.own : j # i => PieceSize(j) - 1 \notin s.file[j]
               /\ next < PieceSize(i) => PieceSize(i) - 1 \notin s.file[i])
              => LastMissing(t)
<1>1. Connected(s, b) /\ i \notin s.own
  BY TorrentAssumption DEF Core, RequestsUnheldIn
<1>2. Good(s, t)
  BY ReceiveDataGood
<1>3. CASE next < PieceSize(i)
  <2>1. next \in Cells(i)
    BY <1>3, PieceSizeRange, TorrentAssumption DEF Cells
  <2>2. t = RequestStart(s, b, i, next)
    BY <1>3 DEF ReceiveData
  <2> HIDE DEF Piece, Cell
  <2>3. Fine(s, t, e)
    BY <1>1, <1>3, <2>1, <2>2, RequestStartFine
  <2> QED BY <1>3, <2>3 DEF Fine, LastMissing
<1>4. CASE ~(next < PieceSize(i))
  <2> DEFINE u == RequestStop(s, b)
             c == Completed(u, i)
  <2>1. Good(s, u)
    BY RequestStopGood
  <2>2. /\ Firm(u, e, {}) /\ Quiet(s, u, e)
        /\ u.own = s.own /\ u.file = s.file
        /\ \A a \in Addr \ {b} :
              u.request[a] = s.request[a] /\ u.offset[a] = s.offset[a]
    BY RequestStopFirm
  <2> HIDE DEF u
  <2>3. PICK v \in Verdicts(s, i) : t \in FinishPiece(u, i, v)
    BY <1>4 DEF ReceiveData, u
  <2>4. NoWrap => s.file[i] = Cells(i)
    <3> SUFFICES ASSUME NoWrap PROVE s.file[i] = Cells(i)
      OBVIOUS
    <3>1. PieceSize(i) \in Nat
      BY PieceSizeRange, TorrentAssumption
    <3>2. 0 .. PieceSize(i) - 1 \subseteq 0 .. next - 1
      BY <1>4, <3>1
    <3> QED BY <3>2 DEF Cells, Firm, FilesIn
  <2>5. CASE v = TRUE
    <3>1. u.file[i] = Cells(i)
      BY <2>2, <2>3, <2>5 DEF Verdicts
    <3>2. Good(u, c)
      BY <2>1, <3>1, CompleteGood DEF Good, Completed
    <3>3. /\ Firm(c, e, {}) /\ Quiet(u, c, e)
          /\ c.own = u.own \cup {i} /\ c.file = u.file
          /\ \A a \in Addr : u.request[a] # i =>
                c.request[a] = u.request[a] /\ c.offset[a] = u.offset[a]
      <4>1. Core(u)
        BY <2>1 DEF Good
      <4> HIDE DEF Piece, Cell
      <4> QED BY <2>2, <4>1, CompleteFirm
    <3> HIDE DEF c
    <3>4. Fine(c, t, e)
      BY <2>3, <2>5, <3>2, <3>3, PostSeedingFine DEF FinishPiece, Good, Completed, c
    <3>5. Quiet(s, t, e)
      BY <2>2, <3>3, <3>4 DEF Fine, Quiet, NoneSilenced
    <3>6. s.own \cup {i} \subseteq t.own
      BY <2>2, <3>3, <3>4 DEF Fine, Good, KeepsVerified
    <3>7. Exact => Forward(s, t)
      <4> SUFFICES ASSUME Exact, NEW a \in Addr, s.request[a] # NoPiece,
                          s.request[a] # i
                   PROVE  \/ s.request[a] \in t.own
                          \/ t.request[a] = s.request[a] /\ s.offset[a] <= t.offset[a]
                          \/ Cells(s.request[a]) \subseteq t.file[s.request[a]]
        BY <2>2, <3>3, <3>4, <3>6 DEF Forward, Fine
      <4>1. c.request[a] = s.request[a] /\ c.offset[a] = s.offset[a]
        BY <2>2, <3>3
      <4>2. Forward(c, t)
        BY <3>4 DEF Fine
      <4> QED BY <4>1, <4>2 DEF Forward
    <3>8. (/\ Sure
           /\ \A j \in Piece \ s.own : j # i => PieceSize(j) - 1 \notin s.file[j])
          => LastMissing(t)
      BY <2>2, <3>3, <3>4 DEF Fine, LastMissing
    <3> QED BY <1>2, <3>4, <3>5, <3>7, <3>8 DEF Fine
  <2>6. CASE v = FALSE
    <3>1. t = SetComplete(u, i, FALSE)
      BY <2>3, <2>6 DEF FinishPiece
    <3>2. /\ t.own = u.own \ {i}
          /\ t.pool = u.pool /\ t.have = u.have /\ t.request = u.request
          /\ t.offset = u.offset /\ t.retry = u.retry /\ t.alive = u.alive
          /\ t.file = u.file /\ t.beat = u.beat /\ t.out = u.out
          /\ t.pending = u.pending /\ t.counts = u.counts /\ t \in NodeType
      BY <2>1, <3>1 DEF SetComplete, Good, Core, NodeType
    <3>3. t.own = u.own
      BY <1>1, <2>2, <3>2
    <3>4. Good(u, t)
      BY <2>1, <3>2, <3>3, CoreFrame DEF Good
    <3>5. NoneSilenced(u, t) /\ \A m \in t.out : Honest(m, u.own, e.world)
      BY <2>2, <3>2, <3>3 DEF Firm, NoneSilenced, Connected
    <3>6. Fine(u, t, e)
      BY <2>1, <2>2, <3>2, <3>3, <3>4, <3>5, FineFrame DEF Good
    <3>7. Quiet(s, t, e)
      BY <2>2, <3>6 DEF Fine, Quiet, NoneSilenced
    <3>8. Exact => Forward(s, t)
      <4>1. \A a \in Addr : s.offset[a] \in Int
        BY TorrentAssumption DEF Core, NodeType
      <4>2. t.file = s.file /\ \A a \in Addr \ {b} :
                t.request[a] = s.request[a] /\ t.offset[a] = s.offset[a]
        BY <2>2, <3>2
      <4> QED BY <2>4, <4>1, <4>2 DEF Exact, Forward
    <3>9. ~Sure
      BY <2>2, <2>3, <2>4, <2>6 DEF Sure, Exact, Verdicts
    <3> QED BY <1>2, <3>6, <3>7, <3>8, <3>9 DEF Fine
  <2> QED BY <2>3, <2>5, <2>6 DEF Verdicts
<1> QED BY <1>3, <1>4

(* The data of a reply in range is stored where the request stands.        *)
LEMMA StoreDataFine ==
    ASSUME NEW e \in Setting, NEW s, Core(s), NEW b \in Addr, Firm(s, e, {b}),
           NEW m, IsReply(m), m.piece \in e.gains, s.request[b] = m.piece,
           InRange(s, b, m), NEW t \in StoreData(s, b, m)
    PROVE  Fine(s, t, e)
<1> DEFINE i == m.piece
<1>1. /\ i \in Piece /\ m.start \in Nat /\ m.len \in Nat /\ m.len >= 1
      /\ Narrow(m.start) < PieceSize(i)
      /\ s.offset[b] \in Cell
      /\ m.start <= s.offset[b] /\ s.offset[b] < m.start + m.len
  BY ReplyFacts DEF IsData, InRange, Core, NodeType
<1>2. PICK n \in Transferred(i, m.start, m.len) :
          t \in IF n = 0 THEN {s}
               ELSE ReceiveData(WriteCells(s, i, m.start, n), b, i, m.start + n)
  BY DEF StoreData
<1>3. /\ n \in Nat
      /\ n <= m.len /\ Narrow(m.start) + n <= PieceSize(i)
      /\ ~FlakyStorage =>
            n >= 1 /\ (n = m.len \/ Narrow(m.start) + n = PieceSize(i))
  BY <1>1, <1>2, TransferredExact
<1>4. IsData(m)
  BY DEF IsReply
<1>5. Good(s, t)
  BY <1>4, StoreDataGood
<1>6. NoWrap => m.start \in Cell /\ Narrow(m.start) = m.start
  <2>1. m.start \in Cell
    BY <1>1, CellBelow
  <2> QED BY <2>1, NarrowExact
<1> HIDE DEF i
<1>7. CASE n = 0
  <2>1. t = s /\ FlakyStorage
    BY <1>2, <1>3, <1>7, LimitAssumption
  <2>2. Firm(s, e, {})
    BY <2>1 DEF Firm
  <2> QED BY <2>1, <2>2, FineReflexive
<1>8. CASE n # 0
  <2> DEFINE w == WriteCells(s, i, m.start, n)
             next == m.start + n
             new == Narrow(m.start) .. Narrow(m.start) + n - 1
  <2>1. i \notin s.own /\ s.request[b] = i
    BY <1>1, TorrentAssumption DEF Core, RequestsUnheldIn, i
  <2>2. /\ Firm(w, e, {b}) /\ Quiet(s, w, e)
        /\ w.file = [s.file EXCEPT ![i] = s.file[i] \cup new]
        /\ w.own = s.own /\ w.request = s.request /\ w.offset = s.offset
    <3>1. Firm(w, e, {b}) /\ Quiet(s, w, e)
      BY <1>1, <1>3, WriteCellsFirm
    <3>2. /\ w.file = [s.file EXCEPT ![i] = s.file[i] \cup new]
          /\ w.own = s.own /\ w.request = s.request /\ w.offset = s.offset
      BY DEF WriteCells, Core, NodeType
    <3> QED BY <3>1, <3>2
  <2>3. Core(w)
    BY <1>1, <1>2, <2>1, WriteCellsGood DEF Good
  <2>4. s.file \in [Piece -> SUBSET Cell] /\ next \in Nat
    BY <1>1, <1>3 DEF Core, NodeType
  <2>5. t \in ReceiveData(w, b, i, next)
    BY <1>2, <1>8
  <2> HIDE DEF w
  <2>6. NoWrap => 0 .. next - 1 \subseteq w.file[i]
    <3> SUFFICES ASSUME NoWrap PROVE 0 .. next - 1 \subseteq w.file[i]
      OBVIOUS
    <3>1. 0 .. s.offset[b] - 1 \subseteq s.file[i]
      BY <1>1, <2>1, TorrentAssumption DEF Firm, PrefixWrittenIn
    <3>2. new = m.start .. next - 1
      BY <1>1, <1>3, <1>6
    <3>3. w.file[i] = s.file[i] \cup new
      BY <1>1, <2>2, <2>4
    <3>4. 0 .. next - 1 \subseteq (0 .. s.offset[b] - 1) \cup (m.start .. next - 1)
      BY <1>1, <1>3
    <3> HIDE DEF new, next
    <3> QED BY <3>1, <3>2, <3>3, <3>4
  <2>7. Exact /\ next < PieceSize(i) => w.offset[b] <= next
    BY <1>1, <1>3, <1>6, <2>2 DEF Exact
  <2>8. /\ Firm(t, e, {}) /\ Quiet(w, t, e)
        /\ Exact => Forward(w, t)
        /\ (/\ Sure
            /\ \A j \in Piece \ w.own : j # i => PieceSize(j) - 1 \notin w.file[j]
            /\ next < PieceSize(i) => PieceSize(i) - 1 \notin w.file[i])
           => LastMissing(t)
    <3>1. i \in e.gains
      BY DEF i
    <3> HIDE DEF next, Piece, Cell
    <3> QED BY <1>1, <2>1, <2>2, <2>3, <2>4, <2>5, <2>6, <2>7, <3>1, ReceiveDataFine
  <2>9. Quiet(s, t, e)
    BY <2>2, <2>8 DEF Quiet, NoneSilenced
  <2>10. Exact => Forward(s, t)
    <3>1. \A j \in Piece : s.file[j] \subseteq w.file[j]
      BY <1>1, <2>2, <2>4
    <3> QED BY <2>2, <2>8, <3>1 DEF Forward
  <2>11. Sure /\ LastMissing(s) => LastMissing(t)
    <3> SUFFICES ASSUME Sure, LastMissing(s) PROVE LastMissing(t)
      OBVIOUS
    <3>1. \A j \in Piece \ w.own : j # i => PieceSize(j) - 1 \notin w.file[j]
      BY <2>2, <2>4 DEF LastMissing
    <3>2. ASSUME next < PieceSize(i) PROVE PieceSize(i) - 1 \notin w.file[i]
      <4>1. PieceSize(i) - 1 \notin s.file[i]
        BY <1>1, <2>1 DEF LastMissing
      <4>2. w.file[i] = s.file[i] \cup new
        BY <1>1, <2>2, <2>4
      <4>3. PieceSize(i) \in Nat
        BY <1>1, PieceSizeRange, TorrentAssumption
      <4>4. PieceSize(i) - 1 \notin new
        BY <1>1, <1>3, <1>6, <3>2, <4>3 DEF Sure, Exact
      <4> HIDE DEF new
      <4> QED BY <4>1, <4>2, <4>4
    <3> QED BY <2>8, <3>1, <3>2
  <2> QED BY <1>5, <2>8, <2>9, <2>10, <2>11 DEF Fine
<1> QED BY <1>7, <1>8

(* data_receiver and what follows are fine for a pending piece.            *)
LEMMA ReceiveRequestedFine ==
    ASSUME NEW e \in Setting, NEW s, Core(s), Firm(s, e, {}), NEW a \in Addr,
           NEW m, IsReply(m), m.piece \in e.gains,
           NEW t \in ReceiveRequested(s, a, m)
    PROVE  Fine(s, t, e)
<1>1. CASE t = s
  BY <1>1, FineReflexive
<1>2. CASE t # s
  <2>1. PICK b \in FindRequest(s, a, m.piece) : t \in OfferData(s, b, m)
    BY <1>2 DEF ReceiveRequested
  <2>2. b \in Addr /\ s.request[b] = m.piece
    BY DEF FindRequest
  <2>3. t \in StoreData(s, b, m) /\ InRange(s, b, m)
    BY <1>2, <2>1 DEF OfferData
  <2> QED BY <2>2, <2>3, StoreDataFine, FirmWeaker
<1> QED BY <1>1, <1>2

(* connect_with is fine.                                                   *)
LEMMA ConnectFine ==
    ASSUME NEW e, NEW s, Core(s), Firm(s, e, {}), NEW a \in Addr,
           NEW p \in {"in", "out"}
    PROVE  Fine(s, ConnectWith(s, a, p), e)
<1> DEFINE t == ConnectWith(s, a, p)
<1>1. CASE Connected(s, a)
  BY <1>1, FineReflexive DEF ConnectWith
<1>2. CASE ~Connected(s, a)
  <2>1. /\ t.pool = [s.pool EXCEPT ![a] = p]
        /\ t.alive = [s.alive EXCEPT ![a] = TRUE]
        /\ t.have = s.have /\ t.request = s.request
        /\ t.offset = s.offset /\ t.retry = s.retry
        /\ t.own = s.own /\ t.file = s.file /\ t.beat = s.beat /\ t.out = s.out
    BY <1>2 DEF ConnectWith, Core, NodeType
  <2>2. Good(s, t)
    BY ConnectGood
  <2>3. /\ s.pool \in [Addr -> {"none", "in", "out"}]
        /\ s.alive \in [Addr -> BOOLEAN]
    BY DEF Core, NodeType
  <2> HIDE DEF t
  <2>4. NoneSilenced(s, t)
    BY <2>1, <2>3 DEF NoneSilenced, Connected
  <2>5. \A m \in t.out : Honest(m, s.own, e.world)
    BY <2>1 DEF Firm
  <2> QED BY <2>1, <2>2, <2>4, <2>5, FineFrame DEF t
<1> QED BY <1>1, <1>2

(* data_receiver and what follows are fine for an overheard piece that is  *)
(* missing and not requested.                                              *)
LEMMA ReceiveOverheardFine ==
    ASSUME NEW e \in Setting, NEW s, Core(s), Firm(s, e, {}),
           NEW m, IsReply(m), m.piece \in e.gains, m.piece \in e.claims,
           m.piece \notin s.own, m.piece \notin s.pending,
           NEW t \in ReceiveOverheard(s, e.from, m)
    PROVE  Fine(s, t, e)
<1> DEFINE a == e.from
           i == m.piece
<1>1. CASE t = s
  BY <1>1, FineReflexive
<1>2. CASE t # s
  <2> DEFINE c == ConnectWith(s, a, "out")
             r == [c EXCEPT !.request[a] = i,
                            !.offset[a]  = 0,
                            !.pending    = s.pending \cup {i}]
  <2>1. s.request[a] = NoPiece /\ m.start = 0 /\ t \in StoreData(r, a, m)
    BY <1>2 DEF ReceiveOverheard
  <2>2. a \in Addr /\ i \in Piece /\ 0 \in Cell /\ NoPiece \notin Piece
    BY TorrentAssumption DEF Setting, IsReply, IsData
  <2>3. /\ Good(s, c) /\ Connected(c, a) /\ c.request = s.request
        /\ c.pending = s.pending /\ c.own = s.own
    BY <2>2, ConnectGood
  <2>4. Fine(s, c, e)
    BY <2>2, ConnectFine
  <2> HIDE DEF c
  <2>5. /\ r \in NodeType
        /\ r.pool = c.pool /\ r.have = c.have /\ r.counts = c.counts
        /\ r.own = c.own /\ r.file = c.file /\ r.alive = c.alive
        /\ r.retry = c.retry /\ r.beat = c.beat /\ r.out = c.out
        /\ r.pending = c.pending \cup {i}
        /\ r.request = [c.request EXCEPT ![a] = i]
        /\ r.offset = [c.offset EXCEPT ![a] = 0]
    BY <2>2, <2>3 DEF Good, Core, NodeType
  <2>6. /\ c.request \in [Addr -> Piece \cup {NoPiece}]
        /\ c.offset \in [Addr -> Cell] /\ c.file \in [Piece -> SUBSET Cell]
    BY <2>3 DEF Good, Core, NodeType
  <2>7. Firm(c, e, {})
    BY <2>4 DEF Fine
  <2> HIDE DEF r, a, i
  <2>8. Core(r) /\ Good(c, r)
    <3>1. PendingKept(c, r)
      BY <2>1, <2>2, <2>3, <2>5, <2>6
         DEF Good, Core, PendingKept, RequestsPendingIn, PendingMatchesIn
    <3>2. RequestsUnheldIn(r)
      BY <2>2, <2>3, <2>5, <2>6 DEF Good, Core, RequestsUnheldIn, Connected, i
    <3>3. OwnVerifiedIn(r) /\ CountsMatchIn(r) /\ KeepsVerified(c, r)
      BY <2>3, <2>5 DEF Good, Core, OwnVerifiedIn, CountsMatchIn, KeepsVerified
    <3> QED BY <2>5, <3>1, <3>2, <3>3 DEF Good, Core, PendingKept
  <2>9. NoDuplicateRequestIn(r)
    <3>1. \A b \in Addr : c.request[b] # i
      BY <2>2, <2>3 DEF Core, RequestsPendingIn, i
    <3> QED BY <2>2, <2>5, <2>6, <2>7, <3>1 DEF Firm, NoDuplicateRequestIn, EndGame
  <2>10. ServableDuring(r, e)
    BY <2>2, <2>5, <2>6, <2>7 DEF Firm, ServableDuring, a, i
  <2>11. NoWrap => PrefixWrittenIn(r)
    <3> SUFFICES ASSUME NoWrap, NEW b \in Addr, r.request[b] # NoPiece
                 PROVE  0 .. r.offset[b] - 1 \subseteq r.file[r.request[b]]
      BY DEF PrefixWrittenIn
    <3>1. CASE b = a
      <4>1. r.offset[b] = 0
        BY <2>5, <2>6, <3>1
      <4> QED BY <4>1
    <3>2. CASE b # a
      BY <2>5, <2>6, <2>7, <3>2 DEF Firm, PrefixWrittenIn
    <3> QED BY <3>1, <3>2
  <2>12. ~FlakyStorage => KeptAliveBut(r, {a})
    BY <2>5, <2>6, <2>7 DEF Firm, KeptAliveBut
  <2>13. /\ FilesIn(r) /\ OffsetsWithinIn(r)
         /\ \A b \in Addr : r.have[b] \subseteq e.world[b]
         /\ \A k \in r.out : Honest(k, r.own, e.world)
    <3>1. 0 \in Cells(i)
      BY <2>2, PieceSizeRange, TorrentAssumption DEF Cells
    <3> QED BY <2>5, <2>6, <2>7, <3>1 DEF Firm, FilesIn, OffsetsWithinIn
  <2>14. Firm(r, e, {a})
    BY <2>9, <2>10, <2>11, <2>12, <2>13 DEF Firm
  <2>15. r.request[a] = m.piece /\ InRange(r, a, m)
    <3>1. r.request[a] = i /\ r.offset[a] = 0
      BY <2>2, <2>5, <2>6
    <3>2. m.len \in Nat /\ m.len >= 1
      BY ReplyFacts DEF IsData
    <3> QED BY <2>1, <3>1, <3>2 DEF InRange, i
  <2>16. Fine(r, t, e)
    BY <2>1, <2>2, <2>8, <2>14, <2>15, StoreDataFine
  <2>17. Quiet(c, r, e)
    BY <2>5 DEF Quiet, NoneSilenced, Connected
  <2>18. Forward(c, r)
    BY <2>1, <2>2, <2>3, <2>5, <2>6, TorrentAssumption DEF Forward
  <2>19. LastMissing(c) => LastMissing(r)
    BY <2>5 DEF LastMissing
  <2>20. Good(c, t) /\ Quiet(c, t, e) /\ (Sure /\ LastMissing(c) => LastMissing(t))
    BY <2>8, <2>16, <2>17, <2>19, GoodTransitive DEF Fine, Quiet, NoneSilenced
  <2>21. Exact => Forward(c, t)
    <3>1. \A b \in Addr : c.request[b] # NoPiece =>
              r.request[b] = c.request[b] /\ r.offset[b] = c.offset[b]
      BY <2>1, <2>2, <2>3, <2>5, <2>6
    <3> QED BY <2>5, <2>16, <3>1 DEF Fine, Forward
  <2>22. Fine(c, t, e)
    BY <2>16, <2>20, <2>21 DEF Fine
  <2> QED BY <2>4, <2>22, FineTransitive
<1> QED BY <1>1, <1>2

(* handle_data_reply is fine for a reply of the peer that is heard.        *)
LEMMA HandleReplyFine ==
    ASSUME NEW e \in Setting, NEW s, Core(s), Firm(s, e, {}),
           NEW m, IsReply(m), m.piece \in e.gains, m.piece \in e.claims,
           NEW t \in HandleReply(s, e.from, m)
    PROVE  Fine(s, t, e)
<1>1. e.from \in Addr
  BY DEF Setting
<1> QED
  BY <1>1, FineReflexive, ReceiveRequestedFine, ReceiveOverheardFine DEF HandleReply

(* handle_data_request is fine: what is sent is there and verified.        *)
LEMMA HandleRequestFine ==
    ASSUME NEW e \in Setting, NEW s, Core(s), Firm(s, e, {}), NEW a \in Addr,
           NEW m, IsData(m), m.start \in Cells(m.piece),
           NEW t \in HandleRequest(s, a, m)
    PROVE  Fine(s, t, e)
<1>1. CASE t = s
  BY <1>1, FineReflexive
<1>2. CASE t # s
  <2> DEFINE reply(n) ==
             [type |-> "REPLY", to |-> IF a \in LocalAddr THEN Multicast ELSE a,
              have |-> s.own, piece |-> m.piece, start |-> m.start, len |-> n]
  <2>1. m.piece \in s.own
    BY <1>2 DEF HandleRequest
  <2>2. PICK n \in Transferred(m.piece, m.start, MaxPayload) :
            n # 0 /\ t = Send(s, reply(n))
    BY <1>2, <2>1 DEF HandleRequest
  <2>3. /\ m.piece \in Piece /\ m.start \in Nat /\ MaxPayload \in Nat
        /\ s.own \in SUBSET Piece
    BY LimitAssumption DEF IsData, Core, NodeType
  <2>4. n \in Nat /\ n >= 1
    BY <2>2, <2>3, TransferredRange
  <2>5. /\ Narrow(m.start) \in Cells(m.piece)
        /\ n \in 1 .. MinOf(MaxPayload, PieceSize(m.piece) - Narrow(m.start))
    <3>1. PieceSize(m.piece) \in Nat /\ Narrow(m.start) \in Nat
      BY <2>3, PieceSizeRange, LimitAssumption, TorrentAssumption DEF Narrow
    <3>2. Narrow(m.start) < PieceSize(m.piece)
      BY <2>2, <3>1 DEF Transferred
    <3>3. n \in 0 .. MinOf(MaxPayload, PieceSize(m.piece) - Narrow(m.start))
      BY <2>2, <2>3, <3>1, <3>2 DEF Transferred, MinOf
    <3> QED BY <2>4, <3>1, <3>2, <3>3 DEF Cells
  <2>6. reply(n) \in Message
    BY <2>3, <2>4 DEF Message, MsgType
  <2>7. IsReply(reply(n))
    BY <2>1, <2>3, <2>4, <2>5 DEF IsReply, IsData, ReplyFor
  <2>8. reply(n).have = s.own /\ reply(n).type = "REPLY"
    OBVIOUS
  <2> HIDE DEF reply
  <2>9. Honest(reply(n), s.own, e.world)
    BY <2>6, <2>7, <2>8 DEF Honest
  <2> QED BY <2>2, <2>9, SendFine
<1> QED BY <1>1, <1>2

-----------------------------------------------------------------------------
(* Whole handlers, second layer: connections come and go, and what is known*)
(* of other peers changes with them.                                       *)

(* What is known of a peer is forgotten, or grows by what it claims.       *)
HavesMove(s, t, e) ==
    \A b \in Addr :
        \/ t.have[b] = {}
        \/ /\ s.have[b] \subseteq t.have[b]
           /\ t.have[b] \subseteq
                 s.have[b] \cup (IF b = e.from THEN e.claims ELSE {})

(* A request falls back only where the last retry has failed, or where its *)
(* piece is whole but could not be verified.                               *)
OnlyGivesUp(s, t) ==
    \A b \in Addr :
        s.request[b] # NoPiece /\ t.request[b] = s.request[b]
        /\ t.offset[b] < s.offset[b]
            => \/ s.retry[b].num = MaxRetries
               \/ Cells(s.request[b]) \subseteq t.file[s.request[b]]

(* What every handler and every part of a pass does. *)
Moves(s, t, e) ==
    /\ Good(s, t)
    /\ Firm(t, e, {})
    /\ HavesMove(s, t, e)
    /\ t.own \subseteq s.own \cup e.gains
    /\ Sure /\ LastMissing(s) => LastMissing(t)

(* What those do that leave the process's own heartbeat alone. *)
Handled(s, t, e) ==
    /\ Moves(s, t, e)
    /\ t.beat = s.beat
    /\ NoneSilenced(s, t)
    /\ Exact => OnlyGivesUp(s, t)

(* What a handler does that loses no request on its way.                   *)
Onward(s, t, e) ==
    /\ Moves(s, t, e)
    /\ t.beat = s.beat
    /\ NoneSilenced(s, t)
    /\ Exact => Forward(s, t)

(* A fine step leads onward.                                               *)
LEMMA FineOnward ==
    ASSUME NEW e, NEW s, NEW t, Fine(s, t, e)
    PROVE  Onward(s, t, e)
BY DEF Fine, Quiet, HavesMove, Onward, Moves

(* A step onward is one that a handler may do.                             *)
LEMMA OnwardHandled ==
    ASSUME NEW e, NEW s, NEW t, Core(s), Onward(s, t, e)
    PROVE  Handled(s, t, e)
<1>1. Exact => OnlyGivesUp(s, t)
  <2> SUFFICES ASSUME Exact, NEW b \in Addr,
                      s.request[b] # NoPiece, t.request[b] = s.request[b]
               PROVE  \/ ~(t.offset[b] < s.offset[b])
                      \/ Cells(s.request[b]) \subseteq t.file[s.request[b]]
    BY DEF OnlyGivesUp
  <2>1. t.request[b] \notin t.own
    BY DEF Onward, Moves, Good, Core, RequestsUnheldIn
  <2>2. \/ s.offset[b] <= t.offset[b]
        \/ Cells(s.request[b]) \subseteq t.file[s.request[b]]
    BY <2>1 DEF Onward, Forward
  <2>3. s.offset[b] \in Int /\ t.offset[b] \in Int
    BY TorrentAssumption DEF Onward, Moves, Good, Core, NodeType
  <2> QED BY <2>2, <2>3
<1> QED BY <1>1 DEF Handled, Onward

(* A fine step and one onward, in either order, lead onward.               *)
LEMMA OnwardTransitive ==
    ASSUME NEW e, NEW s, NEW t, NEW u, Core(s),
           \/ Fine(s, t, e) /\ Onward(t, u, e)
           \/ Onward(s, t, e) /\ Fine(t, u, e)
    PROVE  Onward(s, u, e)
<1>1. Onward(s, t, e) /\ Onward(t, u, e)
  BY FineOnward
<1>2. Good(s, t) /\ Good(t, u) /\ Good(s, u)
  BY <1>1, GoodTransitive DEF Onward, Moves
<1>3. Exact => Forward(s, u)
  BY <1>1, <1>2, ForwardTransitive DEF Onward
<1>4. HavesMove(s, u, e)
  <2>1. t.have = s.have \/ u.have = t.have
    BY DEF Fine, Quiet
  <2> QED BY <1>1, <2>1 DEF Onward, Moves, HavesMove
<1>5. NoneSilenced(s, u) /\ u.beat = s.beat
  BY <1>1 DEF Onward, NoneSilenced
<1>6. u.own \subseteq s.own \cup e.gains
  BY <1>1 DEF Onward, Moves
<1>7. Sure /\ LastMissing(s) => LastMissing(u)
  BY <1>1 DEF Onward, Moves
<1>8. Firm(u, e, {})
  BY <1>1 DEF Onward, Moves
<1> QED BY <1>2, <1>3, <1>4, <1>5, <1>6, <1>7, <1>8 DEF Onward, Moves

(* peer_update_have notes what the peer claims; then every request is for  *)
(* a piece that its peer is known to have.                                 *)
LEMMA UpdateHaveOnward ==
    ASSUME NEW e \in Setting, NEW s, Core(s), Firm(s, e, {})
    PROVE  /\ Onward(s, UpdateHave(s, e.from, e.claims), e)
           /\ e.claims \subseteq UpdateHave(s, e.from, e.claims).have[e.from]
<1> DEFINE a == e.from
           t == UpdateHave(s, a, e.claims)
<1>1. /\ a \in Addr /\ e.claims \in SUBSET Piece
      /\ e.claims \subseteq e.world[a]
  BY DEF Setting
<1>2. Good(s, t)
  BY <1>1, UpdateHaveGood
<1>3. /\ t.pool = s.pool /\ t.request = s.request /\ t.offset = s.offset
      /\ t.retry = s.retry /\ t.own = s.own /\ t.file = s.file
      /\ t.beat = s.beat /\ t.out = s.out
      /\ t.alive = [s.alive EXCEPT ![a] = TRUE]
      /\ t.have = [s.have EXCEPT ![a] = s.have[a] \cup e.claims]
  BY <1>1 DEF UpdateHave, Core, NodeType
<1>4. s.have \in [Addr -> SUBSET Piece] /\ s.alive \in [Addr -> BOOLEAN]
  BY DEF Core, NodeType
<1> HIDE DEF t
<1>5. \A b \in Addr :
          /\ s.have[b] \subseteq t.have[b]
          /\ t.have[b] \subseteq s.have[b] \cup (IF b = a THEN e.claims ELSE {})
          /\ t.have[b] \subseteq e.world[b]
  BY <1>1, <1>3, <1>4 DEF Firm
<1>6. /\ NoDuplicateRequestIn(t) /\ ServableDuring(t, e) /\ FilesIn(t)
      /\ OffsetsWithinIn(t)
      /\ NoWrap => PrefixWrittenIn(t)
      /\ ~FlakyStorage => KeptAliveBut(t, {})
  BY <1>3, <1>5 DEF Firm, NoDuplicateRequestIn, EndGame, ServableDuring, FilesIn,
              OffsetsWithinIn, PrefixWrittenIn, KeptAliveBut
<1>7. Firm(t, e, {})
  BY <1>3, <1>5, <1>6 DEF Firm
<1>8. HavesMove(s, t, e) /\ NoneSilenced(s, t)
  BY <1>3, <1>4, <1>5 DEF HavesMove, NoneSilenced, Connected
<1>9. Forward(s, t)
  BY <1>3, TorrentAssumption DEF Forward, Core, NodeType
<1>10. LastMissing(s) => LastMissing(t)
  BY <1>3 DEF LastMissing
<1>11. e.claims \subseteq t.have[a]
  BY <1>1, <1>3, <1>4
<1> QED BY <1>2, <1>3, <1>7, <1>8, <1>9, <1>10, <1>11 DEF Onward, Moves, t

(* force_disconnect_conn forgets the peer and its request.                 *)
LEMMA ForceDisconnectHandled ==
    ASSUME NEW e \in Setting, NEW s, Core(s), Firm(s, e, {}), NEW a \in Addr
    PROVE  /\ Handled(s, ForceDisconnect(s, a), e)
           /\ ~Connected(ForceDisconnect(s, a), a)
           /\ ForceDisconnect(s, a).request[a] = NoPiece
           /\ \A b \in Addr \ {a} :
                 /\ ForceDisconnect(s, a).request[b] = s.request[b]
                 /\ ForceDisconnect(s, a).have[b] = s.have[b]
                 /\ ForceDisconnect(s, a).retry[b] = s.retry[b]
<1> DEFINE p == [s EXCEPT !.pool[a] = "none",
                          !.counts  = Recount(s.counts, s.have[a], {}),
                          !.have[a] = {}]
           q == RequestStop(p, a)
           t == ForceDisconnect(s, a)
<1>1. /\ s.have \in [Addr -> SUBSET Piece] /\ s.counts \in [Piece -> Int]
      /\ s.request \in [Addr -> Piece \cup {NoPiece}] /\ NoPiece \notin Piece
      /\ s.pool \in [Addr -> {"none", "in", "out"}]
      /\ s.offset \in [Addr -> Cell] /\ s.alive \in [Addr -> BOOLEAN]
      /\ s.retry \in [Addr -> RetryRecord(MaxRetries)]
  BY TorrentAssumption DEF Core, NodeType
<1>2. Recount(s.counts, s.have[a], {}) \in [Piece -> Int]
  BY <1>1, RecountType
<1>3. /\ p \in NodeType
      /\ p.pool = [s.pool EXCEPT ![a] = "none"]
      /\ p.have = [s.have EXCEPT ![a] = {}]
      /\ p.request = s.request /\ p.offset = s.offset /\ p.retry = s.retry
      /\ p.own = s.own /\ p.file = s.file /\ p.alive = s.alive
      /\ p.beat = s.beat /\ p.out = s.out
  BY <1>1, <1>2 DEF Core, NodeType
<1> HIDE DEF p
<1>4. /\ q.pool = p.pool /\ q.have = p.have /\ q.alive = p.alive
      /\ q.own = p.own /\ q.file = p.file /\ q.beat = p.beat /\ q.out = p.out
      /\ q.request = [p.request EXCEPT ![a] = NoPiece]
      /\ q.offset = [p.offset EXCEPT ![a] = 0]
      /\ q.retry = [p.retry EXCEPT ![a] = RetryStop(p.retry[a])]
  BY <1>3, RequestStopFields
<1>5. q \in NodeType
  <2>1. RequestsPendingIn(p)
    <3>1. p.pending = s.pending /\ p.request = s.request
      BY DEF Core, NodeType, p
    <3> QED BY <3>1 DEF Core, RequestsPendingIn
  <2> QED BY <1>3, <2>1, RequestStopEffect
<1>6. t = [q EXCEPT !.alive[a] = FALSE, !.retry[a] = RetryInit]
  BY DEF ForceDisconnect, p
<1> HIDE DEF q, t
<1>7. /\ t.pool = q.pool /\ t.have = q.have
      /\ t.own = q.own /\ t.file = q.file /\ t.beat = q.beat /\ t.out = q.out
      /\ t.request = q.request /\ t.offset = q.offset
      /\ t.alive = [q.alive EXCEPT ![a] = FALSE]
      /\ t.retry = [q.retry EXCEPT ![a] = RetryInit]
  BY <1>5, <1>6 DEF NodeType
<1>8. /\ t.pool[a] = "none" /\ t.have[a] = {} /\ t.request[a] = NoPiece
      /\ t.own = s.own /\ t.file = s.file /\ t.beat = s.beat /\ t.out = s.out
      /\ \A b \in Addr \ {a} :
            /\ t.pool[b] = s.pool[b] /\ t.have[b] = s.have[b]
            /\ t.request[b] = s.request[b] /\ t.offset[b] = s.offset[b]
            /\ t.alive[b] = s.alive[b] /\ t.retry[b] = s.retry[b]
  BY <1>1, <1>3, <1>4, <1>7
<1>9. Good(s, t)
  BY ForceDisconnectGood DEF t
<1>10. /\ NoDuplicateRequestIn(t) /\ ServableDuring(t, e) /\ FilesIn(t)
       /\ OffsetsWithinIn(t)
       /\ NoWrap => PrefixWrittenIn(t)
       /\ ~FlakyStorage => KeptAliveBut(t, {})
  BY <1>8 DEF Firm, NoDuplicateRequestIn, EndGame, ServableDuring, FilesIn,
              OffsetsWithinIn, PrefixWrittenIn, KeptAliveBut
<1>11. /\ \A b \in Addr : t.have[b] \subseteq e.world[b]
       /\ \A m \in t.out : Honest(m, t.own, e.world)
  BY <1>8 DEF Firm
<1>12. Firm(t, e, {})
  BY <1>10, <1>11 DEF Firm
<1>13. HavesMove(s, t, e) /\ NoneSilenced(s, t) /\ ~Connected(t, a)
  BY <1>8 DEF HavesMove, NoneSilenced, Connected
<1>14. OnlyGivesUp(s, t)
  <2>1. \A b \in Addr : s.offset[b] \in Int
    BY <1>1, TorrentAssumption
  <2> QED BY <1>8, <2>1 DEF OnlyGivesUp
<1>15. LastMissing(s) => LastMissing(t)
  BY <1>8 DEF LastMissing
<1> QED BY <1>8, <1>9, <1>12, <1>13, <1>14, <1>15 DEF Handled, Moves, t

(* A step that may end a request, and sending after it.                    *)
LEMMA HandledThenSend ==
    ASSUME NEW e, NEW s, NEW t, NEW u, Handled(s, t, e), Fine(t, u, e),
           u.request = t.request, u.offset = t.offset
    PROVE  Handled(s, u, e)
<1>1. Good(s, u)
  BY GoodTransitive DEF Handled, Moves, Fine
<1>2. HavesMove(s, u, e) /\ u.own \subseteq s.own \cup e.gains
  BY DEF Handled, Moves, HavesMove, Fine, Quiet
<1>3. u.beat = s.beat /\ NoneSilenced(s, u)
  BY DEF Handled, Fine, Quiet, NoneSilenced
<1>4. Exact => OnlyGivesUp(s, u)
  BY DEF Handled, OnlyGivesUp, Fine, Forward, Moves, Good, Core, NodeType
<1> QED BY <1>1, <1>2, <1>3, <1>4 DEF Handled, Moves, Fine

(* After the peer's claims are noted every request can be served.          *)
LEMMA ServableAfter ==
    ASSUME NEW e, NEW s, NEW t, e.claims \subseteq s.have[e.from],
           Fine(s, t, e)
    PROVE  RequestServableIn(t)
BY DEF Fine, Firm, Quiet, ServableDuring, RequestServableIn

(* The part of handle_message after the data was handled: a peer without a *)
(* connection has no request, and one with a connection has its claims     *)
(* noted.                                                                  *)
LEMMA WelcomeOnward ==
    ASSUME NEW e \in Setting, NEW s, Core(s), Firm(s, e, {}),
           NEW m, m.have = e.claims,
           m.type = "REQUEST" => IsData(m) /\ m.start \in Cells(m.piece),
           NEW t \in Welcome(s, e.from, m)
    PROVE  Onward(s, t, e) /\ RequestServableIn(t)
<1> DEFINE a == e.from
<1>1. a \in Addr
  BY DEF Setting
<1>2. CASE ~CanConnect(s, a, "in")
  <2>1. t \in {s, SendClose(s, a)}
    BY <1>2 DEF Welcome
  <2>2. Fine(s, t, e)
    BY <1>1, <2>1, FineReflexive, SendPlainFine
  <2>3. t.request = s.request
    BY <2>1 DEF SendClose, Send, Core, NodeType
  <2>4. s.request[a] = NoPiece
    BY <1>1, <1>2 DEF CanConnect, Core, RequestsUnheldIn
  <2>5. RequestServableIn(t)
    BY <2>2, <2>3, <2>4 DEF Fine, Firm, ServableDuring, RequestServableIn
  <2> QED BY <2>2, <2>5, FineOnward
<1>3. CASE CanConnect(s, a, "in")
  <2> DEFINE c == ConnectWith(s, a, "in")
             u == UpdateHave(c, a, m.have)
  <2>1. Fine(s, c, e) /\ Connected(c, a) /\ Core(c)
    BY <1>1, ConnectFine, ConnectGood DEF Fine, Good
  <2>2. IF m.type = "REQUEST" THEN t \in HandleRequest(u, a, m)
        ELSE t \in RequestNext(u, a)
    BY <1>3 DEF Welcome
  <2> HIDE DEF c
  <2>3. Onward(c, u, e) /\ e.claims \subseteq u.have[a]
    BY <2>1, UpdateHaveOnward DEF Fine
  <2>4. Connected(u, a)
    BY <1>1, <2>1, UpdateHaveGood DEF Connected, Setting
  <2> HIDE DEF u
  <2>5. Core(u) /\ Firm(u, e, {})
    BY <2>3 DEF Onward, Moves, Good
  <2>6. Fine(u, t, e)
    BY <1>1, <2>2, <2>4, <2>5, HandleRequestFine, RequestNextFine
  <2>7. Onward(c, t, e)
    BY <2>1, <2>3, <2>6, OnwardTransitive
  <2>8. Onward(s, t, e)
    BY <2>1, <2>7, OnwardTransitive
  <2> QED BY <2>3, <2>6, <2>8, ServableAfter
<1> QED BY <1>2, <1>3

(* handle_message does to a client what a handler may do, and keeps every  *)
(* request with a peer that has the piece.                                 *)
LEMMA HandleMessageHandled ==
    ASSUME NEW e \in Setting, NEW s, Core(s), Firm(s, e, {}),
           RequestServableIn(s), NEW m, m.have = e.claims,
           m.type = "REQUEST" => IsData(m) /\ m.start \in Cells(m.piece),
           m.type = "REPLY" => IsReply(m) /\ m.piece \in e.gains,
           NEW t \in HandleMessage(s, e.from, m)
    PROVE  Handled(s, t, e) /\ RequestServableIn(t)
<1> DEFINE a == e.from
<1>1. a \in Addr
  BY DEF Setting
<1>2. CASE m.type = "CLOSE"
  <2>1. t = s \/ t = ForceDisconnect(s, a)
    BY <1>2 DEF HandleMessage
  <2>2. CASE t = s
    BY <2>2, FineReflexive, FineOnward, OnwardHandled
  <2>3. CASE t = ForceDisconnect(s, a)
    <3>1. /\ Handled(s, t, e) /\ t.request[a] = NoPiece
          /\ \A b \in Addr \ {a} :
                t.request[b] = s.request[b] /\ t.have[b] = s.have[b]
      BY <1>1, <2>3, ForceDisconnectHandled
    <3> QED BY <3>1 DEF RequestServableIn
  <2> QED BY <2>1, <2>2, <2>3
<1>3. CASE m.type = "REPLY"
  <2>1. PICK u \in HandleReply(s, a, m) : t \in Welcome(u, a, m)
    BY <1>3 DEF HandleMessage
  <2>2. m.piece \in e.claims
    BY <1>3, ReplyFacts
  <2>3. Fine(s, u, e)
    BY <1>3, <2>1, <2>2, HandleReplyFine
  <2>4. Onward(u, t, e) /\ RequestServableIn(t)
    BY <1>3, <2>1, <2>3, WelcomeOnward DEF Fine, Good
  <2> QED BY <2>3, <2>4, OnwardTransitive, OnwardHandled
<1>4. CASE m.type \notin {"CLOSE", "REPLY"}
  <2>1. t \in Welcome(s, a, m)
    BY <1>4 DEF HandleMessage
  <2> QED BY <2>1, WelcomeOnward, OnwardHandled
<1> QED BY <1>2, <1>3, <1>4

-----------------------------------------------------------------------------
(* The retries and the process loop, second layer. *)

(* nanotorrent_retry_next on a due retry: it goes on below its limit.      *)
LEMMA RetryAdvanced ==
    ASSUME NEW e \in Setting, NEW s, Core(s), Firm(s, e, {}), NEW a \in Addr,
           NEW u, u = [s EXCEPT !.retry[a] = RetryNext(s.retry[a])]
    PROVE  /\ Good(s, u) /\ Firm(u, e, {a}) /\ Quiet(s, u, e)
           /\ u.pool = s.pool /\ u.own = s.own /\ u.file = s.file
           /\ u.request = s.request /\ u.offset = s.offset
           /\ WillTryAgain(s.retry[a]) \/ FlakyStorage => Firm(u, e, {})
<1> DEFINE r == s.retry[a]
<1>1. RetryNext(r) \in RetryRecord(MaxRetries) /\ r \in RetryRecord(MaxRetries)
  BY RetryTypes DEF Core, NodeType
<1>2. Good(s, u)
  BY <1>1, RetryFrame
<1>3. /\ u.pool = s.pool /\ u.have = s.have /\ u.request = s.request
      /\ u.offset = s.offset /\ u.alive = s.alive /\ u.own = s.own
      /\ u.file = s.file /\ u.beat = s.beat /\ u.out = s.out
      /\ u.retry = [s.retry EXCEPT ![a] = RetryNext(r)]
  BY DEF Core, NodeType
<1>4. s.retry \in [Addr -> RetryRecord(MaxRetries)]
  BY DEF Core, NodeType
<1>5. /\ NoDuplicateRequestIn(u) /\ ServableDuring(u, e) /\ FilesIn(u)
      /\ OffsetsWithinIn(u)
      /\ NoWrap => PrefixWrittenIn(u)
      /\ ~FlakyStorage => KeptAliveBut(u, {a})
  BY <1>3, <1>4 DEF Firm, NoDuplicateRequestIn, EndGame, ServableDuring, FilesIn,
              OffsetsWithinIn, PrefixWrittenIn, KeptAliveBut
<1>6. Firm(u, e, {a})
  BY <1>3, <1>5 DEF Firm
<1>7. Quiet(s, u, e)
  BY <1>3 DEF Quiet, NoneSilenced, Connected
<1>8. ASSUME WillTryAgain(r), ~FlakyStorage
      PROVE  KeptAliveBut(u, {})
  <2> SUFFICES ASSUME u.request[a] # NoPiece
               PROVE  /\ u.retry[a].bound /\ u.retry[a].num \in 1 .. MaxRetries
                      /\ u.retry[a].max = MaxRetries
    BY <1>5, <1>8 DEF KeptAliveBut
  <2>1. r.bound /\ r.num \in 1 .. MaxRetries /\ r.max = MaxRetries
    BY <1>3, <1>8 DEF Firm, KeptAliveBut
  <2>2. MaxRetries \in Nat
    BY LimitAssumption
  <2>3. u.retry[a] = RetryNext(r)
    BY <1>3, <1>4
  <2> QED BY <1>8, <2>1, <2>2, <2>3 DEF RetryNext, WillTryAgain
<1>9. WillTryAgain(r) \/ FlakyStorage => Firm(u, e, {})
  BY <1>6, <1>8 DEF Firm, r
<1> QED BY <1>2, <1>3, <1>6, <1>7, <1>9

(* nanotorrent_retry_process: a request is sent again, or given up after   *)
(* the last retry, which makes room for the next one.                      *)
LEMMA ProcessRetryHandled ==
    ASSUME NEW e \in Setting, NEW s, Core(s), Firm(s, e, {}), NEW a \in Addr,
           s.request[a] # NoPiece, NEW t \in ProcessRetry(s, a)
    PROVE  Handled(s, t, e)
<1> DEFINE r == s.retry[a]
           u == [s EXCEPT !.retry[a] = RetryNext(r)]
<1>1. Connected(s, a)
  BY DEF Core, RequestsUnheldIn
<1>2. r \in RetryRecord(MaxRetries) /\ r.num \in Nat /\ r.max \in Nat
  BY LimitAssumption DEF Core, NodeType, RetryRecord
<1>3. CASE ~RetryDue(r)
  <2>1. t = s
    BY <1>3 DEF ProcessRetry
  <2> QED BY <2>1, FineReflexive, FineOnward, OnwardHandled
<1>4. CASE RetryDue(r)
  <2>1. /\ Good(s, u) /\ Firm(u, e, {a}) /\ Quiet(s, u, e)
        /\ u.pool = s.pool /\ u.own = s.own /\ u.file = s.file
        /\ u.request = s.request /\ u.offset = s.offset
        /\ WillTryAgain(r) \/ FlakyStorage => Firm(u, e, {})
    BY RetryAdvanced
  <2>2. \/ WillTryAgain(r) /\ t = SendRequest(u, a)
        \/ /\ ~WillTryAgain(r) /\ r.bound
           /\ t \in RequestNext(RequestStop(u, a), a)
        \/ ~WillTryAgain(r) /\ ~r.bound /\ t = u
    BY <1>4 DEF ProcessRetry
  <2> HIDE DEF u, r
  <2>3. Core(u) /\ Forward(s, u)
    BY <2>1, TorrentAssumption DEF Good, Forward, Core, NodeType
  <2>4. ASSUME Firm(u, e, {})
        PROVE  Fine(s, u, e)
    BY <2>1, <2>3, <2>4 DEF Fine, LastMissing
  <2>5. CASE WillTryAgain(r) /\ t = SendRequest(u, a)
    <3> DEFINE m == [type |-> "REQUEST", to |-> a, have |-> u.own,
                     piece |-> u.request[a], start |-> u.offset[a], len |-> 0]
    <3>1. Firm(u, e, {})
      BY <2>1, <2>5
    <3>2. /\ u.own \in SUBSET Piece /\ u.request[a] \in Piece /\ u.offset[a] \in Nat
      BY <2>1, <2>3, TorrentAssumption DEF Core, NodeType
    <3>3. u.request[a] \in e.world[a]
      BY <2>1, <3>1 DEF Firm, ServableDuring, Setting
    <3>4. Honest(m, u.own, e.world)
      <4>1. u.offset[a] \in Cells(u.request[a])
        BY <3>1, <3>2, TorrentAssumption DEF Firm, OffsetsWithinIn
      <4> QED BY <3>2, <3>3, <4>1 DEF Honest, Message, MsgType
    <3>5. Fine(u, t, e)
      BY <2>3, <2>5, <3>1, <3>4, SendFine DEF SendRequest
    <3> QED BY <2>4, <3>1, <3>5, FineTransitive, FineOnward, OnwardHandled
  <2>6. CASE ~WillTryAgain(r) /\ ~r.bound /\ t = u
    <3>1. FlakyStorage
      BY <2>6 DEF Firm, KeptAliveBut, r
    <3> QED BY <2>1, <2>4, <2>6, <3>1, FineOnward, OnwardHandled
  <2>7. CASE ~WillTryAgain(r) /\ r.bound /\ t \in RequestNext(RequestStop(u, a), a)
    <3> DEFINE q == RequestStop(u, a)
    <3>1. /\ Firm(q, e, {}) /\ Quiet(u, q, e)
          /\ q.own = u.own /\ q.file = u.file /\ q.request[a] = NoPiece
          /\ q.pool = u.pool
          /\ \A b \in Addr \ {a} :
                q.request[b] = u.request[b] /\ q.offset[b] = u.offset[b]
      BY <2>1, <2>3, RequestStopFirm
    <3>2. Good(u, q)
      BY <2>3, RequestStopGood
    <3> HIDE DEF q
    <3>3. Core(q) /\ Connected(q, a)
      BY <1>1, <2>1, <3>1, <3>2 DEF Good, Connected
    <3>4. Fine(q, t, e)
      BY <2>7, <3>1, <3>3, RequestNextFine DEF q
    <3>5. Good(s, t)
      BY <2>1, <3>2, <3>4, GoodTransitive DEF Fine
    <3>6. Quiet(s, t, e)
      BY <2>1, <3>1, <3>4 DEF Fine, Quiet, NoneSilenced
    <3>7. Exact => OnlyGivesUp(s, t)
      <4> SUFFICES ASSUME Exact, NEW b \in Addr,
                          s.request[b] # NoPiece, t.request[b] = s.request[b],
                          t.offset[b] < s.offset[b]
                   PROVE  \/ s.retry[b].num = MaxRetries
                          \/ Cells(s.request[b]) \subseteq t.file[s.request[b]]
        BY DEF OnlyGivesUp
      <4>1. CASE b = a
        <5>1. r.num \in 1 .. MaxRetries /\ r.max = MaxRetries
          BY DEF Exact, Firm, KeptAliveBut, r
        <5>2. r.num <= r.max /\ ~(r.num < r.max)
          BY <1>4, <2>7 DEF RetryDue, WillTryAgain
        <5> QED BY <1>2, <4>1, <5>1, <5>2, LimitAssumption DEF r
      <4>2. CASE b # a
        <5>1. q.request[b] = s.request[b] /\ q.offset[b] = s.offset[b]
          BY <2>1, <3>1, <4>2
        <5>2. s.request[b] \notin t.own
          BY <3>5 DEF Good, Core, RequestsUnheldIn
        <5>3. \/ s.offset[b] <= t.offset[b]
              \/ Cells(s.request[b]) \subseteq t.file[s.request[b]]
          BY <3>4, <5>1, <5>2 DEF Fine, Forward
        <5>4. s.offset[b] \in Int /\ t.offset[b] \in Int
          BY <3>5, TorrentAssumption DEF Good, Core, NodeType
        <5> QED BY <5>3, <5>4
      <4> QED BY <4>1, <4>2
    <3>8. Sure /\ LastMissing(s) => LastMissing(t)
      <4>1. LastMissing(s) => LastMissing(q)
        BY <2>1, <3>1 DEF LastMissing
      <4> QED BY <3>4, <4>1 DEF Fine
    <3>9. HavesMove(s, t, e)
      BY <3>6 DEF Quiet, HavesMove
    <3>10. Moves(s, t, e)
      BY <3>4, <3>5, <3>6, <3>8, <3>9 DEF Fine, Quiet, Moves
    <3> QED BY <3>6, <3>7, <3>10 DEF Quiet, Handled
  <2> QED BY <2>2, <2>5, <2>6, <2>7
<1> QED BY <1>3, <1>4

(* One iteration of the process loop: a connection that fell silent is     *)
(* dropped, and the others are served.                                     *)
LEMMA VisitConnHandled ==
    ASSUME NEW e \in Setting, e.claims = {}, NEW s, Core(s), Firm(s, e, {}),
           NEW a \in Addr, NEW t \in VisitConn(s, a)
    PROVE  Handled(s, t, e) /\ (Connected(t, a) => t.alive[a])
<1> DEFINE f == ForceDisconnect(s, a)
           d == IF s.alive[a] THEN s ELSE SendClose(f, a)
           q == IF d.request[a] = NoPiece THEN {d} ELSE ProcessRetry(d, a)
<1>1. PICK u \in q : t = u \/ t = SendHave(u, a)
  BY DEF VisitConn
<1>2. Handled(s, u, e)
  <2>1. CASE s.alive[a]
    BY <1>1, <2>1, FineReflexive, FineOnward, OnwardHandled, ProcessRetryHandled
  <2>2. CASE ~s.alive[a]
    <3>1. Handled(s, f, e) /\ f.request[a] = NoPiece
      BY ForceDisconnectHandled
    <3> HIDE DEF f
    <3>2. Fine(f, SendClose(f, a), e)
      BY <3>1, SendPlainFine DEF Handled, Moves, Good
    <3>3. /\ SendClose(f, a).request = f.request
          /\ SendClose(f, a).offset = f.offset
      BY <3>1 DEF Handled, Moves, Good, Core, NodeType, SendClose, Send
    <3>4. u = SendClose(f, a)
      BY <1>1, <2>2, <3>1, <3>3
    <3> QED BY <3>1, <3>2, <3>3, <3>4, HandledThenSend
  <2> QED BY <2>1, <2>2
<1>3. Connected(u, a) => u.alive[a]
  <2>1. CASE s.alive[a]
    BY <1>2, <2>1 DEF Handled, NoneSilenced
  <2>2. CASE ~s.alive[a]
    <3>1. ~Connected(f, a) /\ f.request[a] = NoPiece /\ f \in NodeType
      BY ForceDisconnectHandled DEF Handled, Moves, Good, Core
    <3> HIDE DEF f
    <3>2. /\ SendClose(f, a).request = f.request
          /\ SendClose(f, a).pool = f.pool
      BY <3>1 DEF NodeType, SendClose, Send
    <3>3. u = SendClose(f, a)
      BY <1>1, <2>2, <3>1, <3>2
    <3> QED BY <3>1, <3>2, <3>3 DEF Connected
  <2> QED BY <2>1, <2>2
<1> HIDE DEF d, q, f
<1>4. CASE t = u
  BY <1>2, <1>3, <1>4
<1>5. CASE t = SendHave(u, a)
  <2>1. Core(u) /\ Firm(u, e, {})
    BY <1>2 DEF Handled, Moves, Good
  <2>2. Fine(u, t, e)
    BY <1>5, <2>1, SendPlainFine
  <2>3. /\ t.request = u.request /\ t.offset = u.offset
        /\ t.pool = u.pool /\ t.alive = u.alive
    BY <1>5, <2>1 DEF Core, NodeType, SendHave, Send
  <2> QED BY <1>2, <1>3, <2>2, <2>3, HandledThenSend DEF Connected
<1> QED BY <1>1, <1>4, <1>5

(* A step that only changes timers, or takes messages away.                *)
LEMMA TimersMove ==
    ASSUME NEW e, NEW s, NEW t, Core(s), Firm(s, e, {}), t \in NodeType,
           t.pool = s.pool, t.have = s.have, t.request = s.request,
           t.offset = s.offset, t.pending = s.pending, t.counts = s.counts,
           t.own = s.own, t.file = s.file, t.out \subseteq s.out,
           \A b \in Addr : \/ t.retry[b] = s.retry[b]
                           \/ t.retry[b] = RetryStop(s.retry[b])
    PROVE  Moves(s, t, e) /\ OnlyGivesUp(s, t)
<1>1. Good(s, t)
  BY CoreFrame
<1>2. /\ NoDuplicateRequestIn(t) /\ ServableDuring(t, e) /\ FilesIn(t)
      /\ OffsetsWithinIn(t)
      /\ NoWrap => PrefixWrittenIn(t)
  BY DEF Firm, NoDuplicateRequestIn, EndGame, ServableDuring, FilesIn,
         OffsetsWithinIn, PrefixWrittenIn
<1>3. ~FlakyStorage => KeptAliveBut(t, {})
  <2>1. \A b \in Addr : /\ t.retry[b].bound = s.retry[b].bound
                        /\ t.retry[b].num = s.retry[b].num
                        /\ t.retry[b].max = s.retry[b].max
    BY DEF Core, NodeType, RetryRecord, RetryStop
  <2> QED BY <2>1 DEF Firm, KeptAliveBut
<1>4. Firm(t, e, {})
  BY <1>2, <1>3 DEF Firm
<1>5. HavesMove(s, t, e) /\ (LastMissing(s) => LastMissing(t))
  BY DEF HavesMove, LastMissing
<1>6. OnlyGivesUp(s, t)
  <2>1. \A b \in Addr : s.offset[b] \in Int
    BY TorrentAssumption DEF Core, NodeType
  <2> QED BY <2>1 DEF OnlyGivesUp
<1> QED BY <1>1, <1>4, <1>5, <1>6 DEF Moves

(* The end of a pass: the heartbeat runs again.                            *)
LEMMA FinishPassMoves ==
    ASSUME NEW e, NEW s, Core(s), Firm(s, e, {}), NEW t \in FinishPass(s)
    PROVE  /\ Moves(s, t, e) /\ NoneSilenced(s, t) /\ t.beat = TRUE
           /\ Exact => OnlyGivesUp(s, t)
<1> DEFINE h == SendHave(s, Multicast)
           u == [h EXCEPT !.beat = TRUE]
<1>1. CASE s.beat
  <2>1. t \in PostSeeding(s)
    BY <1>1 DEF FinishPass
  <2>2. Handled(s, t, e)
    BY <2>1, PostSeedingFine, FineOnward, OnwardHandled
  <2> QED BY <1>1, <2>2 DEF Handled, Core, NodeType
<1>2. CASE ~s.beat
  <2>1. t \in PostSeeding(u)
    BY <1>2 DEF FinishPass
  <2>2. Fine(s, h, e)
    BY SendPlainFine
  <2>3. /\ h.request = s.request /\ h.offset = s.offset /\ h.retry = s.retry
        /\ h.own = s.own /\ h.have = s.have /\ h.file = s.file
        /\ h.pool = s.pool /\ h.alive = s.alive
    BY DEF SendHave, Send, Core, NodeType
  <2>4. h \in NodeType
    BY <2>2 DEF Fine, Good, Core
  <2> HIDE DEF h
  <2>5. /\ u \in NodeType /\ u.beat = TRUE /\ u.out = h.out
        /\ u.pool = h.pool /\ u.have = h.have /\ u.request = h.request
        /\ u.offset = h.offset /\ u.retry = h.retry /\ u.alive = h.alive
        /\ u.pending = h.pending /\ u.counts = h.counts
        /\ u.own = h.own /\ u.file = h.file
    BY <2>4 DEF NodeType
  <2> HIDE DEF u
  <2>6. Moves(h, u, e)
    BY <2>2, <2>5, TimersMove DEF Fine, Good
  <2>7. Fine(u, t, e)
    BY <2>1, <2>6, PostSeedingFine DEF Moves, Good
  <2>8. Handled(u, t, e)
    BY <2>6, <2>7, FineOnward, OnwardHandled DEF Moves, Good
  <2>9. Good(s, t)
    BY <2>2, <2>6, <2>7, GoodTransitive DEF Fine, Moves
  <2>10. HavesMove(s, t, e) /\ t.own \subseteq s.own \cup e.gains
    BY <2>3, <2>5, <2>7 DEF Fine, Quiet, HavesMove
  <2>11. Sure /\ LastMissing(s) => LastMissing(t)
    BY <2>2, <2>6, <2>7 DEF Fine, Moves
  <2>12. NoneSilenced(s, t) /\ t.beat = TRUE
    BY <2>3, <2>5, <2>7 DEF Fine, Quiet, NoneSilenced, Connected
  <2>13. Exact => OnlyGivesUp(s, t)
    BY <2>3, <2>5, <2>8 DEF Handled, OnlyGivesUp
  <2> QED BY <2>7, <2>9, <2>10, <2>11, <2>12, <2>13 DEF Moves, Fine
<1> QED BY <1>1, <1>2

-----------------------------------------------------------------------------
(* What holds of a client between two handlers. *)

(* Sound adds to Core what is known about requests, stored data and sent   *)
(* messages when no message is being handled.                              *)
Sound(s, world) ==
    /\ NoDuplicateRequestIn(s)
    /\ RequestServableIn(s)
    /\ FilesIn(s)
    /\ OffsetsWithinIn(s)
    /\ NoWrap => PrefixWrittenIn(s)
    /\ ~FlakyStorage => RequestKeptAliveIn(s)
    /\ \A b \in Addr : s.have[b] \subseteq world[b]
    /\ \A m \in s.out : Honest(m, s.own, world)

(* A sound client is firm, whatever message it is going to handle.         *)
LEMMA SoundFirm ==
    ASSUME NEW e, NEW s, Sound(s, e.world)
    PROVE  Firm(s, e, {})
BY DEF Sound, Firm, RequestServableIn, ServableDuring, RequestKeptAliveIn,
       KeptAliveBut

(* A firm client whose requests can all be served is sound.                *)
LEMMA FirmSound ==
    ASSUME NEW e, NEW s, Firm(s, e, {}), RequestServableIn(s)
    PROVE  Sound(s, e.world)
BY DEF Sound, Firm, RequestKeptAliveIn, KeptAliveBut

(* Between two messages, firm means sound.                                 *)
LEMMA FirmServable ==
    ASSUME NEW e, NEW s, Firm(s, e, {}), e.claims = {}
    PROVE  RequestServableIn(s)
BY DEF Firm, RequestServableIn, ServableDuring

(* A client that has just started, with what verify_all found in the file. *)
Started(t, file, own, pending) ==
    /\ t.own = own /\ t.file = file /\ t.beat = TRUE /\ t.out = {}
    /\ t.pending = pending
    /\ t.have = [a \in Addr |-> {}]
    /\ \A a \in Addr : ~Connected(t, a) /\ t.request[a] = NoPiece

(* A client that has just started is sound, whatever the others have.      *)
LEMMA StartSound ==
    ASSUME NEW file \in [Piece -> SUBSET Cell],
           \A i \in Piece : file[i] \subseteq Cells(i),
           NEW own \in Verified(file), NEW pending \in SUBSET Piece,
           NEW t \in PostSeeding(StartState(file, own, pending))
    PROVE  /\ Core(t) /\ \A world : Sound(t, world)
           /\ Started(t, file, own, pending)
<1> DEFINE s == StartState(file, own, pending)
<1>1. Core(s)
  BY StartGood
<1>2. Core(t)
  BY <1>1, PostSeedingGood DEF Good
<1>3. t = s \/ t = [s EXCEPT !.seeded = TRUE]
  BY DEF PostSeeding
<1>4. /\ t.own = own /\ t.file = file /\ t.beat = TRUE /\ t.out = {}
      /\ t.pending = pending
      /\ t.have = [a \in Addr |-> {}]
      /\ \A a \in Addr : ~Connected(t, a) /\ t.request[a] = NoPiece
  <2>1. /\ s.own = own /\ s.file = file /\ s.beat = TRUE /\ s.out = {}
        /\ s.pending = pending /\ s.have = [a \in Addr |-> {}]
        /\ s.pool = [a \in Addr |-> "none"]
        /\ s.request = [a \in Addr |-> NoPiece]
    BY DEF StartState
  <2> HIDE DEF s
  <2>2. /\ t.own = s.own /\ t.file = s.file /\ t.beat = s.beat /\ t.out = s.out
        /\ t.pending = s.pending /\ t.have = s.have
        /\ t.pool = s.pool /\ t.request = s.request
    BY <1>1, <1>3 DEF Core, NodeType
  <2> QED BY <2>1, <2>2 DEF Connected
<1> HIDE DEF s
<1>5. ASSUME NEW world
      PROVE  Sound(t, world)
  BY <1>4 DEF Sound, NoDuplicateRequestIn, RequestServableIn, FilesIn,
              OffsetsWithinIn, PrefixWrittenIn, RequestKeptAliveIn
<1> QED BY <1>2, <1>4, <1>5 DEF Started
=============================================================================
