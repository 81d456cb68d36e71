----------------------------- MODULE PeerProofs -----------------------------
(***************************************************************************)
(* Proofs about the peer process, for any number of peers and pieces, any  *)
(* pool sizes and retry limits, and storage that may fail.                 *)
(*                                                                         *)
(* NodeProofs shows what each handler preserves; NodeStep lifts that to the*)
(* actions of Peer.                                                        *)
(***************************************************************************)
EXTENDS Peer, NodeProofs

USE DEF Piece, Cell

-----------------------------------------------------------------------------
(* The state machine. *)

(* The messages of the environment are well formed, and its replies carry  *)
(* data that their sender has.                                             *)
LEMMA MessageTypes ==
    ASSUME NEW m \in Messages
    PROVE  /\ m.have \in SUBSET Piece
           /\ m.type \in {"REQUEST", "REPLY"} => IsData(m)
           /\ m.type = "REQUEST" => m.start \in Cells(m.piece)
           /\ m.type = "REPLY" => IsReply(m)
<1>1. PieceLength \in Nat
  BY TorrentAssumption
<1>2. CASE m \in Closes \cup Haves
  <2>1. PICK h \in SUBSET Piece, type \in {"CLOSE", "HAVE"} :
            m = Received(type, h, NoPiece, 0, 0)
    BY <1>2 DEF Closes, Haves
  <2>2. m.have = h /\ m.type = type
    BY <2>1 DEF Received
  <2> QED BY <2>1, <2>2
<1>3. CASE m \in Requests
  <2>1. PICK h \in SUBSET Piece, i \in Piece : m = Received("REQUEST", h, i, 0, 0)
    BY <1>3 DEF Requests
  <2>2. /\ m.have = h /\ m.piece = i /\ m.start = 0 /\ m.len = 0
        /\ m.type = "REQUEST"
    BY <2>1 DEF Received
  <2>3. IsData(m) /\ m.start \in Cells(m.piece)
    BY <1>1, <2>1, <2>2, PieceSizeRange DEF IsData, Cells
  <2> HIDE DEF Piece
  <2> QED BY <2>1, <2>2, <2>3
<1>4. CASE m \in Replies
  <2>1. PICK h \in SUBSET Piece, i \in Piece, start \in Cell, len \in 1 .. PieceLength :
            m = Received("REPLY", h, i, start, len)
    BY <1>4 DEF Replies
  <2>2. m.have = h /\ m.piece = i /\ m.start = start /\ m.len = len
    BY <2>1 DEF Received
  <2>3. start \in Nat /\ len \in Nat
    BY <1>1, <2>1
  <2>4. IsData(m)
    BY <2>1, <2>2, <2>3 DEF IsData
  <2>5. ReplyFor(h, i, start, len)
    BY <1>4, <2>2 DEF Replies
  <2>6. IsReply(m) /\ m.type = "REPLY"
    BY <2>1, <2>2, <2>4, <2>5 DEF IsReply, Received
  <2> HIDE DEF Piece, Cell
  <2> QED BY <2>1, <2>2, <2>4, <2>6
<1> QED BY <1>2, <1>3, <1>4 DEF Messages

(* Any other peer may claim any piece, so nothing is known of them.        *)
World == [b \in Addr |-> Piece]

(* A message of peer a that claims to have h. *)
From(a, h) == [from |-> a, claims |-> h, gains |-> Piece, world |-> World]

(* The inductive invariant, which survives restarts.  PendingMatches does  *)
(* not (run peer_pending): it is inductive on top of it without restarts.  *)
Inv ==
    /\ TypeOK
    /\ Core(node)
    /\ Sound(node, World)
    /\ ExpirySeen
    /\ SilentDropped

(* What every step does to the client. *)
Advances(s, t) ==
    /\ Good(s, t)
    /\ Sound(t, World)
    /\ Exact => OnlyGivesUp(s, t)

(* A message in the environment of Peer is a setting.                      *)
LEMMA FromSetting ==
    ASSUME NEW a \in Addr, NEW h \in SUBSET Piece
    PROVE  From(a, h) \in Setting
<1> HIDE DEF Piece
<1>1. World \in [Addr -> SUBSET Piece] /\ World[a] = Piece
  BY DEF World
<1> QED BY <1>1 DEF From, Setting

(* What the settings of Peer say.                                          *)
LEMMA FromFields ==
    ASSUME NEW a, NEW h
    PROVE  /\ From(a, h).from = a /\ From(a, h).claims = h
           /\ From(a, h).gains = Piece /\ From(a, h).world = World
BY DEF From

(* Taking the sent messages away leaves the client as it was.              *)
LEMMA EmptiedAdvances ==
    ASSUME NEW s, NEW t, NEW e, Core(s), Moves(s, t, e), RequestServableIn(t),
           Exact => OnlyGivesUp(s, t), e.world = World
    PROVE  /\ Advances(s, Emptied(t))
           /\ Emptied(t).pool = t.pool /\ Emptied(t).alive = t.alive
           /\ Emptied(t).beat = t.beat
<1> DEFINE u == Emptied(t)
<1>1. Core(t) /\ Firm(t, e, {})
  BY DEF Moves, Good
<1>2. /\ u \in NodeType /\ u.out = {}
      /\ u.pool = t.pool /\ u.have = t.have /\ u.request = t.request
      /\ u.offset = t.offset /\ u.retry = t.retry /\ u.alive = t.alive
      /\ u.pending = t.pending /\ u.counts = t.counts
      /\ u.own = t.own /\ u.file = t.file /\ u.beat = t.beat
  BY <1>1 DEF Emptied, Core, NodeType
<1> HIDE DEF u
<1>3. Moves(t, u, e)
  BY <1>1, <1>2, TimersMove
<1>4. Good(s, u)
  BY <1>3, GoodTransitive DEF Moves
<1>5. RequestServableIn(u)
  BY <1>2 DEF RequestServableIn
<1>6. Sound(u, World)
  BY <1>3, <1>5, FirmSound DEF Moves
<1>7. Exact => OnlyGivesUp(s, u)
  BY <1>2 DEF OnlyGivesUp
<1> QED BY <1>2, <1>4, <1>6, <1>7 DEF Advances, u

(* The inductive invariant holds initially.                                *)
LEMMA InitInv == Init => Inv /\ PendingMatches
<1> SUFFICES ASSUME Init PROVE Inv /\ PendingMatches
  OBVIOUS
<1>1. PICK file \in Files : node \in Fresh(file, {})
  BY DEF Init
<1>2. PICK own \in Verified(file) : node \in PostSeeding(StartState(file, own, {}))
  <2> HIDE DEF Piece, Cell
  <2> QED BY <1>1 DEF Fresh
<1>3. file \in [Piece -> SUBSET Cell] /\ \A i \in Piece : file[i] \subseteq Cells(i)
  BY <1>1 DEF Files
<1>4. /\ Core(node) /\ Sound(node, World) /\ node.beat = TRUE
      /\ node.pending = {}
      /\ \A a \in Addr : ~Connected(node, a) /\ node.request[a] = NoPiece
  <2>1. PICK p \in SUBSET Piece :
            p = {} /\ node \in PostSeeding(StartState(file, own, p))
    BY <1>2
  <2>2. file \in [Piece -> SUBSET Cell]
    BY <1>3
  <2>3. \A i \in Piece : file[i] \subseteq Cells(i)
    BY <1>3
  <2> HIDE DEF Piece, Cell
  <2>4. Core(node) /\ Sound(node, World) /\ Started(node, file, own, p)
    BY <2>1, <2>2, <2>3, StartSound
  <2> QED BY <2>1, <2>4 DEF Started
<1>5. inPass = FALSE /\ todo = {} /\ events = 0
  BY DEF Init
<1>6. TypeOK
  <2>1. node \in NodeType
    BY <1>4 DEF Core
  <2>2. inPass \in BOOLEAN /\ todo \in SUBSET Addr
    BY DEF Init
  <2>3. events \in 0 .. MaxEvents
    BY EventsAssumption DEF Init
  <2> QED BY <2>1, <2>2, <2>3 DEF TypeOK
<1>7. PendingMatches
  BY <1>4, TorrentAssumption DEF PendingMatches, PendingMatchesIn
<1>8. ExpirySeen /\ SilentDropped
  BY <1>4, <1>5 DEF ExpirySeen, SilentDropped
<1> QED BY <1>4, <1>6, <1>7, <1>8 DEF Inv

(* The UDP callback: no timer is touched but the sender's.                 *)
LEMMA ReceiveStep ==
    ASSUME Inv, NEW a \in Addr, Receive(a)
    PROVE  /\ Advances(node, node')
           /\ NoneSilenced(node, node') /\ node'.beat = node.beat
<1>1. PICK m \in Messages : \E s \in HandleMessage(node, a, m) : node' = Emptied(s)
  BY DEF Receive, Hearing
<1>2. PICK s \in HandleMessage(node, a, m) : node' = Emptied(s)
  BY <1>1
<1> DEFINE e == From(a, m.have)
<1>3. e \in Setting /\ e.from = a /\ e.claims = m.have /\ e.gains = Piece /\ e.world = World
  BY MessageTypes, FromSetting, FromFields
<1> HIDE DEF e
<1>4. Core(node) /\ Sound(node, World) /\ RequestServableIn(node)
  BY DEF Inv, Sound
<1>5. Firm(node, e, {})
  BY <1>3, <1>4, SoundFirm
<1>6. /\ m.type = "REQUEST" => IsData(m) /\ m.start \in Cells(m.piece)
      /\ m.type = "REPLY" => IsReply(m) /\ m.piece \in e.gains
  BY <1>3, MessageTypes DEF IsReply, IsData
<1>7. Handled(node, s, e) /\ RequestServableIn(s)
  BY <1>2, <1>3, <1>4, <1>5, <1>6, HandleMessageHandled
<1>8. /\ Advances(node, Emptied(s))
      /\ Emptied(s).pool = s.pool /\ Emptied(s).alive = s.alive
      /\ Emptied(s).beat = s.beat
  BY <1>3, <1>4, <1>7, EmptiedAdvances DEF Handled
<1> QED BY <1>2, <1>7, <1>8 DEF Handled, NoneSilenced, Connected

(* Nothing is heard during a pass. *)
Idle(a) == From(a, {})

(* The client at rest is firm, and a firm one is at rest.                  *)
LEMMA IdleFirm ==
    ASSUME NEW a
    PROVE  /\ Inv => Firm(node, Idle(a), {})
           /\ \A t : Firm(t, Idle(a), {}) =>
                 RequestServableIn(t) /\ Sound(t, World)
<1>1. Idle(a).world = World /\ Idle(a).claims = {}
  BY FromFields DEF Idle
<1>2. Inv => Firm(node, Idle(a), {})
  BY <1>1, SoundFirm DEF Inv
<1>3. ASSUME NEW t, Firm(t, Idle(a), {})
      PROVE  RequestServableIn(t) /\ Sound(t, World)
  BY <1>1, <1>3, FirmSound, FirmServable
<1> QED BY <1>2, <1>3

(* nanotorrent_peer_connect.                                               *)
LEMMA ConnectStep ==
    ASSUME Inv, NEW a \in Addr, Connect(a)
    PROVE  /\ Advances(node, node')
           /\ NoneSilenced(node, node') /\ node'.beat = node.beat
<1>1. Core(node) /\ Firm(node, Idle(a), {})
  BY IdleFirm DEF Inv
<1>2. node' = ConnectWith(node, a, "out")
  BY DEF Connect
<1>3. Handled(node, node', Idle(a))
  BY <1>1, <1>2, ConnectFine, FineOnward, OnwardHandled
<1> QED BY <1>3, IdleFirm DEF Handled, Moves, Advances

(* An expiring timer changes nothing but itself.                           *)
LEMMA TimerStep ==
    ASSUME Inv, Timers
    PROVE  Advances(node, node')
<1>1. Core(node) /\ Firm(node, Idle(0), {}) /\ node \in NodeType
  BY IdleFirm DEF Inv, Core
<1>2. ASSUME node' \in NodeType,
             node'.pool = node.pool, node'.have = node.have,
             node'.request = node.request, node'.offset = node.offset,
             node'.pending = node.pending, node'.counts = node.counts,
             node'.own = node.own, node'.file = node.file,
             node'.out = node.out,
             \A b \in Addr : \/ node'.retry[b] = node.retry[b]
                             \/ node'.retry[b] = RetryStop(node.retry[b])
      PROVE  Advances(node, node')
  <2>1. Moves(node, node', Idle(0)) /\ OnlyGivesUp(node, node')
    BY <1>1, <1>2, TimersMove
  <2> QED BY <2>1, IdleFirm DEF Moves, Advances
<1>3. CASE HeartbeatExpires
  <2>1. node' = [node EXCEPT !.beat = FALSE]
    BY <1>3 DEF HeartbeatExpires
  <2> QED BY <1>1, <1>2, <2>1 DEF NodeType
<1>4. ASSUME NEW a \in Addr, ConnHeartbeatExpires(a)
      PROVE  Advances(node, node')
  <2>1. node' = [node EXCEPT !.alive[a] = FALSE]
    BY <1>4 DEF ConnHeartbeatExpires
  <2> QED BY <1>1, <1>2, <2>1 DEF NodeType
<1>5. ASSUME NEW a \in Addr, RequestTimerExpires(a)
      PROVE  Advances(node, node')
  <2>1. node' = [node EXCEPT !.retry[a] = RetryStop(node.retry[a])]
    BY <1>5 DEF RequestTimerExpires
  <2>2. RetryStop(node.retry[a]) \in RetryRecord(MaxRetries)
    BY <1>1, RetryTypes DEF NodeType
  <2> QED BY <1>1, <1>2, <2>1, <2>2 DEF NodeType
<1> QED BY <1>3, <1>4, <1>5 DEF Timers

(* A pass visits a connection: afterwards it is not silent any more.       *)
LEMMA VisitStep ==
    ASSUME Inv, NEW a \in Addr, Visit(a)
    PROVE  /\ Advances(node, node')
           /\ NoneSilenced(node, node') /\ node'.beat = node.beat
           /\ Connected(node', a) => node'.alive[a]
<1>1. PICK s \in VisitConn(node, a) : node' = Emptied(s)
  BY DEF Visit
<1>2. Idle(a) \in Setting /\ Idle(a).claims = {} /\ Idle(a).world = World
  BY FromSetting, FromFields DEF Idle
<1>3. Core(node) /\ Firm(node, Idle(a), {})
  BY IdleFirm DEF Inv
<1>4. Handled(node, s, Idle(a)) /\ (Connected(s, a) => s.alive[a])
  BY <1>1, <1>2, <1>3, VisitConnHandled
<1>5. RequestServableIn(s)
  BY <1>4, IdleFirm DEF Handled, Moves
<1>6. /\ Advances(node, Emptied(s))
      /\ Emptied(s).pool = s.pool /\ Emptied(s).alive = s.alive
      /\ Emptied(s).beat = s.beat
  BY <1>2, <1>3, <1>4, <1>5, EmptiedAdvances DEF Handled
<1> QED BY <1>1, <1>4, <1>6 DEF Handled, NoneSilenced, Connected

(* The end of a pass: the client's heartbeat runs again.                   *)
LEMMA EndPassStep ==
    ASSUME Inv, EndPass
    PROVE  /\ Advances(node, node')
           /\ NoneSilenced(node, node') /\ node'.beat = TRUE
<1>1. PICK s \in FinishPass(node) : node' = Emptied(s)
  BY DEF EndPass
<1>2. Core(node) /\ Firm(node, Idle(0), {}) /\ Idle(0).world = World
  BY IdleFirm, FromFields DEF Inv, Idle
<1>3. /\ Moves(node, s, Idle(0)) /\ NoneSilenced(node, s) /\ s.beat = TRUE
      /\ Exact => OnlyGivesUp(node, s)
  BY <1>1, <1>2, FinishPassMoves
<1>4. RequestServableIn(s)
  BY <1>3, IdleFirm DEF Moves
<1>5. /\ Advances(node, Emptied(s))
      /\ Emptied(s).pool = s.pool /\ Emptied(s).alive = s.alive
      /\ Emptied(s).beat = s.beat
  BY <1>2, <1>3, <1>4, EmptiedAdvances
<1> QED BY <1>1, <1>3, <1>5 DEF NoneSilenced, Connected

(* Every step keeps the client's invariant and its verified pieces, and    *)
(* gives no received data up before the last retry.                        *)
LEMMA NodeStep ==
    ASSUME Inv, [Next]_vars
    PROVE  Advances(node, node')
<1>1. CASE StartPass \/ UNCHANGED vars
  <2>1. node' = node
    BY <1>1 DEF StartPass, vars
  <2>2. Core(node) /\ Firm(node, Idle(0), {})
    BY IdleFirm DEF Inv
  <2>3. Handled(node, node, Idle(0))
    BY <2>2, FineReflexive, FineOnward, OnwardHandled
  <2> QED BY <2>1, <2>3 DEF Inv, Handled, Moves, Advances
<1> QED BY <1>1, ReceiveStep, ConnectStep, TimerStep, VisitStep, EndPassStep
        DEF Next, Pass

(* No expired timer is lost, and no pass leaves a silent connection.       *)
LEMMA SilenceStep ==
    ASSUME Inv, [Next]_vars
    PROVE  ExpirySeen' /\ SilentDropped'
<1>1. ExpirySeen /\ SilentDropped /\ events \in Nat /\ todo \subseteq Addr
  BY EventsAssumption DEF Inv, TypeOK
<1>2. ASSUME NEW a \in Addr, Receive(a) \/ Connect(a)
      PROVE  ExpirySeen' /\ SilentDropped'
  <2>1. NoneSilenced(node, node') /\ node'.beat = node.beat
    BY <1>2, ReceiveStep, ConnectStep
  <2>2. ~inPass /\ ~inPass' /\ events' = events
    BY <1>2 DEF Receive, Connect
  <2> QED BY <1>1, <2>1, <2>2 DEF ExpirySeen, SilentDropped, NoneSilenced
<1>3. CASE Timers
  <2>1. ~inPass' /\ events' > 0
    BY <1>1, <1>3 DEF Timers, HeartbeatExpires, ConnHeartbeatExpires,
                      RequestTimerExpires, QueueTimerEvent
  <2> QED BY <2>1 DEF ExpirySeen, SilentDropped
<1>4. CASE StartPass
  <2>1. inPass' /\ todo' = {a \in Addr : Connected(node, a)} /\ node' = node
    BY <1>4 DEF StartPass
  <2> QED BY <2>1 DEF ExpirySeen, SilentDropped
<1>5. ASSUME NEW a \in Addr, Visit(a)
      PROVE  ExpirySeen' /\ SilentDropped'
  <2>1. /\ NoneSilenced(node, node')
        /\ Connected(node', a) => node'.alive[a]
    BY <1>5, VisitStep
  <2>2. inPass /\ inPass' /\ todo' = todo \ {a}
    BY <1>5 DEF Visit
  <2> QED BY <1>1, <2>1, <2>2 DEF ExpirySeen, SilentDropped, NoneSilenced
<1>6. CASE EndPass
  <2>1. NoneSilenced(node, node') /\ node'.beat = TRUE
    BY <1>6, EndPassStep
  <2>2. inPass /\ ~inPass' /\ todo = {}
    BY <1>6 DEF EndPass
  <2> QED BY <1>1, <2>1, <2>2 DEF ExpirySeen, SilentDropped, NoneSilenced
<1>7. CASE UNCHANGED vars
  BY <1>1, <1>7 DEF vars, ExpirySeen, SilentDropped
<1> QED BY <1>2, <1>3, <1>4, <1>5, <1>6, <1>7 DEF Next, Pass

(* The inductive invariant is kept by every step, and while there is no    *)
(* restart the pending pieces match the requests.                          *)
LEMMA NextInv ==
    Inv /\ [Next]_vars => Inv' /\ (PendingMatches => PendingMatches')
<1> SUFFICES ASSUME Inv, [Next]_vars PROVE Inv' /\ (PendingMatches => PendingMatches')
  OBVIOUS
<1>1. /\ Core(node') /\ node' \in NodeType /\ Sound(node', World)
      /\ PendingMatches => PendingMatches'
  <2>1. Good(node, node') /\ Sound(node', World)
    BY NodeStep DEF Inv, Advances
  <2> QED BY <2>1 DEF Good, Core, PendingKept, PendingMatches
<1>2. inPass' \in BOOLEAN /\ todo' \in SUBSET Addr /\ events' \in 0 .. MaxEvents
  <2>1. inPass \in BOOLEAN /\ todo \in SUBSET Addr /\ events \in 0 .. MaxEvents
    BY DEF Inv, TypeOK
  <2>2. MaxEvents \in Nat
    BY EventsAssumption
  <2>3. CASE UNCHANGED <<inPass, todo, events>>
    BY <2>1, <2>3
  <2>4. CASE QueueTimerEvent
    BY <2>1, <2>2, <2>4 DEF QueueTimerEvent
  <2>5. CASE StartPass
    BY <2>1, <2>2, <2>5 DEF StartPass
  <2>6. ASSUME NEW a \in Addr, Visit(a)
        PROVE  inPass' \in BOOLEAN /\ todo' \in SUBSET Addr /\ events' \in 0 .. MaxEvents
    BY <2>1, <2>6 DEF Visit
  <2>7. CASE EndPass
    BY <2>1, <2>7 DEF EndPass
  <2> QED
    BY <2>3, <2>4, <2>5, <2>6, <2>7
       DEF Next, Timers, Pass, Receive, Connect, ConnHeartbeatExpires,
           RequestTimerExpires, HeartbeatExpires, vars
<1>3. ExpirySeen' /\ SilentDropped'
  BY SilenceStep
<1> QED BY <1>1, <1>2, <1>3 DEF Inv, TypeOK

(* A restart: the connections, requests and timers are gone, and the pieces*)
(* are those found in the file.                                            *)
LEMMA RestartStep ==
    ASSUME Inv, Restart
    PROVE  /\ Inv'
           /\ Unreadable = {} => KeepsVerified(node, node')
           /\ \A a \in Addr : node'.request[a] = NoPiece
<1>1. /\ Core(node) /\ node \in NodeType /\ FilesIn(node)
      /\ inPass = FALSE /\ todo \in SUBSET Addr /\ events \in 0 .. MaxEvents
  BY DEF Inv, TypeOK, Sound, Restart
<1>2. PICK own \in Verified(node.file) :
          node' \in PostSeeding(StartState(node.file, own, node.pending))
  <2> HIDE DEF Piece, Cell
  <2> QED BY DEF Restart, Fresh
<1>3. /\ Core(node') /\ Sound(node', World)
      /\ Started(node', node.file, own, node.pending)
  <2>1. /\ node.file \in [Piece -> SUBSET Cell] /\ node.pending \in SUBSET Piece
        /\ \A i \in Piece : node.file[i] \subseteq Cells(i)
    BY <1>1 DEF NodeType, FilesIn
  <2> HIDE DEF Piece, Cell
  <2> QED BY <1>2, <2>1, StartSound
<1>4. UNCHANGED <<inPass, todo, events>>
  BY DEF Restart
<1>5. TypeOK'
  BY <1>1, <1>3, <1>4 DEF Core, TypeOK
<1>6. ExpirySeen' /\ SilentDropped'
  BY <1>1, <1>3, <1>4 DEF Started, ExpirySeen, SilentDropped
<1>7. ASSUME Unreadable = {}
      PROVE  KeepsVerified(node, node')
  <2>1. node.own \subseteq Piece /\ \A i \in node.own : node.file[i] = Cells(i)
    BY <1>1 DEF Core, NodeType, OwnVerifiedIn
  <2>2. \A i \in Piece : i \in own <=> node.file[i] = Cells(i)
    BY <1>2, <1>7 DEF Verified
  <2>3. node'.own = own /\ node'.file = node.file
    BY <1>3 DEF Started
  <2> HIDE DEF Piece
  <2> QED BY <2>1, <2>2, <2>3 DEF KeepsVerified
<1>8. \A a \in Addr : node'.request[a] = NoPiece
  BY <1>3 DEF Started
<1> QED BY <1>3, <1>5, <1>6, <1>7, <1>8 DEF Inv

(* What a client does without restarts it can also do when it may restart: *)
(* what is shown of RestartSpec holds of Spec.                             *)
LEMMA RestartsAllowed == Spec => RestartSpec
<1>1. [Next]_vars => [Next \/ Restart]_vars
  OBVIOUS
<1> QED BY <1>1, PTL DEF Spec, RestartSpec

(* The inductive invariant holds in every reachable state, however often   *)
(* the client was restarted.                                               *)
THEOREM Invariance == RestartSpec => []Inv
<1>1. Inv /\ [Next \/ Restart]_vars => Inv'
  BY NextInv, RestartStep
<1> QED BY <1>1, InitInv, PTL DEF RestartSpec

-----------------------------------------------------------------------------
(* What follows from the inductive invariant.  RestartSpec says that it    *)
(* holds however often the client was stopped and started again.           *)

(* Type correctness of a client, for any number of peers and pieces, any   *)
(* pool sizes, with or without failing file operations.                    *)
THEOREM TypeCorrect == RestartSpec => []TypeOK
<1>1. Inv => TypeOK
  BY DEF Inv
<1> QED BY Invariance, <1>1, PTL

(* pending_pieces is the set of requested pieces (peer.c:35), as long as   *)
(* the client is not restarted.                                            *)
THEOREM PendingCorrect == Spec => []PendingMatches
BY Invariance, RestartsAllowed, InitInv, NextInv, PTL DEF Spec

(* Requests belong to open connections and to missing pieces (peer.c:416). *)
THEOREM RequestsCorrect == RestartSpec => []RequestsUnheld
<1>1. Inv => RequestsUnheld
  BY DEF Inv, Core, RequestsUnheld
<1> QED BY Invariance, <1>1, PTL

(* A client never announces or serves a piece it has not verified.         *)
THEOREM OwnCorrect == RestartSpec => []OwnVerified
<1>1. Inv => OwnVerified
  BY DEF Inv, Core, OwnVerified
<1> QED BY Invariance, <1>1, PTL

(* The piece counts behind rarest-first are exact (piece-select.c:24-41).  *)
THEOREM CountsCorrect == RestartSpec => []CountsMatch
<1>1. Inv => CountsMatch
  BY DEF Inv, Core, CountsMatch
<1> QED BY Invariance, <1>1, PTL

(* Two connections fetch the same piece in the end game only, for any      *)
(* number of peers (piece-select.c:43-64).                                 *)
THEOREM NoDuplicates == RestartSpec => []NoDuplicateRequest
<1>1. Inv => NoDuplicateRequest
  BY DEF Inv, Sound, NoDuplicateRequest
<1> QED BY Invariance, <1>1, PTL

(* A request goes to a peer known to have the piece, also when overheard   *)
(* data made it (peer.c:371-391).                                          *)
THEOREM ServableCorrect == RestartSpec => []RequestServable
<1>1. Inv => RequestServable
  BY DEF Inv, Sound, RequestServable
<1> QED BY Invariance, <1>1, PTL

(* The bytes below a request's offset are in the file when an offset fits  *)
(* in the uint8_t of piece_read and piece_write (piece.c:107,119), even if *)
(* file operations fail.  With larger pieces it is false: run peer_wide.   *)
THEOREM PrefixCorrect ==
    ASSUME PieceLength <= OffsetRange
    PROVE  RestartSpec => []PrefixWritten
<1>1. Inv => PrefixWritten
  BY DEF Inv, Sound, NoWrap, PrefixWritten
<1> QED BY Invariance, <1>1, PTL

(* Every request has a running or a due retry (peer.c:386).  A file that   *)
(* cannot be written breaks this for overheard data: receive_data, which   *)
(* starts the retry, is not reached then.                                  *)
THEOREM KeptAliveCorrect ==
    ASSUME ~FlakyStorage
    PROVE  RestartSpec => []RequestKeptAlive
<1>1. Inv => RequestKeptAlive
  BY DEF Inv, Sound, RequestKeptAlive
<1> QED BY Invariance, <1>1, PTL

(* While an expired heartbeat waits, a TIMER event or a pass will see it.  *)
THEOREM ExpiryCorrect == RestartSpec => []ExpirySeen
<1>1. Inv => ExpirySeen
  BY DEF Inv
<1> QED BY Invariance, <1>1, PTL

(* A pass leaves no silent connection behind (peer.c:708-712).             *)
THEOREM SilentCorrect == RestartSpec => []SilentDropped
<1>1. Inv => SilentDropped
  BY DEF Inv
<1> QED BY Invariance, <1>1, PTL

(* Late data, duplicates and rivals do not cost a client a verified piece, *)
(* even when verifying a piece may fail (peer.c:593-625).                  *)
THEOREM VerifiedStays == Spec => VerifiedForever
<1>1. Inv /\ [Next]_vars => [KeepsVerified(node, node')]_vars
  BY NodeStep DEF Advances, Good
<1> QED BY Invariance, RestartsAllowed, <1>1, PTL DEF Spec, VerifiedForever

(* Nor does a restart, unless verify_all fails to read a piece.            *)
THEOREM VerifiedRestarted ==
    ASSUME Unreadable = {}
    PROVE  RestartSpec => VerifiedForever
<1>1. Inv /\ [Next \/ Restart]_vars => [KeepsVerified(node, node')]_vars
  BY NodeStep, RestartStep DEF Advances, Good
<1> QED BY Invariance, <1>1, PTL DEF RestartSpec, VerifiedForever

(* Received bytes of a request are given up only with the last retry, or   *)
(* when the whole piece came and could not be verified, if offsets do not  *)
(* wrap and writing does not fail: a partial write or a wrapped offset may *)
(* take a request back.                                                    *)
THEOREM NoBackwards ==
    ASSUME PieceLength <= OffsetRange, ~FlakyStorage
    PROVE  RestartSpec => NoBacktracking
<1> DEFINE Step ==
        \A a \in Addr :
            node.request[a] # NoPiece /\ node'.request[a] = node.request[a]
            /\ node'.offset[a] < node.offset[a]
                => \/ node.retry[a].num = MaxRetries
                   \/ Cells(node.request[a]) \subseteq node'.file[node.request[a]]
<1>1. Inv /\ [Next \/ Restart]_vars => [Step]_vars
  BY NodeStep, RestartStep DEF Advances, OnlyGivesUp, Exact, NoWrap
<1> QED BY Invariance, <1>1, PTL DEF RestartSpec, NoBacktracking
=============================================================================
