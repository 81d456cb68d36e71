--------------------------- MODULE ExchangeProofs ---------------------------
(***************************************************************************)
(* Proofs about several clients over one network, for any number of        *)
(* clients and pieces, any links, and any loss, repetition and reordering. *)
(***************************************************************************)
EXTENDS Exchange, NodeProofs, WellFoundedInduction, NaturalsInduction

-----------------------------------------------------------------------------
(* The process loop visits its connections in any order.  Visiting is a    *)
(* recursive function; that it exists is shown for subsets of growing size.*)

AfterVisit(s, f, done) ==
    IF done = {} THEN {s}
    ELSE UNION {UNION {VisitConn(t, a) : t \in f[done \ {a}]} : a \in done}

UpTo(todo, n) == {done \in SUBSET todo : Cardinality(done) <= n}

Follows(s, f, D) == f = [done \in D |-> AfterVisit(s, f, done)]

Partly(s, todo, n) == \E f : Follows(s, f, UpTo(todo, n))

(* A set of natural numbers that is not empty has a least element.         *)
LEMMA LeastElement ==
    ASSUME NEW T \in SUBSET Nat, T # {}
    PROVE  \E n \in T : \A k \in T : n <= k
<1>1. PICK n \in T : \A k \in T : ~(<<k, n>> \in OpToRel(<, Nat))
  BY NatLessThanWellFounded, WFMin
<1>2. \A k \in T : ~(k < n)
  BY <1>1 DEF OpToRel
<1>3. \A k \in T : n <= k
  BY <1>2
<1> QED BY <1>3

(* Visits of one more connection are defined when those of fewer are.      *)
LEMMA PartlyGrows ==
    ASSUME NEW s, NEW todo \in SUBSET Addr, NEW n \in Nat, Partly(s, todo, n)
    PROVE  Partly(s, todo, n + 1)
<1>1. PICK f : Follows(s, f, UpTo(todo, n))
  BY DEF Partly
<1> DEFINE g == [done \in UpTo(todo, n + 1) |-> AfterVisit(s, f, done)]
<1>2. ASSUME NEW done \in UpTo(todo, n + 1), NEW a \in done
      PROVE  g[done \ {a}] = f[done \ {a}]
  <2>1. IsFiniteSet(done)
    BY AddrAssumption, FS_Subset DEF UpTo
  <2>2. Cardinality(done \ {a}) = Cardinality(done) - 1 /\ Cardinality(done) \in Nat
    BY <2>1, FS_RemoveElement, FS_CardinalityType
  <2>3. done \ {a} \in UpTo(todo, n) /\ done \ {a} \in UpTo(todo, n + 1)
    BY <2>2 DEF UpTo
  <2>4. g[done \ {a}] = AfterVisit(s, f, done \ {a})
    BY <2>3
  <2>5. f[done \ {a}] = AfterVisit(s, f, done \ {a})
    BY <1>1, <2>3 DEF Follows
  <2> QED BY <2>4, <2>5
<1>3. \A done \in UpTo(todo, n + 1) : AfterVisit(s, g, done) = AfterVisit(s, f, done)
  <2> TAKE done \in UpTo(todo, n + 1)
  <2> HIDE DEF g
  <2> DEFINE G(a) == UNION {VisitConn(t, a) : t \in g[done \ {a}]}
             F(a) == UNION {VisitConn(t, a) : t \in f[done \ {a}]}
  <2>1. \A a \in done : G(a) = F(a)
    BY <1>2
  <2>2. /\ AfterVisit(s, g, done) = IF done = {} THEN {s} ELSE UNION {G(a) : a \in done}
        /\ AfterVisit(s, f, done) = IF done = {} THEN {s} ELSE UNION {F(a) : a \in done}
    BY DEF AfterVisit
  <2> HIDE DEF G, F
  <2>3. {G(a) : a \in done} = {F(a) : a \in done}
    BY <2>1
  <2> QED BY <2>2, <2>3
<1>4. Follows(s, g, UpTo(todo, n + 1))
  <2>1. g = [done \in UpTo(todo, n + 1) |-> AfterVisit(s, f, done)]
    OBVIOUS
  <2> HIDE DEF g
  <2> QED BY <1>3, <2>1 DEF Follows
<1> QED BY <1>4 DEF Partly

(* Visiting satisfies its recursive definition.                            *)
LEMMA VisitingDefined ==
    ASSUME NEW s, NEW todo \in SUBSET Addr
    PROVE  Follows(s, Visiting(s, todo), SUBSET todo)
<1>1. Partly(s, todo, 0)
  <2> DEFINE g == [done \in UpTo(todo, 0) |-> {s}]
  <2>1. \A done \in UpTo(todo, 0) : done = {}
    <3> TAKE done \in UpTo(todo, 0)
    <3>1. IsFiniteSet(done)
      BY AddrAssumption, FS_Subset DEF UpTo
    <3>2. Cardinality(done) = 0
      BY <3>1, FS_CardinalityType DEF UpTo
    <3> QED BY <3>1, <3>2, FS_EmptySet
  <2>2. Follows(s, g, UpTo(todo, 0))
    BY <2>1 DEF Follows, AfterVisit
  <2> QED BY <2>2 DEF Partly
<1>2. \A n \in Nat : Partly(s, todo, n)
  <2> DEFINE T == {n \in Nat : ~Partly(s, todo, n)}
  <2> SUFFICES ASSUME T # {} PROVE FALSE
    OBVIOUS
  <2>1. PICK n \in T : \A k \in T : n <= k
    BY LeastElement
  <2>2. n # 0 /\ n \in Nat
    BY <1>1
  <2>3. n - 1 \in Nat /\ n - 1 \notin T
    BY <2>1, <2>2
  <2>4. Partly(s, todo, (n - 1) + 1)
    BY <2>3, PartlyGrows
  <2> QED BY <2>2, <2>4
<1>3. \E f : Follows(s, f, SUBSET todo)
  <2>1. IsFiniteSet(todo)
    BY AddrAssumption, FS_Subset
  <2>2. Cardinality(todo) \in Nat
    BY <2>1, FS_CardinalityType
  <2>3. UpTo(todo, Cardinality(todo)) = SUBSET todo
    BY <2>1, FS_Subset DEF UpTo
  <2> QED BY <1>2, <2>2, <2>3 DEF Partly
<1>4. Visiting(s, todo) = CHOOSE f : Follows(s, f, SUBSET todo)
  BY DEF Visiting, Follows, AfterVisit
<1> QED BY <1>3, <1>4

(* What VisitAll leaves behind, one connection at a time.                  *)
LEMMA VisitingSteps ==
    ASSUME NEW s, NEW todo \in SUBSET Addr, NEW done \in SUBSET todo,
           NEW t \in Visiting(s, todo)[done]
    PROVE  IF done = {} THEN t = s
           ELSE \E a \in done : \E u \in Visiting(s, todo)[done \ {a}] : t \in VisitConn(u, a)
<1>1. Visiting(s, todo)[done] = AfterVisit(s, Visiting(s, todo), done)
  <2> DEFINE V == Visiting(s, todo)
  <2>1. Follows(s, V, SUBSET todo)
    BY VisitingDefined
  <2> HIDE DEF V
  <2>2. V[done] = AfterVisit(s, V, done)
    BY <2>1 DEF Follows
  <2> QED BY <2>2 DEF V
<1>2. CASE done = {}
  BY <1>1, <1>2 DEF AfterVisit
<1>3. CASE done # {}
  <2> DEFINE V == Visiting(s, todo)
  <2> HIDE DEF V
  <2>1. t \in UNION {UNION {VisitConn(u, a) : u \in V[done \ {a}]} : a \in done}
    BY <1>1, <1>3 DEF AfterVisit, V
  <2>2. \E a \in done : \E u \in V[done \ {a}] : t \in VisitConn(u, a)
    BY <2>1
  <2> QED BY <1>3, <2>2 DEF V
<1> QED BY <1>2, <1>3

-----------------------------------------------------------------------------
(* A pass of the process loop. *)

(* Two moves in a row are a move while nothing is heard.                   *)
LEMMA MovesTransitive ==
    ASSUME NEW e, e.claims = {}, NEW s, NEW t, NEW u,
           Moves(s, t, e), Moves(t, u, e)
    PROVE  Moves(s, u, e)
<1>1. Good(s, u)
  BY GoodTransitive DEF Moves
<1>2. HavesMove(s, u, e)
  BY DEF Moves, HavesMove
<1> QED BY <1>1, <1>2 DEF Moves

(* Visiting the connections, in any order, is a move.                      *)
LEMMA VisitAllMoves ==
    ASSUME NEW e \in Setting, e.claims = {}, NEW s, Core(s), Firm(s, e, {}),
           NEW todo \in SUBSET Addr, NEW t \in VisitAll(s, todo)
    PROVE  Moves(s, t, e)
<1> DEFINE V == Visiting(s, todo)
           T == {n \in Nat : \E done \in SUBSET todo :
                    Cardinality(done) = n /\ \E u \in V[done] : ~Moves(s, u, e)}
<1>1. t \in V[todo]
  BY DEF VisitAll
<1>2. \A done \in SUBSET todo : IsFiniteSet(done) /\ Cardinality(done) \in Nat
  BY AddrAssumption, FS_Subset, FS_CardinalityType
<1>3. \A done \in SUBSET todo : \A u \in V[done] :
          IF done = {} THEN u = s
          ELSE \E a \in done : \E w \in V[done \ {a}] : u \in VisitConn(w, a)
  BY VisitingSteps
<1> HIDE DEF V
<1>4. T = {}
  <2> SUFFICES ASSUME T # {} PROVE FALSE
    OBVIOUS
  <2>1. PICK n \in T : \A k \in T : n <= k
    BY LeastElement
  <2>2. PICK done \in SUBSET todo :
            Cardinality(done) = n /\ \E u \in V[done] : ~Moves(s, u, e)
    BY <2>1
  <2>3. PICK u \in V[done] : ~Moves(s, u, e)
    BY <2>2
  <2>4. CASE done = {}
    <3>1. u = s
      BY <1>3, <2>4
    <3>2. Moves(s, s, e)
      BY FineReflexive, FineOnward DEF Onward
    <3> QED BY <2>3, <3>1, <3>2
  <2>5. CASE done # {}
    <3>1. PICK a \in done : \E w \in V[done \ {a}] : u \in VisitConn(w, a)
      BY <1>3, <2>5
    <3>2. PICK w \in V[done \ {a}] : u \in VisitConn(w, a)
      BY <3>1
    <3>3. Cardinality(done \ {a}) = n - 1 /\ n - 1 \in Nat
      <4>1. Cardinality(done \ {a}) = Cardinality(done) - 1
        BY <1>2, FS_RemoveElement
      <4>2. Cardinality(done \ {a}) \in Nat
        BY <1>2
      <4> QED BY <2>2, <4>1, <4>2
    <3>4. n - 1 \notin T
      BY <2>1, <3>3
    <3>5. Moves(s, w, e)
      BY <3>3, <3>4
    <3>6. Handled(w, u, e)
      BY <3>2, <3>5, VisitConnHandled DEF Moves, Good
    <3>7. Moves(s, u, e)
      BY <3>5, <3>6, MovesTransitive DEF Handled
    <3> QED BY <2>3, <3>7
  <2> QED BY <2>4, <2>5
<1> QED BY <1>1, <1>2, <1>4

-----------------------------------------------------------------------------
(* The clients and the network. *)

Worlds == [Addr -> SUBSET Piece]

(* The clients n and the network k are sound when no client claims more    *)
(* than W says.                                                            *)
Fits(n, k, W) ==
    /\ n \in [Addr -> NodeType]
    /\ \A c \in Addr : /\ Core(n[c]) /\ Sound(n[c], W) /\ n[c].out = {}
                       /\ n[c].own \subseteq W[c]
    /\ k \in [Links -> SUBSET Message]
    /\ \A l \in Links : \A m \in k[l] :
          Reaches(m, l[2]) /\ Honest(m, W[l[1]], W)

(* Client c becomes s, and what it sent may be on its way. *)
Handed(c, s) ==
    /\ node' = [node EXCEPT ![c] = Emptied(s)]
    /\ net' \in [Links -> SUBSET Message]
    /\ \A l \in Links :
          net'[l] \subseteq net[l] \cup (IF l[1] = c THEN SentTo(s.out, l[2]) ELSE {})

(* One client takes a step, in which it gets at most one piece, and that   *)
(* from another client.                                                    *)
ClientStep(W) ==
    \E c \in Addr, e \in Setting, s \in NodeType :
        /\ Moves(node[c], s, e)
        /\ RequestServableIn(s)
        /\ Handed(c, s)
        /\ e.world = W
        /\ \/ e.gains = {}
           \/ \E d \in Addr \ {c} : \E i \in W[d] : e.gains = {i}

(* What is honest stays so when clients gain pieces.                       *)
LEMMA HonestGrows ==
    ASSUME NEW W, NEW X, \A a \in Addr : W[a] \subseteq X[a],
           NEW p, NEW q, p \subseteq q, NEW m, Honest(m, p, W)
    PROVE  Honest(m, q, X)
BY DEF Honest

(* So does a sound client.                                                 *)
LEMMA SoundGrows ==
    ASSUME NEW W, NEW X, \A a \in Addr : W[a] \subseteq X[a],
           NEW s, Sound(s, W)
    PROVE  Sound(s, X)
BY HonestGrows DEF Sound

(* A client that becomes a sound one, and hands on what it sent, keeps all *)
(* clients and the network sound.                                          *)
LEMMA HandedFits ==
    ASSUME NEW W \in Worlds, NEW X \in Worlds, \A a \in Addr : W[a] \subseteq X[a],
           Fits(node, net, W), NEW c \in Addr, NEW s, Core(s), Sound(s, W),
           s.own \subseteq X[c], Handed(c, s)
    PROVE  /\ Fits(node', net', X)
           /\ node'[c].own = s.own /\ node'[c].have = s.have
           /\ node'[c].file = s.file
           /\ \A a \in Addr \ {c} : node'[a] = node[a]
<1> DEFINE t == Emptied(s)
<1>1. /\ t \in NodeType /\ t.out = {}
      /\ t.pool = s.pool /\ t.have = s.have /\ t.request = s.request
      /\ t.offset = s.offset /\ t.retry = s.retry
      /\ t.pending = s.pending /\ t.counts = s.counts /\ t.own = s.own
      /\ t.file = s.file
  BY DEF Emptied, Core, NodeType
<1>2. node' = [node EXCEPT ![c] = t] /\ node \in [Addr -> NodeType]
  BY DEF Handed, Fits
<1> HIDE DEF t
<1>3. Core(t)
  BY <1>1, CoreFrame DEF Good
<1>4. Sound(t, X)
  <2>1. Sound(t, W)
    BY <1>1 DEF Sound, NoDuplicateRequestIn, EndGame, RequestServableIn, FilesIn,
                OffsetsWithinIn, PrefixWrittenIn, RequestKeptAliveIn
  <2> QED BY <2>1, SoundGrows
<1>5. node'[c] = t /\ \A a \in Addr \ {c} : node'[a] = node[a]
  BY <1>2
<1>6. \A a \in Addr : /\ Core(node'[a]) /\ Sound(node'[a], X) /\ node'[a].out = {}
                      /\ node'[a].own \subseteq X[a]
  <2> SUFFICES ASSUME NEW a \in Addr
               PROVE  /\ Core(node'[a]) /\ Sound(node'[a], X) /\ node'[a].out = {}
                      /\ node'[a].own \subseteq X[a]
    OBVIOUS
  <2>1. CASE a = c
    BY <1>1, <1>3, <1>4, <1>5, <2>1
  <2>2. CASE a # c
    <3>1. /\ Core(node[a]) /\ Sound(node[a], W) /\ node[a].out = {}
          /\ node[a].own \subseteq W[a]
      BY DEF Fits
    <3>2. W[a] \subseteq X[a]
      OBVIOUS
    <3> QED BY <1>5, <2>2, <3>1, <3>2, SoundGrows
  <2> QED BY <2>1, <2>2
<1>7. \A l \in Links : \A m \in net'[l] :
          Reaches(m, l[2]) /\ Honest(m, X[l[1]], X)
  <2> SUFFICES ASSUME NEW l \in Links, NEW m \in net'[l]
               PROVE  Reaches(m, l[2]) /\ Honest(m, X[l[1]], X)
    OBVIOUS
  <2>1. l[1] \in Addr
    BY DEF Links
  <2>2. CASE m \in net[l]
    <3>1. Reaches(m, l[2]) /\ Honest(m, W[l[1]], W)
      BY <2>2 DEF Fits
    <3>2. W[l[1]] \subseteq X[l[1]]
      BY <2>1
    <3> QED BY <3>1, <3>2, HonestGrows
  <2>3. CASE l[1] = c /\ m \in SentTo(s.out, l[2])
    <3>1. Reaches(m, l[2]) /\ Honest(m, s.own, W)
      BY <2>3 DEF SentTo, Sound
    <3> QED BY <2>3, <3>1, HonestGrows
  <2> QED BY <2>2, <2>3 DEF Handed
<1>8. node' \in [Addr -> NodeType] /\ net' \in [Links -> SUBSET Message]
  BY <1>1, <1>2 DEF Handed
<1> QED BY <1>1, <1>5, <1>6, <1>7, <1>8 DEF Fits

(* Transmit hands on what the client sent, or less.                        *)
LEMMA TransmitHanded ==
    ASSUME NEW c \in Addr, NEW s, s.out \in SUBSET Message,
           NEW flight, flight \in [Links -> SUBSET Message],
           \A l \in Links : flight[l] \subseteq net[l],
           Transmit(c, s, flight)
    PROVE  Handed(c, s)
<1>1. \A l \in Links :
          net'[l] = IF l[1] = c THEN Queued(flight[l], SentTo(s.out, l[2]))
                    ELSE flight[l]
  BY DEF Transmit
<1>2. \A l \in Links : /\ flight[l] \in SUBSET Message
                       /\ SentTo(s.out, l[2]) \in SUBSET Message
  BY DEF SentTo
<1>3. \A l \in Links :
          /\ net'[l] \in SUBSET Message
          /\ net'[l] \subseteq net[l] \cup (IF l[1] = c THEN SentTo(s.out, l[2]) ELSE {})
  BY <1>1, <1>2 DEF Queued
<1>4. net' \in [Links -> SUBSET Message]
  BY <1>3 DEF Transmit
<1> QED BY <1>3, <1>4 DEF Handed, Transmit

(* So does a client that changes without sending.                          *)
LEMMA BecomesHanded ==
    ASSUME NEW W, Fits(node, net, W), NEW c \in Addr,
           NEW s \in NodeType, s.out = {}, Becomes(c, s)
    PROVE  Handed(c, s)
<1>1. s = Emptied(s)
  BY DEF Emptied, NodeType
<1> QED BY <1>1 DEF Becomes, Handed, Fits

(* A setting in which client c hears nothing. *)
Quietly(c, W) == [from |-> c, claims |-> {}, gains |-> {}, world |-> W]

(* It is one.                                                              *)
LEMMA QuietlySetting ==
    ASSUME NEW W \in Worlds, NEW c \in Addr
    PROVE  /\ Quietly(c, W) \in Setting
           /\ Quietly(c, W).claims = {} /\ Quietly(c, W).gains = {}
           /\ Quietly(c, W).world = W /\ Quietly(c, W).from = c
BY DEF Quietly, Setting, Worlds

(* A client that is at rest is firm in any setting of its world.           *)
LEMMA FitsFirm ==
    ASSUME NEW W, Fits(node, net, W), NEW c \in Addr, NEW e, e.world = W
    PROVE  /\ Core(node[c]) /\ Firm(node[c], e, {})
           /\ RequestServableIn(node[c]) /\ node[c] \in NodeType
<1>1. Core(node[c]) /\ Sound(node[c], W) /\ node[c] \in NodeType
  BY DEF Fits
<1> QED BY <1>1, SoundFirm DEF Sound

(* A client that hears nothing and moves takes a client step.              *)
LEMMA QuietStep ==
    ASSUME NEW W \in Worlds, NEW c \in Addr, NEW s,
           Moves(node[c], s, Quietly(c, W)), Handed(c, s)
    PROVE  ClientStep(W)
<1> DEFINE e == Quietly(c, W)
<1>1. e \in Setting /\ e.claims = {} /\ e.gains = {} /\ e.world = W
  BY QuietlySetting
<1>2. RequestServableIn(s) /\ s \in NodeType
  BY <1>1, FirmServable DEF Moves, Good, Core
<1> QED BY <1>1, <1>2 DEF ClientStep

(* Losing a datagram is a step of the sender, which stays as it is.        *)
LEMMA LoseStep ==
    ASSUME NEW W \in Worlds, Fits(node, net, W), NEW l \in Links, Lose(l)
    PROVE  ClientStep(W)
<1> DEFINE c == l[1]
           e == Quietly(c, W)
<1>1. c \in Addr
  BY DEF Links
<1>2. /\ Core(node[c]) /\ Firm(node[c], e, {}) /\ node[c] \in NodeType
      /\ node[c].out = {}
  BY <1>1, FitsFirm, QuietlySetting DEF Fits
<1>3. Moves(node[c], node[c], e)
  BY <1>2, FineReflexive, FineOnward DEF Onward
<1>4. Handed(c, node[c])
  <2>1. node[c] = Emptied(node[c])
    BY <1>2 DEF Emptied, NodeType
  <2>2. node' = [node EXCEPT ![c] = node[c]] /\ net \in [Links -> SUBSET Message]
    BY <1>1 DEF Lose, Fits
  <2>3. net' \in [Links -> SUBSET Message] /\ \A k \in Links : net'[k] \subseteq net[k]
    BY <2>2 DEF Lose
  <2> QED BY <2>1, <2>2, <2>3 DEF Handed
<1> QED BY <1>1, <1>3, <1>4, QuietStep

(* What the receiver of a datagram is told. *)
Telling(l, m, W) ==
    [from   |-> l[1],
     claims |-> m.have,
     gains  |-> IF m.type = "REPLY" THEN {m.piece} ELSE {},
     world  |-> W]

(* A datagram under way is a setting for its receiver, and well formed.    *)
LEMMA TellingSetting ==
    ASSUME NEW W \in Worlds, Fits(node, net, W), NEW l \in Links, NEW m \in net[l]
    PROVE  /\ Telling(l, m, W) \in Setting
           /\ m.type = "REQUEST" => IsData(m) /\ m.start \in Cells(m.piece)
           /\ m.type = "REPLY" => IsReply(m) /\ m.piece \in W[l[1]]
<1>1. l[1] \in Addr /\ W[l[1]] \in SUBSET Piece
  BY DEF Links, Worlds
<1>2. m \in Message /\ Honest(m, W[l[1]], W)
  BY DEF Fits
<1>3. m.have \in SUBSET Piece /\ m.start \in Nat /\ m.len \in Nat
  BY <1>2 DEF Message
<1>4. m.type = "REPLY" => IsReply(m) /\ m.piece \in W[l[1]] /\ m.piece \in Piece
  BY <1>1, <1>2, ReplyFacts DEF Honest
<1>5. m.type = "REQUEST" => IsData(m) /\ m.start \in Cells(m.piece)
  BY <1>2, <1>3 DEF Honest, IsData, Worlds
<1>6. Telling(l, m, W) \in Setting
  BY <1>1, <1>2, <1>3, <1>4 DEF Telling, Setting, Worlds, Honest
<1> QED BY <1>4, <1>5, <1>6

(* Delivering a datagram is a step of the receiver.                        *)
LEMMA DeliverStep ==
    ASSUME NEW W \in Worlds, Fits(node, net, W), NEW l \in Links, NEW type,
           Deliver(l, type)
    PROVE  ClientStep(W)
<1> DEFINE c == l[2]
<1>1. c \in Addr /\ l[1] \in Addr \ {c}
  BY DEF Links
<1>2. PICK m \in net[l] :
          \E left \in {net[l], net[l] \ {m}} :
            \E s \in HandleMessage(node[c], l[1], m) :
                Transmit(c, s, [net EXCEPT ![l] = left])
  BY DEF Deliver
<1>3. PICK left \in {net[l], net[l] \ {m}} :
          \E s \in HandleMessage(node[c], l[1], m) :
              Transmit(c, s, [net EXCEPT ![l] = left])
  BY <1>2
<1>4. PICK s \in HandleMessage(node[c], l[1], m) :
          Transmit(c, s, [net EXCEPT ![l] = left])
  BY <1>3
<1> DEFINE e == Telling(l, m, W)
           flight == [net EXCEPT ![l] = left]
<1>5. /\ e \in Setting /\ e.from = l[1] /\ e.claims = m.have /\ e.world = W
      /\ e.gains = IF m.type = "REPLY" THEN {m.piece} ELSE {}
      /\ m.type = "REQUEST" => IsData(m) /\ m.start \in Cells(m.piece)
      /\ m.type = "REPLY" => IsReply(m) /\ m.piece \in W[l[1]]
  BY <1>2, TellingSetting DEF Telling
<1> HIDE DEF e, c
<1>6. /\ Core(node[c]) /\ Firm(node[c], e, {}) /\ RequestServableIn(node[c])
  BY <1>1, <1>5, FitsFirm
<1>7. Handled(node[c], s, e) /\ RequestServableIn(s)
  BY <1>4, <1>5, <1>6, HandleMessageHandled
<1>8. s \in NodeType /\ s.out \in SUBSET Message
  BY <1>7 DEF Handled, Moves, Good, Core, NodeType
<1>9. flight \in [Links -> SUBSET Message] /\ \A k \in Links : flight[k] \subseteq net[k]
  BY <1>3 DEF Fits
<1> HIDE DEF flight
<1>10. Handed(c, s)
  BY <1>1, <1>4, <1>8, <1>9, TransmitHanded DEF flight
<1>11. e.gains = {} \/ \E d \in Addr \ {c} : \E i \in W[d] : e.gains = {i}
  BY <1>1, <1>5
<1> QED BY <1>1, <1>5, <1>7, <1>8, <1>10, <1>11 DEF ClientStep, Handled

(* A pass of the process loop, with any timers expired, is a step of its   *)
(* client.                                                                 *)
LEMMA PassStep ==
    ASSUME NEW W \in Worlds, Fits(node, net, W), NEW c \in Addr,
           NEW beats \in BOOLEAN, NEW silent, NEW late,
           PassWith(c, beats, silent, late)
    PROVE  ClientStep(W)
<1> DEFINE e == Quietly(c, W)
           x == Expired(node[c], beats, silent, late)
<1>1. e \in Setting /\ e.claims = {} /\ e.world = W
  BY QuietlySetting
<1>2. Core(node[c]) /\ Firm(node[c], e, {}) /\ node[c] \in NodeType
  BY <1>1, FitsFirm
<1>3. PICK t \in VisitAll(x, Conns(node[c])) :
          \E s \in FinishPass(t) : Transmit(c, s, net)
  BY DEF PassWith
<1>4. PICK s \in FinishPass(t) : Transmit(c, s, net)
  BY <1>3
<1>5. Moves(node[c], x, e)
  <2>1. /\ x \in NodeType
        /\ x.pool = node[c].pool /\ x.have = node[c].have
        /\ x.request = node[c].request /\ x.offset = node[c].offset
        /\ x.pending = node[c].pending /\ x.counts = node[c].counts
        /\ x.own = node[c].own /\ x.file = node[c].file
        /\ x.out = node[c].out
        /\ x.retry = [a \in Addr |-> IF a \in late THEN RetryStop(node[c].retry[a])
                                     ELSE node[c].retry[a]]
    BY <1>2, RetryTypes DEF Expired, NodeType
  <2> HIDE DEF x, e
  <2> QED BY <1>2, <2>1, TimersMove
<1> HIDE DEF x, e
<1>6. Conns(node[c]) \in SUBSET Addr
  BY DEF Conns
<1>7. Moves(x, t, e)
  BY <1>1, <1>3, <1>5, <1>6, VisitAllMoves DEF Moves, Good
<1>8. Moves(t, s, e)
  BY <1>4, <1>7, FinishPassMoves DEF Moves, Good
<1>9. Moves(node[c], s, e)
  BY <1>1, <1>5, <1>7, <1>8, MovesTransitive
<1>10. s.out \in SUBSET Message
  BY <1>9 DEF Moves, Good, Core, NodeType
<1>11. net \in [Links -> SUBSET Message]
  BY DEF Fits
<1>12. Handed(c, s)
  BY <1>4, <1>10, <1>11, TransmitHanded
<1> QED BY <1>9, <1>12, QuietStep DEF e

(* The main process's connect is a step of its client.                     *)
LEMMA ConnectStep ==
    ASSUME NEW W \in Worlds, Fits(node, net, W), NEW c \in Addr, NEW a \in Addr,
           Connect(c, a)
    PROVE  ClientStep(W)
<1> DEFINE e == Quietly(c, W)
           s == ConnectWith(node[c], a, "out")
<1>1. e.world = W
  BY QuietlySetting
<1>2. Core(node[c]) /\ Firm(node[c], e, {}) /\ node[c] \in NodeType /\ node[c].out = {}
  BY <1>1, FitsFirm DEF Fits
<1>3. Moves(node[c], s, e)
  BY <1>2, ConnectFine, FineOnward DEF Onward
<1>4. s.out = {}
  BY <1>2 DEF ConnectWith, NodeType
<1>5. Becomes(c, s)
  BY DEF Connect
<1> HIDE DEF s
<1>6. Handed(c, s)
  BY <1>3, <1>4, <1>5, BecomesHanded DEF Moves, Good, Core
<1> QED BY <1>3, <1>6, QuietStep

(* Every step but a restart is a step of one client.                       *)
LEMMA NextStep ==
    ASSUME NEW W \in Worlds, Fits(node, net, W), Next
    PROVE  ClientStep(W)
<1>1. ASSUME NEW c \in Addr, Pass(c)
      PROVE  ClientStep(W)
  <2>1. PICK beats \in BOOLEAN, silent \in SUBSET Conns(node[c]),
             more \in SUBSET (Waiting(node[c]) \ {}) :
            PassWith(c, beats, silent, {} \cup more)
    BY <1>1 DEF Pass, LatePass
  <2> QED BY <2>1, PassStep
<1> QED BY <1>1, LoseStep, DeliverStep, ConnectStep DEF Next

-----------------------------------------------------------------------------
(* The invariants. *)

(* No client can have more than every piece, ... *)
All == [c \in Addr |-> Piece]

(* ... and none claims more than it has.  With restarts this needs a       *)
(* verify_all that does not miss a piece because it cannot be read.        *)
OwnOf(n) == [c \in Addr |-> n[c].own]

Inv    == Fits(node, net, All)
OwnInv == Fits(node, net, OwnOf(node))

(* Both are worlds.                                                        *)
LEMMA WorldTypes ==
    /\ All \in Worlds
    /\ \A n \in [Addr -> NodeType] : OwnOf(n) \in Worlds
BY DEF All, OwnOf, Worlds, NodeType

(* A client step keeps the clients and the network sound in any world that *)
(* grows with the pieces it gains.                                         *)
LEMMA StepFits ==
    ASSUME NEW W \in Worlds, NEW X \in Worlds, Fits(node, net, W), ClientStep(W),
           \A a \in Addr : W[a] \subseteq X[a] /\ node'[a].own \subseteq X[a]
    PROVE  Fits(node', net', X)
<1>1. PICK c \in Addr, e \in Setting, s \in NodeType :
          /\ Moves(node[c], s, e) /\ RequestServableIn(s) /\ Handed(c, s)
          /\ e.world = W
  BY DEF ClientStep
<1>2. Core(s) /\ Sound(s, W)
  BY <1>1, FirmSound DEF Moves, Good
<1>3. node'[c].own = s.own
  <2>1. node \in [Addr -> NodeType]
    BY DEF Fits
  <2> QED BY <1>1, <2>1 DEF Handed, Emptied, NodeType
<1>4. s.own \subseteq X[c]
  BY <1>3
<1> QED BY <1>1, <1>2, <1>4, HandedFits

(* A client that starts again: what it holds, and what is known of it.     *)
LEMMA RestartStarts ==
    ASSUME NEW W \in Worlds, Fits(node, net, W), NEW c \in Addr, Restart(c)
    PROVE  \E own \in Verified(node[c].file), s \in NodeType :
              /\ Core(s) /\ \A X : Sound(s, X)
              /\ Started(s, node[c].file, own, node[c].pending)
              /\ Handed(c, s)
<1>1. PICK s \in Fresh(node[c].file, node[c].pending) : Becomes(c, s)
  BY DEF Restart
<1>2. PICK own \in Verified(node[c].file) :
          s \in PostSeeding(StartState(node[c].file, own, node[c].pending))
  BY <1>1 DEF Fresh
<1>3. /\ node[c].file \in [Piece -> SUBSET Cell] /\ node[c].pending \in SUBSET Piece
      /\ \A i \in Piece : node[c].file[i] \subseteq Cells(i)
  BY DEF Fits, Sound, FilesIn, NodeType
<1>4. /\ Core(s) /\ \A X : Sound(s, X)
      /\ Started(s, node[c].file, own, node[c].pending)
  BY <1>2, <1>3, StartSound
<1>5. s \in NodeType /\ s.out = {}
  BY <1>4 DEF Core, Started
<1>6. Handed(c, s)
  BY <1>1, <1>5, BecomesHanded
<1> QED BY <1>2, <1>4, <1>5, <1>6

(* At the start every client is sound in any world that allows what it     *)
(* holds, and nothing is under way.                                        *)
LEMMA InitFits ==
    ASSUME Init
    PROVE  /\ node \in [Addr -> NodeType]
           /\ \A W \in Worlds : (\A c \in Addr : node[c].own \subseteq W[c])
                                    => Fits(node, net, W)
           /\ \A c \in Addr : node[c].have = [a \in Addr |-> {}]
           /\ Sure => \A c \in Addr : LastMissing(node[c])
<1>1. ASSUME NEW c \in Addr
      PROVE  /\ node[c] \in NodeType /\ Core(node[c]) /\ node[c].out = {}
             /\ \A W : Sound(node[c], W)
             /\ node[c].have = [a \in Addr |-> {}]
             /\ Sure => LastMissing(node[c])
  <2>1. PICK d \in Addr : node[c] \in Fresh(FileWith(Start[d]), {})
    BY DEF Init
  <2> DEFINE file == FileWith(Start[d])
  <2>2. PICK own \in Verified(file), p \in SUBSET Piece :
            p = {} /\ node[c] \in PostSeeding(StartState(file, own, p))
    BY <2>1 DEF Fresh
  <2>3. \A i \in Piece : Cells(i) \subseteq Cell
    BY PieceSizeRange, TorrentAssumption DEF Cells, Cell
  <2>4. /\ file \in [Piece -> SUBSET Cell]
        /\ \A i \in Piece : file[i] = IF i \in Start[d] THEN Cells(i) ELSE {}
    BY <2>3 DEF FileWith
  <2> HIDE DEF file
  <2>5. \A i \in Piece : file[i] \subseteq Cells(i)
    BY <2>4
  <2>6. Core(node[c]) /\ (\A W : Sound(node[c], W)) /\ Started(node[c], file, own, p)
    BY <2>2, <2>4, <2>5, StartSound
  <2>7. Sure => LastMissing(node[c])
    <3> SUFFICES ASSUME Sure, NEW i \in Piece, i \notin own
                 PROVE  PieceSize(i) - 1 \notin file[i]
      BY <2>6 DEF Started, LastMissing
    <3>1. file[i] # Cells(i)
      BY <2>2 DEF Verified, Sure
    <3> QED BY <2>4, <3>1
  <2> QED BY <2>6, <2>7 DEF Started, Core
<1>2. node \in [Addr -> NodeType] /\ net = [l \in Links |-> {}]
  BY <1>1 DEF Init
<1>3. ASSUME NEW W \in Worlds, \A c \in Addr : node[c].own \subseteq W[c]
      PROVE  Fits(node, net, W)
  BY <1>1, <1>2, <1>3 DEF Fits
<1> QED BY <1>1, <1>2, <1>3

(* The first invariant holds initially.                                    *)
LEMMA InitInv == Init => Inv
<1> SUFFICES ASSUME Init PROVE Inv
  OBVIOUS
<1>1. \A c \in Addr : node[c].own \subseteq All[c]
  BY InitFits DEF All, NodeType
<1> QED BY <1>1, InitFits, WorldTypes DEF Inv

(* Every step keeps it, restarts and stuttering included.                  *)
LEMMA NextInv ==
    Inv /\ [Next \/ \E c \in Addr : Restart(c)]_vars => Inv'
<1> SUFFICES ASSUME Inv, [Next \/ \E c \in Addr : Restart(c)]_vars PROVE Inv'
  OBVIOUS
<1>1. All \in Worlds /\ Fits(node, net, All)
  BY WorldTypes DEF Inv
<1>2. CASE Next
  <2>1. ClientStep(All)
    BY <1>1, <1>2, NextStep
  <2>2. \A a \in Addr : All[a] \subseteq All[a] /\ node'[a].own \subseteq All[a]
    <3>1. PICK c \in Addr, s \in NodeType : Handed(c, s)
      BY <2>1 DEF ClientStep
    <3>2. node' \in [Addr -> NodeType]
      BY <1>1, <3>1 DEF Handed, Emptied, Fits, NodeType
    <3> QED BY <3>2 DEF All, NodeType
  <2> QED BY <1>1, <2>1, <2>2, StepFits DEF Inv
<1>3. ASSUME NEW c \in Addr, Restart(c)
      PROVE  Inv'
  <2>1. PICK s \in NodeType : Core(s) /\ (\A X : Sound(s, X)) /\ Handed(c, s)
    BY <1>1, <1>3, RestartStarts
  <2>2. s.own \subseteq All[c] /\ \A a \in Addr : All[a] \subseteq All[a]
    BY DEF All, NodeType
  <2> QED BY <1>1, <2>1, <2>2, HandedFits DEF Inv
<1>4. CASE UNCHANGED vars
  BY <1>4 DEF vars, Inv
<1> QED BY <1>2, <1>3, <1>4

(* It holds in every reachable state, with restarts.                       *)
THEOREM Invariance == RestartSpec => []Inv
BY InitInv, NextInv, PTL DEF RestartSpec

-----------------------------------------------------------------------------
(* Nobody claims what it has not. *)

(* What a client gains, in the terms of Spread.                            *)
LEMMA GainOf ==
    ASSUME NEW c \in Addr, NEW more,
           node[c].own \subseteq node'[c].own,
           more = node'[c].own \ node[c].own,
           more \subseteq UNION {node[d].own : d \in Addr \ {c}},
           Cardinality(more) <= 1
    PROVE  Swarmed!Gain(c)
<1> DEFINE has == [a \in Addr |-> node[a].own]
<1>1. has[c] = node[c].own /\ has'[c] = node'[c].own
  OBVIOUS
<1>2. {has[d] : d \in Addr \ {c}} = {node[d].own : d \in Addr \ {c}}
  OBVIOUS
<1> HIDE DEF has
<1>3. has'[c] \ has[c] = more
  BY <1>1
<1>4. /\ has[c] \subseteq has'[c]
      /\ has'[c] \ has[c] \subseteq UNION {has[d] : d \in Addr \ {c}}
      /\ Cardinality(has'[c] \ has[c]) <= 1
  BY <1>1, <1>2, <1>3
<1>5. has[c] \subseteq has'[c] /\ Cardinality(has'[c] \ has[c]) <= 1
  BY <1>4
<1>6. has'[c] \ has[c] \subseteq Swarmed!Elsewhere(c)
  BY <1>4, Zenon DEF has, Swarmed!Elsewhere
<1>7. Swarmed!Gain(c) <=>
        /\ has[c] \subseteq has'[c]
        /\ has'[c] \ has[c] \subseteq Swarmed!Elsewhere(c)
        /\ Cardinality(has'[c] \ has[c]) <= 1
  BY DEF has, Swarmed!Gain, Swarmed!Cardinality, Cardinality
<1> QED BY <1>5, <1>6, <1>7

(* Who holds what after a step of one client: at most one piece more, that *)
(* another client had, and of the others it knows what they have.          *)
LEMMA StepSpreads ==
    ASSUME OwnInv, ClientStep(OwnOf(node))
    PROVE  /\ \A a \in Addr : node[a].own \subseteq node'[a].own
           /\ OwnInv'
           /\ Swarmed!Next
           /\ Sure /\ (\A a \in Addr : LastMissing(node[a]))
                => \A a \in Addr : LastMissing(node'[a])
<1> DEFINE W == OwnOf(node)
<1>1. W \in Worlds /\ Fits(node, net, W) /\ node \in [Addr -> NodeType]
  BY WorldTypes DEF OwnInv, Fits
<1>2. \A a \in Addr : W[a] = node[a].own
  BY DEF OwnOf
<1> HIDE DEF W
<1>3. PICK c \in Addr, e \in Setting, s \in NodeType :
          /\ Moves(node[c], s, e) /\ RequestServableIn(s) /\ Handed(c, s)
          /\ e.world = W
          /\ \/ e.gains = {}
             \/ \E d \in Addr \ {c} : \E i \in W[d] : e.gains = {i}
  BY DEF ClientStep, W
<1>4. Core(s) /\ Sound(s, W) /\ Fits(node, net, W)
  BY <1>1, <1>3, FirmSound DEF Moves, Good
<1>5. /\ node'[c].own = s.own /\ node'[c].have = s.have /\ node'[c].file = s.file
      /\ \A a \in Addr \ {c} : node'[a] = node[a]
  <2>1. s.own \subseteq All[c] /\ \A a \in Addr : W[a] \subseteq All[a]
    BY <1>1 DEF All, NodeType, Worlds
  <2> QED BY <1>1, <1>3, <1>4, <2>1, WorldTypes, HandedFits
<1>6. node[c].own \subseteq s.own
  BY <1>3 DEF Moves, Good, KeepsVerified
<1>7. \A a \in Addr : node[a].own \subseteq node'[a].own
  BY <1>5, <1>6
<1>8. OwnInv'
  <2>1. node' \in [Addr -> NodeType]
    BY <1>1, <1>3 DEF Handed, Emptied, NodeType
  <2>2. OwnOf(node') \in Worlds /\ \A a \in Addr : OwnOf(node')[a] = node'[a].own
    BY <2>1, WorldTypes DEF OwnOf
  <2>3. \A a \in Addr : W[a] \subseteq OwnOf(node')[a]
    BY <1>2, <1>7, <2>2
  <2> QED BY <1>1, <1>3, <1>4, <1>5, <2>2, <2>3, HandedFits DEF OwnInv
<1>9. Swarmed!Next
  <2>1. Swarmed!Gain(c)
    <3>1. s.own \subseteq node[c].own \cup e.gains
      BY <1>3 DEF Moves
    <3>2. CASE e.gains = {}
      <4>1. node'[c].own \ node[c].own = {}
        BY <1>5, <3>1, <3>2
      <4> QED BY <1>5, <1>6, <4>1, FS_EmptySet, GainOf
    <3>3. ASSUME NEW d \in Addr \ {c}, NEW i \in W[d], e.gains = {i}
          PROVE  Swarmed!Gain(c)
      <4> DEFINE more == node'[c].own \ node[c].own
      <4>1. more \in SUBSET {i}
        BY <1>5, <3>1, <3>3
      <4>2. IsFiniteSet({i}) /\ Cardinality({i}) = 1
        BY FS_Singleton
      <4>3. Cardinality(more) <= 1
        BY <4>1, <4>2, FS_Subset
      <4>4. i \in node[d].own
        BY <1>2, <3>3
      <4> QED BY <1>5, <1>6, <4>1, <4>3, <4>4, GainOf
    <3> QED BY <1>3, <3>2, <3>3
  <2>2. Swarmed!Look(c)
    <3> SUFFICES ASSUME NEW d \in Addr
                 PROVE  \/ s.have[d] = {}
                        \/ /\ node[c].have[d] \subseteq s.have[d]
                           /\ s.have[d] \ node[c].have[d] \subseteq node[d].own
      BY <1>5 DEF Swarmed!Look
    <3>1. d = e.from => e.claims \subseteq node[d].own
      BY <1>2, <1>3 DEF Setting
    <3> QED BY <1>3, <3>1 DEF Moves, HavesMove
  <2>3. Swarmed!Others(c)
    BY <1>5 DEF Swarmed!Others
  <2> QED BY <2>1, <2>2, <2>3 DEF Swarmed!Next
<1>10. ASSUME Sure, \A a \in Addr : LastMissing(node[a])
       PROVE  \A a \in Addr : LastMissing(node'[a])
  <2>1. LastMissing(s)
    BY <1>3, <1>10 DEF Moves
  <2> QED BY <1>5, <1>10, <2>1 DEF LastMissing
<1> QED BY <1>7, <1>8, <1>9, <1>10

(* A restart loses no piece when every piece can be read, and finds no     *)
(* other when the last byte of a piece arrives last.                       *)
LEMMA RestartSpreads ==
    ASSUME OwnInv, Unreadable = {}, NEW c \in Addr, Restart(c)
    PROVE  /\ OwnInv'
           /\ Sure /\ (\A a \in Addr : LastMissing(node[a]))
                => Swarmed!Next /\ \A a \in Addr : LastMissing(node'[a])
<1> DEFINE W == OwnOf(node)
<1>1. W \in Worlds /\ Fits(node, net, W) /\ node \in [Addr -> NodeType]
  BY WorldTypes DEF OwnInv, Fits
<1>2. \A a \in Addr : W[a] = node[a].own
  BY DEF OwnOf
<1> HIDE DEF W
<1>3. PICK own \in Verified(node[c].file), s \in NodeType :
          /\ Core(s) /\ \A X : Sound(s, X)
          /\ Started(s, node[c].file, own, node[c].pending)
          /\ Handed(c, s)
  BY <1>1, RestartStarts
<1>4. /\ s.own = own /\ s.file = node[c].file /\ s.have = [a \in Addr |-> {}]
      /\ \A i \in Piece : i \in own <=> node[c].file[i] = Cells(i)
      /\ own \in SUBSET Piece
  BY <1>3 DEF Started, Verified
<1>5. Core(node[c]) /\ node[c].own \subseteq Piece
  BY <1>1 DEF Fits, NodeType
<1>6. node[c].own \subseteq s.own
  BY <1>4, <1>5 DEF Core, OwnVerifiedIn
<1>7. /\ node'[c].own = s.own /\ node'[c].have = s.have /\ node'[c].file = s.file
      /\ \A a \in Addr \ {c} : node'[a] = node[a]
  <2>1. s.own \subseteq All[c] /\ \A a \in Addr : W[a] \subseteq All[a]
    BY <1>1 DEF All, NodeType, Worlds
  <2> QED BY <1>1, <1>3, <2>1, WorldTypes, HandedFits
<1>8. OwnInv'
  <2>1. node' \in [Addr -> NodeType]
    BY <1>1, <1>3 DEF Handed, Emptied, NodeType
  <2>2. OwnOf(node') \in Worlds /\ \A a \in Addr : OwnOf(node')[a] = node'[a].own
    BY <2>1, WorldTypes DEF OwnOf
  <2>3. \A a \in Addr : W[a] \subseteq OwnOf(node')[a]
    BY <1>2, <1>6, <1>7, <2>2
  <2> QED BY <1>1, <1>3, <1>7, <2>2, <2>3, HandedFits DEF OwnInv
<1>9. ASSUME \A a \in Addr : LastMissing(node[a])
      PROVE  Swarmed!Next /\ \A a \in Addr : LastMissing(node'[a])
  <2>1. s.own = node[c].own
    <3> SUFFICES ASSUME NEW i \in s.own, i \notin node[c].own PROVE FALSE
      BY <1>6
    <3>1. i \in Piece /\ node[c].file[i] = Cells(i)
      BY <1>4
    <3>2. PieceSize(i) - 1 \in Cells(i)
      BY <3>1, PieceSizeRange, TorrentAssumption DEF Cells
    <3> QED BY <1>9, <3>1, <3>2 DEF LastMissing
  <2>2. Swarmed!Gain(c)
    <3>1. node'[c].own \ node[c].own = {}
      BY <1>7, <2>1
    <3> QED BY <1>6, <1>7, <3>1, FS_EmptySet, GainOf
  <2>3. Swarmed!Look(c) /\ Swarmed!Others(c)
    BY <1>4, <1>7 DEF Swarmed!Look, Swarmed!Others
  <2>4. Swarmed!Next
    BY <2>2, <2>3 DEF Swarmed!Next
  <2>5. \A a \in Addr : LastMissing(node'[a])
    BY <1>4, <1>7, <1>9, <2>1 DEF LastMissing
  <2> QED BY <2>4, <2>5
<1> QED BY <1>8, <1>9

(* At the start nobody claims anything, and nobody believes anything.      *)
LEMMA InitSpreads ==
    ASSUME Init
    PROVE  OwnInv /\ Swarmed!Init /\ (Sure => \A a \in Addr : LastMissing(node[a]))
<1>1. node \in [Addr -> NodeType] /\ OwnOf(node) \in Worlds
  BY InitFits, WorldTypes
<1>2. \A c \in Addr : node[c].own \subseteq OwnOf(node)[c]
  BY DEF OwnOf
<1>3. OwnInv
  BY <1>1, <1>2, InitFits DEF OwnInv
<1>4. Swarmed!Init
  BY <1>1, InitFits DEF Swarmed!Init, NodeType
<1> QED BY <1>3, <1>4, InitFits

(* A step that leaves the clients alone leaves what they have alone.       *)
LEMMA StutterSpreads ==
    ASSUME OwnInv, UNCHANGED vars
    PROVE  /\ OwnInv' /\ UNCHANGED Swarmed!vars
           /\ \A a \in Addr : node'[a] = node[a]
BY DEF OwnInv, vars, Swarmed!vars

(* Every step but a restart is a step of Spread.                           *)
LEMMA NextSpreads ==
    OwnInv /\ [Next]_vars => OwnInv' /\ [Swarmed!Next]_(Swarmed!vars)
<1> SUFFICES ASSUME OwnInv, [Next]_vars
             PROVE  OwnInv' /\ [Swarmed!Next]_(Swarmed!vars)
  OBVIOUS
<1>1. CASE Next
  <2>1. OwnOf(node) \in Worlds /\ Fits(node, net, OwnOf(node))
    BY WorldTypes DEF OwnInv, Fits
  <2>2. ClientStep(OwnOf(node))
    BY <1>1, <2>1, NextStep
  <2> QED BY <2>2, StepSpreads
<1>2. CASE UNCHANGED vars
  BY <1>2, StutterSpreads
<1> QED BY <1>1, <1>2

(* Restarts are too, when storage does not fail and offsets do not wrap.   *)
WholeInv == OwnInv /\ (Sure => \A a \in Addr : LastMissing(node[a]))

(* With restarts, as far as storage allows it.                             *)
LEMMA RestartNextSpreads ==
    ASSUME Unreadable = {}
    PROVE  WholeInv /\ [Next \/ \E c \in Addr : Restart(c)]_vars
               => WholeInv' /\ (Sure => [Swarmed!Next]_(Swarmed!vars))
<1> SUFFICES ASSUME WholeInv, [Next \/ \E c \in Addr : Restart(c)]_vars
             PROVE  WholeInv' /\ (Sure => [Swarmed!Next]_(Swarmed!vars))
  OBVIOUS
<1>1. OwnInv /\ (Sure => \A a \in Addr : LastMissing(node[a]))
  BY DEF WholeInv
<1>2. CASE Next
  <2>1. OwnOf(node) \in Worlds /\ Fits(node, net, OwnOf(node))
    BY <1>1, WorldTypes DEF OwnInv, Fits
  <2>2. ClientStep(OwnOf(node))
    BY <1>2, <2>1, NextStep
  <2> QED BY <1>1, <2>2, StepSpreads DEF WholeInv
<1>3. ASSUME NEW c \in Addr, Restart(c)
      PROVE  WholeInv' /\ (Sure => [Swarmed!Next]_(Swarmed!vars))
  BY <1>1, <1>3, RestartSpreads DEF WholeInv
<1>4. CASE UNCHANGED vars
  BY <1>1, <1>4, StutterSpreads DEF WholeInv
<1> QED BY <1>2, <1>3, <1>4

-----------------------------------------------------------------------------
(* The clients and the datagrams under way are well typed, whatever is     *)
(* lost, repeated or restarted, and whether or not file operations fail.   *)
THEOREM TypeCorrect == RestartSpec => []TypeOK
<1>1. Inv => TypeOK
  BY DEF Inv, Fits, TypeOK
<1> QED BY Invariance, <1>1, PTL

(* However often a client restarts, its counts are exact, its pieces are   *)
(* verified, and its requests are for missing pieces of peers known to have*)
(* them, with their bytes in the file and their retries running as far as  *)
(* offsets and storage allow (piece-select.c:20, piece.c:107,232).         *)
THEOREM CleanRestarts == RestartSpec => []RestartsClean
<1>1. Inv => RestartsClean
  BY DEF Inv, Fits, Core, Sound, NoWrap, RestartsClean
<1> QED BY Invariance, <1>1, PTL

-----------------------------------------------------------------------------
(* Peer's environment covers these clients. *)

(* Two messages of which a receiver can tell one from the other only in    *)
(* what it sends in return.                                                *)
Alike(m, n) ==
    /\ m.type = n.type /\ m.piece = n.piece
    /\ m.type # "CLOSE" => m.have = n.have
    /\ m.type = "REPLY" => m.start = n.start /\ m.len = n.len

(* Emptied forgets what was sent.                                          *)
LEMMA EmptiedSend ==
    ASSUME NEW s, NEW m
    PROVE  Emptied(Send(s, m)) = Emptied(s)
BY DEF Emptied, Send

(* Alike replies have the same effect on the receiver's pieces.            *)
LEMMA HandleReplyAlike ==
    ASSUME NEW s, NEW a, NEW m, NEW n, Alike(m, n), m.type = "REPLY"
    PROVE  HandleReply(s, a, m) = HandleReply(s, a, n)
<1>1. m.piece = n.piece /\ m.start = n.start /\ m.len = n.len
  BY DEF Alike
<1>2. \A t, b : StoreData(t, b, m) = StoreData(t, b, n)
  BY <1>1 DEF StoreData
<1>3. \A b : OfferData(s, b, m) = OfferData(s, b, n)
  BY <1>1, <1>2 DEF OfferData, InRange
<1>4. ReceiveRequested(s, a, m) = ReceiveRequested(s, a, n)
  BY <1>1, <1>3 DEF ReceiveRequested
<1>5. ReceiveOverheard(s, a, m) = ReceiveOverheard(s, a, n)
  BY <1>1, <1>2 DEF ReceiveOverheard
<1> QED BY <1>1, <1>4, <1>5 DEF HandleReply

(* A reply can be read, if only in part.                                   *)
LEMMA SomethingTransferred ==
    ASSUME NEW i \in Piece, NEW start \in Nat
    PROVE  Transferred(i, start, MaxPayload) # {}
<1>1. PieceSize(i) \in Nat /\ Narrow(start) \in Nat
  BY PieceSizeRange, LimitAssumption, TorrentAssumption DEF Narrow
<1>2. CASE Narrow(start) >= PieceSize(i)
  BY <1>2 DEF Transferred
<1>3. CASE ~(Narrow(start) >= PieceSize(i))
  <2> DEFINE fit == MinOf(MaxPayload, PieceSize(i) - Narrow(start))
  <2>1. fit \in Nat
    BY <1>1, <1>3, LimitAssumption DEF MinOf
  <2>2. Transferred(i, start, MaxPayload) = IF FlakyStorage THEN 0 .. fit ELSE {fit}
    BY <1>3 DEF Transferred
  <2> HIDE DEF fit
  <2>3. 0 \in 0 .. fit
    BY <2>1
  <2> QED BY <2>2, <2>3
<1> QED BY <1>2, <1>3

(* Requests for the same piece are answered in ways that differ in what is *)
(* sent.                                                                   *)
LEMMA HandleRequestAlike ==
    ASSUME NEW s, NEW a, NEW m, NEW n, Alike(m, n),
           m.piece \in Piece, n.start \in Nat, NEW t \in HandleRequest(s, a, m)
    PROVE  \E u \in HandleRequest(s, a, n) : Emptied(t) = Emptied(u)
<1>1. m.piece = n.piece
  BY DEF Alike
<1>2. CASE m.piece \notin s.own
  BY <1>1, <1>2 DEF HandleRequest
<1>3. CASE m.piece \in s.own
  <2>1. ASSUME NEW q, q.piece = m.piece, NEW v \in HandleRequest(s, a, q)
        PROVE  Emptied(v) = Emptied(s)
    BY <1>3, <2>1, EmptiedSend DEF HandleRequest
  <2>2. HandleRequest(s, a, n) # {}
    BY <1>1, <1>3, SomethingTransferred DEF HandleRequest
  <2> QED BY <1>1, <2>1, <2>2
<1> QED BY <1>2, <1>3

(* So are the ends of the handlers of alike messages.                      *)
LEMMA WelcomeAlike ==
    ASSUME NEW s, NEW a, NEW m, NEW n, Alike(m, n), m.type # "CLOSE",
           m.type = "REQUEST" => m.piece \in Piece /\ n.start \in Nat,
           NEW t \in Welcome(s, a, m)
    PROVE  \E u \in Welcome(s, a, n) : Emptied(t) = Emptied(u)
<1>1. m.type = n.type /\ m.have = n.have
  BY DEF Alike
<1>2. CASE ~CanConnect(s, a, "in")
  BY <1>2, EmptiedSend DEF Welcome, SendClose
<1>3. CASE CanConnect(s, a, "in")
  <2> DEFINE w == UpdateHave(ConnectWith(s, a, "in"), a, m.have)
  <2>1. /\ t \in IF m.type = "REQUEST" THEN HandleRequest(w, a, m) ELSE RequestNext(w, a)
        /\ Welcome(s, a, n) = IF m.type = "REQUEST" THEN HandleRequest(w, a, n)
                              ELSE RequestNext(w, a)
    BY <1>1, <1>3 DEF Welcome
  <2> HIDE DEF w
  <2>2. CASE m.type = "REQUEST"
    BY <2>1, <2>2, HandleRequestAlike
  <2>3. CASE m.type # "REQUEST"
    BY <2>1, <2>3
  <2> QED BY <2>2, <2>3
<1> QED BY <1>2, <1>3

(* Alike messages make the same of the receiver, up to what it sends.      *)
LEMMA HandleMessageAlike ==
    ASSUME NEW s, NEW a, NEW m, NEW n, Alike(m, n),
           m.type = "REQUEST" => m.piece \in Piece /\ n.start \in Nat,
           NEW t \in HandleMessage(s, a, m)
    PROVE  \E u \in HandleMessage(s, a, n) : Emptied(t) = Emptied(u)
<1>1. m.type = n.type
  BY DEF Alike
<1>2. CASE m.type = "CLOSE"
  BY <1>1, <1>2 DEF HandleMessage
<1>3. CASE m.type = "REPLY"
  <2>1. PICK w \in HandleReply(s, a, m) : t \in Welcome(w, a, m)
    BY <1>3 DEF HandleMessage
  <2>2. PICK u \in Welcome(w, a, n) : Emptied(t) = Emptied(u)
    BY <1>3, <2>1, WelcomeAlike
  <2>3. w \in HandleReply(s, a, n)
    BY <1>3, <2>1, HandleReplyAlike
  <2> QED BY <1>1, <1>3, <2>2, <2>3 DEF HandleMessage
<1>4. CASE m.type \notin {"CLOSE", "REPLY"}
  BY <1>1, <1>4, WelcomeAlike DEF HandleMessage
<1> QED BY <1>2, <1>3, <1>4

(* What the receiver's own state depends on in a message under way. *)
Heard(m) ==
    Received(m.type, IF m.type = "CLOSE" THEN {} ELSE m.have, m.piece,
             IF m.type = "REPLY" THEN m.start ELSE 0,
             IF m.type = "REPLY" THEN m.len ELSE 0)

(* A message and what is heard of it are alike.                            *)
LEMMA HeardAlike ==
    ASSUME NEW m PROVE Alike(m, Heard(m)) /\ (m.type = "REQUEST" => Heard(m).start \in Nat)
BY DEF Alike, Heard, Received

(* An honest message is one of those that Peer's client can hear.          *)
LEMMA HonestHeard ==
    ASSUME NEW W \in Worlds, NEW p, NEW m, Honest(m, p, W)
    PROVE  /\ Heard(m) \in Messages
           /\ m.type = "REQUEST" => m.piece \in Piece
<1>1. m \in Message /\ m.type \in MsgType /\ m.have \in SUBSET Piece
  BY DEF Honest, Message
<1>2. CASE m.type = "CLOSE"
  BY <1>2 DEF Honest, Heard, Closes, Messages
<1>3. CASE m.type = "HAVE"
  BY <1>1, <1>3 DEF Honest, Heard, Haves, Messages
<1>4. CASE m.type = "REQUEST"
  <2>1. m.piece \in Piece
    BY <1>4 DEF Honest, Worlds
  <2>2. Heard(m) = Received("REQUEST", m.have, m.piece, 0, 0)
    BY <1>4 DEF Heard
  <2>3. Heard(m) \in Requests
    BY <1>1, <2>1, <2>2 DEF Requests
  <2> QED BY <2>1, <2>3 DEF Messages
<1>5. CASE m.type = "REPLY"
  <2>1. IsReply(m) /\ m.piece \in Piece
    BY <1>5 DEF Honest, IsReply, IsData
  <2>2. m.start \in Cell /\ m.len \in 1 .. PieceLength
    <3>1. PieceSize(m.piece) \in 1 .. PieceLength /\ PieceLength \in Nat
      BY <2>1, PieceSizeRange, TorrentAssumption
    <3>2. Narrow(m.start) \in Nat
      BY <2>1, LimitAssumption DEF IsReply, IsData, Narrow
    <3> QED BY <2>1, <3>1, <3>2, LimitAssumption
        DEF IsReply, IsData, ReplyFor, Cells, Cell, MinOf
  <2>3. Heard(m) = Received("REPLY", m.have, m.piece, m.start, m.len)
    BY <1>5 DEF Heard
  <2>4. ReplyFor(Heard(m).have, Heard(m).piece, Heard(m).start, Heard(m).len)
    BY <2>1, <2>3 DEF Received, IsReply
  <2>5. Heard(m) \in {Received("REPLY", h, i, start, len) :
                       h \in SUBSET Piece, i \in Piece, start \in Cell,
                       len \in 1 .. PieceLength}
    BY <1>1, <2>1, <2>2, <2>3
  <2>6. Heard(m) \in Replies
    BY <2>4, <2>5 DEF Replies
  <2> QED BY <1>5, <2>6 DEF Messages
<1>6. m.type \in {"CLOSE", "HAVE", "REQUEST", "REPLY"}
  BY <1>1 DEF MsgType
<1> QED BY <1>2, <1>3, <1>4, <1>5, <1>6

(* What Peer lets its client hear leaves out nothing that these clients    *)
(* send, whatever is lost, repeated, delayed or restarted: what Peer's     *)
(* runs and theorems say of one client holds of each of these.             *)
THEOREM EnvironmentCovered == RestartSpec => []EnvironmentCovers
<1>1. Inv => EnvironmentCovers
  <2> SUFFICES ASSUME Inv, NEW l \in Links, NEW m \in net[l],
                      NEW s \in HandleMessage(node[l[2]], l[1], m)
               PROVE  Emptied(s) \in Hearing(node[l[2]], l[1])
    BY DEF EnvironmentCovers
  <2>1. Heard(m) \in Messages /\ (m.type = "REQUEST" => m.piece \in Piece)
    BY WorldTypes, HonestHeard DEF Inv, Fits
  <2>2. PICK u \in HandleMessage(node[l[2]], l[1], Heard(m)) : Emptied(s) = Emptied(u)
    BY <2>1, HeardAlike, HandleMessageAlike
  <2> QED BY <2>1, <2>2 DEF Hearing
<1> QED BY Invariance, <1>1, PTL

-----------------------------------------------------------------------------
(* When nobody claims more than it has, a REQUEST finds a holder.          *)
LEMMA HoldersMet == OwnInv => RequestsMeetHolders
<1> SUFFICES ASSUME OwnInv, NEW l \in Links, NEW m \in net[l], m.type = "REQUEST"
             PROVE  m.piece \in node[l[2]].own
  BY DEF RequestsMeetHolders
<1>1. Reaches(m, l[2]) /\ Honest(m, OwnOf(node)[l[1]], OwnOf(node))
  BY DEF OwnInv, Fits
<1>2. m.to = l[2] /\ l[2] \in Addr
  BY <1>1, MulticastAssumption DEF Reaches, Honest, Links
<1> QED BY <1>1, <1>2 DEF Honest, OwnOf

(* A REQUEST under way is for a piece its receiver has (distribution.tex:  *)
(* 11): without restarts even when file operations fail, ...               *)
THEOREM HoldersCorrect == Spec => []RequestsMeetHolders
<1>1. Init => OwnInv
  BY InitSpreads
<1>2. OwnInv /\ [Next]_vars => OwnInv'
  BY NextSpreads
<1> QED BY <1>1, <1>2, HoldersMet, PTL DEF Spec

(* ... and with restarts when every piece can be read back: a restarted    *)
(* client may miss a piece of its own file otherwise.                      *)
THEOREM HoldersRestarted ==
    ASSUME Unreadable = {}
    PROVE  RestartSpec => []RequestsMeetHolders
<1>1. Init => WholeInv
  BY InitSpreads DEF WholeInv
<1>2. WholeInv /\ [Next \/ \E c \in Addr : Restart(c)]_vars => WholeInv'
  BY RestartNextSpreads
<1>3. WholeInv => RequestsMeetHolders
  BY HoldersMet DEF WholeInv
<1> QED BY <1>1, <1>2, <1>3, PTL DEF RestartSpec

(* The clients implement Spread: pieces are copied from holders, one at a  *)
(* time, kept, and never believed to be where they are not.                *)
THEOREM Refinement == Spec => PiecesSpread
<1>1. Init => OwnInv /\ Swarmed!Init
  BY InitSpreads
<1>2. OwnInv /\ [Next]_vars => OwnInv' /\ [Swarmed!Next]_(Swarmed!vars)
  BY NextSpreads
<1> QED BY <1>1, <1>2, PTL DEF Spec, PiecesSpread, Swarmed!Spec

(* Restarted clients do so too when file operations do not fail and a      *)
(* piece has no more bytes than a data_offset can reach (piece.c:107).     *)
THEOREM RestartRefinement ==
    ASSUME PieceLength <= OffsetRange, ~FlakyStorage, Unreadable = {}
    PROVE  RestartSpec => PiecesSpread
<1>1. Init => WholeInv /\ Swarmed!Init
  BY InitSpreads DEF WholeInv
<1>2. WholeInv /\ [Next \/ \E c \in Addr : Restart(c)]_vars
          => WholeInv' /\ [Swarmed!Next]_(Swarmed!vars)
  BY RestartNextSpreads DEF Sure, Exact, NoWrap
<1> QED BY <1>1, <1>2, PTL DEF RestartSpec, PiecesSpread, Swarmed!Spec
=============================================================================
