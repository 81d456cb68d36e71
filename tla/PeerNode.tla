------------------------------ MODULE PeerNode ------------------------------
(***************************************************************************)
(* One NanoTorrent client as its peer process sees it: the connections and *)
(* the message handlers of src/peer/peer.c, the piece storage of           *)
(* src/peer/piece.c and the piece selection of src/peer/piece-select.c.    *)
(*                                                                         *)
(* The module has no variables.  A client is a record (NodeType) and a     *)
(* handler is an operator that returns the SET of records the handler can  *)
(* leave behind: more than one where the code depends on the list order of *)
(* the connections, on the result of a file operation, or on whether the   *)
(* Contiki event queue accepts an event.  Peer puts one client in an open  *)
(* environment.                                                            *)
(*                                                                         *)
(* Fields of a client                                                      *)
(*   pool     the MEMB a connection was allocated from; "none": not in the *)
(*            `peers' list                                                 *)
(*   have     conn->have                                                   *)
(*   request  conn->request_index, NoPiece when !conn->has_request         *)
(*   offset   conn->request_offset (0 when there is no request)            *)
(*   retry    conn->request_retry                                          *)
(*   alive    conn->heartbeat is running                                   *)
(*   pending  pending_pieces                                               *)
(*   counts   piece_counts                                                 *)
(*   own      own_have                                                     *)
(*   file     the bytes of each piece that hold the distributed data       *)
(*   beat     the process's heartbeat timer is running                     *)
(*   seeded   posted_seeding_event                                         *)
(*   out      messages sent since the environment last took them           *)
(* A freed connection slot is normalised to its state after                *)
(* nanotorrent_peer_add, which resets everything that is read later.       *)
(***************************************************************************)
EXTENDS Integers, FiniteSets, Retry

CONSTANTS
    Addr,             \* addresses of the other peers
    LocalAddr,        \* the link-local ones among them
    NoPiece,          \* "no request"
    NumPieces,        \* num_pieces of the torrent descriptor
    PieceLength,      \* piece_size of the torrent descriptor
    FileSize,         \* file_size of the torrent descriptor
    OffsetRange,      \* 256: values of the uint8_t data_offset in piece.c
    MaxPayload,       \* data bytes that fit in one UDP payload
    MaxIn, MaxOut,    \* NANOTORRENT_MAX_IN_PEERS, NANOTORRENT_MAX_OUT_PEERS
    MaxRetries,       \* NANOTORRENT_MAX_PEER_RETRIES
    EndGamePercent,   \* NANOTORRENT_END_GAME_MIN_COMPLETION, in percent
    FlakyStorage,     \* whether piece_read, piece_write may fail or be partial
    Unreadable        \* pieces that piece_verify may fail to read

Piece == 0 .. NumPieces - 1
Cell  == 0 .. PieceLength - 1

(* At most 31 pieces: 1 << 32 in nanotorrent_piece_bitset_all is undefined.*)
(* The 32 of config.h are never met, since nanotorrent_torrent_info_create *)
(* gives up on the 32nd piece (TorrentProofs!IndexKept).                   *)
ASSUME AddrAssumption == IsFiniteSet(Addr) /\ LocalAddr \subseteq Addr
ASSUME TorrentAssumption ==
    /\ NumPieces \in 1 .. 31
    /\ PieceLength \in Nat \ {0}
    /\ FileSize \in (NumPieces - 1) * PieceLength + 1 .. NumPieces * PieceLength
    /\ NoPiece \notin Piece
ASSUME LimitAssumption ==
    /\ OffsetRange \in Nat \ {0}
    /\ MaxPayload \in Nat \ {0}
    /\ MaxIn \in Nat /\ MaxOut \in Nat
    /\ MaxRetries \in Nat \ {0}
    /\ EndGamePercent \in Nat
    /\ FlakyStorage \in BOOLEAN /\ Unreadable \subseteq Piece

-----------------------------------------------------------------------------
(* Piece geometry: piece.c. *)

PieceSize(i) ==
    IF i # NumPieces - 1 THEN PieceLength
    ELSE IF i = 0 THEN FileSize
    ELSE IF FileSize % PieceLength = 0 THEN PieceLength
    ELSE FileSize % PieceLength

Cells(i) == 0 .. PieceSize(i) - 1

(* The conversion of a uint16_t offset to the uint8_t parameter data_offset*)
(* of nanotorrent_piece_read and nanotorrent_piece_write.                  *)
Narrow(start) == start % OffsetRange

MinOf(m, n) == IF m <= n THEN m ELSE n

(* Mutant: bytes behind the end of the piece are transferred. *)
TransferredBeyond(i, start, len) ==
    IF Narrow(start) >= PieceSize(i) THEN {0}
    ELSE IF FlakyStorage THEN 0 .. len ELSE {len}

(* What nanotorrent_piece_read and nanotorrent_piece_write can return for  *)
(* a buffer of len bytes; 0 also stands for their error result, which      *)
(* every caller treats the same way.                                       *)
Transferred(i, start, len) ==
    IF Narrow(start) >= PieceSize(i) THEN {0}
    ELSE LET fit == MinOf(len, PieceSize(i) - Narrow(start))
         IN IF FlakyStorage THEN 0 .. fit ELSE {fit}

-----------------------------------------------------------------------------
(* Messages: peer.h, and the send functions of peer.c. *)

Multicast == "multicast"

(* The all-nodes group is not the address of a peer. *)
ASSUME MulticastAssumption == Multicast \notin Addr

MsgType == {"CLOSE", "HAVE", "REQUEST", "REPLY"}

(* Every message carries the sender's have field; piece, start and len are *)
(* meaningful for REQUEST and REPLY only.                                  *)
Message == [type: MsgType, to: Addr \cup {Multicast}, have: SUBSET Piece,
            piece: Piece \cup {NoPiece}, start: Nat, len: Nat]

(* Mutant: pieces that are still being fetched are announced. *)
PlainEager(type, to, s) == [type |-> type, to |-> to, have |-> s.own \cup s.pending,
                            piece |-> NoPiece, start |-> 0, len |-> 0]

Plain(type, to, s) == [type |-> type, to |-> to, have |-> s.own,
                       piece |-> NoPiece, start |-> 0, len |-> 0]

Send(s, m) == [s EXCEPT !.out = s.out \cup {m}]

SendClose(s, a) == Send(s, Plain("CLOSE", a, s))
SendHave(s, a)  == Send(s, Plain("HAVE", a, s))

SendRequest(s, a) ==
    Send(s, [type |-> "REQUEST", to |-> a, have |-> s.own,
             piece |-> s.request[a], start |-> s.offset[a], len |-> 0])

-----------------------------------------------------------------------------
(* The messages a client can receive from others that run this code.  A    *)
(* reply is sent by a peer that has the piece and carries what its own     *)
(* piece_read returned for the requested offset.  The destination only     *)
(* matters for the messages sent in return, and so does the offset of a    *)
(* request.                                                                *)

Received(type, have, i, start, len) ==
    [type |-> type, to |-> "unicast", have |-> have,
     piece |-> i, start |-> start, len |-> len]

Closes   == {Received("CLOSE", {}, NoPiece, 0, 0)}
Haves    == {Received("HAVE", h, NoPiece, 0, 0) : h \in SUBSET Piece}
Requests == {Received("REQUEST", h, i, 0, 0) : h \in SUBSET Piece, i \in Piece}

ReplyFor(h, i, start, len) ==
    /\ i \in h
    /\ start \in Cells(i)
    /\ Narrow(start) \in Cells(i)
    /\ len \in 1 .. MinOf(MaxPayload, PieceSize(i) - Narrow(start))

Replies ==
    {m \in {Received("REPLY", h, i, start, len) :
                h \in SUBSET Piece, i \in Piece, start \in Cell,
                len \in 1 .. PieceLength} :
        ReplyFor(m.have, m.piece, m.start, m.len)}

Messages == Closes \cup Haves \cup Requests \cup Replies

-----------------------------------------------------------------------------
(* Piece selection: piece-select.c. *)

Seed(s)    == s.own = Piece
EndGame(s) == 100 * Cardinality(s.own) >= EndGamePercent * NumPieces

(* Mutant: pieces of other peers are asked of this one. *)
InterestingAnywhere(s, a) == (Piece \ s.own) \ s.pending

Interesting(s, a)        == (s.have[a] \ s.own) \ s.pending
InterestingEndGame(s, a) == s.have[a] \ s.own

(* Mutant: pending pieces are not left to the connection that asked first. *)
WantedByAll(s, a) == InterestingEndGame(s, a)

Wanted(s, a) ==
    IF Interesting(s, a) # {} THEN Interesting(s, a)
    ELSE IF EndGame(s) THEN InterestingEndGame(s, a) ELSE {}

(* The rarest wanted piece, the lowest index among equals: at most one. *)
SelectNext(s, a) ==
    {i \in Wanted(s, a) : \A j \in Wanted(s, a) \ {i} :
        s.counts[i] < s.counts[j] \/ (s.counts[i] = s.counts[j] /\ i < j)}

(* Mutant: lost pieces are not counted down. *)
RecountGains(counts, old, new) ==
    [i \in Piece |-> IF i \in new \ old THEN counts[i] + 1 ELSE counts[i]]

(* nanotorrent_select_update_have, from old to new. *)
Recount(counts, old, new) ==
    [i \in Piece |-> IF i \in new \ old THEN counts[i] + 1
                     ELSE IF i \in old \ new THEN counts[i] - 1
                     ELSE counts[i]]

-----------------------------------------------------------------------------
(* Requests: peer.c. *)

(* Mutant: the retry is not started. *)
RequestStartOnce(s, a, i, start) ==
    SendRequest([s EXCEPT !.request[a] = i, !.offset[a] = start,
                          !.pending = s.pending \cup {i}], a)

(* request_start: note the request, then the first transmission, which     *)
(* retry_start makes at once through the again callback.                   *)
RequestStart(s, a, i, start) ==
    SendRequest([s EXCEPT !.request[a] = i,
                          !.offset[a]  = start,
                          !.pending    = s.pending \cup {i},
                          !.retry[a]   = RetryStart(s.retry[a], MaxRetries)], a)

(* request_stop_partial *)
StopPartial(s, a) ==
    [s EXCEPT !.request[a] = NoPiece,
              !.offset[a]  = 0,
              !.retry[a]   = RetryStop(s.retry[a])]

(* Mutant: the piece is released although a rival still requests it. *)
RequestStopEager(s, a) ==
    [StopPartial(s, a) EXCEPT !.pending = s.pending \ {s.request[a]}]

(* request_stop: the pending bit survives while another connection still   *)
(* requests the same piece.                                                *)
RequestStop(s, a) ==
    LET i == s.request[a]
        t == StopPartial(s, a)
    IN [t EXCEPT !.pending =
            IF i = NoPiece \/ \E b \in Addr : t.request[b] = i
            THEN s.pending ELSE s.pending \ {i}]

(* request_stop_all *)
RequestStopAll(s, i) ==
    [s EXCEPT
        !.request = [a \in Addr |-> IF s.request[a] = i THEN NoPiece
                                    ELSE s.request[a]],
        !.offset  = [a \in Addr |-> IF s.request[a] = i THEN 0
                                    ELSE s.offset[a]],
        !.retry   = [a \in Addr |-> IF s.request[a] = i
                                    THEN RetryStop(s.retry[a])
                                    ELSE s.retry[a]],
        !.pending = s.pending \ {i}]

RequestNext(s, a) ==
    IF s.request[a] # NoPiece \/ Seed(s) \/ SelectNext(s, a) = {} THEN {s}
    ELSE {RequestStart(s, a, i, 0) : i \in SelectNext(s, a)}

(* nanotorrent_retry_process with the callbacks request_retry_again and    *)
(* request_retry_stop.  With `data' NULL the give-up callback dereferences *)
(* a null pointer; on the motes, which do not trap, what it reads decides: *)
(* the outcome kept here is that it finds no request and returns.          *)
ProcessRetry(s, a) ==
    LET r == s.retry[a]
        t == [s EXCEPT !.retry[a] = RetryNext(r)]
    IN IF ~RetryDue(r) THEN {s}
       ELSE IF WillTryAgain(r) THEN {SendRequest(t, a)}
       ELSE IF r.bound THEN RequestNext(RequestStop(t, a), a)
       ELSE {t}

-----------------------------------------------------------------------------
(* Connections: peer.c. *)

Connected(s, a) == s.pool[a] # "none"
Limit(p) == IF p = "in" THEN MaxIn ELSE MaxOut
SlotFree(s, p) == Cardinality({a \in Addr : s.pool[a] = p}) < Limit(p)
CanConnect(s, a, p) == Connected(s, a) \/ SlotFree(s, p)

(* connect_with and add, when CanConnect holds. *)
ConnectWith(s, a, p) ==
    IF Connected(s, a) THEN s
    ELSE [s EXCEPT !.pool[a] = p, !.alive[a] = TRUE]

(* Mutant: the pieces of the lost peer stay counted. *)
ForceDisconnectUncounted(s, a) ==
    LET t == RequestStop([s EXCEPT !.pool[a] = "none", !.have[a] = {}], a)
    IN [t EXCEPT !.alive[a] = FALSE, !.retry[a] = RetryInit]

(* force_disconnect_conn: remove and free.  The event it posts to the main *)
(* process only lets that process call nanotorrent_peer_connect, which may *)
(* happen at any time in Peer.                                             *)
ForceDisconnect(s, a) ==
    LET t == RequestStop([s EXCEPT !.pool[a] = "none",
                                   !.counts  = Recount(s.counts, s.have[a], {}),
                                   !.have[a] = {}], a)
    IN [t EXCEPT !.alive[a] = FALSE, !.retry[a] = RetryInit]

(* Mutant: an old HAVE that arrives late overwrites what is known. *)
UpdateHaveOverwrite(s, a, h) ==
    [s EXCEPT !.counts = Recount(s.counts, s.have[a], h), !.have[a] = h, !.alive[a] = TRUE]

UpdateHave(s, a, h) ==
    [s EXCEPT !.counts   = Recount(s.counts, s.have[a], s.have[a] \cup h),
              !.have[a]  = s.have[a] \cup h,
              !.alive[a] = TRUE]
-----------------------------------------------------------------------------
(* Receiving piece data: peer.c and piece.c. *)

(* nanotorrent_piece_write of n bytes: they land behind the narrowed offset.*)
WriteCells(s, i, start, n) ==
    [s EXCEPT !.file[i] = s.file[i] \cup (Narrow(start) .. Narrow(start) + n - 1)]

(* nanotorrent_piece_verify: the digest matches iff every byte is in place;*)
(* it also answers false when the piece cannot be read (piece.c:182-191).  *)
Verdicts(s, i) ==
    {v \in BOOLEAN : IF i \in Unreadable THEN v => s.file[i] = Cells(i)
                     ELSE v <=> s.file[i] = Cells(i)}

SetComplete(s, i, v) ==
    [s EXCEPT !.own = IF v THEN s.own \cup {i} ELSE s.own \ {i}]

(* post_seeding, called for a seed: process_post fails when the event queue*)
(* is full, and a later pass of the process loop tries again.              *)
PostSeeding(s) ==
    IF ~Seed(s) \/ s.seeded THEN {s} ELSE {s, [s EXCEPT !.seeded = TRUE]}

(* Mutant: rivals go on requesting the piece. *)
FinishPieceAlone(s, i, verdict) ==
    LET t == SetComplete(s, i, verdict) IN IF verdict THEN PostSeeding(t) ELSE {t}

(* receive_data: next is the offset after the data written for conn b. *)
FinishPiece(s, i, verdict) ==
    LET t == SetComplete(s, i, verdict)
    IN IF verdict THEN PostSeeding(RequestStopAll(t, i)) ELSE {t}

(* Mutant: off by one at the end of the piece. *)
ReceiveDataBeyond(s, b, i, next) ==
    IF next <= PieceSize(i) THEN {RequestStart(s, b, i, next)}
    ELSE UNION {FinishPiece(RequestStop(s, b), i, v) : v \in Verdicts(s, i)}

ReceiveData(s, b, i, next) ==
    IF next < PieceSize(i) THEN {RequestStart(s, b, i, next)}
    ELSE UNION {FinishPiece(RequestStop(s, b), i, v) : v \in Verdicts(s, i)}

(* The end of handle_data_reply, for a receiving connection b. *)
StoreData(s, b, m) ==
    UNION {IF n = 0 THEN {s}
           ELSE ReceiveData(WriteCells(s, m.piece, m.start, n), b,
                            m.piece, m.start + n) :
               n \in Transferred(m.piece, m.start, m.len)}

(* find_request: the sender's own request if there is one, else the first  *)
(* in the list, which can be any.                                          *)
FindRequest(s, a, i) ==
    IF s.request[a] = i THEN {a} ELSE {b \in Addr : s.request[b] = i}

(* Mutants: data that leaves a gap, or that was received before, is taken. *)
InRangeGap(s, b, m)   == s.offset[b] < m.start + m.len
InRangeAgain(s, b, m) == m.start <= s.offset[b]

InRange(s, b, m) ==
    m.start <= s.offset[b] /\ s.offset[b] < m.start + m.len

OfferData(s, b, m) == IF InRange(s, b, m) THEN StoreData(s, b, m) ELSE {s}

(* data_receiver for a piece that is being requested.  When find_request   *)
(* returns NULL although the piece is pending, the code reads through the  *)
(* null pointer; the outcome kept is that the offset found there is out of *)
(* range.                                                                  *)
ReceiveRequested(s, a, m) ==
    IF FindRequest(s, a, m.piece) = {} THEN {s}
    ELSE UNION {OfferData(s, b, m) : b \in FindRequest(s, a, m.piece)}

(* data_receiver for data that another local peer asked for: connect with  *)
(* the sender and note a request, whose retry receive_data will start.     *)
ReceiveOverheard(s, a, m) ==
    IF m.start = 0 /\ CanConnect(s, a, "out") /\ s.request[a] = NoPiece
    THEN LET c == ConnectWith(s, a, "out")
         IN StoreData([c EXCEPT !.request[a] = m.piece,
                                !.offset[a]  = 0,
                                !.pending    = s.pending \cup {m.piece}], a, m)
    ELSE {s}

(* Mutant: data of a piece that is held is taken like any other. *)
HandleReplyHeld(s, a, m) ==
    IF m.piece \in s.pending THEN ReceiveRequested(s, a, m)
    ELSE ReceiveOverheard(s, a, m)

(* handle_data_reply and data_receiver: only missing pieces are received.  *)
HandleReply(s, a, m) ==
    IF m.piece \in s.own THEN {s}
    ELSE IF m.piece \in s.pending THEN ReceiveRequested(s, a, m)
    ELSE ReceiveOverheard(s, a, m)

(* handle_data_request: the reply to a link-local address is multicast. *)
HandleRequest(s, a, m) ==
    IF m.piece \notin s.own THEN {s}
    ELSE {IF n = 0 THEN s
          ELSE Send(s, [type  |-> "REPLY",
                        to    |-> IF a \in LocalAddr THEN Multicast ELSE a,
                        have  |-> s.own, piece |-> m.piece,
                        start |-> m.start, len |-> n]) :
              n \in Transferred(m.piece, m.start, MaxPayload)}

-----------------------------------------------------------------------------
(* handle_message: a is the source address, m.to = Multicast when the      *)
(* destination is the all-nodes group.                                     *)

(* The part after the data of a reply was handled. *)
Welcome(s, a, m) ==
    IF ~CanConnect(s, a, "in")
    THEN {IF m.to = Multicast THEN s ELSE SendClose(s, a)}
    ELSE LET t == UpdateHave(ConnectWith(s, a, "in"), a, m.have)
         IN IF m.type = "REQUEST" THEN HandleRequest(t, a, m)
            ELSE RequestNext(t, a)

HandleMessage(s, a, m) ==
    IF m.type = "CLOSE"
    THEN {IF Connected(s, a) THEN ForceDisconnect(s, a) ELSE s}
    ELSE IF m.type = "REPLY"
    THEN UNION {Welcome(t, a, m) : t \in HandleReply(s, a, m)}
    ELSE Welcome(s, a, m)

(* The stack takes the messages that were sent. *)
Emptied(s) == [s EXCEPT !.out = {}]

(* What any message from a can make of the client. *)
Hearing(s, a) == {Emptied(t) : t \in UNION {HandleMessage(s, a, m) : m \in Messages}}

-----------------------------------------------------------------------------
(* The process loop, one iteration of its for loop and what follows it. *)

(* Mutant: a silent peer is kept while it still owes a piece. *)
VisitConnPatient(s, a) ==
    LET dropped == IF s.alive[a] \/ s.request[a] # NoPiece THEN s
                   ELSE SendClose(ForceDisconnect(s, a), a)
    IN IF dropped.request[a] = NoPiece THEN {dropped} ELSE ProcessRetry(dropped, a)

(* A connection whose heartbeat expired is dropped with a CLOSE.  It still *)
(* gets the HAVE of this pass: conn is read after it was freed.            *)
VisitConn(s, a) ==
    LET dropped == IF s.alive[a] THEN s ELSE SendClose(ForceDisconnect(s, a), a)
        retried == IF dropped.request[a] = NoPiece THEN {dropped}
                   ELSE ProcessRetry(dropped, a)
    IN {IF ~s.beat /\ a \notin LocalAddr THEN SendHave(t, a) ELSE t : t \in retried}

(* Mutants: the heartbeat is not restarted, or the event not retried. *)
FinishPassOnce(s)   == PostSeeding(IF s.beat THEN s ELSE SendHave(s, Multicast))
FinishPassSilent(s) ==
    {IF s.beat THEN s ELSE [SendHave(s, Multicast) EXCEPT !.beat = TRUE]}

FinishPass(s) ==
    PostSeeding(IF s.beat THEN s
                ELSE [SendHave(s, Multicast) EXCEPT !.beat = TRUE])

-----------------------------------------------------------------------------
(* What piece_init, select_init and peer_init leave behind for a given file*)
(* and a given set of pieces that verify_all accepted.  pending_pieces is  *)
(* not reset by peer_init: the caller says what it was.                    *)
StartState(file, own, pending) ==
    [pool    |-> [a \in Addr |-> "none"],
     have    |-> [a \in Addr |-> {}],
     request |-> [a \in Addr |-> NoPiece],
     offset  |-> [a \in Addr |-> 0],
     retry   |-> [a \in Addr |-> RetryInit],
     alive   |-> [a \in Addr |-> FALSE],
     pending |-> pending,
     counts  |-> [i \in Piece |-> 0],
     own     |-> own,
     file    |-> file,
     beat    |-> TRUE,
     seeded  |-> FALSE,
     out     |-> {}]

Files == {f \in [Piece -> SUBSET Cell] : \A i \in Piece : f[i] \subseteq Cells(i)}

(* Mutant: a piece that has some data is taken for complete. *)
VerifiedUnread(file) == {{i \in Piece : file[i] # {}}}

(* What verify_all can find in a file. *)
Verified(file) ==
    {own \in SUBSET Piece :
        \A i \in Piece : IF i \in Unreadable THEN i \in own => file[i] = Cells(i)
                         ELSE i \in own <=> file[i] = Cells(i)}

(* process start: verify_all of whatever file is there, and the first pass *)
(* over an empty list.                                                     *)
Fresh(file, pending) ==
    UNION {PostSeeding(StartState(file, own, pending)) : own \in Verified(file)}

NodeType ==
    [pool    : [Addr -> {"none", "in", "out"}],
     have    : [Addr -> SUBSET Piece],
     request : [Addr -> Piece \cup {NoPiece}],
     offset  : [Addr -> Cell],
     retry   : [Addr -> RetryRecord(MaxRetries)],
     alive   : [Addr -> BOOLEAN],
     pending : SUBSET Piece,
     counts  : [Piece -> Int],
     own     : SUBSET Piece,
     file    : [Piece -> SUBSET Cell],
     beat    : BOOLEAN,
     seeded  : BOOLEAN,
     out     : SUBSET Message]

-----------------------------------------------------------------------------
(* Predicates on a client; Peer states them as invariants. *)

(* pending_pieces (peer.c:35) holds exactly the requested pieces. *)
PendingMatchesIn(s) ==
    \A i \in Piece : i \in s.pending <=> \E a \in Addr : s.request[a] = i

(* A request belongs to an open connection and a piece that is missing. *)
RequestsUnheldIn(s) ==
    \A a \in Addr : s.request[a] # NoPiece =>
        Connected(s, a) /\ s.request[a] \notin s.own

(* One piece is requested on two connections in end-game mode only. *)
NoDuplicateRequestIn(s) ==
    \A a, b \in Addr :
        a # b /\ s.request[a] # NoPiece /\ s.request[a] = s.request[b]
            => EndGame(s)

(* The peer that a piece is requested from is known to have it. *)
RequestServableIn(s) ==
    \A a \in Addr : s.request[a] # NoPiece => s.request[a] \in s.have[a]

(* piece_counts is what it says: connections that have the piece. *)
Holders(have, i) == {a \in Addr : i \in have[a]}

CountsMatchIn(s) ==
    \A i \in Piece : s.counts[i] = Cardinality(Holders(s.have, i))

(* Every piece of own_have is complete in the file. *)
OwnVerifiedIn(s) == \A i \in s.own : s.file[i] = Cells(i)

(* The bytes of a requested piece below the offset are in the file. *)
PrefixWrittenIn(s) ==
    \A a \in Addr : s.request[a] # NoPiece =>
        0 .. s.offset[a] - 1 \subseteq s.file[s.request[a]]

(* Every request was started: its retry waits or is due. *)
RequestKeptAliveIn(s) ==
    \A a \in Addr : s.request[a] # NoPiece =>
        LET r == s.retry[a]
        IN r.bound /\ r.num \in 1 .. MaxRetries /\ r.max = MaxRetries

(* Nothing that was verified in s is lost or rewritten in t. *)
KeepsVerified(s, t) ==
    \A i \in s.own : i \in t.own /\ t.file[i] = s.file[i]
=============================================================================
