------------------------------- MODULE Torrent -------------------------------
(***************************************************************************)
(* The life of a torrent descriptor: nanogen cuts a file into pieces and   *)
(* digests them (src/peer/torrent.c), packs the descriptor (src/peer/pack),*)
(* and a client unpacks it and verifies its own file by the geometry that  *)
(* it computes from the three numbers in it (src/peer/piece.c).            *)
(*                                                                         *)
(* The digest of a piece is represented by what was digested: the set of   *)
(* positions in the source file, whose bytes are taken to be distinct.     *)
(* The client's file is a copy of the source.                              *)
(***************************************************************************)
EXTENDS Integers, Sequences, FiniteSets

CONSTANTS
    Base,         \* 256: values of a byte
    MaxPieces,    \* NANOTORRENT_MAX_PIECES
    BufferSize,   \* NANOTORRENT_PIECE_BUFFER_SIZE
    MaxLength     \* bound on the length of the source file

(* Values of a uint16_t. *)
SizeRange == Base * Base

(* Source files are shorter than what file_size can say: a longer one gets *)
(* a descriptor that describes another file.                               *)
ASSUME SizeAssumption ==
    /\ Base \in Nat \ {0, 1} /\ BufferSize \in Nat \ {0}
    /\ MaxPieces \in 2 .. Base - 1
    /\ MaxLength \in 0 .. SizeRange - 1

VARIABLES
    length,      \* length of the source file
    pieceSize,   \* the argument piece_size
    pc,          \* how far the descriptor has come
    start, pos,  \* file position: where the current piece began, and now
    hashes,      \* piece_hashes up to piece_index
    packet,      \* the packed descriptor
    desc,        \* the client's torrent info
    own          \* the client's own_have

source == <<length, pieceSize>>
vars   == <<source, pc, start, pos, hashes, packet, desc, own>>

Slice == SUBSET (0 .. MaxLength - 1)
Info  == [file_size    : 0 .. SizeRange - 1,
          piece_size   : 0 .. SizeRange - 1,
          num_pieces   : 0 .. Base - 1,
          piece_hashes : Seq(Slice)]

Byte   == 0 .. Base - 1
Packet == [file_size    : Byte \X Byte,
           piece_size   : Byte \X Byte,
           num_pieces   : Byte,
           piece_hashes : Seq(Slice)]

NoInfo == [file_size |-> 0, piece_size |-> 0, num_pieces |-> 0, piece_hashes |-> <<>>]

-----------------------------------------------------------------------------
MinOf(m, n) == IF m <= n THEN m ELSE n

(* pack-basic.c: network byte order. *)
PackUint16(n)   == <<n \div Base, n % Base>>
UnpackUint16(b) == b[1] * Base + b[2]

(* pack-torrent.c: the numbers, and the digests as they are.  Both sides   *)
(* treat the fields in the same order.                                     *)
PackInfo(info) ==
    [file_size    |-> PackUint16(info.file_size),
     piece_size   |-> PackUint16(info.piece_size),
     num_pieces   |-> info.num_pieces,
     piece_hashes |-> info.piece_hashes]

UnpackInfo(p) ==
    LET num == MinOf(p.num_pieces, MaxPieces)
    IN [file_size    |-> UnpackUint16(p.file_size),
        piece_size   |-> UnpackUint16(p.piece_size),
        num_pieces   |-> num,
        piece_hashes |-> SubSeq(p.piece_hashes, 1, num)]

TypeOK ==
    /\ length \in 0 .. MaxLength
    /\ pieceSize \in 1 .. SizeRange - 1
    /\ pc \in {"digest", "created", "published", "loaded", "verified", "refused", "failed"}
    /\ start \in 0 .. length
    /\ pos \in start .. length
    /\ hashes \in Seq(Slice)
    /\ packet \in Packet
    /\ desc \in Info
    /\ own \in SUBSET (0 .. Base - 1)

-----------------------------------------------------------------------------
(* nanotorrent_torrent_info_create *)

(* nanotorrent_piece_digest reads into a buffer; a read may be short.      *)
ReadChunk ==
    /\ pc = "digest"
    /\ \E n \in 1 .. BufferSize :
        /\ pos + n <= start + pieceSize
        /\ pos + n <= length
        /\ pos' = pos + n
    /\ UNCHANGED <<source, pc, start, hashes, packet, desc, own>>

(* A read, a digest or writing the descriptor fails.                       *)
CreationFails ==
    /\ pc \in {"digest", "created"}
    /\ pc' = "failed"
    /\ UNCHANGED <<source, start, pos, hashes, packet, desc, own>>

(* Mutant: off by one. *)
DigestedBeyond ==
    IF hashes = <<>> \/ pos > start
    THEN Append(hashes, start .. MinOf(pos, MaxLength - 1)) ELSE hashes

(* An empty piece is allowed as the first one only. *)
Digested ==
    IF hashes = <<>> \/ pos > start THEN Append(hashes, start .. pos - 1) ELSE hashes

(* Mutant: the next piece is taken to start at a multiple of the size. *)
EndPieceAligned ==
    /\ pc = "digest"
    /\ pos = start + pieceSize \/ pos = length
    /\ hashes' = Digested
    /\ start' = start + pieceSize
    /\ pc' = IF pos = start THEN "created"
             ELSE IF Len(Digested) < MaxPieces THEN "digest" ELSE "refused"
    /\ UNCHANGED <<source, pos, packet, desc, own>>

(* Mutant: takes the end of the loop for the end of the file. *)
EndPieceUnchecked ==
    /\ pc = "digest"
    /\ pos = start + pieceSize \/ pos = length
    /\ hashes' = Digested
    /\ start' = pos
    /\ pc' = IF pos > start /\ Len(Digested) < MaxPieces THEN "digest" ELSE "created"
    /\ UNCHANGED <<source, pos, packet, desc, own>>

(* The piece is full or the file at its end.  The code takes only an empty *)
(* read for the end of the file, so that it says "too many pieces" of any  *)
(* file that needs MaxPieces of them, the last one partial or full.        *)
EndPiece ==
    /\ pc = "digest"
    /\ pos = start + pieceSize \/ pos = length
    /\ hashes' = Digested
    /\ start' = pos
    /\ pc' = IF pos = start THEN "created"
             ELSE IF Len(Digested) < MaxPieces THEN "digest" ELSE "refused"
    /\ UNCHANGED <<source, pos, packet, desc, own>>

(* nanogen packs and writes the descriptor.  file_size is a uint16_t. *)
Publish ==
    /\ pc = "created"
    /\ packet' = PackInfo([file_size    |-> length % SizeRange,
                           piece_size   |-> pieceSize,
                           num_pieces   |-> Len(hashes),
                           piece_hashes |-> hashes])
    /\ pc' = "published"
    /\ UNCHANGED <<source, start, pos, hashes, desc, own>>

-----------------------------------------------------------------------------
(* The client. *)

Load ==
    /\ pc = "published"
    /\ desc' = UnpackInfo(packet)
    /\ pc' = "loaded"
    /\ UNCHANGED <<source, start, pos, hashes, packet, own>>

PieceOffset(i) == (i * desc.piece_size) % SizeRange

(* Mutant: the last piece is what is left, which may be nothing. *)
PieceSizeLeft(i) ==
    IF i # desc.num_pieces - 1 THEN desc.piece_size
    ELSE IF i = 0 THEN desc.file_size
    ELSE desc.file_size % desc.piece_size

PieceSize(i) ==
    IF i # desc.num_pieces - 1 THEN desc.piece_size
    ELSE IF i = 0 THEN desc.file_size
    ELSE IF desc.file_size % desc.piece_size = 0 THEN desc.piece_size
    ELSE desc.file_size % desc.piece_size

(* What nanotorrent_piece_verify digests: to the end of the file at most. *)
Stored(i) ==
    {b \in 0 .. length - 1 : PieceOffset(i) <= b /\ b < PieceOffset(i) + PieceSize(i)}

(* nanotorrent_piece_verify_all, at nanotorrent_piece_init.  Reads that     *)
(* fail are in PeerNode.                                                   *)
VerifyAll ==
    /\ pc = "loaded"
    /\ own' = {i \in 0 .. desc.num_pieces - 1 : desc.piece_hashes[i + 1] = Stored(i)}
    /\ pc' = "verified"
    /\ UNCHANGED <<source, start, pos, hashes, packet, desc>>

-----------------------------------------------------------------------------
(* nanogen takes a piece size of 0 as well and describes one empty piece,   *)
(* whatever the file; it is left out.                                      *)
Init ==
    /\ length \in 0 .. MaxLength
    /\ pieceSize \in 1 .. SizeRange - 1
    /\ pc = "digest"
    /\ start = 0 /\ pos = 0
    /\ hashes = <<>>
    /\ packet = PackInfo(NoInfo)
    /\ desc = NoInfo
    /\ own = {}

Next == ReadChunk \/ CreationFails \/ EndPiece \/ Publish \/ Load \/ VerifyAll

Spec == Init /\ [][Next]_vars

-----------------------------------------------------------------------------
(* No file that needs fewer than MaxPieces pieces is refused, and every    *)
(* descriptor that is made describes the whole file: its last piece is not *)
(* empty and reaches the end of the file (torrent.c:56-63).  The code also *)
(* refuses a file that needs MaxPieces pieces, against config.h:73-76; no  *)
(* property asks for that.                                                 *)
DescriptorExact ==
    /\ pc = "refused" => length > (MaxPieces - 1) * pieceSize
    /\ pc = "loaded" /\ length > 0 =>
        /\ desc.num_pieces \in 1 .. MaxPieces
        /\ desc.file_size > (desc.num_pieces - 1) * desc.piece_size
        /\ desc.file_size <= desc.num_pieces * desc.piece_size

(* The slices that are verified are those that were digested: a client     *)
(* with a copy of the file is a seed (piece.c:29-56 and torrent.c:36-55).  *)
CopyIsSeed ==
    pc = "verified" => own = 0 .. desc.num_pieces - 1

(* Every byte belongs to one piece, however short the reads were.          *)
PiecesPartition ==
    pc = "created" =>
        \A b \in 0 .. length - 1 :
            \E i \in 1 .. Len(hashes) :
                /\ b \in hashes[i]
                /\ \A j \in 1 .. Len(hashes) : b \in hashes[j] => j = i
=============================================================================
