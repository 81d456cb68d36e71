--------------------------------- MODULE Have ---------------------------------
(***************************************************************************)
(* own_have as the program stores and sends it.  PeerNode and Torrent speak*)
(* of the set of complete pieces; the client that loaded the descriptor    *)
(* (Torrent) keeps a word of that many bits (src/peer/piece.c), works on it*)
(* with shifts of an `int' (src/peer/bitset.h), and puts it into every     *)
(* message as bytes (src/peer/pack).                                       *)
(***************************************************************************)
EXTENDS Torrent, Bitwise, FiniteSetsExt

CONSTANTS
    WordBytes,    \* 4: bytes of a uint32_t
    IntBits       \* bits of an int: 32, and 16 on the AVR motes

(* Values of a uint32_t. *)
WordRange == Base ^ WordBytes

ASSUME WordAssumption ==
    /\ WordBytes \in Nat \ {0} /\ IntBits \in Nat \ {0}
    /\ 2 ^ MaxPieces <= WordRange /\ 2 ^ IntBits <= WordRange

VARIABLES
    word,       \* own_have
    pieces      \* the pieces that are complete

haveVars == <<vars, word, pieces>>

-----------------------------------------------------------------------------
(* bitset.h and bitset.c, on words. *)

(* What 1 << i can be as a uint32_t.  The top bit of an int is its sign,   *)
(* which fills a wider word; a shift by the width and more is undefined,   *)
(* and what comes out depends on the processor.                            *)
Shifted(i) ==
    IF i < IntBits - 1 THEN {2 ^ i}
    ELSE IF i = IntBits - 1 THEN {WordRange - 2 ^ i}
    ELSE {0, 2 ^ (i % IntBits)}

Get(w, i)   == (w \div 2 ^ i) % 2 = 1
Set(w, i)   == {w | s : s \in Shifted(i)}
Clear(w, i) == {w & (WordRange - 1 - s) : s \in Shifted(i)}

Diff(v, w)     == v & (WordRange - 1 - w)
Contains(v, w) == Diff(w, v) = 0

(* Mutant: the pairs of bits are not masked before they are added. *)
CountUnmasked(w) ==
    LET pairs   == w - (w \div 2)
        nibbles == (pairs & 858993459) + ((pairs \div 4) & 858993459)
    IN (nibbles + (nibbles \div 16)) & 15

(* Hacker's Delight: sums of 2, 4 and 8 bits, and then of the bytes. *)
Count(w) ==
    LET pairs   == w - ((w \div 2) & 1431655765)
        nibbles == (pairs & 858993459) + ((pairs \div 4) & 858993459)
        bytes   == (nibbles + (nibbles \div 16)) & 252645135
        halves  == bytes + (bytes \div 256)
    IN (halves + (halves \div 65536)) & 63

-----------------------------------------------------------------------------
(* piece.c *)

(* nanotorrent_piece_bitset_all: (1 << num_pieces) - 1.  INT_MIN - 1 wraps.*)
All(num) ==
    IF num < IntBits THEN {2 ^ num - 1}
    ELSE {(s + WordRange - 1) % WordRange : s \in Shifted(num)}

IsSeed(w) == \E all \in All(desc.num_pieces) : Contains(w, all)

(* pack-basic.c: network byte order. *)
PackWord(w)   == [k \in 1 .. WordBytes |-> (w \div Base ^ (WordBytes - k)) % Base]
UnpackWord(b) == MapThenSumSet(LAMBDA k : b[k] * Base ^ (WordBytes - k), 1 .. WordBytes)

-----------------------------------------------------------------------------
(* piece_init, with a file of which some pieces are missing. *)
OpenFile ==
    /\ VerifyAll
    /\ pieces' \in SUBSET own'
    /\ word' \in FoldSet(LAMBDA i, words : UNION {Set(w, i) : w \in words}, {0}, pieces')

(* nanotorrent_piece_set_complete, when all data of a piece was received.  *)
SetComplete(i, complete) ==
    /\ pc = "verified"
    /\ i < desc.num_pieces /\ ~Get(word, i)
    /\ word' \in IF complete THEN Set(word, i) ELSE Clear(word, i)
    /\ pieces' = IF complete THEN pieces \cup {i} ELSE pieces \ {i}
    /\ UNCHANGED vars

HaveInit == Init /\ word = 0 /\ pieces = {}

HaveNext ==
    \/ (ReadChunk \/ CreationFails \/ EndPiece \/ Publish \/ Load) /\ UNCHANGED <<word, pieces>>
    \/ OpenFile
    \/ \E i \in 0 .. MaxPieces - 1, complete \in BOOLEAN : SetComplete(i, complete)

HaveSpec == HaveInit /\ [][HaveNext]_haveVars

-----------------------------------------------------------------------------
(* As long as the torrent has fewer pieces than an int has bits            *)
(* (piece.c:80), the word is the set: bit by bit, when it is counted for   *)
(* the end game (bitset.c:11), when it is compared with all pieces, and    *)
(* when another client has received it and looks for what it misses        *)
(* (peer.c:221).                                                           *)
WordExact ==
    pc = "verified" /\ desc.num_pieces < IntBits =>
        /\ \A i \in 0 .. desc.num_pieces - 1 : Get(word, i) <=> i \in pieces
        /\ Count(word) = Cardinality(pieces)
        /\ IsSeed(word) <=> pieces = 0 .. desc.num_pieces - 1
        /\ \A mine \in All(desc.num_pieces) :
            \A i \in 0 .. desc.num_pieces - 1 :
                Get(Diff(mine, UnpackWord(PackWord(word))), i) <=> i \notin pieces
=============================================================================
