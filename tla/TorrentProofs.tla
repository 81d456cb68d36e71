---------------------------- MODULE TorrentProofs ----------------------------
(***************************************************************************)
(* Proofs about torrent descriptors, for any file shorter than SizeRange,  *)
(* any piece size but 0 and any way the reads are cut short.  They         *)
(* discharge what PeerNode assumes of a torrent.                           *)
(*                                                                         *)
(* The digested pieces have a closed form: piece i holds the positions     *)
(* from i * pieceSize to the next piece or the end of the file (Cut).  The *)
(* file position is a multiple of the piece size until the file ends.      *)
(***************************************************************************)
EXTENDS Torrent, TLAPS

(* The positions of a piece, for the index k of its digest. *)
Cut(k) == {b \in 0 .. length - 1 : (k - 1) * pieceSize <= b /\ b < k * pieceSize}

AllCut == \A k \in 1 .. Len(hashes) : hashes[k] = Cut(k)

(* How far the pieces reach while the file is read. *)
Progress ==
    pc = "digest" =>
        /\ Len(hashes) < MaxPieces
        /\ pos <= start + pieceSize
        /\ start <= Len(hashes) * pieceSize
        /\ start < Len(hashes) * pieceSize => start = length
        /\ Len(hashes) > 0 => (Len(hashes) - 1) * pieceSize < start

(* The pieces fit the file, once it was read. *)
Fits(n) ==
    /\ n \in 1 .. MaxPieces - 1
    /\ length <= n * pieceSize
    /\ (n - 1) * pieceSize < length \/ (n = 1 /\ length = 0)

Complete == pc \in {"created", "published", "loaded", "verified"} => Fits(Len(hashes))

Refused == pc = "refused" => length > (MaxPieces - 1) * pieceSize

Described ==
    [file_size    |-> length,
     piece_size   |-> pieceSize,
     num_pieces   |-> Len(hashes),
     piece_hashes |-> hashes]

Sent ==
    /\ pc = "published" => packet = PackInfo(Described)
    /\ pc \in {"loaded", "verified"} => desc = Described
    /\ pc = "verified" => own = 0 .. desc.num_pieces - 1

Inv == TypeOK /\ AllCut /\ Progress /\ Complete /\ Refused /\ Sent

-----------------------------------------------------------------------------
(* Division with remainder.                                                *)
LEMMA DivMod ==
    ASSUME NEW n \in Nat, NEW d \in Nat, d > 0
    PROVE  /\ n \div d \in Nat
           /\ n % d \in 0 .. d - 1
           /\ n = d * (n \div d) + (n % d)
<1>1. n \div d \in Int /\ n \div d >= 0
  OBVIOUS
<1>2. n % d \in 0 .. d - 1
  OBVIOUS
<1>3. n = d * (n \div d) + (n % d)
  OBVIOUS
<1> QED BY <1>1, <1>2, <1>3

(* A uint16_t survives packing and unpacking.                              *)
LEMMA Uint16RoundTrip ==
    ASSUME NEW n \in 0 .. SizeRange - 1
    PROVE  PackUint16(n) \in Byte \X Byte /\ UnpackUint16(PackUint16(n)) = n
<1>1. Base \in Nat /\ Base > 1 /\ n \in Nat /\ n < Base * Base
  BY SizeAssumption DEF SizeRange
<1>2. /\ n = Base * (n \div Base) + (n % Base)
      /\ n % Base \in 0 .. Base - 1
      /\ n \div Base \in Nat
  BY <1>1, DivMod
<1>3. n \div Base < Base
  <2> DEFINE q == n \div Base
  <2>1. q \in Nat /\ n >= Base * q
    BY <1>1, <1>2
  <2>2. SUFFICES ASSUME q >= Base PROVE FALSE
    BY <1>1, <2>1
  <2>3. Base * q >= Base * Base
    BY <1>1, <2>1, <2>2
  <2> QED BY <1>1, <2>1, <2>3
<1>4. (n \div Base) * Base + (n % Base) = n
  BY <1>1, <1>2
<1> QED BY <1>1, <1>2, <1>3, <1>4 DEF PackUint16, UnpackUint16, Byte

(* The remainder of a length that ends in piece k (counted from 0).        *)
LEMMA LastPiece ==
    ASSUME NEW L \in Nat, NEW p \in Nat \ {0}, NEW k \in Nat,
           k * p < L, L <= (k + 1) * p
    PROVE  /\ L = (k + 1) * p => L % p = 0
           /\ L < (k + 1) * p => L % p = L - k * p
<1> DEFINE q == L \div p
<1>1. L = p * q + (L % p) /\ L % p \in 0 .. p - 1 /\ q \in Nat
  BY DivMod
<1>2. (k + 1) * p = k * p + p /\ k * p \in Nat /\ p * q \in Nat
  BY <1>1
<1>3. CASE L = (k + 1) * p
  <2>1. p * (k + 1 - q) = L % p
    BY <1>1, <1>2, <1>3
  <2>2. CASE k + 1 - q <= 0
    BY <2>1, <2>2, <1>1
  <2>3. CASE k + 1 - q >= 1
    <3>1. p * (k + 1 - q) >= p
      BY <1>1, <2>3
    <3> QED BY <1>1, <2>1, <3>1
  <2> QED BY <1>1, <1>2, <1>3, <2>2, <2>3
<1>4. CASE L < (k + 1) * p
  <2>1. CASE q <= k - 1
    <3>1. p * q <= p * (k - 1)
      BY <1>1, <2>1
    <3>2. p * (k - 1) = k * p - p
      OBVIOUS
    <3> QED BY <1>1, <1>2, <3>1, <3>2
  <2>2. CASE q >= k + 1
    <3>1. p * q >= p * (k + 1)
      BY <1>1, <2>2
    <3> QED BY <1>1, <1>2, <1>4, <3>1
  <2>3. CASE q = k
    BY <1>1, <1>2, <1>4, <2>3
  <2> QED BY <1>1, <2>1, <2>2, <2>3
<1> QED BY <1>2, <1>3, <1>4

(* Unpacking inverts packing, as long as the indices suffice.              *)
LEMMA InfoRoundTrip ==
    ASSUME NEW info \in Info, Len(info.piece_hashes) = info.num_pieces,
           info.num_pieces <= MaxPieces
    PROVE  PackInfo(info) \in Packet /\ UnpackInfo(PackInfo(info)) = info
<1> DEFINE f == info.file_size
           p == info.piece_size
           n == info.num_pieces
           h == info.piece_hashes
<1>1. /\ f \in 0 .. SizeRange - 1 /\ p \in 0 .. SizeRange - 1
      /\ n \in 0 .. Base - 1 /\ h \in Seq(Slice)
      /\ info = [file_size |-> f, piece_size |-> p, num_pieces |-> n, piece_hashes |-> h]
  BY DEF Info
<1>2. /\ PackUint16(f) \in Byte \X Byte
      /\ PackUint16(p) \in Byte \X Byte
      /\ UnpackUint16(PackUint16(f)) = f
      /\ UnpackUint16(PackUint16(p)) = p
  BY <1>1, Uint16RoundTrip
<1>3. MinOf(n, MaxPieces) = n
  BY <1>1, SizeAssumption DEF MinOf
<1>4. SubSeq(h, 1, n) = h
  BY <1>1
<1>5. PackInfo(info) = [file_size |-> PackUint16(f), piece_size |-> PackUint16(p),
                        num_pieces |-> n, piece_hashes |-> h]
  BY DEF PackInfo
<1>6. UnpackInfo(PackInfo(info)) =
        [file_size |-> f, piece_size |-> p, num_pieces |-> n, piece_hashes |-> h]
  <2> DEFINE P == PackInfo(info)
  <2>1. /\ P.file_size = PackUint16(f) /\ P.piece_size = PackUint16(p)
        /\ P.num_pieces = n /\ P.piece_hashes = h
    BY <1>5
  <2>2. UnpackInfo(P) = [file_size    |-> UnpackUint16(P.file_size),
                         piece_size   |-> UnpackUint16(P.piece_size),
                         num_pieces   |-> MinOf(P.num_pieces, MaxPieces),
                         piece_hashes |-> SubSeq(P.piece_hashes, 1, MinOf(P.num_pieces, MaxPieces))]
    BY DEF UnpackInfo
  <2> HIDE DEF P, f, p, n, h
  <2>3. UnpackInfo(P) = [file_size |-> f, piece_size |-> p, num_pieces |-> n, piece_hashes |-> h]
    BY <1>2, <1>3, <1>4, <2>1, <2>2
  <2> QED BY <2>3 DEF P
<1>7. PackInfo(info) \in Packet
  <2> HIDE DEF f, p, n, h
  <2> QED BY <1>1, <1>2, <1>5 DEF Packet, Byte
<1> QED BY <1>1, <1>6, <1>7

-----------------------------------------------------------------------------
(* The invariant holds initially.                                          *)
LEMMA InitInv == Init => Inv
<1> SUFFICES ASSUME Init PROVE Inv
  OBVIOUS
<1>1. Base \in Nat /\ Base > 1 /\ SizeRange \in Nat
  BY SizeAssumption DEF SizeRange
<1>2. NoInfo \in Info
  BY <1>1, SizeAssumption DEF NoInfo, Info, SizeRange
<1>6. PackInfo(NoInfo) \in Packet
  BY <1>1, <1>2, InfoRoundTrip, SizeAssumption DEF NoInfo
<1>3. TypeOK
  BY <1>1, <1>2, <1>6, SizeAssumption DEF Init, TypeOK
<1>4. AllCut /\ Complete /\ Refused /\ Sent
  BY DEF Init, AllCut, Complete, Refused, Sent
<1>5. Progress
  BY <1>1, SizeAssumption DEF Init, Progress
<1> QED BY <1>3, <1>4, <1>5 DEF Inv

(* What is used of the types in the steps below.                           *)
LEMMA TypeFacts ==
    ASSUME TypeOK
    PROVE  /\ length \in Nat /\ length <= MaxLength /\ length < SizeRange
           /\ pieceSize \in Nat /\ pieceSize > 0 /\ pieceSize < SizeRange
           /\ start \in Nat /\ pos \in Nat /\ start <= pos /\ pos <= length
           /\ hashes \in Seq(Slice) /\ Len(hashes) \in Nat
           /\ Base \in Nat /\ SizeRange \in Nat /\ MaxPieces \in Nat /\ MaxPieces < Base
           /\ MaxLength \in Nat
<1>1. Base \in Nat /\ SizeRange \in Nat
  BY SizeAssumption DEF SizeRange
<1> QED BY <1>1, SizeAssumption DEF TypeOK

(* The end of a piece, the heart of the argument: the new digest has the   *)
(* closed form, and the file position is where the next piece begins.      *)
LEMMA EndPieceInv == ASSUME Inv, EndPiece PROVE Inv'
<1> DEFINE n == Len(hashes)
           m == Len(hashes')
<1>1. /\ length \in Nat /\ length <= MaxLength /\ length < SizeRange
      /\ pieceSize \in Nat /\ pieceSize > 0
      /\ start \in Nat /\ pos \in Nat /\ start <= pos /\ pos <= length
      /\ hashes \in Seq(Slice) /\ n \in Nat
      /\ MaxPieces \in Nat /\ MaxLength \in Nat
  BY TypeFacts DEF Inv
<1>2. /\ pc = "digest" /\ start' = pos /\ pos' = pos
      /\ length' = length /\ pieceSize' = pieceSize
      /\ packet' = packet /\ desc' = desc /\ own' = own
      /\ hashes' = Digested
      /\ pos = start + pieceSize \/ pos = length
  BY DEF EndPiece, source
<1>3. /\ n < MaxPieces /\ pos <= start + pieceSize
      /\ start <= n * pieceSize
      /\ start < n * pieceSize => start = length
      /\ n > 0 => (n - 1) * pieceSize < start
  BY <1>2 DEF Inv, Progress
<1>4. /\ n * pieceSize \in Nat
      /\ (n + 1) * pieceSize = n * pieceSize + pieceSize
      /\ (n - 1) * pieceSize = n * pieceSize - pieceSize
      /\ ((n + 1) - 1) * pieceSize = n * pieceSize
  BY <1>1
<1>5. CASE pos > start
  <2>1. start = n * pieceSize
    BY <1>1, <1>3, <1>4, <1>5
  <2>2. hashes' = Append(hashes, start .. pos - 1) /\ m = n + 1
    BY <1>1, <1>2, <1>5 DEF Digested
  <2>3. start .. pos - 1 = Cut(n + 1)
    <3>1. Cut(n + 1) = {b \in 0 .. length - 1 : start <= b /\ b < start + pieceSize}
      BY <1>4, <2>1 DEF Cut
    <3>2. \A b : b \in start .. pos - 1 <=>
            b \in 0 .. length - 1 /\ start <= b /\ b < start + pieceSize
      BY <1>1, <1>2, <1>3
    <3>3. \A b : b \in start .. pos - 1 <=> b \in Cut(n + 1)
      BY <3>1, <3>2
    <3> HIDE DEF Cut
    <3> QED BY <3>3
  <2>4. /\ hashes' \in Seq(Slice)
        /\ \A k \in 1 .. n : hashes'[k] = hashes[k]
        /\ hashes'[n + 1] = start .. pos - 1
    BY <1>1, <2>2 DEF Slice
  <2>5. AllCut'
    <3>1. \A k \in 1 .. n + 1 : hashes'[k] = Cut(k)
      BY <1>1, <2>3, <2>4 DEF Inv, AllCut
    <3> QED BY <1>2, <2>2, <3>1 DEF AllCut, Cut
  <2>6. TypeOK'
    <3>1. pc' \in {"digest", "refused"}
      BY <1>1, <1>5 DEF EndPiece
    <3> QED BY <1>1, <1>2, <2>4, <3>1 DEF Inv, TypeOK
  <2>7. pc' = IF m < MaxPieces THEN "digest" ELSE "refused"
    BY <1>1, <1>2, <1>5 DEF EndPiece
  <2>8. pos <= (n + 1) * pieceSize /\ (pos < (n + 1) * pieceSize => pos = length)
    BY <1>1, <1>2, <1>3, <1>4, <2>1
  <2>9. Progress'
    <3>1. Len(hashes') * pieceSize' = (n + 1) * pieceSize
      BY <1>2, <2>2
    <3>2. (Len(hashes') - 1) * pieceSize' = n * pieceSize
      BY <1>2, <1>4, <2>2
    <3>3. /\ pos' <= start' + pieceSize'
          /\ start' <= Len(hashes') * pieceSize'
          /\ start' < Len(hashes') * pieceSize' => start' = length'
          /\ (Len(hashes') - 1) * pieceSize' < start'
      BY <1>1, <1>2, <1>5, <2>1, <2>8, <3>1, <3>2
    <3> QED BY <2>2, <2>7, <3>3 DEF Progress
  <2>10. Refused'
    <3>1. CASE m >= MaxPieces
      <4>1. MaxPieces - 1 = n
        BY <1>1, <1>3, <2>2, <3>1
      <4> QED BY <1>1, <1>2, <1>5, <2>1, <4>1 DEF Refused
    <3>2. CASE m < MaxPieces
      BY <2>7, <3>2 DEF Refused
    <3> QED BY <1>1, <2>2, <3>1, <3>2
  <2>11. Complete' /\ Sent'
    BY <2>7 DEF Complete, Sent
  <2> QED BY <2>5, <2>6, <2>9, <2>10, <2>11 DEF Inv
<1>6. CASE pos = start
  <2>1. pos = length /\ pc' = "created"
    BY <1>1, <1>2, <1>6 DEF EndPiece
  <2>2. CASE hashes = <<>>
    <3>1. hashes' = Append(hashes, start .. pos - 1) /\ m = 1
      BY <1>1, <1>2, <2>2 DEF Digested
    <3>2. n = 0 /\ start = 0 /\ length = 0
      BY <1>1, <1>3, <1>6, <2>1, <2>2
    <3>3. hashes' \in Seq(Slice) /\ hashes'[1] = start .. pos - 1
      BY <1>1, <2>2, <3>1, <3>2 DEF Slice
    <3>4. start .. pos - 1 = {} /\ Cut(1)' = {}
      BY <1>1, <1>2, <1>6, <3>2 DEF Cut
    <3>5. AllCut'
      BY <1>1, <3>1, <3>3, <3>4 DEF AllCut, Cut
    <3>6. TypeOK'
      BY <1>1, <1>2, <2>1, <3>3 DEF Inv, TypeOK
    <3>7. MaxPieces > 1 => Complete'
      BY <1>1, <1>2, <3>1, <3>2 DEF Complete, Fits
    <3>8. MaxPieces > 1
      BY SizeAssumption
    <3> QED BY <2>1, <3>5, <3>6, <3>7, <3>8 DEF Inv, Progress, Refused, Sent
  <2>3. CASE hashes # <<>>
    <3>1. hashes' = hashes /\ n > 0
      BY <1>1, <1>2, <1>6, <2>3 DEF Digested
    <3>2. AllCut'
      BY <1>2, <3>1 DEF Inv, AllCut, Cut
    <3>3. TypeOK'
      BY <1>1, <1>2, <2>1, <3>1 DEF Inv, TypeOK
    <3>4. Complete'
      BY <1>1, <1>2, <1>3, <1>6, <2>1, <3>1 DEF Complete, Fits
    <3> QED BY <2>1, <3>2, <3>3, <3>4 DEF Inv, Progress, Refused, Sent
  <2> QED BY <2>2, <2>3
<1> QED BY <1>1, <1>5, <1>6

-----------------------------------------------------------------------------
(* A number that fits is not cut.                                          *)
LEMMA SmallMod == ASSUME NEW n \in Nat, NEW d \in Nat, n < d PROVE n % d = n
<1> DEFINE q == n \div d
<1>1. n = d * q + (n % d) /\ n % d \in 0 .. d - 1 /\ q \in Nat
  BY DivMod
<1>2. CASE q >= 1
  <2>1. d * q >= d
    BY <1>1, <1>2
  <2> QED BY <1>1, <2>1
<1>3. CASE q = 0
  BY <1>1, <1>3
<1> QED BY <1>1, <1>2, <1>3

(* What nanogen describes fits the fields of a descriptor.                 *)
LEMMA DescribedInfo ==
    ASSUME TypeOK, Fits(Len(hashes))
    PROVE  /\ Described \in Info
           /\ Len(Described.piece_hashes) = Described.num_pieces
           /\ Described.num_pieces <= MaxPieces
<1>1. /\ length \in 0 .. SizeRange - 1 /\ pieceSize \in 0 .. SizeRange - 1
      /\ Len(hashes) \in 0 .. Base - 1 /\ Len(hashes) <= MaxPieces
      /\ hashes \in Seq(Slice)
  BY TypeFacts DEF Fits
<1> QED BY <1>1 DEF Described, Info

(* The client's geometry is the one that the pieces were cut by.           *)
LEMMA StoredIsCut ==
    ASSUME TypeOK, Fits(Len(hashes)), desc = Described, NEW i \in 0 .. Len(hashes) - 1
    PROVE  Stored(i) = Cut(i + 1)
<1> DEFINE n == Len(hashes)
           size == PieceSize(i)
<1>1. /\ length \in Nat /\ length < SizeRange /\ SizeRange \in Nat
      /\ pieceSize \in Nat \ {0} /\ n \in Nat /\ i \in Nat /\ i <= n - 1
  BY TypeFacts
<1>2. /\ desc.file_size = length /\ desc.piece_size = pieceSize /\ desc.num_pieces = n
  BY DEF Described
<1>3. /\ length <= n * pieceSize
      /\ (n - 1) * pieceSize < length \/ (n = 1 /\ length = 0)
  BY DEF Fits
<1>4. i * pieceSize \in Nat /\ (i + 1) * pieceSize = i * pieceSize + pieceSize
  BY <1>1
<1>5. PieceOffset(i) = i * pieceSize
  <2>1. i * pieceSize <= (n - 1) * pieceSize
    BY <1>1
  <2>2. i * pieceSize <= length
    <3>1. CASE n = 1 /\ length = 0
      BY <1>1, <3>1
    <3>2. CASE (n - 1) * pieceSize < length
      <4>1. (n - 1) * pieceSize \in Int
        BY <1>1
      <4> QED BY <1>1, <1>4, <2>1, <3>2, <4>1
    <3> QED BY <1>3, <3>1, <3>2
  <2>3. (i * pieceSize) % SizeRange = i * pieceSize
    BY <1>1, <1>4, <2>2, SmallMod
  <2> QED BY <1>2, <2>3 DEF PieceOffset
<1>6. \A b \in 0 .. length - 1 : b < i * pieceSize + size <=> b < (i + 1) * pieceSize
  <2>1. CASE i # n - 1
    BY <1>1, <1>2, <1>4, <2>1 DEF PieceSize
  <2>2. CASE i = n - 1 /\ i = 0
    <3>1. size = length /\ length <= pieceSize
      <4>1. n = 1
        BY <1>1, <2>2
      <4>2. length <= 1 * pieceSize
        <5> HIDE DEF n
        <5> QED BY <1>3, <4>1
      <4>3. size = length
        BY <1>2, <2>2, <4>1 DEF PieceSize
      <4> QED BY <1>1, <4>2, <4>3
    <3> QED BY <1>1, <1>4, <2>2, <3>1
  <2>3. CASE i = n - 1 /\ i # 0
    <3>1. i * pieceSize < length /\ length <= (i + 1) * pieceSize
      BY <1>1, <1>3, <2>3
    <3>2. /\ length = (i + 1) * pieceSize => length % pieceSize = 0
          /\ length < (i + 1) * pieceSize => length % pieceSize = length - i * pieceSize
      BY <1>1, <3>1, LastPiece
    <3>3. size = IF length % pieceSize = 0 THEN pieceSize ELSE length % pieceSize
      BY <1>2, <2>3 DEF PieceSize
    <3>4. i * pieceSize + size = length \/ size = pieceSize
      BY <1>1, <1>4, <3>1, <3>2, <3>3
    <3>5. size = pieceSize => length = (i + 1) * pieceSize
      BY <1>1, <1>4, <3>1, <3>2, <3>3
    <3> QED BY <1>1, <1>4, <3>1, <3>4, <3>5
  <2> QED BY <2>1, <2>2, <2>3
<1>7. \A b : b \in Stored(i) <=> b \in Cut(i + 1)
  <2>1. (i + 1) - 1 = i
    BY <1>1
  <2> HIDE DEF size
  <2> QED BY <1>1, <1>5, <1>6, <2>1 DEF Stored, Cut, size
<1> HIDE DEF Stored, Cut
<1> QED BY <1>7

(* Each step preserves the invariant.                                      *)
LEMMA NextInv == Inv /\ [Next]_vars => Inv'
<1> SUFFICES ASSUME Inv, [Next]_vars PROVE Inv'
  OBVIOUS
<1>1. TypeOK /\ AllCut /\ Progress /\ Complete /\ Refused /\ Sent
  BY DEF Inv
<1>2. CASE ReadChunk
  <2>1. /\ pc = "digest" /\ pc' = pc /\ length' = length /\ pieceSize' = pieceSize
        /\ start' = start /\ hashes' = hashes
        /\ packet' = packet /\ desc' = desc /\ own' = own
        /\ \E n \in 1 .. BufferSize :
              pos + n <= start + pieceSize /\ pos + n <= length /\ pos' = pos + n
    BY <1>2 DEF ReadChunk, source
  <2>2. pos' \in start .. length /\ pos' <= start + pieceSize
    BY <1>1, <2>1, TypeFacts, SizeAssumption
  <2>3. TypeOK'
    BY <1>1, <2>1, <2>2 DEF TypeOK
  <2>4. Progress'
    BY <1>1, <2>1, <2>2 DEF Progress
  <2>5. AllCut' /\ Complete' /\ Refused' /\ Sent'
    BY <1>1, <2>1 DEF AllCut, Cut, Complete, Refused, Sent
  <2> QED BY <2>3, <2>4, <2>5 DEF Inv
<1>3. CASE CreationFails
  <2>1. /\ pc' = "failed" /\ length' = length /\ pieceSize' = pieceSize
        /\ start' = start /\ pos' = pos /\ hashes' = hashes
        /\ packet' = packet /\ desc' = desc /\ own' = own
    BY <1>3 DEF CreationFails, source
  <2>2. TypeOK' /\ AllCut'
    BY <1>1, <2>1 DEF TypeOK, AllCut, Cut
  <2> QED BY <2>1, <2>2 DEF Inv, Progress, Complete, Refused, Sent
<1>4. CASE EndPiece
  BY <1>4, EndPieceInv
<1>5. CASE Publish
  <2>1. /\ pc = "created" /\ pc' = "published" /\ length' = length /\ pieceSize' = pieceSize
        /\ start' = start /\ pos' = pos /\ hashes' = hashes
        /\ desc' = desc /\ own' = own
        /\ packet' = PackInfo([file_size    |-> length % SizeRange,
                               piece_size   |-> pieceSize,
                               num_pieces   |-> Len(hashes),
                               piece_hashes |-> hashes])
    BY <1>5 DEF Publish, source
  <2>2. length % SizeRange = length
    BY <1>1, TypeFacts, SmallMod
  <2>3. packet' = PackInfo(Described) /\ Described' = Described
    BY <2>1, <2>2 DEF Described
  <2>4. Fits(Len(hashes))
    BY <1>1, <2>1 DEF Complete
  <2>5. packet' \in Packet
    BY <1>1, <2>3, <2>4, DescribedInfo, InfoRoundTrip
  <2>6. TypeOK' /\ AllCut'
    BY <1>1, <2>1, <2>5 DEF TypeOK, AllCut, Cut
  <2>7. Complete'
    BY <2>1, <2>4 DEF Complete, Fits
  <2>8. PackInfo(Described)' = PackInfo(Described)
    BY <2>3 DEF PackInfo
  <2>9. Sent'
    BY <2>1, <2>3, <2>8 DEF Sent
  <2> QED BY <2>1, <2>6, <2>7, <2>9 DEF Inv, Progress, Refused
<1>6. CASE Load
  <2>1. /\ pc = "published" /\ pc' = "loaded" /\ length' = length /\ pieceSize' = pieceSize
        /\ start' = start /\ pos' = pos /\ hashes' = hashes
        /\ packet' = packet /\ own' = own /\ desc' = UnpackInfo(packet)
    BY <1>6 DEF Load, source
  <2>2. Fits(Len(hashes)) /\ packet = PackInfo(Described)
    BY <1>1, <2>1 DEF Complete, Sent
  <2>3. desc' = Described /\ Described \in Info
    BY <1>1, <2>1, <2>2, DescribedInfo, InfoRoundTrip
  <2>4. Described' = Described
    BY <2>1 DEF Described
  <2>5. TypeOK' /\ AllCut'
    BY <1>1, <2>1, <2>3 DEF TypeOK, AllCut, Cut
  <2>6. Complete'
    BY <2>1, <2>2 DEF Complete, Fits
  <2> QED BY <2>1, <2>3, <2>4, <2>5, <2>6 DEF Inv, Progress, Refused, Sent
<1>7. CASE VerifyAll
  <2>1. /\ pc = "loaded" /\ pc' = "verified" /\ length' = length /\ pieceSize' = pieceSize
        /\ start' = start /\ pos' = pos /\ hashes' = hashes
        /\ packet' = packet /\ desc' = desc
        /\ own' = {i \in 0 .. desc.num_pieces - 1 : desc.piece_hashes[i + 1] = Stored(i)}
    BY <1>7 DEF VerifyAll, source
  <2>2. Fits(Len(hashes)) /\ desc = Described
    BY <1>1, <2>1 DEF Complete, Sent
  <2>3. desc.num_pieces = Len(hashes) /\ desc.piece_hashes = hashes
    BY <2>2 DEF Described
  <2>4. \A i \in 0 .. Len(hashes) - 1 : hashes[i + 1] = Stored(i)
    <3> SUFFICES ASSUME NEW i \in 0 .. Len(hashes) - 1 PROVE hashes[i + 1] = Stored(i)
      OBVIOUS
    <3>1. Stored(i) = Cut(i + 1)
      BY <1>1, <2>2, StoredIsCut
    <3>2. i + 1 \in 1 .. Len(hashes)
      BY <1>1, TypeFacts
    <3> QED BY <1>1, <3>1, <3>2 DEF AllCut
  <2>5. own' = 0 .. desc.num_pieces - 1
    BY <2>1, <2>3, <2>4
  <2>6. own' \in SUBSET (0 .. Base - 1)
    BY <1>1, <2>2, <2>3, <2>5, TypeFacts DEF Fits
  <2>7. TypeOK' /\ AllCut'
    BY <1>1, <2>1, <2>6 DEF TypeOK, AllCut, Cut
  <2>8. Described' = Described
    BY <2>1 DEF Described
  <2>9. Complete'
    BY <2>1, <2>2 DEF Complete, Fits
  <2>10. Sent'
    BY <2>1, <2>2, <2>5, <2>8 DEF Sent
  <2> QED BY <2>1, <2>7, <2>9, <2>10 DEF Inv, Progress, Refused
<1>8. CASE UNCHANGED vars
  BY <1>1, <1>8 DEF vars, source, Inv, TypeOK, AllCut, Cut, Progress, Complete, Fits, Refused,
     Sent, Described, PackInfo
<1> QED BY <1>2, <1>3, <1>4, <1>5, <1>6, <1>7, <1>8 DEF Next

(* The invariant holds of every run.                                       *)
LEMMA Invariance == Spec => []Inv
  BY InitInv, NextInv, PTL DEF Spec

-----------------------------------------------------------------------------
(* Every variable keeps its type, for any length of file and piece: the    *)
(* numbers of the descriptor never outgrow their fields (torrent.h:13-32). *)
THEOREM TorrentTypeCorrect == Spec => []TypeOK
<1>1. Inv => TypeOK
  BY DEF Inv
<1> QED BY <1>1, Invariance, PTL

(* Whatever the lengths, no file that needs fewer than MaxPieces pieces is *)
(* refused, and the three numbers that a client unpacks describe the whole *)
(* of a file that is not empty (torrent.c:36-63, pack-torrent.c:25-38).    *)
THEOREM DescriptorCorrect == Spec => []DescriptorExact
<1>1. Inv => DescriptorExact
  <2> SUFFICES ASSUME Inv PROVE DescriptorExact
    OBVIOUS
  <2>1. pc = "refused" => length > (MaxPieces - 1) * pieceSize
    BY DEF Inv, Refused
  <2>2. ASSUME pc = "loaded", length > 0
        PROVE  /\ desc.num_pieces \in 1 .. MaxPieces
               /\ desc.file_size > (desc.num_pieces - 1) * desc.piece_size
               /\ desc.file_size <= desc.num_pieces * desc.piece_size
    <3>1. /\ desc.num_pieces = Len(hashes) /\ desc.file_size = length
          /\ desc.piece_size = pieceSize
      BY <2>2 DEF Inv, Sent, Described
    <3>2. Fits(Len(hashes))
      BY <2>2 DEF Inv, Complete
    <3>3. MaxPieces \in Nat /\ Len(hashes) \in 1 .. MaxPieces
      BY <2>2, <3>2, TypeFacts DEF Inv, Fits
    <3> QED BY <2>2, <3>1, <3>2, <3>3 DEF Fits
  <2> QED BY <2>1, <2>2 DEF DescriptorExact
<1> QED BY <1>1, Invariance, PTL

(* The number of pieces that a client reads stays below MaxPieces: the one *)
(* value for which 1 << num_pieces is undefined, in piece.c:78-81, is the  *)
(* one that the early refusal of torrent.c:56-63 keeps out.                *)
IndexLeft == pc \in {"loaded", "verified"} => desc.num_pieces < MaxPieces

(* PeerNode's bound of 31 pieces, for a descriptor that nanogen made.      *)
THEOREM IndexKept == Spec => []IndexLeft
<1>1. Inv => IndexLeft
  <2> SUFFICES ASSUME Inv, pc \in {"loaded", "verified"} PROVE desc.num_pieces < MaxPieces
    BY DEF IndexLeft
  <2>1. desc.num_pieces = Len(hashes)
    BY DEF Inv, Sent, Described
  <2>2. Len(hashes) \in 1 .. MaxPieces - 1 /\ MaxPieces \in Nat
    BY TypeFacts DEF Inv, Complete, Fits
  <2> QED BY <2>1, <2>2
<1> QED BY <1>1, Invariance, PTL

(* A client with a copy of the file is a seed: the slices it verifies are  *)
(* those nanogen digested, also when the last piece is full.               *)
THEOREM CopySeeds == Spec => []CopyIsSeed
<1>1. Inv => CopyIsSeed
  BY DEF Inv, Sent, CopyIsSeed
<1> QED BY <1>1, Invariance, PTL

(* However the reads are cut short, each byte is digested once: the        *)
(* digest of a piece loses or repeats none (piece.c:176-206).              *)
THEOREM PartitionCorrect == Spec => []PiecesPartition
<1>1. Inv => PiecesPartition
  <2> SUFFICES ASSUME Inv, pc = "created", NEW b \in 0 .. length - 1
               PROVE  \E i \in 1 .. Len(hashes) :
                        /\ b \in hashes[i]
                        /\ \A j \in 1 .. Len(hashes) : b \in hashes[j] => j = i
    BY DEF PiecesPartition
  <2> DEFINE q == b \div pieceSize
             n == Len(hashes)
  <2>1. /\ length \in Nat /\ pieceSize \in Nat /\ pieceSize > 0 /\ n \in Nat
        /\ b \in Nat /\ b < length /\ length <= n * pieceSize
        /\ \A k \in 1 .. n : hashes[k] = Cut(k)
    BY TypeFacts DEF Inv, AllCut, Complete, Fits
  <2>2. /\ q \in Nat /\ pieceSize * q <= b /\ b < pieceSize * q + pieceSize
    BY <2>1, DivMod
  <2>3. /\ pieceSize * q = q * pieceSize /\ ((q + 1) - 1) * pieceSize = q * pieceSize
        /\ (q + 1) * pieceSize = q * pieceSize + pieceSize
    BY <2>1, <2>2
  <2>4. q < n
    <3>1. CASE q >= n
      <4>1. q * pieceSize >= n * pieceSize
        BY <2>1, <2>2, <3>1
      <4>2. q * pieceSize \in Nat /\ n * pieceSize \in Nat
        BY <2>1, <2>2
      <4> QED BY <2>1, <2>2, <2>3, <4>1, <4>2
    <3> QED BY <2>1, <2>2, <3>1
  <2>5. q + 1 \in 1 .. n /\ b \in hashes[q + 1]
    <3> HIDE DEF q
    <3>1. b \in Cut(q + 1)
      BY <2>1, <2>2, <2>3 DEF Cut
    <3> QED BY <2>1, <2>2, <2>4, <3>1
  <2>6. ASSUME NEW j \in 1 .. n, b \in hashes[j] PROVE j = q + 1
    <3>1. j \in Nat /\ (j - 1) * pieceSize <= b /\ b < j * pieceSize
      BY <2>1, <2>6 DEF Cut
    <3>2. CASE j - 1 >= q + 1
      <4>1. (j - 1) * pieceSize >= (q + 1) * pieceSize
        BY <2>1, <2>2, <3>1, <3>2
      <4>2. (j - 1) * pieceSize \in Int /\ (q + 1) * pieceSize \in Nat
        BY <2>1, <2>2, <3>1
      <4> QED BY <2>1, <2>2, <2>3, <3>1, <4>1, <4>2
    <3>3. CASE j <= q
      <4>1. j * pieceSize <= q * pieceSize
        BY <2>1, <2>2, <3>1, <3>3
      <4>2. j * pieceSize \in Nat /\ q * pieceSize \in Nat
        BY <2>1, <2>2, <3>1
      <4> QED BY <2>1, <2>2, <2>3, <3>1, <4>1, <4>2
    <3> QED BY <2>2, <3>1, <3>2, <3>3
  <2> QED BY <2>5, <2>6
<1> QED BY <1>1, Invariance, PTL

=============================================================================
