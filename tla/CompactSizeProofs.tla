-------------------------- MODULE CompactSizeProofs --------------------------
(***************************************************************************)
(* Proofs about the compact size codec of CompactSize: the length marker   *)
(* encode_compact puts in the first byte is read back by decode_compact as *)
(* the number of bytes encode_compact wrote; and from it, that a reader of  *)
(* a store of compact sizes stays at the record boundaries the writer made *)
(* (ReaderInSync of CompactStream).                                        *)
(***************************************************************************)
EXTENDS CompactStream, SequenceTheorems, TLAPS

(* h is the highest set bit of v (or -1 when v is 0).                      *)
IsHighest(v, h) ==
  /\ h \in -1 .. 63
  /\ h >= 0 => v[h] = 1
  /\ \A p \in ULPos : p > h => v[p] = 0

(* highest_bit returns the one position that is set with nothing set      *)
(* above it.                                                               *)
LEMMA HighestSetIs ==
  ASSUME NEW D, D \subseteq Int, NEW v, NEW i \in D, v[i] = 1,
         \A j \in D : j > i => v[j] = 0
  PROVE  HighestSet(v, D) = i
<1>1. \E c \in D : v[c] = 1 /\ \A j \in D : j > c => v[j] = 0
  OBVIOUS
<1>2. \A c \in D : (v[c] = 1 /\ \A j \in D : j > c => v[j] = 0) => c = i
  BY SMT
<1>. QED  BY <1>1, <1>2 DEF HighestSet

(* highest_bit of a value with no bit set is -1.                            *)
LEMMA HighestSetNone ==
  ASSUME NEW D, NEW v, \A j \in D : v[j] # 1
  PROVE  HighestSet(v, D) = -1
BY DEF HighestSet

(* highest_bit over the 64 positions of an unsigned long is its highest   *)
(* set bit, or -1.                                                         *)
LEMMA HighestSetOf ==
  ASSUME NEW v \in ULong, NEW h \in -1 .. 63, IsHighest(v, h)
  PROVE  HighestSet(v, ULPos) = h
<1>1. CASE h = -1
  BY <1>1, HighestSetNone DEF IsHighest, ULPos
<1>2. CASE h # -1
  <2>1. h \in ULPos /\ v[h] = 1 /\ \A j \in ULPos : j > h => v[j] = 0
    BY <1>2 DEF IsHighest, ULPos
  <2>2. ULPos \subseteq Int
    BY DEF ULPos
  <2>. QED  BY <2>1, <2>2, HighestSetIs
<1>. QED  BY <1>1, <1>2

(* The arithmetic of idx = highest / 7 for a highest bit below 63.         *)
LEMMA IdxBounds ==
  ASSUME NEW h \in -1 .. 62
  PROVE  /\ CDiv(h, 7) \in 0 .. 8
         /\ 7 * (CDiv(h, 7) + 1) > h
BY DEF CDiv

(* For every value v whose highest set bit h is below 63 (the values       *)
(* encode_compact can write into its 9-byte buffer), decode_compact's      *)
(* len = 8 - highest_bit(~marker) of the first byte encode_compact writes  *)
(* is the len encode_compact wrote.                                        *)
THEOREM MarkerDecodesLength ==
  ASSUME NEW v \in ULong, NEW h \in -1 .. 62, IsHighest(v, h)
  PROVE  DecodeLen(EncodeCompact(v)[1]) = EncodeLen(v)
<1>1. HighestSet(v, ULPos) = h
  BY HighestSetOf
<1> DEFINE idx == CDiv(h, 7)
           m   == EncodeCompact(v)[1]
           n   == [k \in BytePos |-> 1 - m[k]]
<1>2. idx \in 0 .. 8 /\ 7 * (idx + 1) > h
  BY IdxBounds
<1>3. EncodeIdx(v) = idx
  BY <1>1 DEF EncodeIdx
<1>4. m = [k \in BytePos |-> IF PackedByte(v, idx + 1, 0)[k] = 1 \/ Indicator(idx)[k] = 1
                             THEN 1 ELSE 0]
  BY <1>2, <1>3 DEF EncodeCompact
<1>5. \A k \in BytePos : k >= 8 - idx => n[k] = 0
  BY <1>2, <1>4 DEF Indicator, BytePos
<1>6. idx <= 7 => n[7 - idx] = 1
  <2>. SUFFICES ASSUME idx <= 7 PROVE n[7 - idx] = 1
    OBVIOUS
  <2>1. 7 - idx \in BytePos /\ ~(7 - idx >= 8 - idx)
    BY <1>2 DEF BytePos
  <2>2. 8 * (idx + 1 - 1 - 0) + (7 - idx) > h
    BY <1>2
  <2>3. PackedByte(v, idx + 1, 0)[7 - idx] = 0
    <3>1. PackedByte(v, idx + 1, 0)[7 - idx]
            = IF 8 * (idx + 1 - 1 - 0) + (7 - idx) \in ULPos
              THEN v[8 * (idx + 1 - 1 - 0) + (7 - idx)] ELSE 0
      BY <1>2, <2>1 DEF PackedByte
    <3>2. \A p \in ULPos : p > h => v[p] = 0
      BY DEF IsHighest
    <3>. QED  BY <3>1, <3>2, <2>2
  <2>4. Indicator(idx)[7 - idx] = 0
    BY <2>1 DEF Indicator
  <2>. QED  BY <1>4, <2>1, <2>3, <2>4
<1>7. CASE idx = 8
  <2>1. \A k \in BytePos : n[k] # 1
    BY <1>5, <1>7 DEF BytePos
  <2>2. HighestSet(n, BytePos) = -1
    BY <2>1, HighestSetNone
  <2>. QED  BY <2>2, <1>3, <1>7 DEF DecodeLen, EncodeLen
<1>8. CASE idx # 8
  <2>1. 7 - idx \in BytePos /\ \A j \in BytePos : j > 7 - idx => n[j] = 0
    BY <1>2, <1>5, <1>8 DEF BytePos
  <2>2. n[7 - idx] = 1
    BY <1>2, <1>6, <1>8
  <2>3. BytePos \subseteq Int
    BY DEF BytePos
  <2>4. HighestSet(n, BytePos) = 7 - idx
    BY <2>1, <2>2, <2>3, HighestSetIs
  <2>. QED  BY <2>4, <1>2, <1>3 DEF DecodeLen, EncodeLen
<1>. QED  BY <1>7, <1>8
-----------------------------------------------------------------------------
(* Every unsigned long has a highest set bit (or none): highest_bit is     *)
(* defined on every value encode_compact is given.  HighBelow(v, k) says   *)
(* so for the positions below k; it climbs one position at a time.         *)
HighBelow(v, k) ==
  \E h \in -1 .. k - 1 : /\ h >= 0 => v[h] = 1
                         /\ \A p \in 0 .. k - 1 : p > h => v[p] = 0
(* One more position: v[k] is the new highest bit when it is set.         *)
LEMMA HighBelowStep ==
  ASSUME NEW v \in ULong, NEW k \in 0 .. 63, HighBelow(v, k)
  PROVE  HighBelow(v, k + 1)
<1>1. PICK h \in -1 .. k - 1 :
        /\ h >= 0 => v[h] = 1
        /\ \A p \in 0 .. k - 1 : p > h => v[p] = 0
  BY DEF HighBelow
<1>2. CASE v[k] = 1
  <2>. SUFFICES \E g \in -1 .. (k + 1) - 1 :
                  /\ g >= 0 => v[g] = 1
                  /\ \A p \in 0 .. (k + 1) - 1 : p > g => v[p] = 0
    BY DEF HighBelow
  <2>1. k \in -1 .. (k + 1) - 1
    OBVIOUS
  <2>. WITNESS k \in -1 .. (k + 1) - 1
  <2>. QED  BY <1>2
<1>3. CASE v[k] # 1
  <2>0. v[k] = 0
    BY <1>3 DEF ULong, ULPos, Bit
  <2>1. \A p \in 0 .. k : p > h => v[p] = 0
    <3>. SUFFICES ASSUME NEW p \in 0 .. k, p > h PROVE v[p] = 0
      OBVIOUS
    <3>1. CASE p = k
      BY <3>1, <2>0
    <3>2. CASE p # k
      <4>1. p \in 0 .. k - 1
        BY <3>2
      <4>. QED  BY <4>1, <1>1
    <3>. QED  BY <3>1, <3>2
  <2>. QED BY <1>1, <2>1 DEF HighBelow
<1>. QED BY <1>2, <1>3
(* Eight positions at once.                                               *)
LEMMA HighBelowStep8 ==
  ASSUME NEW v \in ULong, NEW k \in 0 .. 7, HighBelow(v, 8 * k)
  PROVE  HighBelow(v, 8 * k + 8)
<1>1. HighBelow(v, 8 * k + 1) BY HighBelowStep
<1>2. HighBelow(v, 8 * k + 2) BY <1>1, HighBelowStep
<1>3. HighBelow(v, 8 * k + 3) BY <1>2, HighBelowStep
<1>4. HighBelow(v, 8 * k + 4) BY <1>3, HighBelowStep
<1>5. HighBelow(v, 8 * k + 5) BY <1>4, HighBelowStep
<1>6. HighBelow(v, 8 * k + 6) BY <1>5, HighBelowStep
<1>7. HighBelow(v, 8 * k + 7) BY <1>6, HighBelowStep
<1>. QED BY <1>7, HighBelowStep
(* The highest set bit exists for every unsigned long.                    *)
LEMMA HighestExists ==
  ASSUME NEW v \in ULong
  PROVE  \E h \in -1 .. 63 : IsHighest(v, h)
<1>0. HighBelow(v, 0) BY DEF HighBelow
<1>1. HighBelow(v, 8) BY <1>0, HighBelowStep8
<1>2. HighBelow(v, 16) BY <1>1, HighBelowStep8
<1>3. HighBelow(v, 24) BY <1>2, HighBelowStep8
<1>4. HighBelow(v, 32) BY <1>3, HighBelowStep8
<1>5. HighBelow(v, 40) BY <1>4, HighBelowStep8
<1>6. HighBelow(v, 48) BY <1>5, HighBelowStep8
<1>7. HighBelow(v, 56) BY <1>6, HighBelowStep8
<1>8. HighBelow(v, 64) BY <1>7, HighBelowStep8
<1>. QED BY <1>8 DEF HighBelow, IsHighest, ULPos

(* What encode_compact hands to save_binary for a value it can encode      *)
(* (bit 63 clear): len bytes, len in 1..9, and a first byte whose marker  *)
(* decode_compact reads back as len.                                       *)
LEMMA EncodeFacts ==
  ASSUME NEW v \in ULong, ~EncodeOverflows(v)
  PROVE  /\ EncodeLen(v) \in 1 .. 9
         /\ EncodeCompact(v) \in Seq(Byte)
         /\ Len(EncodeCompact(v)) = EncodeLen(v)
         /\ DecodeLen(EncodeCompact(v)[1]) = EncodeLen(v)
<1>1. PICK h \in -1 .. 63 : IsHighest(v, h)
  BY HighestExists
<1>2. HighestSet(v, ULPos) = h
  BY <1>1, HighestSetOf
<1>3. h # 63
  <2>1. CDiv(63, 7) + 1 > 9
    BY DEF CDiv
  <2>. QED  BY <1>2, <2>1 DEF EncodeOverflows, EncodeLen, EncodeIdx
<1>4. EncodeIdx(v) \in 0 .. 8
  BY <1>1, <1>2, <1>3, IdxBounds DEF EncodeIdx
<1>5. EncodeCompact(v) \in [1 .. EncodeLen(v) -> Byte]
  <2>1. \A len \in Nat, i \in Nat : PackedByte(v, len, i) \in Byte
    BY DEF PackedByte, Byte, ULong, Bit, ULPos, BytePos
  <2>2. [k \in BytePos |-> IF PackedByte(v, EncodeIdx(v) + 1, 0)[k] = 1
                              \/ Indicator(EncodeIdx(v))[k] = 1 THEN 1 ELSE 0] \in Byte
    BY DEF Byte, Bit
  <2>. QED  BY <1>4, <2>1, <2>2 DEF EncodeCompact, EncodeLen
<1>6. DecodeLen(EncodeCompact(v)[1]) = EncodeLen(v)
  BY <1>1, <1>3, MarkerDecodesLength
<1>. QED  BY <1>4, <1>5, <1>6 DEF EncodeLen

-----------------------------------------------------------------------------
(* The values decode_compact can return, the type of what the reader read. *)
ReadValues == {DecodeCompact(b, o) : b \in Seq(Byte), o \in IntShiftResults}

(* The inductive invariant behind ReaderInSync.  The writer's records lie *)
(* end to end: record k starts at starts[k], its first byte is the marker *)
(* encode_compact wrote for written[k], and it ends where record k + 1     *)
(* starts (or at the end of the store); no encoded value overflowed.  The *)
(* reader has read no more records than were written.                      *)
SyncInv ==
  /\ store \in Seq(Byte)
  /\ written \in Seq(ULong)
  /\ starts \in Seq(Nat)
  /\ read \in Seq(ReadValues)
  /\ Len(starts) = Len(written)
  /\ Len(read) <= Len(written)
  /\ \A k \in 1 .. Len(written) :
       /\ ~EncodeOverflows(written[k])
       /\ starts[k] + EncodeLen(written[k]) = Boundary(k)
       /\ starts[k] + EncodeLen(written[k]) <= Len(store)
       /\ store[starts[k] + 1] = EncodeCompact(written[k])[1]
  /\ ReaderInSync

(* Stream facts used by every step.                                        *)
LEMMA ValuesAreULong == Values \subseteq ULong
BY StreamAssumption

(* A store of nothing written is in sync.                                  *)
LEMMA InitSync == Init => SyncInv
<1>. SUFFICES ASSUME Init PROVE SyncInv
  OBVIOUS
<1>. QED  BY DEF Init, SyncInv, ReaderInSync, Boundary

(* compact_size_t::serialize appends one whole record and leaves the      *)
(* records before it, and the reader, where they were.                     *)
LEMMA SerializeSync ==
  ASSUME SyncInv, NEW val \in Values, Serialize(val)
  PROVE  SyncInv'
<1>1. CASE EncodeOverflows(val)
  <2>1. UNCHANGED <<store, rpos, read, written, starts>>
    BY <1>1 DEF Serialize
  <2>. QED  BY <2>1 DEF SyncInv, ReaderInSync, Boundary
<1>2. CASE ~EncodeOverflows(val)
  <2> DEFINE E == EncodeCompact(val)
             n == Len(written)
  <2>1. /\ store' = store \o E
        /\ written' = Append(written, val)
        /\ starts' = Append(starts, Len(store))
        /\ UNCHANGED <<rpos, read>>
    BY <1>2 DEF Serialize
  <2>2. /\ EncodeLen(val) \in 1 .. 9
        /\ E \in Seq(Byte)
        /\ Len(E) = EncodeLen(val)
    BY <1>2, ValuesAreULong, EncodeFacts
  <2>3. /\ store' \in Seq(Byte)
        /\ Len(store') = Len(store) + EncodeLen(val)
        /\ \A i \in 1 .. Len(store) : store'[i] = store[i]
        /\ store'[Len(store) + 1] = E[1]
    <3>1. store \in Seq(Byte) /\ Len(store) \in Nat
      BY LenProperties DEF SyncInv
    <3>2. /\ store \o E \in Seq(Byte)
          /\ Len(store \o E) = Len(store) + Len(E)
          /\ \A i \in 1 .. Len(store) + Len(E) :
                (store \o E)[i] = IF i <= Len(store) THEN store[i]
                                                   ELSE E[i - Len(store)]
      BY <3>1, <2>2, ConcatProperties
    <3>3. \A i \in 1 .. Len(store) : store'[i] = store[i]
      BY <3>1, <3>2, <2>1, <2>2
    <3>4. store'[Len(store) + 1] = E[1]
      BY <3>1, <3>2, <2>1, <2>2
    <3>. QED  BY <3>2, <3>3, <3>4, <2>1, <2>2
  <2>4. /\ written' \in Seq(ULong)
        /\ starts' \in Seq(Nat)
        /\ Len(written') = n + 1
        /\ Len(starts') = n + 1
        /\ \A k \in 1 .. n : written'[k] = written[k] /\ starts'[k] = starts[k]
        /\ written'[n + 1] = val
        /\ starts'[n + 1] = Len(store)
    BY <2>1, ValuesAreULong, AppendProperties DEF SyncInv
  <2>0. n \in Nat /\ Len(starts) = n
    BY LenProperties DEF SyncInv
  <2>5. \A k \in 0 .. n : Boundary(k)' = Boundary(k)
    <3>. SUFFICES ASSUME NEW k \in 0 .. n PROVE Boundary(k)' = Boundary(k)
      OBVIOUS
    <3>1. CASE k < n
      BY <2>0, <2>4, <3>1 DEF Boundary
    <3>2. CASE k = n
      BY <2>0, <2>4, <3>2 DEF Boundary
    <3>. QED  BY <2>0, <3>1, <3>2
  <2>6. \A k \in 1 .. n : EncodeLen(written[k]) \in 1 .. 9
    BY ValuesAreULong, EncodeFacts DEF SyncInv
  <2>7. ASSUME NEW k \in 1 .. n + 1
        PROVE  /\ ~EncodeOverflows(written[k])'
               /\ starts'[k] + EncodeLen(written'[k]) = Boundary(k)'
               /\ starts'[k] + EncodeLen(written'[k]) <= Len(store')
               /\ store'[starts'[k] + 1] = EncodeCompact(written'[k])[1]
    <3>1. CASE k = n + 1
      BY <3>1, <1>2, <2>2, <2>3, <2>4 DEF Boundary
    <3>2. CASE k \in 1 .. n
      <4>1. /\ ~EncodeOverflows(written[k])
            /\ starts[k] + EncodeLen(written[k]) = Boundary(k)
            /\ starts[k] + EncodeLen(written[k]) <= Len(store)
            /\ store[starts[k] + 1] = EncodeCompact(written[k])[1]
        BY <3>2 DEF SyncInv
      <4>2. starts[k] \in Nat
        BY <3>2 DEF SyncInv
      <4>3. starts[k] + 1 \in 1 .. Len(store)
        BY <4>1, <4>2, <3>2, <2>6
      <4>4. written'[k] = written[k] /\ starts'[k] = starts[k]
        BY <3>2, <2>4
      <4>5. Boundary(k)' = Boundary(k)
        BY <3>2, <2>5
      <4>6. store'[starts[k] + 1] = store[starts[k] + 1]
        BY <4>3, <2>3
      <4>7. Len(store) <= Len(store')
        BY <2>2, <2>3 DEF SyncInv
      <4>8. ~EncodeOverflows(written'[k])
        BY <4>1, <4>4
      <4>9. starts'[k] + EncodeLen(written'[k]) = Boundary(k)'
        BY <4>1, <4>4, <4>5
      <4>10. starts'[k] + EncodeLen(written'[k]) <= Len(store')
        <5>1. Len(store) \in Nat /\ Len(store') \in Nat
          BY <2>3, LenProperties DEF SyncInv
        <5>2. starts'[k] + EncodeLen(written'[k]) = starts[k] + EncodeLen(written[k])
          BY <4>4
        <5>3. EncodeLen(written[k]) \in 1 .. 9
          BY <2>6, <3>2
        <5>4. starts[k] + EncodeLen(written[k]) <= Len(store')
          BY <5>1, <5>3, <4>1, <4>2, <4>7
        <5>. QED  BY <5>2, <5>4
      <4>11. store'[starts'[k] + 1] = EncodeCompact(written'[k])[1]
        BY <4>1, <4>4, <4>6
      <4>. QED  BY <4>8, <4>9, <4>10, <4>11
    <3>. QED  BY <2>0, <3>1, <3>2
  <2>8. ReaderInSync'
    <3>1. Len(read) \in 0 .. n /\ rpos = Boundary(Len(read))
      BY <2>0, LenProperties DEF SyncInv, ReaderInSync
    <3>2. PICK r \in 0 .. n : r = Len(read)
      BY <3>1
    <3>3. Boundary(r)' = Boundary(r)
      BY <2>5
    <3>4. rpos' = Boundary(r)
      BY <2>1, <3>1, <3>2
    <3>. QED  BY <2>1, <3>2, <3>3, <3>4 DEF ReaderInSync
  <2>9. Len(read') <= Len(written')
    BY <2>1, <2>4 DEF SyncInv
  <2>10. read' \in Seq(ReadValues) /\ Len(starts') = Len(written')
    BY <2>1, <2>4 DEF SyncInv
  <2>11. \A k \in 1 .. Len(written') :
           /\ ~EncodeOverflows(written'[k])
           /\ starts'[k] + EncodeLen(written'[k]) = Boundary(k)'
           /\ starts'[k] + EncodeLen(written'[k]) <= Len(store')
           /\ store'[starts'[k] + 1] = EncodeCompact(written'[k])[1]
    BY <2>4, <2>7
  <2>. QED  BY <2>3, <2>4, <2>8, <2>9, <2>10, <2>11 DEF SyncInv
<1>. QED  BY <1>1, <1>2

(* compact_size_t::reconstitute, when the bytes are there: the reader is  *)
(* at the start of record r + 1 (it cannot be at the end of the store, where *)
(* must_have(1) would fail), decode_compact reads the length the writer    *)
(* wrote from the marker, and skip(len) lands on the start of record r + 2. *)
LEMMA ReconstituteSync ==
  ASSUME SyncInv, Reconstitute
  PROVE  SyncInv'
<1> DEFINE r == Len(read)
           n == Len(written)
<1>1. /\ store \in Seq(Byte) /\ starts \in Seq(Nat) /\ read \in Seq(ReadValues)
      /\ Len(starts) = n /\ r <= n /\ rpos = Boundary(r)
  BY DEF SyncInv, ReaderInSync
<1>2. r \in Nat /\ n \in Nat /\ Len(store) \in Nat
  BY <1>1, LenProperties DEF SyncInv
<1>3. r < n
  <2>. SUFFICES ASSUME r = n PROVE FALSE
    BY <1>1, <1>2
  <2>1. rpos = Len(store)
    BY <1>1 DEF Boundary
  <2>2. Needed = 1
    BY <2>1 DEF Needed
  <2>. QED  BY <2>1, <2>2, <1>2 DEF Reconstitute
<1> DEFINE w == written[r + 1]
<1>4. /\ ~EncodeOverflows(w)
      /\ starts[r + 1] + EncodeLen(w) = Boundary(r + 1)
      /\ starts[r + 1] + EncodeLen(w) <= Len(store)
      /\ store[starts[r + 1] + 1] = EncodeCompact(w)[1]
  BY <1>2, <1>3 DEF SyncInv
<1>5. rpos = starts[r + 1] /\ starts[r + 1] \in Nat
  BY <1>1, <1>2, <1>3 DEF Boundary
<1>6. w \in ULong
  BY <1>2, <1>3 DEF SyncInv
<1>7. EncodeLen(w) \in 1 .. 9 /\ DecodeLen(EncodeCompact(w)[1]) = EncodeLen(w)
  BY <1>4, <1>6, EncodeFacts
<1>8. rpos < Len(store)
  BY <1>2, <1>4, <1>5, <1>7
<1>9. Needed = EncodeLen(w)
  BY <1>4, <1>5, <1>7, <1>8 DEF Needed
<1>10. rpos' = Boundary(r + 1)
  BY <1>4, <1>5, <1>9 DEF Reconstitute
<1>11. read' \in Seq(ReadValues) /\ Len(read') = r + 1
  <2>1. PICK sh \in IntShiftResults :
          read' = Append(read, DecodeCompact(SubSeq(store, rpos + 1, rpos + Needed), sh))
    BY DEF Reconstitute
  <2>2. \A i \in (rpos + 1) .. (rpos + Needed) : store[i] \in Byte
    <3>1. rpos \in Nat /\ Needed \in Nat /\ rpos + Needed <= Len(store)
      BY <1>4, <1>5, <1>7, <1>9
    <3>2. \A i \in 1 .. Len(store) : store[i] \in Byte
      BY <1>1
    <3>. QED  BY <3>1, <3>2
  <2>3. SubSeq(store, rpos + 1, rpos + Needed) \in Seq(Byte)
    BY <2>2, <1>5, <1>7, <1>9, SubSeqProperties
  <2>4. DecodeCompact(SubSeq(store, rpos + 1, rpos + Needed), sh) \in ReadValues
    <3>1. sh \in IntShiftResults
      BY <2>1
    <3>2. \E b \in Seq(Byte), o \in IntShiftResults :
            DecodeCompact(SubSeq(store, rpos + 1, rpos + Needed), sh) = DecodeCompact(b, o)
      BY <3>1, <2>3
    <3>. QED  BY <3>2 DEF ReadValues
  <2>. QED  BY <2>1, <2>4, <1>1, AppendProperties
<1>12. UNCHANGED <<store, written, starts>>
  BY DEF Reconstitute
<1>. QED  BY <1>3, <1>10, <1>11, <1>12 DEF SyncInv, ReaderInSync, Boundary

(* must_have throws before skip: nothing the invariant speaks of moves.    *)
LEMMA ThrowsSync ==
  ASSUME SyncInv, ReconstituteThrows
  PROVE  SyncInv'
BY DEF ReconstituteThrows, SyncInv, ReaderInSync, Boundary

(* Every step keeps the writer's records and the reader in step.           *)
LEMMA NextSync == SyncInv /\ [Next]_vars => SyncInv'
<1>. SUFFICES ASSUME SyncInv, [Next]_vars PROVE SyncInv'
  OBVIOUS
<1>1. CASE \E val \in Values : Serialize(val)
  BY <1>1, SerializeSync
<1>2. CASE Reconstitute
  BY <1>2, ReconstituteSync
<1>3. CASE ReconstituteThrows
  BY <1>3, ThrowsSync
<1>4. CASE UNCHANGED vars
  BY <1>4 DEF vars, SyncInv, ReaderInSync, Boundary
<1>. QED  BY <1>1, <1>2, <1>3, <1>4 DEF Next

(* A reader of a store of compact sizes is always at a record boundary the *)
(* writer made: after k values are read, and after any must_have exception, *)
(* rpos is where compact_size_t::serialize put record k + 1.  It holds for *)
(* every value serialized and both signednesses of char and outcomes of   *)
(* the undefined int shift, because decode_compact's length comes from the  *)
(* marker alone (MarkerDecodesLength).                                     *)
THEOREM ReaderStaysInSync == Spec => []ReaderInSync
<1>1. SyncInv => ReaderInSync
  BY DEF SyncInv
<1>. QED  BY InitSync, NextSync, <1>1, PTL DEF Spec
=============================================================================
