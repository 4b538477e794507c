------------------------ MODULE BitStreamReadProofs ------------------------
(***************************************************************************)
(* The reader's side of bit_range_ops.h, proved for every array size,     *)
(* padding and word width: Bit_Extractor reads back each field as         *)
(* Bit_Writer wrote it, and never loads past the array, each under the     *)
(* condition on the build or the caller that the code needs.               *)
(*                                                                         *)
(* Neither property is inductive.  The reader's cursor has to be tied to  *)
(* the writer's history: the fields lie end to end from bit 0 (the writer  *)
(* appends at its cursor), and after consuming k fields the Bit_Buffer's   *)
(* (data, bit_ofs) is at the end of field k.  A Buffered_Mem_Buffer's b0,  *)
(* b1 must be the words at data and data + 1 (Fresh), which holds while   *)
(* nothing writes the array after the reader exists.  With the array      *)
(* holding the stream (MemInv, from BitStreamProofs), extract at the end   *)
(* of field k reads field k + 1.                                           *)
(***************************************************************************)
EXTENDS BitStreamProofs

(* The stream position where field k ends (0 before the first field).      *)
End(k) == IF k = 0 THEN 0 ELSE fields[k].at + fields[k].bits

(* Bit_Writer::write appends each field at its cursor: the fields lie end  *)
(* to end from bit 0 and the writer's cursor is at the end of the last.   *)
Contiguous ==
  /\ \A i \in 1 .. Len(fields) : fields[i].at = End(i - 1)
  /\ WPos = End(Len(fields))

(* The caller writes values that fit their widths.                          *)
FieldsFit == \A i \in 1 .. Len(fields) : Fits(fields[i].val, fields[i].bits)

(* A Bit_Buffer r has consumed k fields.                                    *)
ReaderAt(r, k) == r.data * W + r.ofs = End(k)

(* Buffered_Mem_Buffer's b0 and b1 are the words at data and data + 1.      *)
Fresh(r) == Strategy = "buffered" => r.b0 = Load(r.data) /\ r.b1 = Load(r.data + 1)

(* The build extracts a field exactly (shrd is native, or a shift by W     *)
(* gives 0), and the buffer cannot go stale (the memory buffer is not      *)
(* cached, or nothing writes once the reader exists).                      *)
ExactRead ==
  /\ NativeShrd \/ "masked" \notin OversizeResults
  /\ Strategy = "simple" \/ ~ReadWhileWriting

(* The caller pads the data by two words.                                  *)
TwoPadding == Padding >= 2

RInv ==
  /\ MemInv
  /\ Contiguous
  /\ FieldsFit
  /\ ropen => ReaderAt(rd, Len(got))
  /\ ~ropen => got = << >> /\ ~rd.oob
  /\ ExactRead /\ ropen => Fresh(rd)
  /\ ExactRead => ReadBackCorrect
  /\ TwoPadding => NoOutOfBoundsRead
-----------------------------------------------------------------------------
(* Arithmetic on stream positions.                                          *)

USE WAssumption, NAssumption, PaddingAssumption

(* Bit r of word a is stream position a * W + r.                            *)
LEMMA DivModOf ==
  ASSUME NEW a \in Nat, NEW r \in Pos
  PROVE  (a * W + r) \div W = a /\ (a * W + r) % W = r
  BY DEF Pos

(* A position inside the first m words lies in a word below m.             *)
LEMMA WordBelow ==
  ASSUME NEW a \in Nat, NEW r \in Nat, NEW m \in Nat, a * W + r < m * W
  PROVE  a < m
<1>1. SUFFICES ASSUME m <= a PROVE FALSE
  OBVIOUS
<1>2. m * W <= a * W
  BY <1>1
<1>3. QED
  BY <1>2

LEMMA WordAtMost ==
  ASSUME NEW a \in Nat, NEW r \in Nat, NEW m \in Nat, a * W + r <= m * W
  PROVE  a <= m
<1>1. SUFFICES ASSUME m + 1 <= a PROVE FALSE
  OBVIOUS
<1>2. (m + 1) * W <= a * W
  BY <1>1
<1>3. QED
  BY <1>2

(* Renormalising bit_ofs + bits, both below W: the word count k is 0 or  *)
(* 1 and the cursor moves by exactly bits.                                 *)
LEMMA CursorSplit ==
  ASSUME NEW d \in Nat, NEW o \in Pos, NEW b \in Pos
  PROVE  /\ (o + b) \div W \in {0, 1}
         /\ (d + (o + b) \div W) * W + ((o + b) % W) = d * W + o + b
<1> DEFINE x == o + b
           q == x \div W
           m == x % W
<1>0. o \in Nat /\ b \in Nat
  BY DEF Pos
<1>1. x \in 0 .. (2 * W - 1)
  BY DEF Pos
<1>2. (x < W => q = 0 /\ m = x) /\ (x >= W => q = 1 /\ m = x - W)
  BY <1>1, CarryDivMod
<1> SUFFICES q \in {0, 1} /\ (d + q) * W + m = d * W + o + b
  BY Zenon
<1> HIDE DEF q, m
<1>3. CASE x < W
  <2>1. q = 0 /\ m = o + b
    BY <1>0, <1>2, <1>3
  <2>2. (d + q) * W = d * W
    BY <2>1
  <2>3. QED
    BY <1>0, <2>1, <2>2
<1>4. CASE x >= W
  <2>1. q = 1 /\ m = o + b - W
    BY <1>0, <1>2, <1>4
  <2>2. (d + q) * W = d * W + W
    BY <2>1
  <2>3. QED
    BY <1>0, <2>1, <2>2
<1>5. QED
  BY <1>1, <1>3, <1>4

(* Bit_Buffer::advance(bits) moves the cursor by bits, crossing at most    *)
(* one word, and keeps the memory buffer's words fresh.                    *)
LEMMA AdvanceCursor ==
  ASSUME NEW r \in Reader, NEW bits \in Pos
  PROVE  LET x == BitBufferAdvance(r, bits)
             k == (r.ofs + bits) \div W
         IN  /\ k \in {0, 1}
             /\ x.data = r.data + k
             /\ x.ofs = (r.ofs + bits) % W
             /\ x.data * W + x.ofs = r.data * W + r.ofs + bits
             /\ x.b0 = IF Strategy = "simple" THEN r.b0
                       ELSE IF k = 0 THEN r.b0 ELSE r.b1
             /\ x.b1 = IF Strategy = "simple" \/ k = 0 THEN r.b1 ELSE Load(x.data + 1)
             /\ x.oob = (r.oob \/ (Strategy # "simple" /\ k # 0 /\ x.data + 1 >= N))
<1> DEFINE k == (r.ofs + bits) \div W
<1>1. r.data \in Nat /\ r.ofs \in Pos
  BY DEF Reader
<1>2. k \in {0, 1} /\ (r.data + k) * W + ((r.ofs + bits) % W) = r.data * W + r.ofs + bits
  BY <1>1, CursorSplit
<1>3. QED
  BY <1>2 DEF BitBufferAdvance, MemBufAdvance, Reader
(* Bit c of the double word at word a (c < 2W) is in word a or a + 1 of    *)
(* the array, and inside it when the position is.                         *)
LEMMA BitOfDoubleWord ==
  ASSUME NEW a \in Nat, NEW c \in 0 .. (2 * W - 1), a * W + c < N * W
  PROVE  /\ c < W => /\ (a * W + c) \div W = a /\ (a * W + c) % W = c
                     /\ a < N
         /\ c >= W => /\ (a * W + c) \div W = a + 1 /\ (a * W + c) % W = c - W
                      /\ a + 1 < N
<1>1. CASE c < W
  <2>1. c \in Pos
    BY <1>1 DEF Pos
  <2>2. (a * W + c) \div W = a /\ (a * W + c) % W = c
    BY <2>1, DivModOf
  <2>3. a < N
    BY WordBelow
  <2>4. QED
    BY <1>1, <2>2, <2>3
<1>2. CASE c >= W
  <2>1. c - W \in Pos /\ a + 1 \in Nat
    BY <1>2 DEF Pos
  <2>2. a * W + c = (a + 1) * W + (c - W)
    OBVIOUS
  <2>3. ((a + 1) * W + (c - W)) \div W = a + 1 /\ ((a + 1) * W + (c - W)) % W = c - W
    BY <2>1, DivModOf
  <2>4. a + 1 < N
    <3>1. (a + 1) * W + (c - W) < N * W /\ c - W \in Nat
      BY <2>1, <2>2 DEF Pos
    <3>2. QED
      BY <2>1, <3>1, WordBelow
  <2>5. QED
    BY <1>2, <2>2, <2>3, <2>4
<1>3. QED
  BY <1>1, <1>2

(* The parts of a field record.                                             *)
LEMMA FieldParts ==
  ASSUME TypeOK, NEW i \in 1 .. Len(fields)
  PROVE  /\ fields[i].at \in Nat /\ fields[i].at <= Cap
         /\ fields[i].bits \in Pos /\ fields[i].bits \in Nat
         /\ fields[i].val \in Word
<1>1. fields[i] \in Field
  BY DEF TypeOK
<1>2. QED
  BY <1>1, CapInArray DEF Field, Pos

(* Where the fields end: each ends where the next begins, and none past   *)
(* the writer's cursor, which is within the capacity.                       *)
LEMMA EndFacts ==
  ASSUME MemInv, Contiguous
  PROVE  /\ Len(fields) \in Nat
         /\ \A k \in 0 .. Len(fields) : End(k) \in Nat /\ End(k) <= WPos
         /\ WPos \in Nat /\ WPos <= Cap /\ Cap <= N * W
<1>1. TypeOK /\ FieldsBelow
  BY DEF MemInv
<1>2. WPos \in Nat /\ WPos <= Cap /\ Cap <= N * W
  BY <1>1, CapInArray DEF TypeOK, WPos, Index, Pos
<1>3. ASSUME NEW k \in 0 .. Len(fields) PROVE End(k) \in Nat /\ End(k) <= WPos
  <2>1. CASE k = 0
    BY <1>2, <2>1 DEF End
  <2>2. CASE k # 0
    <3>1. k \in 1 .. Len(fields)
      BY <2>2
    <3>2. QED
      BY <1>1, <3>1, <2>2, FieldParts DEF End, FieldsBelow
  <2>3. QED
    BY <2>1, <2>2
<1>4. QED
  BY <1>1, <1>2, <1>3 DEF TypeOK

(* Field k + 1 begins where field k ends, and both ends are within the     *)
(* writer's cursor.                                                         *)
LEMMA EndStep ==
  ASSUME MemInv, Contiguous, NEW k \in 0 .. (Len(fields) - 1)
  PROVE  /\ fields[k + 1].at = End(k)
         /\ End(k + 1) = End(k) + fields[k + 1].bits
         /\ End(k) \in Nat /\ End(k + 1) \in Nat
         /\ End(k) <= WPos /\ End(k + 1) <= WPos
         /\ WPos \in Nat /\ Cap \in Nat /\ WPos <= Cap /\ Cap <= N * W
<1>1. Len(fields) \in Nat /\ WPos \in Nat /\ WPos <= Cap /\ Cap <= N * W /\ Cap \in Nat
  BY EndFacts, CapInArray
<1>2. k \in 0 .. Len(fields) /\ k + 1 \in 0 .. Len(fields)
      /\ k + 1 \in 1 .. Len(fields) /\ k + 1 # 0
  BY <1>1
<1>3. End(k) \in Nat /\ End(k) <= WPos /\ End(k + 1) \in Nat /\ End(k + 1) <= WPos
  BY <1>2, EndFacts
<1>4. fields[k + 1].at = End(k)
  BY <1>2 DEF Contiguous
<1>5. End(k + 1) = End(k) + fields[k + 1].bits
  BY <1>2, <1>4 DEF End
<1>6. QED
  BY <1>1, <1>3, <1>4, <1>5

(* The bits of a field, in positions: bit j < bits of the field at a,     *)
(* which starts at t + s and ends within m, is at t + (s + j) < m.        *)
LEMMA LinearField ==
  ASSUME NEW a \in Nat, NEW b \in Nat, NEW t \in Nat, NEW s \in Nat, NEW m \in Nat,
         NEW j \in Nat, a = t + s, a + b <= m, j < b
  PROVE  t + (s + j) < m /\ a + j = t + (s + j)
  OBVIOUS

(* Bit j of the reference field, below bits: bit + j of the double word    *)
(* p1:p0.                                                                   *)
LEMMA RefFieldAt ==
  ASSUME NEW p0, NEW p1, NEW bit, NEW bits, NEW j \in Pos, ~(j >= bits)
  PROVE  RefField(p0, p1, bit, bits)[j]
           = IF bit + j < W THEN p0[bit + j] ELSE p1[bit + j - W]
  BY DEF RefField

(* Bit j of field k + 1, below its width, read from the double word at   *)
(* the end of field k: the bit MemoryHoldsStream puts there.               *)
LEMMA FieldBit ==
  ASSUME MemInv, Contiguous,
         NEW k \in 0 .. (Len(fields) - 1), NEW r \in Reader, ReaderAt(r, k),
         NEW j \in Pos, ~(j >= fields[k + 1].bits)
  PROVE  RefField(Load(r.data), Load(r.data + 1), r.ofs, fields[k + 1].bits)[j]
           = fields[k + 1].val[j]
<1> DEFINE f == fields[k + 1]
<1>1. TypeOK /\ k + 1 \in 1 .. Len(fields)
  <2>1. Len(fields) \in Nat
    BY EndFacts
  <2>2. QED
    BY <2>1 DEF MemInv
<1>2. f.at \in Nat /\ f.bits \in Pos /\ f.bits \in Nat /\ f.val \in Word
  BY <1>1, FieldParts
<1>3. r.data \in Nat /\ r.ofs \in Nat /\ j \in Nat /\ r.ofs + j \in 0 .. (2 * W - 1)
  BY DEF Reader, Pos
<1>4. f.at = r.data * W + r.ofs /\ f.at + f.bits <= N * W
  <2>1. f.at = End(k) /\ End(k + 1) = End(k) + f.bits /\ End(k + 1) <= WPos
        /\ WPos <= Cap /\ Cap <= N * W /\ WPos \in Nat /\ Cap \in Nat /\ End(k) \in Nat
    BY EndStep
  <2>2. f.at = r.data * W + r.ofs
    BY <2>1 DEF ReaderAt
  <2>3. QED
    BY <1>2, <2>1, <2>2
<1>5. MemBit(f.at + j) = f.val[j]
  <2>1. j \in 0 .. (f.bits - 1)
    BY <1>2, <1>3
  <2>2. QED
    BY <1>1, <2>1 DEF MemInv, MemoryHoldsStream
<1>6. r.data * W + (r.ofs + j) < N * W /\ f.at + j = r.data * W + (r.ofs + j)
  <2>1. PICK t \in Nat : t = r.data * W
    BY <1>3
  <2>2. PICK m \in Nat : m = N * W
    OBVIOUS
  <2>3. f.at = t + r.ofs /\ f.at + f.bits <= m
    BY <1>4, <2>1, <2>2
  <2>4. t + (r.ofs + j) < m /\ f.at + j = t + (r.ofs + j)
    BY <1>2, <1>3, <2>3, SMTT(30)
  <2>5. QED
    BY <2>1, <2>2, <2>4
<1>7. RefField(Load(r.data), Load(r.data + 1), r.ofs, f.bits)[j]
        = IF r.ofs + j < W THEN Load(r.data)[r.ofs + j]
          ELSE Load(r.data + 1)[r.ofs + j - W]
  BY RefFieldAt
<1>8. CASE r.ofs + j < W
  <2>1. (r.data * W + (r.ofs + j)) \div W = r.data
        /\ (r.data * W + (r.ofs + j)) % W = r.ofs + j /\ r.data < N
    BY <1>3, <1>6, <1>8, BitOfDoubleWord
  <2>2. MemBit(f.at + j) = Load(r.data)[r.ofs + j]
    BY <1>6, <2>1 DEF MemBit, Load
  <2>3. QED
    BY <1>5, <1>7, <1>8, <2>2
<1>9. CASE ~(r.ofs + j < W)
  <2>0. PICK c \in 0 .. (2 * W - 1) : c = r.ofs + j
    BY <1>3
  <2>1. c >= W /\ r.data * W + c < N * W
    BY <1>3, <1>6, <1>9, <2>0
  <2>2. (r.data * W + c) \div W = r.data + 1 /\ (r.data * W + c) % W = c - W
        /\ r.data + 1 < N
    BY <1>3, <2>0, <2>1, BitOfDoubleWord
  <2>3. (r.data * W + (r.ofs + j)) \div W = r.data + 1
        /\ (r.data * W + (r.ofs + j)) % W = r.ofs + j - W /\ r.data + 1 < N
    BY <1>3, <2>0, <2>2
  <2>4. MemBit(f.at + j) = Load(r.data + 1)[r.ofs + j - W]
    BY <1>6, <2>3 DEF MemBit, Load
  <2>5. QED
    BY <1>5, <1>7, <1>9, <2>4
<1>10. QED
  BY <1>8, <1>9

(* Bit_Buffer::extract at the end of field k returns field k + 1 as it was *)
(* written: extract_bit_range of curr() and next() at bit_ofs is the field *)
(* (ExtractBitRangeCorrect), and those words hold it (MemoryHoldsStream).  *)
LEMMA ExtractReadsField ==
  ASSUME MemInv, Contiguous, FieldsFit,
         NEW k \in 0 .. (Len(fields) - 1), NEW r \in Reader, ReaderAt(r, k), Fresh(r),
         NEW o \in OversizeResults, NativeShrd \/ o = "zero"
  PROVE  ExtractValue(r, fields[k + 1].bits, o) = fields[k + 1].val
<1> DEFINE f  == fields[k + 1]
           p0 == Load(r.data)
           p1 == Load(r.data + 1)
<1>1. TypeOK /\ k + 1 \in 1 .. Len(fields)
  <2>1. Len(fields) \in Nat
    BY EndFacts
  <2>2. QED
    BY <2>1 DEF MemInv
<1>2. f.at \in Nat /\ f.bits \in Pos /\ f.bits \in Nat /\ f.val \in Word
  BY <1>1, FieldParts
<1>3. r.data \in Nat /\ r.ofs \in Nat /\ r.ofs \in Pos
  BY DEF Reader, Pos
<1>4. f.at = r.data * W + r.ofs /\ f.at + f.bits <= N * W
  <2>1. f.at = End(k) /\ End(k + 1) = End(k) + f.bits /\ End(k + 1) <= WPos
        /\ WPos <= Cap /\ Cap <= N * W /\ WPos \in Nat /\ Cap \in Nat /\ End(k) \in Nat
    BY EndStep
  <2>2. f.at = r.data * W + r.ofs
    BY <2>1 DEF ReaderAt
  <2>3. QED
    BY <1>2, <2>1, <2>2
<1>5. p0 \in Word /\ p1 \in Word
  BY <1>1, <1>3, LoadType DEF TypeOK
<1>6. ExtractValue(r, f.bits, o) = RefField(p0, p1, r.ofs, f.bits)
  <2>1. Curr(r) = p0 /\ NextW(r) = p1
    BY DEF Fresh, Curr, NextW
  <2>2. o \in {"zero", "masked"}
    BY OversizeAssumption
  <2>3. QED
    BY <1>2, <1>3, <1>5, <2>1, <2>2, ExtractBitRangeCorrect DEF ExtractValue
<1>7. RefField(p0, p1, r.ofs, f.bits) = f.val
  <2>1. SUFFICES ASSUME NEW j \in Pos
                 PROVE  RefField(p0, p1, r.ofs, f.bits)[j] = f.val[j]
    BY <1>2 DEF RefField, Word
  <2>2. CASE j >= f.bits
    <3>1. f.val[j] = 0
      BY <1>2, <2>2 DEF FieldsFit, Fits
    <3>2. QED
      BY <2>2, <3>1 DEF RefField
  <2>3. CASE ~(j >= f.bits)
    BY <2>3, FieldBit
  <2>4. QED
    BY <2>2, <2>3
<1>8. QED
  BY <1>6, <1>7

-----------------------------------------------------------------------------
(* The steps of the reader.                                                 *)

(* A word whose start lies within the capacity is followed by a word of    *)
(* the array when the caller pads by two words.                            *)
LEMMA PaddedWord ==
  ASSUME NEW a \in Nat, NEW c \in Nat, a * W + c <= Cap, TwoPadding
  PROVE  a + 1 < N
<1>1. N - Padding \in Nat /\ a * W + c <= (N - Padding) * W
  BY DEF Cap, TwoPadding
<1>2. a <= N - Padding
  BY <1>1, WordAtMost
<1>3. QED
  BY <1>2 DEF TwoPadding

(* Bit_Buffer::advance over field k + 1 from the end of field k: the       *)
(* buffer ends at the end of field k + 1, a Buffered_Mem_Buffer stays      *)
(* fresh, and with two words of padding the move loads inside the array.  *)
LEMMA AdvanceStep ==
  ASSUME MemInv, Contiguous,
         NEW k \in 0 .. (Len(fields) - 1), NEW r \in Reader, ReaderAt(r, k)
  PROVE  LET x == BitBufferAdvance(r, fields[k + 1].bits)
         IN  /\ x \in Reader
             /\ ReaderAt(x, k + 1)
             /\ Fresh(r) => Fresh(x)
             /\ TwoPadding /\ ~r.oob => ~x.oob
<1> DEFINE bits == fields[k + 1].bits
           x    == BitBufferAdvance(r, bits)
           q    == (r.ofs + bits) \div W
<1>1. TypeOK /\ bits \in Pos /\ bits \in Nat
  <2>1. TypeOK /\ Len(fields) \in Nat
    BY EndFacts DEF MemInv
  <2>2. QED
    BY <2>1, FieldParts
<1>2. /\ q \in {0, 1}
      /\ x.data = r.data + q
      /\ x.data * W + x.ofs = r.data * W + r.ofs + bits
      /\ x.b0 = IF Strategy = "simple" THEN r.b0 ELSE IF q = 0 THEN r.b0 ELSE r.b1
      /\ x.b1 = IF Strategy = "simple" \/ q = 0 THEN r.b1 ELSE Load(x.data + 1)
      /\ x.oob = (r.oob \/ (Strategy # "simple" /\ q # 0 /\ x.data + 1 >= N))
  BY <1>1, AdvanceCursor
<1>3. x \in Reader /\ r.data \in Nat /\ x.data \in Nat /\ x.ofs \in Nat
  <2>1. x \in Reader
    BY <1>1, BitBufferAdvanceType DEF TypeOK
  <2>2. QED
    BY <2>1 DEF Reader, Pos
<1>4. End(k + 1) = End(k) + bits /\ End(k + 1) <= WPos /\ WPos <= Cap
      /\ WPos \in Nat /\ Cap \in Nat /\ End(k) \in Nat /\ End(k + 1) \in Nat
  BY EndStep
<1>5. ReaderAt(x, k + 1)
  <2>1. x.data * W + x.ofs = r.data * W + r.ofs + bits
    BY <1>2
  <2>2. QED
    BY <1>4, <2>1 DEF ReaderAt
<1>6. Fresh(r) => Fresh(x)
  <2>1. SUFFICES ASSUME Fresh(r), Strategy = "buffered" PROVE Fresh(x)
    BY DEF Fresh
  <2>2. r.b0 = Load(r.data) /\ r.b1 = Load(r.data + 1)
    BY <2>1 DEF Fresh
  <2>3. /\ q \in {0, 1} /\ x.data = r.data + q
        /\ x.b0 = IF q = 0 THEN r.b0 ELSE r.b1
        /\ x.b1 = IF q = 0 THEN r.b1 ELSE Load(x.data + 1)
    BY <1>2, <2>1
  <2>4. CASE q = 0
    <3>1. x.data = r.data /\ x.b0 = r.b0 /\ x.b1 = r.b1
      BY <1>3, <2>3, <2>4
    <3>2. QED
      BY <2>2, <3>1 DEF Fresh
  <2>5. CASE q = 1
    <3>1. x.data = r.data + 1 /\ x.b0 = r.b1 /\ x.b1 = Load(x.data + 1)
      BY <2>3, <2>5
    <3>2. QED
      BY <2>2, <3>1 DEF Fresh
  <2>6. QED
    BY <2>3, <2>4, <2>5
<1>7. ASSUME TwoPadding, ~r.oob PROVE ~x.oob
  <2>1. x.data * W + x.ofs = End(k + 1)
    BY <1>5 DEF ReaderAt
  <2>2. x.data * W + x.ofs <= Cap
    BY <1>4, <2>1, SMTT(30)
  <2>3. x.data + 1 < N
    BY <1>3, <1>7, <2>2, PaddedWord
  <2>4. x.oob = (r.oob \/ (Strategy # "simple" /\ q # 0 /\ x.data + 1 >= N))
    BY <1>2
  <2>5. ~(x.data + 1 >= N)
    BY <1>3, <2>3
  <2>6. QED
    BY <1>7, <2>4, <2>5, Zenon
<1>8. QED
  BY <1>3, <1>5, <1>6, <1>7

(* One field of Bit_Extractor::extract: the Bit_Buffer's extract of field  *)
(* k + 1 from the end of field k.                                          *)
LEMMA ReadStep ==
  ASSUME MemInv, Contiguous, FieldsFit,
         NEW k \in 0 .. (Len(fields) - 1), NEW r \in Reader, ReaderAt(r, k),
         NEW o \in OversizeResults, NEW sg \in BOOLEAN
  PROVE  LET x == ReadField(r, k + 1, o, sg)
         IN  /\ x.r \in Reader
             /\ ReaderAt(x.r, k + 1)
             /\ ~x.g.skipped
             /\ Fresh(r) => Fresh(x.r)
             /\ Fresh(r) /\ (NativeShrd \/ o = "zero") => x.g.w = fields[k + 1].val
             /\ TwoPadding /\ ~r.oob => ~x.r.oob
<1> DEFINE bits == fields[k + 1].bits
           r1   == [r EXCEPT !.oob = @ \/ CurrNextOutOfBounds(r)]
<1>1. r1 \in Reader /\ ReaderAt(r1, k) /\ (Fresh(r) => Fresh(r1))
      /\ r1.oob = (r.oob \/ CurrNextOutOfBounds(r))
  BY DEF Reader, ReaderAt, Fresh
<1>2. ReadField(r, k + 1, o, sg).r = BitBufferAdvance(r1, bits)
      /\ ReadField(r, k + 1, o, sg).g.w = ExtractValue(r, bits, o)
      /\ ~ReadField(r, k + 1, o, sg).g.skipped
  BY DEF ReadField, AfterExtract
<1>3. Fresh(r) /\ (NativeShrd \/ o = "zero") => ExtractValue(r, bits, o) = fields[k + 1].val
  BY ExtractReadsField
<1>4. TwoPadding /\ ~r.oob => ~r1.oob
  <2>1. r.data \in Nat /\ r.ofs \in Nat
    BY DEF Reader, Pos
  <2>2. End(k) <= WPos /\ WPos <= Cap /\ End(k) \in Nat /\ WPos \in Nat /\ Cap \in Nat
    BY EndStep
  <2>3. r.data * W + r.ofs = End(k)
    BY DEF ReaderAt
  <2>4. r.data * W + r.ofs <= Cap
    BY <2>2, <2>3
  <2>5. TwoPadding => r.data + 1 < N
    BY <2>1, <2>4, PaddedWord
  <2>6. r1.oob = (r.oob \/ (Strategy = "simple" /\ r.data + 1 >= N))
    BY <1>1 DEF CurrNextOutOfBounds
  <2>7. ASSUME TwoPadding, ~r.oob PROVE ~r1.oob
    <3>1. ~(r.data + 1 >= N)
      BY <2>1, <2>5, <2>7
    <3>2. QED
      BY <2>6, <2>7, <3>1, Zenon
  <2>8. QED
    BY <2>7
<1>5. QED
  BY <1>1, <1>2, <1>3, <1>4, AdvanceStep

-----------------------------------------------------------------------------
(* The reader's state after k fields, as RInv needs it of every Bit_Buffer *)
(* a Bit_Extractor::extract call passes through.                           *)
Good(x, k) ==
  /\ x \in Reader
  /\ ReaderAt(x, k)
  /\ ExactRead => Fresh(x)
  /\ TwoPadding => ~x.oob

(* Under ExactRead, every outcome of the build's oversize shift is one     *)
(* that extract_bit_range handles exactly.                                 *)
LEMMA ExactOutcome ==
  ASSUME ExactRead, NEW o \in OversizeResults
  PROVE  NativeShrd \/ o = "zero"
  BY OversizeAssumption DEF ExactRead

(* buf.extract(num_bits) for field k + 1 from a good buffer after field k *)
(* leaves a good buffer after field k + 1, and under ExactRead yields the *)
(* value written.                                                          *)
LEMMA ReadGood ==
  ASSUME MemInv, Contiguous, FieldsFit,
         NEW k \in 0 .. (Len(fields) - 1), NEW r, Good(r, k),
         NEW o \in OversizeResults, NEW sg \in BOOLEAN
  PROVE  /\ Good(ReadField(r, k + 1, o, sg).r, k + 1)
         /\ ~ReadField(r, k + 1, o, sg).g.skipped
         /\ ExactRead => ReadField(r, k + 1, o, sg).g.w = fields[k + 1].val
<1>1. r \in Reader /\ ReaderAt(r, k)
  BY DEF Good
<1>2. LET x == ReadField(r, k + 1, o, sg)
      IN  /\ x.r \in Reader
          /\ ReaderAt(x.r, k + 1)
          /\ ~x.g.skipped
          /\ Fresh(r) => Fresh(x.r)
          /\ Fresh(r) /\ (NativeShrd \/ o = "zero") => x.g.w = fields[k + 1].val
          /\ TwoPadding /\ ~r.oob => ~x.r.oob
  BY <1>1, ReadStep
<1>3. ExactRead => Fresh(r) /\ (NativeShrd \/ o = "zero")
  BY ExactOutcome DEF Good
<1>4. TwoPadding => ~r.oob
  BY DEF Good
<1>5. QED
  BY <1>2, <1>3, <1>4 DEF Good

(* Bit_Extractor::advance(bits) over field k + 1 from a good buffer after  *)
(* field k leaves a good buffer after field k + 1.                         *)
LEMMA SkipGood ==
  ASSUME MemInv, Contiguous,
         NEW k \in 0 .. (Len(fields) - 1), NEW r, Good(r, k)
  PROVE  Good(BitBufferAdvance(r, fields[k + 1].bits), k + 1)
<1>1. r \in Reader /\ ReaderAt(r, k)
  BY DEF Good
<1>2. LET x == BitBufferAdvance(r, fields[k + 1].bits)
      IN  /\ x \in Reader
          /\ ReaderAt(x, k + 1)
          /\ Fresh(r) => Fresh(x)
          /\ TwoPadding /\ ~r.oob => ~x.oob
  BY <1>1, AdvanceStep
<1>3. QED
  BY <1>2 DEF Good

(* Entries appended after the ones already read back, each read back from *)
(* the field at its index, keep the whole sequence read back.              *)
LEMMA ConcatReadBack ==
  ASSUME NEW g \in Seq(Got), NEW t \in Seq(Got),
         \A i \in 1 .. Len(g) : ~g[i].skipped => g[i].w = fields[i].val,
         \A m \in 1 .. Len(t) : ~t[m].skipped => t[m].w = fields[Len(g) + m].val
  PROVE  \A i \in 1 .. Len(g \o t) : ~(g \o t)[i].skipped => (g \o t)[i].w = fields[i].val
<1>1. Len(g \o t) = Len(g) + Len(t)
      /\ \A i \in 1 .. Len(g) + Len(t) :
           (g \o t)[i] = IF i <= Len(g) THEN g[i] ELSE t[i - Len(g)]
  BY ConcatProperties
<1>2. SUFFICES ASSUME NEW i \in 1 .. Len(g) + Len(t)
               PROVE  ~(g \o t)[i].skipped => (g \o t)[i].w = fields[i].val
  BY <1>1
<1>3. CASE i <= Len(g)
  BY <1>1, <1>3
<1>4. CASE ~(i <= Len(g))
  <2>1. i - Len(g) \in 1 .. Len(t) /\ Len(g) + (i - Len(g)) = i
    BY <1>4
  <2>2. QED
    BY <1>1, <1>4, <2>1
<1>5. QED
  BY <1>3, <1>4

-----------------------------------------------------------------------------
(* RInv is inductive.                                                       *)

LEMMA InitRInv == Init => RInv
<1> SUFFICES ASSUME Init PROVE RInv
  OBVIOUS
<1>1. MemInv
  BY InitMemInv
<1>2. Contiguous
  BY DEF Init, Contiguous, End, WPos
<1>3. QED
  BY <1>1, <1>2 DEF Init, RInv, FieldsFit, ReadBackCorrect, NoOutOfBoundsRead

(* Bit_Writer::write appends field Len(fields) + 1 at its cursor: the      *)
(* fields already written, and where they end, do not change.             *)
LEMMA WriteFields ==
  ASSUME TypeOK, NEW val \in Word, NEW bits \in Pos, NEW o, Write(val, bits, o)
  PROVE  /\ Len(fields') = Len(fields) + 1
         /\ \A i \in 1 .. Len(fields) : fields'[i] = fields[i]
         /\ fields'[Len(fields) + 1] = [val |-> val, bits |-> bits, at |-> WPos]
         /\ \A k \in 0 .. Len(fields) : End(k)' = End(k)
         /\ End(Len(fields))' = WPos + bits
<1> DEFINE F == [val |-> val, bits |-> bits, at |-> WPos]
<1>1. fields' = Append(fields, F) /\ fields \in Seq(Field)
  BY DEF Write, TypeOK
<1>2. /\ Len(fields') = Len(fields) + 1
      /\ \A i \in 1 .. Len(fields) : fields'[i] = fields[i]
      /\ fields'[Len(fields) + 1] = F
  BY <1>1
<1>3. \A k \in 0 .. Len(fields) : End(k)' = End(k)
  BY <1>2 DEF End
<1>4. End(Len(fields))' = WPos + bits
  <2>1. Len(fields') # 0
    BY <1>2
  <2>2. QED
    BY <1>2, <2>1 DEF End
<1>5. QED
  BY <1>2, <1>3, <1>4

LEMMA WriteRInv ==
  ASSUME RInv, NEW val \in Word, NEW bits \in Pos, NEW o \in OversizeResults,
         Write(val, bits, o)
  PROVE  RInv'
<1>1. TypeOK /\ Len(got) <= Len(fields) /\ Len(fields) \in Nat /\ Len(got) \in Nat
  BY DEF RInv, MemInv, TypeOK
<1>2. MemInv'
  BY WriteMemInv DEF RInv
<1>3. /\ Len(fields') = Len(fields) + 1
      /\ \A i \in 1 .. Len(fields) : fields'[i] = fields[i]
      /\ fields'[Len(fields) + 1] = [val |-> val, bits |-> bits, at |-> WPos]
      /\ \A k \in 0 .. Len(fields) : End(k)' = End(k)
      /\ End(Len(fields))' = WPos + bits
  BY <1>1, WriteFields
<1>4. WPos' = WPos + bits
  BY <1>1, WriteCursor
<1>5. Contiguous'
  <2>1. ASSUME NEW i \in 1 .. Len(fields) PROVE fields'[i].at = End(i - 1)'
    <3>1. i - 1 \in 0 .. Len(fields)
      BY <1>1
    <3>2. QED
      BY <1>3, <3>1 DEF RInv, Contiguous
  <2>2. ASSUME NEW i \in {Len(fields) + 1} PROVE fields'[i].at = End(i - 1)'
    <3>1. i - 1 = Len(fields) /\ Len(fields) \in 0 .. Len(fields)
      BY <1>1
    <3>2. QED
      BY <1>3, <3>1 DEF RInv, Contiguous
  <2>3. \A i \in 1 .. Len(fields') : fields'[i].at = End(i - 1)'
    BY <1>1, <1>3, <2>1, <2>2
  <2>4. WPos' = End(Len(fields))'
    BY <1>3, <1>4
  <2>5. QED
    BY <2>3, <2>4 DEF Contiguous
<1>6. FieldsFit'
  <2>1. Fits(val, bits)
    BY DEF Write
  <2>2. QED
    BY <1>1, <1>3, <2>1 DEF RInv, FieldsFit
<1>7. UNCHANGED <<ropen, rd, got>>
  BY DEF Write
<1>8. ropen' => ReaderAt(rd, Len(got))'
  <2>1. Len(got) \in 0 .. Len(fields)
    BY <1>1
  <2>2. QED
    BY <1>3, <1>7, <2>1 DEF RInv, ReaderAt
<1>9. ExactRead /\ ropen' => Fresh(rd)'
  <2>1. ropen => ReadWhileWriting
    BY DEF Write
  <2>2. ExactRead /\ ropen => Strategy = "simple"
    BY <2>1 DEF ExactRead
  <2>3. QED
    BY <1>7, <2>2 DEF Fresh
<1>10. ExactRead => ReadBackCorrect'
  BY <1>1, <1>3, <1>7 DEF RInv, ReadBackCorrect
<1>11. QED
  BY <1>2, <1>5, <1>6, <1>7, <1>8, <1>9, <1>10 DEF RInv, NoOutOfBoundsRead

(* While the reader is open, its buffer is good after the fields consumed. *)
LEMMA ReaderGood ==
  ASSUME RInv, ropen
  PROVE  Good(rd, Len(got))
  BY DEF RInv, MemInv, TypeOK, Good, NoOutOfBoundsRead

(* A reader step that moves the buffer to a good one after the entries it *)
(* appends, each read back from its field or skipped, and leaves the      *)
(* writer's state alone, keeps RInv.                                       *)
LEMMA ReaderStepRInv ==
  ASSUME RInv, ropen, NEW t \in Seq(Got), NEW x,
         Len(got) + Len(t) <= Len(fields), Good(x, Len(got) + Len(t)),
         \A m \in 1 .. Len(t) : ~t[m].skipped => (ExactRead => t[m].w = fields[Len(got) + m].val),
         rd' = x, got' = got \o t, UNCHANGED <<mem, mem0, wdata, wofs, fields, ropen>>
  PROVE  RInv'
<1>1. TypeOK /\ got \in Seq(Got)
  BY DEF RInv, MemInv, TypeOK
<1>2. got' \in Seq(Got) /\ Len(got') = Len(got) + Len(t)
      /\ \A i \in 1 .. Len(got) + Len(t) : got'[i] = IF i <= Len(got) THEN got[i] ELSE t[i - Len(got)]
  BY <1>1, ConcatProperties
<1>3. TypeOK'
  BY <1>1, <1>2 DEF TypeOK, Good, WPos
<1>4. MemInv'
  BY <1>3, WriterFrameMemInv DEF RInv
<1>5. Contiguous' /\ FieldsFit'
  BY DEF RInv, Contiguous, End, WPos, FieldsFit
<1>6. ReaderAt(rd, Len(got))'
  BY <1>2 DEF Good, ReaderAt, End
<1>7. ExactRead => Fresh(rd)'
  BY DEF Good, Fresh, Load
<1>8. ExactRead => ReadBackCorrect'
  <2>1. SUFFICES ASSUME ExactRead PROVE ReadBackCorrect'
    OBVIOUS
  <2>2. \A i \in 1 .. Len(got) : ~got[i].skipped => got[i].w = fields[i].val
    BY <2>1 DEF RInv, ReadBackCorrect
  <2>3. \A i \in 1 .. Len(got \o t) :
          ~(got \o t)[i].skipped => (got \o t)[i].w = fields[i].val
    BY <1>1, <2>1, <2>2, ConcatReadBack
  <2>4. QED
    BY <2>3 DEF ReadBackCorrect
<1>9. TwoPadding => NoOutOfBoundsRead'
  BY DEF Good, NoOutOfBoundsRead
<1>10. QED
  BY <1>4, <1>5, <1>6, <1>7, <1>8, <1>9 DEF RInv

(* Bit_Extractor(data): a new Bit_Buffer at bit 0, whose Buffered_Mem_Buffer *)
(* loads data[0] and data[1] (inside the array, N >= 2).                    *)
LEMMA OpenRInv ==
  ASSUME RInv, Open PROVE RInv'
<1>1. TypeOK /\ got = << >>
  BY DEF RInv, MemInv, Open
<1>2. TypeOK'
  BY <1>1, OpenTypeOK
<1>3. MemInv'
  BY <1>2, WriterFrameMemInv DEF RInv, Open
<1>4. Contiguous' /\ FieldsFit'
  BY DEF Open, RInv, Contiguous, End, WPos, FieldsFit
<1>5. rd' = NewBitBuffer /\ got' = << >> /\ ropen'
  BY <1>1 DEF Open
<1>6. ReaderAt(rd, Len(got))' /\ Fresh(rd)' /\ ~rd'.oob
  BY <1>5 DEF Open, NewBitBuffer, ReaderAt, End, Fresh, Load
<1>7. QED
  BY <1>3, <1>4, <1>5, <1>6 DEF RInv, ReadBackCorrect, NoOutOfBoundsRead

(* Bit_Extractor::advance(bits) skips the next field.                        *)
LEMMA SkipRInv ==
  ASSUME RInv, Skip PROVE RInv'
<1> DEFINE e == [w |-> Zero, signed |-> FALSE, skipped |-> TRUE]
<1>1. TypeOK /\ got \in Seq(Got) /\ Len(got) \in 0 .. (Len(fields) - 1)
  BY DEF RInv, MemInv, TypeOK, Skip
<1>2. e \in Got /\ Append(got, e) = got \o << e >>
  <2>1. e \in Got
    BY DEF Got, Zero, Word, Bit
  <2>2. QED
    BY <1>1, <2>1, AppendIsConcat
<1>3. Good(BitBufferAdvance(rd, fields[Len(got) + 1].bits), Len(got) + 1)
  BY <1>1, ReaderGood, SkipGood DEF RInv, Skip
<1> DEFINE x == BitBufferAdvance(rd, fields[Len(got) + 1].bits)
           t == << e >>
<1>4. t \in Seq(Got) /\ Len(t) = 1
  BY <1>2
<1>5. Len(got) + Len(t) <= Len(fields) /\ Good(x, Len(got) + Len(t))
  BY <1>1, <1>3, <1>4
<1>6. \A m \in 1 .. Len(t) : ~t[m].skipped => (ExactRead => t[m].w = fields[Len(got) + m].val)
  BY <1>4
<1>7. rd' = x /\ got' = got \o t /\ UNCHANGED <<mem, mem0, wdata, wofs, fields, ropen>> /\ ropen
  BY <1>2 DEF Skip
<1> HIDE DEF x, t
<1>8. QED
  BY <1>4, <1>5, <1>6, <1>7, ReaderStepRInv

(* Bit_Extractor::extract with n (where, num_bits) pairs: buf.extract for  *)
(* each, left to right; each leaves a good buffer and reads its field.     *)
LEMMA ExtractRInv ==
  ASSUME RInv, NEW n \in 1 .. 4, Extract(n) PROVE RInv'
<1>1. PICK o \in [1 .. n -> OversizeResults], s \in [1 .. n -> SignedDests] :
             CASE n = 1 -> Extract1(o, s)
               [] n = 2 -> Extract2(o, s)
               [] n = 3 -> Extract3(o, s)
               [] n = 4 -> Extract4(o, s)
  BY DEF Extract
<1>2. \A m \in 1 .. n : s[m] \in BOOLEAN /\ o[m] \in OversizeResults
  BY SignedDestsAssumption
<1>3. /\ Len(got) + n <= Len(fields) /\ Len(got) \in Nat /\ ropen
      /\ UNCHANGED <<mem, mem0, wdata, wofs, fields, ropen>>
  BY DEF Extract, RInv, MemInv, TypeOK
<1>4. MemInv /\ Contiguous /\ FieldsFit /\ TypeOK
  BY DEF RInv, MemInv
<1>5. Good(rd, Len(got))
  BY <1>3, ReaderGood
<1> DEFINE K == Len(got)
           a == ReadField(rd, Len(got) + 1, o[1], s[1])
           b == ReadField(a.r, Len(got) + 2, o[2], s[2])
           c == ReadField(b.r, Len(got) + 3, o[3], s[3])
           d == ReadField(c.r, Len(got) + 4, o[4], s[4])
           Read(y, m) == /\ ~y.g.skipped
                         /\ ExactRead => y.g.w = fields[K + m].val
                         /\ y.g \in Got
<1>6. Good(a.r, K + 1) /\ Read(a, 1)
  <2>1. K \in 0 .. (Len(fields) - 1) /\ o[1] \in OversizeResults /\ s[1] \in BOOLEAN
    BY <1>2, <1>3
  <2>2. Good(ReadField(rd, K + 1, o[1], s[1]).r, K + 1)
        /\ ~ReadField(rd, K + 1, o[1], s[1]).g.skipped
        /\ (ExactRead => ReadField(rd, K + 1, o[1], s[1]).g.w = fields[K + 1].val)
    BY <1>4, <1>5, <2>1, ReadGood
  <2>3. rd \in Reader
    BY <1>5 DEF Good
  <2>4. ReadField(rd, K + 1, o[1], s[1]).g \in Got
    BY <1>3, <1>4, <2>1, <2>3, ReadFieldType
  <2>5. QED
    BY <2>2, <2>4
<1>7. n >= 2 => Good(b.r, K + 2) /\ Read(b, 2)
  <2>0. SUFFICES ASSUME n >= 2 PROVE Good(b.r, K + 2) /\ Read(b, 2)
    OBVIOUS
  <2>1. K + 1 \in 0 .. (Len(fields) - 1) /\ o[2] \in OversizeResults /\ s[2] \in BOOLEAN
        /\ K + 2 = (K + 1) + 1
    BY <1>2, <1>3, <2>0
  <2>2. Good(a.r, K + 1)
    BY <1>6, <2>0
  <2>3. Good(ReadField(a.r, (K + 1) + 1, o[2], s[2]).r, (K + 1) + 1)
        /\ ~ReadField(a.r, (K + 1) + 1, o[2], s[2]).g.skipped
        /\ (ExactRead => ReadField(a.r, (K + 1) + 1, o[2], s[2]).g.w = fields[(K + 1) + 1].val)
    BY <1>4, <2>1, <2>2, ReadGood
  <2>4. b = ReadField(a.r, (K + 1) + 1, o[2], s[2])
    BY <2>1
  <2>5. a.r \in Reader /\ (K + 1) + 1 \in 1 .. Len(fields)
    BY <2>1, <2>2 DEF Good
  <2>6. b.g \in Got
    BY <1>4, <2>1, <2>4, <2>5, ReadFieldType
  <2>7. QED
    BY <2>1, <2>3, <2>4, <2>6
<1>8. n >= 3 => Good(c.r, K + 3) /\ Read(c, 3)
  <2>0. SUFFICES ASSUME n >= 3 PROVE Good(c.r, K + 3) /\ Read(c, 3)
    OBVIOUS
  <2>1. K + 2 \in 0 .. (Len(fields) - 1) /\ o[3] \in OversizeResults /\ s[3] \in BOOLEAN
        /\ K + 3 = (K + 2) + 1
    BY <1>2, <1>3, <2>0
  <2>2. Good(b.r, K + 2)
    BY <1>7, <2>0
  <2>3. Good(ReadField(b.r, (K + 2) + 1, o[3], s[3]).r, (K + 2) + 1)
        /\ ~ReadField(b.r, (K + 2) + 1, o[3], s[3]).g.skipped
        /\ (ExactRead => ReadField(b.r, (K + 2) + 1, o[3], s[3]).g.w = fields[(K + 2) + 1].val)
    BY <1>4, <2>1, <2>2, ReadGood
  <2>4. c = ReadField(b.r, (K + 2) + 1, o[3], s[3])
    BY <2>1
  <2>5. b.r \in Reader /\ (K + 2) + 1 \in 1 .. Len(fields)
    BY <2>1, <2>2 DEF Good
  <2>6. c.g \in Got
    BY <1>4, <2>1, <2>4, <2>5, ReadFieldType
  <2>7. QED
    BY <2>1, <2>3, <2>4, <2>6
<1>9. n >= 4 => Good(d.r, K + 4) /\ Read(d, 4)
  <2>0. SUFFICES ASSUME n >= 4 PROVE Good(d.r, K + 4) /\ Read(d, 4)
    OBVIOUS
  <2>1. K + 3 \in 0 .. (Len(fields) - 1) /\ o[4] \in OversizeResults /\ s[4] \in BOOLEAN
        /\ K + 4 = (K + 3) + 1
    BY <1>2, <1>3, <2>0
  <2>2. Good(c.r, K + 3)
    BY <1>8, <2>0
  <2>3. Good(ReadField(c.r, (K + 3) + 1, o[4], s[4]).r, (K + 3) + 1)
        /\ ~ReadField(c.r, (K + 3) + 1, o[4], s[4]).g.skipped
        /\ (ExactRead => ReadField(c.r, (K + 3) + 1, o[4], s[4]).g.w = fields[(K + 3) + 1].val)
    BY <1>4, <2>1, <2>2, ReadGood
  <2>4. d = ReadField(c.r, (K + 3) + 1, o[4], s[4])
    BY <2>1
  <2>5. c.r \in Reader /\ (K + 3) + 1 \in 1 .. Len(fields)
    BY <2>1, <2>2 DEF Good
  <2>6. d.g \in Got
    BY <1>4, <2>1, <2>4, <2>5, ReadFieldType
  <2>7. QED
    BY <2>1, <2>3, <2>4, <2>6
<1> HIDE DEF a, b, c, d
<1>10. QED
  <2>1. CASE n = 1
    <3> DEFINE t == << a.g >>
    <3>1. rd' = a.r /\ got' = got \o t
      <4>1. Extract1(o, s)
        BY <1>1, <2>1
      <4>2. QED
        BY <4>1 DEF Extract1, a, b, c, d
    <3>2. Good(a.r, K + 1) /\ Read(a, 1)
      BY <2>1, <1>6
    <3>3. t \in Seq(Got) /\ Len(t) = 1
      BY <3>2
    <3>4. \A m \in 1 .. Len(t) : ~t[m].skipped => (ExactRead => t[m].w = fields[K + m].val)
      BY <3>2, <3>3
    <3>5. Len(got) + Len(t) <= Len(fields) /\ Good(a.r, Len(got) + Len(t))
      BY <1>3, <2>1, <3>2, <3>3
    <3> HIDE DEF t
    <3>6. QED
      BY <1>3, <3>1, <3>3, <3>4, <3>5, ReaderStepRInv
  <2>2. CASE n = 2
    <3> DEFINE t == << a.g, b.g >>
    <3>1. rd' = b.r /\ got' = got \o t
      <4>1. Extract2(o, s)
        BY <1>1, <2>2
      <4>2. QED
        BY <4>1 DEF Extract2, a, b, c, d
    <3>2. Good(b.r, K + 2) /\ Read(a, 1) /\ Read(b, 2)
      BY <2>2, <1>6, <1>7
    <3>3. t \in Seq(Got) /\ Len(t) = 2
      BY <3>2
    <3>4. \A m \in 1 .. Len(t) : ~t[m].skipped => (ExactRead => t[m].w = fields[K + m].val)
      BY <3>2, <3>3
    <3>5. Len(got) + Len(t) <= Len(fields) /\ Good(b.r, Len(got) + Len(t))
      BY <1>3, <2>2, <3>2, <3>3
    <3> HIDE DEF t
    <3>6. QED
      BY <1>3, <3>1, <3>3, <3>4, <3>5, ReaderStepRInv
  <2>3. CASE n = 3
    <3> DEFINE t == << a.g, b.g, c.g >>
    <3>1. rd' = c.r /\ got' = got \o t
      <4>1. Extract3(o, s)
        BY <1>1, <2>3
      <4>2. QED
        BY <4>1 DEF Extract3, a, b, c, d
    <3>2. Good(c.r, K + 3) /\ Read(a, 1) /\ Read(b, 2) /\ Read(c, 3)
      BY <2>3, <1>6, <1>7, <1>8
    <3>3. t \in Seq(Got) /\ Len(t) = 3
      BY <3>2
    <3>4. \A m \in 1 .. Len(t) : ~t[m].skipped => (ExactRead => t[m].w = fields[K + m].val)
      BY <3>2, <3>3
    <3>5. Len(got) + Len(t) <= Len(fields) /\ Good(c.r, Len(got) + Len(t))
      BY <1>3, <2>3, <3>2, <3>3
    <3> HIDE DEF t
    <3>6. QED
      BY <1>3, <3>1, <3>3, <3>4, <3>5, ReaderStepRInv
  <2>4. CASE n = 4
    <3> DEFINE t == << a.g, b.g, c.g, d.g >>
    <3>1. rd' = d.r /\ got' = got \o t
      <4>1. Extract4(o, s)
        BY <1>1, <2>4
      <4>2. QED
        BY <4>1 DEF Extract4, a, b, c, d
    <3>2. Good(d.r, K + 4) /\ Read(a, 1) /\ Read(b, 2) /\ Read(c, 3) /\ Read(d, 4)
      BY <2>4, <1>6, <1>7, <1>8, <1>9
    <3>3. t \in Seq(Got) /\ Len(t) = 4
      BY <3>2
    <3>4. \A m \in 1 .. Len(t) : ~t[m].skipped => (ExactRead => t[m].w = fields[K + m].val)
      BY <3>2, <3>3
    <3>5. Len(got) + Len(t) <= Len(fields) /\ Good(d.r, Len(got) + Len(t))
      BY <1>3, <2>4, <3>2, <3>3
    <3> HIDE DEF t
    <3>6. QED
      BY <1>3, <3>1, <3>3, <3>4, <3>5, ReaderStepRInv
  <2>5. QED
    BY <2>1, <2>2, <2>3, <2>4

LEMMA NextRInv == RInv /\ [Next]_vars => RInv'
<1> SUFFICES ASSUME RInv, [Next]_vars PROVE RInv'
  OBVIOUS
<1>1. ASSUME NEW bits \in Pos, NEW val \in Word, NEW o \in OversizeResults,
             Write(val, bits, o)
      PROVE  RInv'
  BY <1>1, WriteRInv
<1>2. CASE Open
  BY <1>2, OpenRInv
<1>3. ASSUME NEW n \in 1 .. 4, Extract(n) PROVE RInv'
  BY <1>3, ExtractRInv
<1>4. CASE Skip
  BY <1>4, SkipRInv
<1>5. CASE UNCHANGED vars
  BY <1>5 DEF vars, RInv, MemInv, TypeOK, FieldsBelow, MemoryHoldsStream, MemBit,
              Mem0Bit, WPos, Contiguous, End, FieldsFit, ReaderAt, Fresh, Load,
              ReadBackCorrect, NoOutOfBoundsRead
<1>6. QED
  BY <1>1, <1>2, <1>3, <1>4, <1>5 DEF Next

LEMMA AlwaysRInv == Spec => []RInv
  BY InitRInv, NextRInv, PTL DEF Spec

-----------------------------------------------------------------------------
(* Round trip (Bit_Writer::write, Bit_Buffer::extract, Bit_Extractor::     *)
(* extract): for every array size, padding, word width and schema, every  *)
(* field the reader extracts has the value the writer wrote, when the     *)
(* build extracts exactly (native shrd, or a shift by W that gives 0) and *)
(* a Buffered_Mem_Buffer is not read while the writer still writes.  Both *)
(* conditions are needed: the run bitstream_generic breaks the first, and *)
(* a buffered reader opened before a write keeps stale words.             *)
THEOREM ReadBackUnderExactRead ==
  ASSUME ExactRead PROVE Spec => []ReadBackCorrect
<1>1. RInv => ReadBackCorrect
  BY DEF RInv
<1>2. QED
  BY <1>1, AlwaysRInv, PTL

(* Simple_Mem_Buffer::curr/next and Buffered_Mem_Buffer's constructor and  *)
(* operator += never load past the array, for every schema, strategy and  *)
(* build, when the caller pads the data by two words.                      *)
THEOREM NoOutOfBoundsWithPadding ==
  ASSUME TwoPadding PROVE Spec => []NoOutOfBoundsRead
<1>1. RInv => NoOutOfBoundsRead
  BY DEF RInv
<1>2. QED
  BY <1>1, AlwaysRInv, PTL
=============================================================================
