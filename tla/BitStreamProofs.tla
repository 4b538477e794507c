-------------------------- MODULE BitStreamProofs --------------------------
(***************************************************************************)
(* Type correctness of the writer/reader model, for every array size,     *)
(* padding, word width and build: the writer's cursor stays inside the    *)
(* array and within the caller's capacity, and the reader's buffer stays  *)
(* a well-formed Bit_Buffer.                                               *)
(***************************************************************************)
EXTENDS BitStream, BitRangeOpsProofs, SequenceTheorems

USE WAssumption, NAssumption, PaddingAssumption

(* Renormalising a cursor (bit_ofs += bits; data += bit_ofs / W;          *)
(* bit_ofs %= W) with bit_ofs + bits < 2W: at most one word is crossed.    *)
LEMMA CarryDivMod ==
  ASSUME NEW x \in 0 .. (2 * W - 1)
  PROVE  /\ x < W  => x \div W = 0 /\ x % W = x
         /\ x >= W => x \div W = 1 /\ x % W = x - W
<1>1. CASE x < W
  BY <1>1
<1>2. CASE x >= W
  <2>1. x - W \in 0 .. (W - 1)
    BY <1>2
  <2>2. x = 1 * W + (x - W)
    OBVIOUS
  <2>3. QED
    BY <1>2, <2>1, <2>2
<1>3. QED
  BY <1>1, <1>2

(* A cursor one word further still fits a capacity of whole words.        *)
LEMMA WordsBound ==
  ASSUME NEW a \in Nat, NEW b \in Nat, NEW r \in Nat, a * W + W + r <= b * W
  PROVE  a + 1 <= b
<1>1. SUFFICES ASSUME a + 1 > b PROVE FALSE
  OBVIOUS
<1>2. b <= a
  BY <1>1
<1>3. b * W <= a * W
  BY <1>2
<1>4. QED
  BY <1>3

-----------------------------------------------------------------------------
(* Loads, the memory buffers and Bit_Buffer keep the reader well formed.  *)

LEMMA LoadType ==
  ASSUME mem \in [Index -> Word], NEW i \in Nat
  PROVE  Load(i) \in Word
<1>1. Zero \in Word
  BY DEF Zero, Word, Bit
<1>2. i < N => i \in Index
  BY DEF Index
<1>3. QED
  BY <1>1, <1>2 DEF Load

LEMMA MemBufAdvanceType ==
  ASSUME mem \in [Index -> Word], NEW r \in Reader, NEW k \in Nat
  PROVE  MemBufAdvance(r, k) \in Reader
<1>1. Load(r.data + k) \in Word /\ Load(r.data + k + 1) \in Word
  BY LoadType DEF Reader
<1> DEFINE d == r.data + k
<1>2. d \in Nat
  BY DEF Reader
<1>3. CASE Strategy = "simple"
  BY <1>2, <1>3 DEF MemBufAdvance, Reader
<1>4. CASE Strategy # "simple"
  <2>1. (IF k = 0 THEN r.b0 ELSE IF k = 1 THEN r.b1 ELSE Load(d)) \in Word
    BY <1>1 DEF Reader
  <2>2. (IF k = 0 THEN r.b1 ELSE Load(d + 1)) \in Word
    BY <1>1 DEF Reader
  <2>3. QED
    BY <1>2, <1>4, <2>1, <2>2 DEF MemBufAdvance, Reader
<1>5. QED
  BY <1>3, <1>4

LEMMA BitBufferAdvanceType ==
  ASSUME mem \in [Index -> Word], NEW r \in Reader, NEW bits \in Nat
  PROVE  BitBufferAdvance(r, bits) \in Reader
<1>1. (r.ofs + bits) \div W \in Nat /\ (r.ofs + bits) % W \in Pos
  BY DEF Reader, Pos
<1>2. MemBufAdvance(r, (r.ofs + bits) \div W) \in Reader
  BY <1>1, MemBufAdvanceType
<1>3. QED
  BY <1>1, <1>2 DEF BitBufferAdvance, Reader

LEMMA ReadFieldType ==
  ASSUME TypeOK, NEW r \in Reader, NEW i \in 1 .. Len(fields), NEW o, NEW s \in BOOLEAN
  PROVE  /\ ReadField(r, i, o, s).r \in Reader
         /\ ReadField(r, i, o, s).g \in Got
<1>1. fields[i].bits \in Pos
  <2>1. fields[i] \in Field
    BY DEF TypeOK
  <2>2. QED
    BY <2>1 DEF Field
<1>2. Curr(r) \in Word /\ NextW(r) \in Word
  BY LoadType DEF TypeOK, Curr, NextW, Reader
<1>3. ExtractValue(r, fields[i].bits, o) \in Word
  <2>1. r.ofs \in Pos /\ fields[i].bits \in 0 .. W
    BY <1>1 DEF Reader, Pos
  <2>2. QED
    BY <1>2, <2>1, ExtractType DEF ExtractValue
<1>4. [r EXCEPT !.oob = @ \/ CurrNextOutOfBounds(r)] \in Reader
  BY DEF Reader
<1>5. AfterExtract(r, fields[i].bits) \in Reader
  BY <1>1, <1>4, BitBufferAdvanceType DEF AfterExtract, TypeOK, Pos
<1>6. QED
  BY <1>3, <1>5 DEF ReadField, Got

-----------------------------------------------------------------------------
(* Each action preserves TypeOK.                                          *)

LEMMA InitTypeOK == Init => TypeOK
<1> SUFFICES ASSUME Init PROVE TypeOK
  OBVIOUS
<1>1. mem \in [Index -> Word] /\ mem0 \in [Index -> Word]
  BY InitWordsAssumption DEF Init
<1>2. Zero \in Word
  BY DEF Zero, Word, Bit
<1>3. WPos <= Cap /\ wdata \in Index /\ wofs \in Pos
  BY DEF Init, WPos, Cap, Index, Pos
<1>4. rd \in Reader
  BY <1>2 DEF Init, Reader, Pos
<1>5. fields \in Seq(Field) /\ got \in Seq(Got) /\ Len(got) <= Len(fields)
  BY DEF Init
<1>6. ropen \in BOOLEAN
  BY DEF Init
<1>7. QED
  BY <1>1, <1>3, <1>4, <1>5, <1>6 DEF TypeOK

(* Bit_Writer::write moves the cursor by exactly the width written and     *)
(* keeps it inside the capacity the caller's padding leaves: data and     *)
(* data + 1, which set_bit_range touches, index the array.                *)
LEMMA WriteCursor ==
  ASSUME TypeOK, NEW val \in Word, NEW bits \in Pos, NEW o, Write(val, bits, o)
  PROVE  /\ wdata' \in Index /\ wofs' \in Pos
         /\ WPos' = WPos + bits
         /\ WPos + bits <= Cap /\ WPos \in Nat
<1>1. wofs + bits \in 0 .. (2 * W - 1)
  BY DEF TypeOK, Pos
<1> DEFINE ofs == wofs + bits
<1>2. WPos + bits <= Cap /\ WPos \in Nat
  <2>1. wdata \in Nat /\ wofs \in Nat
    BY DEF TypeOK, Index, Pos
  <2>2. WPos \in Nat
    BY <2>1 DEF WPos
  <2>3. WPos + bits <= Cap
    BY DEF Write
  <2>4. QED
    BY <2>2, <2>3
<1>3. wdata' \in Index /\ wofs' \in Pos /\ wdata' * W + wofs' = WPos + bits
  <2>0. wdata' = wdata + ofs \div W /\ wofs' = ofs % W
    BY DEF Write, ofs
  <2>1. CASE ofs < W
    <3>1. ofs \div W = 0 /\ ofs % W = ofs
      BY <1>1, <2>1, CarryDivMod
    <3>2. wdata' = wdata /\ wofs' = ofs
      BY <2>0, <3>1 DEF TypeOK, Index
    <3>3. QED
      BY <1>1, <2>1, <3>2 DEF TypeOK, WPos, Index, Pos, ofs
  <2>2. CASE ofs >= W
    <3>1. wdata' = wdata + 1 /\ wofs' = ofs - W
      <4>1. ofs \div W = 1 /\ ofs % W = ofs - W
        BY <1>1, <2>2, CarryDivMod
      <4>2. QED
        BY <2>0, <4>1
    <3>2. wdata * W + W + (ofs - W) <= (N - Padding) * W
      BY <1>2 DEF TypeOK, WPos, Cap, Index, Pos, ofs
    <3>3. wdata + 1 <= N - Padding
      <4>1. wdata \in Nat /\ N - Padding \in Nat /\ ofs - W \in Nat
        BY <2>2 DEF TypeOK, Index, Pos, ofs
      <4>2. QED
        BY <3>2, <4>1, WordsBound
    <3>4. (wdata + 1) * W + (ofs - W) = wdata * W + ofs
      BY DEF TypeOK, Index, Pos, ofs
    <3>5. QED
      <4>1. wdata' \in Index /\ wofs' \in Pos
        BY <1>1, <2>2, <3>1, <3>3 DEF TypeOK, Index, Pos, ofs
      <4>2. wdata' * W + wofs' = WPos + bits
        BY <3>1, <3>4 DEF TypeOK, WPos, Index, Pos, ofs
      <4>3. QED
        BY <4>1, <4>2
  <2>3. QED
    BY <1>1, <2>1, <2>2
<1>4. QED
  BY <1>2, <1>3 DEF WPos

(* Bit_Writer::write preserves the type invariant.                         *)
LEMMA WriteTypeOK ==
  ASSUME TypeOK, NEW val \in Word, NEW bits \in Pos, NEW o, Write(val, bits, o)
  PROVE  TypeOK'
<1> DEFINE p == SetBitRange(mem[wdata], Load(wdata + 1), val, wofs, bits, o)
<1>1. wdata' \in Index /\ wofs' \in Pos /\ WPos' = WPos + bits /\ WPos + bits <= Cap /\ WPos \in Nat
  BY WriteCursor
<1>2. WPos' <= Cap
  BY <1>1
<1>3. mem' \in [Index -> Word]
  <2>1. mem[wdata] \in Word /\ Load(wdata + 1) \in Word
    BY LoadType DEF TypeOK, Index
  <2>2. p[1] \in Word /\ p[2] \in Word
    BY <2>1, SetBitRangeType DEF TypeOK
  <2>3. QED
    BY <2>2 DEF Write, TypeOK
<1>4. fields' \in Seq(Field) /\ Len(fields') = Len(fields) + 1
  <2>1. [val |-> val, bits |-> bits, at |-> WPos] \in Field
    BY <1>1 DEF Field, Cap, TypeOK, Index, Pos
  <2>2. QED
    BY <2>1 DEF Write, TypeOK
<1>5. QED
  BY <1>1, <1>2, <1>3, <1>4 DEF Write, TypeOK

(* Constructing the Bit_Extractor gives a well-formed Bit_Buffer.          *)
LEMMA OpenTypeOK ==
  ASSUME TypeOK, Open
  PROVE  TypeOK'
<1>1. Load(0) \in Word /\ Load(1) \in Word /\ Zero \in Word
  BY LoadType DEF TypeOK, Zero, Word, Bit
<1>2. NewBitBuffer \in Reader
  BY <1>1 DEF NewBitBuffer, Reader, Pos
<1>3. QED
  BY <1>2 DEF Open, TypeOK, WPos

(* A Bit_Extractor::extract call of one to four fields leaves a well-     *)
(* formed Bit_Buffer and records one value per field consumed.            *)
LEMMA ExtractTypeOK ==
  ASSUME TypeOK, NEW n \in 1 .. 4, Extract(n)
  PROVE  TypeOK'
<1>1. PICK o \in [1 .. n -> OversizeResults], s \in [1 .. n -> SignedDests] :
             CASE n = 1 -> Extract1(o, s)
               [] n = 2 -> Extract2(o, s)
               [] n = 3 -> Extract3(o, s)
               [] n = 4 -> Extract4(o, s)
  BY DEF Extract
<1>2. \A k \in 1 .. n : s[k] \in BOOLEAN
  BY SignedDestsAssumption
<1>3. Len(got) + n <= Len(fields) /\ Len(got) \in Nat
  BY DEF Extract, TypeOK
<1> DEFINE a == ReadField(rd, Len(got) + 1, o[1], s[1])
           b == ReadField(a.r, Len(got) + 2, o[2], s[2])
           c == ReadField(b.r, Len(got) + 3, o[3], s[3])
           d == ReadField(c.r, Len(got) + 4, o[4], s[4])
<1>0. rd \in Reader /\ got \in Seq(Got)
  BY DEF TypeOK
<1>4. a.r \in Reader /\ a.g \in Got
  BY <1>0, <1>2, <1>3, ReadFieldType
<1>5. n >= 2 => b.r \in Reader /\ b.g \in Got
  BY <1>2, <1>3, <1>4, ReadFieldType
<1>6. n >= 3 => c.r \in Reader /\ c.g \in Got
  BY <1>2, <1>3, <1>5, ReadFieldType
<1>7. n >= 4 => d.r \in Reader /\ d.g \in Got
  BY <1>2, <1>3, <1>6, ReadFieldType
<1> HIDE DEF a, b, c, d
<1>8. rd' \in Reader /\ got' \in Seq(Got) /\ Len(got') = Len(got) + n
  <2>1. CASE n = 1
    <3>1. rd' = a.r /\ got' = got \o <<a.g>>
      <4>1. Extract1(o, s)
        BY <1>1, <2>1
      <4>2. QED
        BY <4>1 DEF Extract1, a, b, c, d
    <3>2. <<a.g>> \in Seq(Got) /\ Len(<<a.g>>) = 1
      BY <1>4, <2>1
    <3>3. got \o <<a.g>> \in Seq(Got) /\ Len(got \o <<a.g>>) = Len(got) + 1
      BY <1>0, <3>2, ConcatProperties
    <3>4. QED
      BY <2>1, <3>1, <3>3, <1>4
  <2>2. CASE n = 2
    <3>1. rd' = b.r /\ got' = got \o <<a.g, b.g>>
      <4>1. Extract2(o, s)
        BY <1>1, <2>2
      <4>2. QED
        BY <4>1 DEF Extract2, a, b, c, d
    <3>2. <<a.g, b.g>> \in Seq(Got) /\ Len(<<a.g, b.g>>) = 2
      BY <1>4, <1>5, <2>2
    <3>3. got \o <<a.g, b.g>> \in Seq(Got) /\ Len(got \o <<a.g, b.g>>) = Len(got) + 2
      BY <1>0, <3>2, ConcatProperties
    <3>4. QED
      BY <2>2, <3>1, <3>3, <1>4, <1>5
  <2>3. CASE n = 3
    <3>1. rd' = c.r /\ got' = got \o <<a.g, b.g, c.g>>
      <4>1. Extract3(o, s)
        BY <1>1, <2>3
      <4>2. QED
        BY <4>1 DEF Extract3, a, b, c, d
    <3>2. <<a.g, b.g, c.g>> \in Seq(Got) /\ Len(<<a.g, b.g, c.g>>) = 3
      BY <1>4, <1>5, <1>6, <2>3
    <3>3. got \o <<a.g, b.g, c.g>> \in Seq(Got) /\ Len(got \o <<a.g, b.g, c.g>>) = Len(got) + 3
      BY <1>0, <3>2, ConcatProperties
    <3>4. QED
      BY <2>3, <3>1, <3>3, <1>4, <1>5, <1>6
  <2>4. CASE n = 4
    <3>1. rd' = d.r /\ got' = got \o <<a.g, b.g, c.g, d.g>>
      <4>1. Extract4(o, s)
        BY <1>1, <2>4
      <4>2. QED
        BY <4>1 DEF Extract4, a, b, c, d
    <3>2. <<a.g, b.g, c.g, d.g>> \in Seq(Got) /\ Len(<<a.g, b.g, c.g, d.g>>) = 4
      BY <1>4, <1>5, <1>6, <1>7, <2>4
    <3>3. got \o <<a.g, b.g, c.g, d.g>> \in Seq(Got) /\ Len(got \o <<a.g, b.g, c.g, d.g>>) = Len(got) + 4
      BY <1>0, <3>2, ConcatProperties
    <3>4. QED
      BY <2>4, <3>1, <3>3, <1>4, <1>5, <1>6, <1>7
  <2>5. QED
    BY <2>1, <2>2, <2>3, <2>4
<1>9. QED
  BY <1>3, <1>8 DEF Extract, TypeOK, WPos

(* Bit_Extractor::advance skips one field and leaves a well-formed buffer. *)
LEMMA SkipTypeOK ==
  ASSUME TypeOK, Skip
  PROVE  TypeOK'
<1>1. fields[Len(got) + 1].bits \in Nat
  <2>1. fields[Len(got) + 1] \in Field
    BY DEF Skip, TypeOK
  <2>2. QED
    BY <2>1 DEF Field, Pos
<1>2. rd' \in Reader
  BY <1>1, BitBufferAdvanceType DEF Skip, TypeOK
<1>3. [w |-> Zero, signed |-> FALSE, skipped |-> TRUE] \in Got
  BY DEF Got, Zero, Word, Bit
<1>4. QED
  BY <1>2, <1>3 DEF Skip, TypeOK, WPos

-----------------------------------------------------------------------------
(* Type correctness: in every behaviour of the writer and the reader, the *)
(* writer's cursor (Bit_Writer::data, bit_ofs) indexes the array and stays *)
(* within the capacity the caller's padding leaves, the array keeps N      *)
(* words, and the Bit_Buffer's cursor is normalised (bit_ofs < W), for    *)
(* every N, Padding, W and build.                                          *)
THEOREM TypeCorrect == Spec => []TypeOK
<1>1. Init => TypeOK
  BY InitTypeOK
<1>2. TypeOK /\ [Next]_vars => TypeOK'
  <2> SUFFICES ASSUME TypeOK, [Next]_vars PROVE TypeOK'
    OBVIOUS
  <2>1. ASSUME NEW bits \in Pos, NEW val \in Word, NEW o \in OversizeResults,
               Write(val, bits, o)
        PROVE  TypeOK'
    BY <2>1, WriteTypeOK
  <2>2. CASE Open
    BY <2>2, OpenTypeOK
  <2>3. ASSUME NEW n \in 1 .. 4, Extract(n)
        PROVE  TypeOK'
    BY <2>3, ExtractTypeOK
  <2>4. CASE Skip
    BY <2>4, SkipTypeOK
  <2>5. CASE UNCHANGED vars
    BY <2>5 DEF vars, TypeOK, WPos, Cap
  <2>6. QED
    BY <2>1, <2>2, <2>3, <2>4, <2>5 DEF Next
<1>3. QED
  BY <1>1, <1>2, PTL DEF Spec

-----------------------------------------------------------------------------
(* Positions in the stream: bit p of the array is bit p % W of word        *)
(* p \div W.                                                               *)

LEMMA SplitPos ==
  ASSUME NEW p \in Nat
  PROVE  /\ p \div W \in Nat
         /\ p % W \in Pos
         /\ p = (p \div W) * W + (p % W)
  BY DEF Pos

LEMMA WordBefore ==
  ASSUME NEW a \in Nat, NEW b \in Nat, a < b
  PROVE  a * W + W <= b * W
<1>1. a + 1 <= b
  OBVIOUS
<1>2. (a + 1) * W <= b * W
  BY <1>1
<1>3. QED
  BY <1>2

(* The stream fits the array: the capacity is at most N words.            *)
LEMMA CapInArray == Cap <= N * W /\ Cap \in Nat
<1>1. N - Padding <= N /\ N - Padding \in Nat
  OBVIOUS
<1>2. (N - Padding) * W <= N * W
  BY <1>1
<1>3. QED
  BY <1>1, <1>2 DEF Cap

(* Bit_Writer::write changes exactly the bits of its field: bit p of the   *)
(* array afterwards is bit p - WPos of val inside the field and what it   *)
(* was outside it, including across the word boundary set_bit_range       *)
(* straddles.                                                              *)
LEMMA WriteMemBit ==
  ASSUME TypeOK, NEW val \in Word, NEW bits \in Pos, NEW o, Write(val, bits, o),
         NEW p \in 0 .. (N * W - 1)
  PROVE  MemBit(p)' = IF WPos <= p /\ p < WPos + bits THEN val[p - WPos] ELSE MemBit(p)
<1> DEFINE k == p \div W
           r == p % W
           q == SetBitRange(mem[wdata], Load(wdata + 1), val, wofs, bits, o)
<1>1. k \in Nat /\ r \in Pos /\ p = k * W + r
  BY SplitPos
<1>2. k \in Index
  <2>1. SUFFICES ASSUME k >= N PROVE FALSE
    BY <1>1 DEF Index
  <2>2. N * W <= k * W
    BY <1>1, <2>1
  <2>3. QED
    BY <1>1, <2>2 DEF Pos
<1>3. MemBit(p)' = mem'[k][r] /\ MemBit(p) = mem[k][r]
  BY DEF MemBit
<1> DEFINE base == wdata * W
<1>4. /\ wdata \in Nat /\ wofs \in Nat /\ base \in Nat
      /\ WPos = base + wofs /\ wofs + bits <= 2 * W - 2
  BY DEF TypeOK, Index, Pos, WPos
<1> HIDE DEF k, r, base
<1>5. CASE bits = 0
  <2>1. mem' = mem
    BY <1>5 DEF Write
  <2>2. QED
    BY <1>3, <1>4, <1>5, <2>1
<1>6. CASE bits # 0
  <2>1. /\ mem'[wdata] = q[1]
        /\ wdata + 1 \in Index => mem'[wdata + 1] = q[2]
        /\ \A j \in Index : j # wdata /\ j # wdata + 1 => mem'[j] = mem[j]
    <3>1. mem' = [mem EXCEPT ![wdata] = q[1], ![wdata + 1] = q[2]]
      BY <1>6 DEF Write
    <3>2. QED
      BY <3>1 DEF TypeOK, Index
  <2>2. mem[wdata] \in Word /\ Load(wdata + 1) \in Word
    BY LoadType DEF TypeOK, Index
  <2>3. /\ \A j \in Pos :
             q[1][j] = IF wofs <= j /\ j < wofs + bits THEN val[j - wofs] ELSE mem[wdata][j]
        /\ \A j \in Pos :
             q[2][j] = IF wofs <= W + j /\ W + j < wofs + bits
                       THEN val[W + j - wofs] ELSE Load(wdata + 1)[j]
    BY <2>2, SetBitRangeCorrect DEF TypeOK
  <2>4. CASE k = wdata
    <3>1. mem'[k] = q[1]
      BY <2>1, <2>4
    <3>2. p = base + r
      BY <1>1, <2>4 DEF base
    <3>3. q[1][r] = IF wofs <= r /\ r < wofs + bits THEN val[r - wofs] ELSE mem[wdata][r]
      BY <1>1, <2>3
    <3>4. /\ (WPos <= p <=> wofs <= r)
          /\ (p < WPos + bits <=> r < wofs + bits)
          /\ p - WPos = r - wofs
      BY <1>1, <1>4, <3>2 DEF Pos
    <3>5. QED
      BY <1>3, <2>4, <3>1, <3>3, <3>4
  <2>5. CASE k = wdata + 1
    <3>1. mem'[k] = q[2]
      BY <1>2, <2>1, <2>5
    <3>2. Load(wdata + 1) = mem[k]
      BY <1>2, <2>5 DEF Load, Index
    <3>3. p = base + W + r
      BY <1>1, <1>4, <2>5 DEF base
    <3>4. q[2][r] = IF wofs <= W + r /\ W + r < wofs + bits
                    THEN val[W + r - wofs] ELSE Load(wdata + 1)[r]
      BY <1>1, <2>3
    <3>5. /\ (WPos <= p <=> wofs <= W + r)
          /\ (p < WPos + bits <=> W + r < wofs + bits)
          /\ p - WPos = W + r - wofs
      BY <1>1, <1>4, <3>3 DEF Pos
    <3>6. QED
      BY <1>3, <3>1, <3>2, <3>4, <3>5
  <2>6. CASE k # wdata /\ k # wdata + 1
    <3>1. mem'[k] = mem[k]
      BY <1>2, <2>1, <2>6
    <3>2. ~(WPos <= p /\ p < WPos + bits)
      <4>1. CASE k < wdata
        <5>1. k * W + W <= base
          BY <1>1, <1>4, <4>1, WordBefore DEF base
        <5>2. QED
          BY <1>1, <1>4, <5>1 DEF Pos
      <4>2. CASE k > wdata + 1
        <5>1. (wdata + 1) * W + W <= k * W
          BY <1>1, <1>4, <4>2, WordBefore
        <5>2. base + 2 * W <= k * W
          BY <1>4, <5>1 DEF base
        <5>3. QED
          BY <1>1, <1>4, <5>2 DEF Pos
      <4>3. k < wdata \/ k > wdata + 1
        BY <1>1, <1>4, <2>6
      <4>4. QED
        BY <4>1, <4>2, <4>3
    <3>3. QED
      BY <1>3, <3>1, <3>2
  <2>7. QED
    BY <2>4, <2>5, <2>6
<1>7. QED
  BY <1>5, <1>6

(* Bit p of an array m of words.                                           *)
MBit(m, p) == m[p \div W][p % W]

(* The same, for every bit of the array at once, in terms of the arrays   *)
(* before and after the step.                                              *)
LEMMA WriteMemBits ==
  ASSUME TypeOK, NEW val \in Word, NEW bits \in Pos, NEW o, Write(val, bits, o)
  PROVE  \A p \in 0 .. (N * W - 1) :
           MBit(mem', p) = IF WPos <= p /\ p < WPos + bits THEN val[p - WPos] ELSE MBit(mem, p)
<1> SUFFICES ASSUME NEW p \in 0 .. (N * W - 1)
             PROVE  MBit(mem', p) = IF WPos <= p /\ p < WPos + bits THEN val[p - WPos]
                                    ELSE MBit(mem, p)
  OBVIOUS
<1>1. MemBit(p)' = IF WPos <= p /\ p < WPos + bits THEN val[p - WPos] ELSE MemBit(p)
  BY WriteMemBit
<1>2. QED
  BY <1>1 DEF MemBit, MBit

-----------------------------------------------------------------------------
(* The inductive invariant behind MemoryHoldsStream: every field written  *)
(* lies below the writer's cursor, so a later write, which only touches   *)
(* bits from the cursor on, never disturbs it.                             *)
FieldsBelow == \A i \in 1 .. Len(fields) : fields[i].at + fields[i].bits <= WPos

MemInv == TypeOK /\ FieldsBelow /\ MemoryHoldsStream

LEMMA InitMemInv == Init => MemInv
<1> SUFFICES ASSUME Init PROVE MemInv
  OBVIOUS
<1>1. TypeOK
  BY InitTypeOK
<1>2. FieldsBelow
  BY DEF Init, FieldsBelow
<1>3. MemoryHoldsStream
  BY DEF Init, MemoryHoldsStream, MemBit, Mem0Bit
<1>4. QED
  BY <1>1, <1>2, <1>3 DEF MemInv

(* A bit of a field that ends by c <= nw lies below c and inside 0..nw-1. *)
LEMMA FieldInside ==
  \A a, b, c, nw \in Nat : \A k \in 0 .. (b - 1) :
    a + b <= c /\ c <= nw => a + k \in 0 .. (nw - 1) /\ a + k < c
  OBVIOUS

(* Bit_Writer::write preserves the invariant.                              *)
LEMMA WriteMemInv ==
  ASSUME MemInv, NEW val \in Word, NEW bits \in Pos, NEW o, Write(val, bits, o)
  PROVE  MemInv'
<1> DEFINE F == [val |-> val, bits |-> bits, at |-> WPos]
<1>1. TypeOK /\ FieldsBelow /\ MemoryHoldsStream
  BY DEF MemInv
<1>2. TypeOK'
  BY <1>1, WriteTypeOK
<1>3. /\ WPos' = WPos + bits /\ WPos + bits <= Cap /\ WPos \in Nat
      /\ Cap <= N * W /\ Cap \in Nat /\ bits \in Nat
  BY <1>1, WriteCursor, CapInArray DEF Pos
<1>4. \A p \in 0 .. (N * W - 1) :
        MBit(mem', p) = IF WPos <= p /\ p < WPos + bits THEN val[p - WPos] ELSE MBit(mem, p)
  BY <1>1, WriteMemBits
<1>5. /\ F \in Field
      /\ fields \in Seq(Field)
      /\ fields' = Append(fields, F)
      /\ mem0' = mem0
  BY <1>1, <1>3 DEF Write, Field, TypeOK, Pos
<1>6. /\ Len(fields') = Len(fields) + 1
      /\ \A i \in 1 .. Len(fields) : fields'[i] = fields[i]
      /\ fields'[Len(fields) + 1] = F
  BY <1>5, AppendProperties
<1>7. \A i \in 1 .. Len(fields) :
        fields[i].at \in 0 .. Cap /\ fields[i].bits \in Pos /\ fields[i].val \in Word
  <2>1. \A i \in 1 .. Len(fields) : fields[i] \in Field
    BY <1>5
  <2>2. QED
    BY <2>1 DEF Field
<1>8. FieldsBelow'
  BY <1>1, <1>3, <1>6, <1>7 DEF FieldsBelow, Pos
<1>9. ASSUME NEW i \in 1 .. Len(fields'), NEW j \in 0 .. (fields'[i].bits - 1)
      PROVE  MBit(mem', fields'[i].at + j) = fields'[i].val[j]
  <2>1. CASE i \in 1 .. Len(fields)
    <3>1. fields[i].at + j \in 0 .. (N * W - 1) /\ fields[i].at + j < WPos
      <4>1. j \in 0 .. (fields[i].bits - 1)
        BY <1>6, <2>1
      <4>2. fields[i].at + fields[i].bits <= WPos /\ WPos <= Cap
        BY <1>1, <2>1 DEF FieldsBelow, TypeOK
      <4>3. fields[i].at \in Nat /\ fields[i].bits \in Nat
        BY <1>7, <2>1 DEF Pos
      <4>4. \A a, b, c, nw \in Nat : \A k \in 0 .. (b - 1) :
              a + b <= c /\ c <= nw => a + k \in 0 .. (nw - 1) /\ a + k < c
        BY FieldInside
      <4>5. WPos <= N * W /\ N * W \in Nat
        BY <1>3, <4>2
      <4>6. QED
        BY <1>3, <4>1, <4>2, <4>3, <4>5, <4>4
    <3>2. MBit(mem', fields[i].at + j) = MBit(mem, fields[i].at + j)
      BY <1>3, <1>4, <3>1
    <3>3. MBit(mem, fields[i].at + j) = fields[i].val[j]
      BY <1>1, <1>6, <2>1 DEF MemoryHoldsStream, MemBit, MBit
    <3>4. QED
      BY <1>6, <2>1, <3>2, <3>3
  <2>2. CASE i = Len(fields) + 1
    <3>1. fields'[i] = F
      BY <1>6, <2>2
    <3>2. j \in 0 .. (bits - 1) /\ WPos + j \in 0 .. (N * W - 1)
      BY <1>3, <3>1 DEF Pos
    <3>3. MBit(mem', WPos + j) = val[j]
      BY <1>3, <1>4, <3>2
    <3>4. QED
      BY <3>1, <3>3
  <2>3. QED
    BY <1>6, <2>1, <2>2
<1>10. ASSUME NEW p \in (WPos + bits) .. (N * W - 1)
       PROVE  MBit(mem', p) = MBit(mem0', p)
  <2>1. p \in 0 .. (N * W - 1) /\ p >= WPos
    BY <1>3
  <2>2. MBit(mem', p) = MBit(mem, p)
    BY <1>3, <1>4, <2>1
  <2>3. MBit(mem, p) = MBit(mem0, p)
    <3>1. p \in WPos .. (N * W - 1)
      BY <1>3, <2>1
    <3>2. QED
      BY <1>1, <3>1 DEF MemoryHoldsStream, MemBit, Mem0Bit, MBit
  <2>4. QED
    BY <1>5, <2>2, <2>3
<1>11. MemoryHoldsStream'
  BY <1>3, <1>9, <1>10 DEF MemoryHoldsStream, MemBit, Mem0Bit, MBit
<1>12. QED
  BY <1>2, <1>8, <1>11 DEF MemInv

(* A step that keeps the array, the writer and the history of writes, and *)
(* keeps TypeOK, keeps the invariant: the reader's steps never write.     *)
LEMMA WriterFrameMemInv ==
  ASSUME MemInv, TypeOK', UNCHANGED <<mem, mem0, wdata, wofs, fields>>
  PROVE  MemInv'
<1>1. FieldsBelow'
  BY DEF MemInv, FieldsBelow, WPos
<1>2. MemoryHoldsStream'
  BY DEF MemInv, MemoryHoldsStream, MemBit, Mem0Bit, WPos
<1>3. QED
  BY <1>1, <1>2 DEF MemInv

(* The array holds the written stream in every reachable state, for every *)
(* N, Padding, W and build: Bit_Writer::write, through set_bit_range,     *)
(* stores each field at the writer's cursor and disturbs neither an      *)
(* earlier field nor a bit past the cursor, and the reader never writes.  *)
THEOREM MemoryCorrect == Spec => []MemoryHoldsStream
<1>1. Init => MemInv
  BY InitMemInv
<1>2. MemInv /\ [Next]_vars => MemInv'
  <2> SUFFICES ASSUME MemInv, [Next]_vars PROVE MemInv'
    OBVIOUS
  <2>0. TypeOK
    BY DEF MemInv
  <2>1. ASSUME NEW bits \in Pos, NEW val \in Word, NEW o \in OversizeResults,
               Write(val, bits, o)
        PROVE  MemInv'
    BY <2>1, WriteMemInv
  <2>2. CASE Open
    BY <2>0, <2>2, OpenTypeOK, WriterFrameMemInv DEF Open
  <2>3. ASSUME NEW n \in 1 .. 4, Extract(n)
        PROVE  MemInv'
    BY <2>0, <2>3, ExtractTypeOK, WriterFrameMemInv DEF Extract
  <2>4. CASE Skip
    BY <2>0, <2>4, SkipTypeOK, WriterFrameMemInv DEF Skip
  <2>5. CASE UNCHANGED vars
    <3>1. TypeOK'
      BY <2>0, <2>5 DEF vars, TypeOK, WPos, Cap
    <3>2. QED
      BY <2>5, <3>1, WriterFrameMemInv DEF vars
  <2>6. QED
    BY <2>1, <2>2, <2>3, <2>4, <2>5 DEF Next
<1>3. MemInv => MemoryHoldsStream
  BY DEF MemInv
<1>4. QED
  BY <1>1, <1>2, <1>3, PTL DEF Spec

=============================================================================
