------------------------- MODULE BitRangeOpsProofs -------------------------
(***************************************************************************)
(* Facts about the primitives of BitRangeOps, for every word width W:     *)
(* the C operators map words to words, and extract_bit_range returns the  *)
(* reference field exactly when the build's shrd is the instruction, or a *)
(* shift by W yields 0, or the field does not start at bit 0.             *)
(***************************************************************************)
EXTENDS BitRangeOps, TLAPS

USE WAssumption

(* The bitwise operators, shifts and masks map words to words.             *)
LEMMA WordOps ==
  ASSUME NEW x \in Word, NEW y \in Word, NEW k \in Nat, NEW o
  PROVE  /\ Shr(x, k) \in Word
         /\ Shl(x, k) \in Word
         /\ ShlC(x, k, o) \in Word
         /\ BitOr(x, y) \in Word
         /\ BitAnd(x, y) \in Word
         /\ BitNot(x) \in Word
         /\ LowMask(k, o) \in Word
         /\ Zero \in Word
  BY DEF Word, Pos, Bit, Shr, Shl, ShlC, BitOr, BitAnd, BitNot, LowMask, Zero

(* shrd, either form, returns a word for offsets up to W.                  *)
LEMMA ShrdType ==
  ASSUME NEW low \in Word, NEW high \in Word, NEW bits \in 0 .. W, NEW o
  PROVE  Shrd(low, high, bits, o) \in Word
<1>1. ShrdNative(low, high, bits) \in Word
  BY DEF ShrdNative, Word, Pos, Bit, Zero
<1>2. ShrdEmulated(low, high, bits, o) \in Word
  <2>1. W - bits \in Nat
    OBVIOUS
  <2>2. Shr(low, bits) \in Word /\ ShlC(high, W - bits, o) \in Word
    BY <2>1, WordOps
  <2>3. QED
    BY <2>2, WordOps DEF ShrdEmulated
<1>3. QED
  BY <1>1, <1>2 DEF Shrd

(* Both forms of extract_bit_range return a word.                          *)
LEMMA ExtractType ==
  ASSUME NEW p0 \in Word, NEW p1 \in Word, NEW bit \in Pos, NEW bits \in 0 .. W, NEW o
  PROVE  /\ ExtractBitRange(p0, p1, bit, bits, o) \in Word
         /\ ExtractBitRangePtr(p0, p1, bit, bits, o) \in Word
<1>0. bit \in 0 .. W /\ bit \in Nat
  BY DEF Pos
<1>1. Shrd(p0, p1, bit, o) \in Word /\ Shr(p0, bit) \in Word
  <2>1. Shrd(p0, p1, bit, o) \in Word
    BY <1>0, ShrdType
  <2>2. Shr(p0, bit) \in Word
    BY <1>0, WordOps
  <2>3. QED
    BY <2>1, <2>2
<1>2. LowMask(bits, o) \in Word /\ Zero \in Word
  BY WordOps
<1>3. QED
  BY <1>1, <1>2, WordOps DEF ExtractBitRange, ExtractBitRangePtr

(* set_bits returns a word, and set_bit_range a pair of words.             *)
LEMMA SetBitRangeType ==
  ASSUME NEW p0 \in Word, NEW p1 \in Word, NEW val \in Word, NEW bit \in Pos,
         NEW bits \in Pos, NEW o
  PROVE  /\ SetBitRange(p0, p1, val, bit, bits, o)[1] \in Word
         /\ SetBitRange(p0, p1, val, bit, bits, o)[2] \in Word
<1>1. ASSUME NEW in \in Word, NEW v \in Word, NEW b \in Nat, NEW n \in Nat
      PROVE  SetBits(in, v, b, n, o) \in Word
  <2>1. LowMask(n, o) \in Word
    BY WordOps
  <2>2. Shl(LowMask(n, o), b) \in Word
    BY <2>1, WordOps
  <2>3. Shl(v, b) \in Word
    BY WordOps
  <2>4. QED
    BY <2>2, <2>3, WordOps DEF SetBits
<1> DEFINE bits0 == IF bits < W - bit THEN bits ELSE W - bit
<1>2. bits0 \in Nat /\ bits - bits0 \in Nat
  BY DEF Pos
<1>3. Shr(val, bits0) \in Word
  BY <1>2, WordOps
<1>4. SetBits(p0, val, bit, bits0, o) \in Word
  BY <1>1, <1>2 DEF Pos
<1>5. SetBits(p1, Shr(val, bits0), 0, bits - bits0, o) \in Word
  BY <1>1, <1>2, <1>3
<1>6. QED
  BY <1>4, <1>5 DEF SetBitRange

-----------------------------------------------------------------------------
(* extract_bit_range(Data p0, Data p1, bit, bits) returns the field of     *)
(* width bits at offset bit of p1:p0 (RefField), for every width W, every  *)
(* offset and every width below W, unless the build emulates shrd with a  *)
(* shift by W that keeps its operand and the field starts at bit 0: the   *)
(* case the emulation (shrd_emulated) computes as low | high.              *)
THEOREM ExtractBitRangeCorrect ==
  ASSUME NEW p0 \in Word, NEW p1 \in Word, NEW bit \in Pos, NEW bits \in Pos,
         NEW o \in {"zero", "masked"},
         NativeShrd \/ o = "zero" \/ bit > 0
  PROVE  ExtractBitRange(p0, p1, bit, bits, o) = RefField(p0, p1, bit, bits)
<1>1. CASE bits = 0
  BY <1>1 DEF ExtractBitRange, RefField, Zero, Pos
<1>2. CASE bits # 0
  <2>1. Shrd(p0, p1, bit, o)
          = [i \in Pos |-> IF bit + i < W THEN p0[bit + i] ELSE p1[bit + i - W]]
    <3>1. CASE NativeShrd
      BY <3>1 DEF Shrd, ShrdNative, Pos
    <3>2. CASE ~NativeShrd
      <4>1. o = "zero" \/ bit > 0
        BY <3>2
      <4>2. ShlC(p1, W - bit, o) = Shl(p1, W - bit)
        BY <4>1 DEF ShlC, Pos
      <4>3. QED
        BY <3>2, <4>2 DEF Shrd, ShrdEmulated, BitOr, Shr, Shl, Pos, Word, Bit
    <3>3. QED
      BY <3>1, <3>2
  <2>2. LowMask(bits, o) = [i \in Pos |-> IF i < bits THEN 1 ELSE 0]
    BY DEF LowMask, Pos
  <2>3. QED
    BY <1>2, <2>1, <2>2, p0 \in Word, p1 \in Word
       DEF ExtractBitRange, BitAnd, RefField, Word, Pos, Bit
<1>3. QED
  BY <1>1, <1>2

-----------------------------------------------------------------------------
(* set_bits(in, val, bit, n) for a field that ends inside the word: bit i *)
(* of the result is bit i - bit of val inside the field, bit i of in      *)
(* outside it.                                                             *)
LEMMA SetBitsPointwise ==
  ASSUME NEW in \in Word, NEW v \in Word, NEW b \in Pos, NEW n \in 0 .. (W - 1),
         b + n <= W, NEW o
  PROVE  \A i \in Pos :
           SetBits(in, v, b, n, o)[i] = IF b <= i /\ i < b + n THEN v[i - b] ELSE in[i]
<1>1. LowMask(n, o) = [i \in Pos |-> IF i < n THEN 1 ELSE 0]
  BY DEF LowMask, Pos
<1>2. \A i \in Pos : Shl(LowMask(n, o), b)[i] = IF b <= i /\ i < b + n THEN 1 ELSE 0
  BY <1>1 DEF Shl, Pos
<1>3. \A i \in Pos : Shl(v, b)[i] = IF b <= i THEN v[i - b] ELSE 0
  BY DEF Shl
<1>4. QED
  BY <1>2, <1>3 DEF SetBits, BitOr, BitAnd, BitNot, Word, Pos, Bit

(* set_bit_range(p, val, bit, bits) stores val in the field of width bits *)
(* at offset bit of the double word p[1]:p[0], straddling or not, and     *)
(* leaves every other bit of both words as it was: for every width W,     *)
(* every offset and width below W, and every build.                        *)
THEOREM SetBitRangeCorrect ==
  ASSUME NEW p0 \in Word, NEW p1 \in Word, NEW val \in Word, NEW bit \in Pos,
         NEW bits \in Pos, NEW o
  PROVE  LET q == SetBitRange(p0, p1, val, bit, bits, o)
         IN  /\ \A j \in Pos :
                  q[1][j] = IF bit <= j /\ j < bit + bits THEN val[j - bit] ELSE p0[j]
             /\ \A j \in Pos :
                  q[2][j] = IF bit <= W + j /\ W + j < bit + bits
                            THEN val[W + j - bit] ELSE p1[j]
<1> DEFINE bits0 == IF bits < W - bit THEN bits ELSE W - bit
           bits1 == bits - bits0
           q == SetBitRange(p0, p1, val, bit, bits, o)
<1>1. bits0 \in 0 .. (W - 1) /\ bits1 \in 0 .. (W - 1) /\ bit + bits0 <= W
  BY DEF Pos
<1>2. CASE bits = 0
  BY <1>2 DEF SetBitRange
<1>3. CASE bits # 0
  <2>1. q[1] = SetBits(p0, val, bit, bits0, o)
    BY <1>3 DEF SetBitRange
  <2>2. q[2] = IF bits1 # 0 THEN SetBits(p1, Shr(val, bits0), 0, bits1, o) ELSE p1
    BY <1>3 DEF SetBitRange
  <2>3. ASSUME NEW j \in Pos
        PROVE  q[1][j] = IF bit <= j /\ j < bit + bits THEN val[j - bit] ELSE p0[j]
    <3>1. q[1][j] = IF bit <= j /\ j < bit + bits0 THEN val[j - bit] ELSE p0[j]
      BY <1>1, <2>1, SetBitsPointwise
    <3>2. QED
      BY <3>1 DEF Pos
  <2>4. ASSUME NEW j \in Pos
        PROVE  q[2][j] = IF bit <= W + j /\ W + j < bit + bits
                         THEN val[W + j - bit] ELSE p1[j]
    <3>1. CASE bits1 = 0
      BY <2>2, <3>1 DEF Pos
    <3>2. CASE bits1 # 0
      <4>1. bits0 = W - bit
        BY <3>2 DEF Pos
      <4>2. Shr(val, bits0) \in Word
        <5>1. bits0 \in Nat
          BY <1>1
        <5>2. QED
          BY <5>1, WordOps
      <4>3. q[2][j] = IF j < bits1 THEN Shr(val, bits0)[j] ELSE p1[j]
        <5>1. 0 \in Pos /\ 0 + bits1 <= W
          BY <1>1 DEF Pos
        <5>2. \A i \in Pos :
                SetBits(p1, Shr(val, bits0), 0, bits1, o)[i]
                  = IF 0 <= i /\ i < 0 + bits1 THEN Shr(val, bits0)[i - 0] ELSE p1[i]
          BY <1>1, <4>2, <5>1, SetBitsPointwise
        <5>3. QED
          BY <2>2, <3>2, <5>2 DEF Pos
      <4>4. QED
        BY <4>1, <4>3 DEF Shr, Pos
    <3>3. QED
      BY <3>1, <3>2
  <2>5. QED
    BY <2>3, <2>4
<1>4. QED
  BY <1>2, <1>3 DEF Pos
=============================================================================
