---------------------------- MODULE BitRangeOps ----------------------------
(***************************************************************************)
(* The bit-range primitives of src/src/arch/bit_range_ops.h: the double-  *)
(* word shift shrd (emulated and native), the two forms of               *)
(* extract_bit_range, set_bits, set_bit_range, sign_extend and           *)
(* fixup_extract.                                                          *)
(*                                                                         *)
(* A machine word of type Data is a bit vector: a function from the bit   *)
(* positions 0..W-1 (0 = least significant) to {0,1}.  The C operators   *)
(* >>, <<, &, |, ~ are translated position by position, so the model is   *)
(* free of arithmetic on 2^W and of recursion.                            *)
(*                                                                         *)
(* Shifts by the full width W are undefined behaviour in C++ unless Data  *)
(* is narrower than int (uint8_t, uint16_t are promoted to int first, and *)
(* the truncated result is 0).  The build decides what such a shift       *)
(* produces; OversizeResults is the set of outcomes the build can give:   *)
(*   "zero"   : x << W = 0 (promoted types, or hardware that saturates);  *)
(*   "masked" : the count is taken modulo W, so x << W = x (x86 and       *)
(*              AArch64 shift instructions on 32/64-bit registers).       *)
(***************************************************************************)
EXTENDS Naturals

CONSTANTS
  W,                \* bits in Data: sizeof(Data) * 8
  NativeShrd,       \* TRUE iff shrd is the inline shrd instruction (JML_INTEL_ISA, not NVCC, Data wider than 8 bits)
  OversizeResults   \* what a shift by exactly W yields in this build

ASSUME WAssumption == W \in Nat /\ W >= 2
ASSUME NativeShrdAssumption == NativeShrd \in BOOLEAN
ASSUME OversizeAssumption ==
  OversizeResults \subseteq {"zero", "masked"} /\ OversizeResults # {}

Bit  == {0, 1}
Pos  == 0 .. (W - 1)
Word == [Pos -> Bit]
Zero == [i \in Pos |-> 0]

(* Fits(val, bits): val has no bit set at or above position bits; the     *)
(* caller's obligation for set_bits, set_bit_range and Bit_Writer::write. *)
Fits(val, bits) == \A i \in Pos : i >= bits => val[i] = 0

-----------------------------------------------------------------------------
(* The C operators on Data.                                                *)

Shr(x, k)      == [i \in Pos |-> IF i + k < W THEN x[i + k] ELSE 0]   \* x >> k
Shl(x, k)      == [i \in Pos |-> IF k <= i THEN x[i - k] ELSE 0]      \* x << k, k <= W, "zero" at k = W
BitOr(x, y)    == [i \in Pos |-> IF x[i] = 1 \/ y[i] = 1 THEN 1 ELSE 0]
BitAnd(x, y)   == [i \in Pos |-> IF x[i] = 1 /\ y[i] = 1 THEN 1 ELSE 0]
BitNot(x)      == [i \in Pos |-> 1 - x[i]]

(* x << k where k may equal W: outcome o of the build.                    *)
ShlC(x, k, o) == IF k = W /\ o = "masked" THEN x ELSE Shl(x, k)

(* Faulty variant (off by one): (Data(1) << (b + 1)) - 1.                 *)
LowMaskInclusive(b, o) == [i \in Pos |-> IF i <= b THEN 1 ELSE 0]

(* (Data(1) << b) - 1 for b <= W: the low b bits set.  At b = W the shift  *)
(* is undefined: "zero" gives 0 - 1 = all ones, "masked" gives 1 - 1 = 0.  *)
LowMask(b, o) ==
  IF b = W /\ o = "masked" THEN Zero ELSE [i \in Pos |-> IF i < b THEN 1 ELSE 0]

-----------------------------------------------------------------------------
(* Faulty variants of the double-word shift: the emulation without        *)
(* low >>= bits, and the instruction with its two operands swapped.       *)
ShrdEmulatedNoLowShift(low, high, bits, o) == BitOr(low, ShlC(high, W - bits, o))
ShrdNativeSwapped(low, high, bits) ==
  [i \in Pos |-> IF i + bits < W THEN high[i + bits] ELSE low[i + bits - W]]

(* shrd_emulated(low, high, bits): low >>= bits; high <<= (TBITS - bits);  *)
(* return low | high.  bits = 0 shifts high by the full width.             *)
ShrdEmulated(low, high, bits, o) == BitOr(Shr(low, bits), ShlC(high, W - bits, o))

(* The shrd instruction: the W bits starting at position bits of the      *)
(* double word high:low; the guard bits > TBITS returns 0.                 *)
ShrdNative(low, high, bits) ==
  IF bits > W THEN Zero
  ELSE [i \in Pos |-> IF i + bits < W THEN low[i + bits] ELSE high[i + bits - W]]

(* shrd: the native form where the build has it, the emulation otherwise. *)
Shrd(low, high, bits, o) ==
  IF NativeShrd THEN ShrdNative(low, high, bits) ELSE ShrdEmulated(low, high, bits, o)

(* extract_bit_range(Data p0, Data p1, bit, bits), the pure form used by  *)
(* Bit_Buffer: early return 0 for bits = 0, else shrd and mask.            *)
ExtractBitRange(p0, p1, bit, bits, o) ==
  IF bits = 0 THEN Zero
  ELSE BitAnd(Shrd(p0, p1, bit, o), LowMask(bits, o))

(* extract_bit_range(const Data * p, bit, bits): p[1] is read only when   *)
(* the field straddles; the product with Data(bits != 0) zeroes bits = 0. *)
ExtractBitRangePtr(p0, p1, bit, bits, o) ==
  LET result == IF bit + bits > W THEN Shrd(p0, p1, bit, o) ELSE Shr(p0, bit)
  IN  BitAnd(IF bits # 0 THEN result ELSE Zero, LowMask(bits, o))

(* Faulty variant of set_bits: the mask is not shifted to bit.            *)
SetBitsMaskUnshifted(in, val, bit, bits, o) ==
  LET mask == LowMask(bits, o)
  IN  BitOr(BitAnd(in, BitNot(mask)), BitAnd(Shl(val, bit), mask))

(* set_bits(in, val, bit, bits): mask = ((1 << bits) - 1) << bit;          *)
(* (in & ~mask) | ((val << bit) & mask).                                   *)
SetBits(in, val, bit, bits, o) ==
  LET mask == Shl(LowMask(bits, o), bit)
  IN  BitOr(BitAnd(in, BitNot(mask)), BitAnd(Shl(val, bit), mask))

(* Faulty variant of set_bit_range: bits0 = min(bits, DBITS - bit - 1).   *)
SetBitRangeShortBits0(p0, p1, val, bit, bits, o) ==
  LET bits0 == IF bits < W - bit - 1 THEN bits ELSE W - bit - 1
      bits1 == bits - bits0
  IN  IF bits = 0 THEN <<p0, p1>>
      ELSE <<SetBits(p0, val, bit, bits0, o),
             IF bits1 # 0 THEN SetBits(p1, Shr(val, bits0), 0, bits1, o) ELSE p1>>

(* set_bit_range(p, val, bit, bits) on the two words p[0], p[1]: returns   *)
(* their new values.  bits0 low bits of val go to p[0] at bit, the        *)
(* remaining bits1 to p[1] at 0; p[1] is untouched when bits1 = 0.         *)
SetBitRange(p0, p1, val, bit, bits, o) ==
  LET bits0 == IF bits < W - bit THEN bits ELSE W - bit
      bits1 == bits - bits0
  IN  IF bits = 0 THEN <<p0, p1>>
      ELSE <<SetBits(p0, val, bit, bits0, o),
             IF bits1 # 0 THEN SetBits(p1, Shr(val, bits0), 0, bits1, o) ELSE p1>>

(* sign_extend(raw, sign_bit): sign = (raw & (1 << sign_bit)) != 0;        *)
(* return raw | (T(-sign) << sign_bit).  1 << sign_bit is an int, so a     *)
(* sign_bit at or above W tests a bit raw does not have.                   *)
SignExtend(raw, sign_bit) ==
  LET sign == IF sign_bit < W THEN raw[sign_bit] ELSE 0
  IN  IF sign = 1 THEN BitOr(raw, Shl([i \in Pos |-> 1], sign_bit)) ELSE raw

(* fixup_extract(e, bits): identity for unsigned T, sign_extend(e, bits)   *)
(* for the signed overloads.                                               *)
FixupExtract(e, bits, signed) == IF signed THEN SignExtend(e, bits) ELSE e

-----------------------------------------------------------------------------
(* Reference definitions, used by the properties.                          *)

(* The field of width bits at offset bit of the double word p1:p0.         *)
RefField(p0, p1, bit, bits) ==
  [i \in Pos |-> IF i >= bits THEN 0
                 ELSE IF bit + i < W THEN p0[bit + i] ELSE p1[bit + i - W]]

(* The integer a word denotes, unsigned and as W-bit two's complement.     *)
Val(x) == LET v[k \in 0 .. W] == IF k = 0 THEN 0 ELSE v[k - 1] + x[k - 1] * 2^(k - 1)
          IN  v[W]
SVal(x) == Val(x) - x[W - 1] * 2^W

(* The value of the bits-wide field f read as two's complement.            *)
FieldSVal(f, bits) == IF bits > 0 /\ f[bits - 1] = 1 THEN Val(f) - 2^bits ELSE Val(f)
=============================================================================
