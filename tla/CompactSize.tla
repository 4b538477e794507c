----------------------------- MODULE CompactSize -----------------------------
(***************************************************************************)
(* The compact size codec of db/compact_size_types.cc: encode_compact      *)
(* writes an unsigned long as 1 to 9 bytes whose first byte starts with a  *)
(* unary length marker (len - 1 one bits, then a zero), decode_compact     *)
(* reads the marker, the bytes and filters the marker off again.           *)
(*                                                                         *)
(* unsigned long is the 64-bit type of LP64 builds, and both it and the    *)
(* bytes are bit vectors, so that every shift, mask and sign extension of  *)
(* the code is translated position by position.  Two properties of the     *)
(* build decide what the code computes:                                    *)
(*  - CharSigned: whether char is signed; store[i] is a char, and          *)
(*    "result |= store[i]" sign-extends it when it is;                     *)
(*  - IntShiftResults: the outcomes of "1 << bits" in int when bits >= 32, *)
(*    which is undefined: "masked" (the count is taken mod 32, as x86      *)
(*    does) or "zero".                                                     *)
(***************************************************************************)
EXTENDS Integers, Sequences

CONSTANTS CharSigned, IntShiftResults

ASSUME CompactAssumption ==
  /\ CharSigned \in BOOLEAN
  /\ IntShiftResults \subseteq {"masked", "zero"}
  /\ IntShiftResults # {}

Bit     == {0, 1}
ULPos   == 0 .. 63
ULong   == [ULPos -> Bit]
BytePos == 0 .. 7
Byte    == [BytePos -> Bit]

ULZero == [p \in ULPos |-> 0]

(* highest_bit (arch/bitops.h): the index of the highest set bit of v      *)
(* among the positions D, or -1 when none is set.                          *)
HighestSet(v, D) ==
  IF \E i \in D : v[i] = 1
  THEN CHOOSE i \in D : v[i] = 1 /\ \A j \in D : j > i => v[j] = 0
  ELSE -1

(* C's int division, which truncates towards zero: -1 / 7 = 0.             *)
CDiv(a, b) == IF a < 0 THEN -((-a) \div b) ELSE a \div b

-----------------------------------------------------------------------------
(* encode_compact: idx = highest / 7, len = idx + 1.                       *)
EncodeIdx(val) == CDiv(HighestSet(val, ULPos), 7)
EncodeLen(val) == EncodeIdx(val) + 1

(* buf is char buf[9]: a value with bit 63 set gives len = 10 and the loop *)
(* writes buf[9].                                                          *)
EncodeOverflows(val) == EncodeLen(val) > 9

(* Byte i of the packing loop: buf[len-1] takes the low byte of val, and   *)
(* each "val >>= 8" brings the next byte down; past bit 63 it is 0.        *)
PackedByte(val, len, i) ==
  [k \in BytePos |-> LET p == 8 * (len - 1 - i) + k
                     IN  IF p \in ULPos THEN val[p] ELSE 0]

(* The low byte of ~((1 << (8-idx)) - 1): the top idx bits.                *)
Indicator(idx) == [k \in BytePos |-> IF k >= 8 - idx THEN 1 ELSE 0]

(* The bytes encode_compact passes to save_binary, buf[0] first, with the  *)
(* indicator or-ed into buf[0].                                            *)
EncodeCompact(val) ==
  LET idx == EncodeIdx(val)
      len == idx + 1
  IN  [i \in 1 .. len |->
         IF i = 1
         THEN [k \in BytePos |-> IF PackedByte(val, len, 0)[k] = 1 \/ Indicator(idx)[k] = 1
                                 THEN 1 ELSE 0]
         ELSE PackedByte(val, len, i - 1)]

(* Mutant: the length one short (7 - highest_bit).                         *)
DecodeLenShort(marker) == 7 - HighestSet([k \in BytePos |-> 1 - marker[k]], BytePos)

-----------------------------------------------------------------------------
(* decode_compact: len = 8 - highest_bit((char)~marker), highest_bit taken *)
(* over the 8 bits of the char ("no bits set = -1, so len = 9").           *)
DecodeLen(marker) == 8 - HighestSet([k \in BytePos |-> 1 - marker[k]], BytePos)

(* store[i] as the unsigned long it is or-ed into: a char, sign-extended   *)
(* when char is signed.                                                    *)
ExtendChar(b) ==
  [p \in ULPos |-> IF p < 8 THEN b[p] ELSE IF CharSigned THEN b[7] ELSE 0]

(* The loop "result <<= 8; result |= store[i]" over the len bytes.         *)
Accumulate(bytes) ==
  LET acc[i \in 0 .. Len(bytes)] ==
        IF i = 0 THEN ULZero
        ELSE [p \in ULPos |->
                IF (p >= 8 /\ acc[i - 1][p - 8] = 1) \/ ExtendChar(bytes[i])[p] = 1
                THEN 1 ELSE 0]
  IN  acc[Len(bytes)]

(* ~((1 << bits) - 1) in int, converted to unsigned long.  bits = 7 * len  *)
(* is never 31, so for a shift count s < 32 the int is negative and sign-  *)
(* extends: the mask has every bit from s up.  A shift by 32 or more is    *)
(* undefined: o = "masked" shifts by bits % 32, o = "zero" gives 0, and    *)
(* ~(0 - 1) is 0.                                                          *)
FilterMask(bits, o) ==
  IF bits >= 32 /\ o = "zero"
  THEN ULZero
  ELSE LET s == IF bits >= 32 THEN bits % 32 ELSE bits
       IN  [p \in ULPos |-> IF p >= s THEN 1 ELSE 0]

(* The value decode_compact returns for the len bytes of one record.       *)
DecodeCompact(bytes, o) ==
  LET len    == Len(bytes)
      result == Accumulate(bytes)
  IN  IF len = 9 THEN result
      ELSE LET mask == FilterMask(len * 7, o)
           IN  [p \in ULPos |-> IF result[p] = 1 /\ mask[p] = 1 THEN 1 ELSE 0]
(* A size n < 2^31 as the unsigned long compact_size_t holds.              *)
SizeBits(n) == [p \in ULPos |-> IF p < 31 THEN (n \div 2^p) % 2 ELSE 0]

(* What compact_size_t(store) reads back for a compact_size_t(n) written: *)
(* the bits below 31 of decode_compact of encode_compact's bytes (the     *)
(* sizes stored here are small).                                           *)
ReadSize(n, o) ==
  LET v == DecodeCompact(EncodeCompact(SizeBits(n)), o)
      f[p \in 0 .. 31] == IF p = 0 THEN 0 ELSE f[p - 1] + v[p - 1] * 2^(p - 1)
  IN  f[31]
=============================================================================
