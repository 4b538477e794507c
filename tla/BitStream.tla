----------------------------- MODULE BitStream -----------------------------
(***************************************************************************)
(* A Bit_Writer and a Bit_Extractor over one caller-owned array of N      *)
(* words (bit_range_ops.h).  The writer appends fields with               *)
(* set_bit_range and renormalises its (data, bit_ofs) cursor; the reader  *)
(* is a Bit_Extractor over a Bit_Buffer whose memory buffer is            *)
(* Simple_Mem_Buffer or Buffered_Mem_Buffer (Strategy), and reads the     *)
(* fields back by the caller's schema: the widths the writer used, one   *)
(* field at a time or fused two, three or four to a call, or skips one    *)
(* with advance.                                                           *)
(***************************************************************************)
EXTENDS BitRangeOps, Sequences

CONSTANTS
  N,                \* words in the array, padding included
  Padding,          \* trailing words the caller leaves after the data
  MaxFields,        \* bound on the fields the writer writes
  Strategy,         \* "simple" (Simple_Mem_Buffer) or "buffered" (Buffered_Mem_Buffer)
  ReadWhileWriting, \* may the writer go on writing once the reader exists?
  SignedDests,      \* the signedness of the destinations the caller extracts into
  InitWords         \* contents the array's words may have before the writer starts

ASSUME NAssumption == N \in Nat /\ N >= 2
ASSUME PaddingAssumption == Padding \in 1 .. (N - 1)
ASSUME MaxFieldsAssumption == MaxFields \in Nat
ASSUME StrategyAssumption == Strategy \in {"simple", "buffered"}
ASSUME ReadWhileWritingAssumption == ReadWhileWriting \in BOOLEAN
ASSUME SignedDestsAssumption == SignedDests \subseteq BOOLEAN /\ SignedDests # {}
ASSUME InitWordsAssumption == InitWords \subseteq Word /\ InitWords # {}

VARIABLES
  mem,     \* the array: word index -> Word
  mem0,    \* its contents before the first write (history)
  wdata,   \* Bit_Writer::data, as an index into the array
  wofs,    \* Bit_Writer::bit_ofs
  fields,  \* the fields written so far: [val, bits, at] (history; the schema)
  ropen,   \* has the caller constructed the Bit_Extractor?
  rd,      \* the Bit_Buffer: MemBuf data index and b0, b1; bit_ofs; oob
  got      \* the fields the reader has consumed, in order

vars == <<mem, mem0, wdata, wofs, fields, ropen, rd, got>>

Index == 0 .. (N - 1)
Cap   == (N - Padding) * W          \* bits the caller lets the writer fill
WPos  == wdata * W + wofs           \* the writer's position in the stream
RPos  == rd.data * W + rd.ofs       \* the reader's position in the stream

(* A load data[i].  Past the array it is undefined behaviour; the value    *)
(* is then immaterial because the read itself is flagged (rd.oob).         *)
Load(i) == IF i < N THEN mem[i] ELSE Zero

MemBit(p)  == mem[p \div W][p % W]
Mem0Bit(p) == mem0[p \div W][p % W]

Reader == [data : Nat, ofs : Pos, b0 : Word, b1 : Word, oob : BOOLEAN]
Field  == [val : Word, bits : Pos, at : 0 .. Cap]
Got    == [w : Word, signed : BOOLEAN, skipped : BOOLEAN]

-----------------------------------------------------------------------------
(* Memory buffers.                                                         *)

(* The constructors: Simple_Mem_Buffer keeps the pointer; Buffered_Mem_   *)
(* Buffer also loads b0 = data[0], b1 = data[1].  Bit_Buffer sets bit_ofs.*)
NewBitBuffer ==
  [data |-> 0, ofs |-> 0,
   b0 |-> IF Strategy = "buffered" THEN Load(0) ELSE Zero,
   b1 |-> IF Strategy = "buffered" THEN Load(1) ELSE Zero,
   oob |-> FALSE]

(* curr() and next(): Simple_Mem_Buffer dereferences data[0] and data[1], *)
(* Buffered_Mem_Buffer returns b0 and b1.                                  *)
Curr(r) == IF Strategy = "buffered" THEN r.b0 ELSE Load(r.data)
NextW(r) == IF Strategy = "buffered" THEN r.b1 ELSE Load(r.data + 1)
CurrNextOutOfBounds(r) == Strategy = "simple" /\ r.data + 1 >= N

(* operator += (offset).  Buffered_Mem_Buffer: b0 = (offset == 0 ? b0 :   *)
(* (offset == 1 ? b1 : data[0])); b1 = (offset == 0 ? b1 : data[1]), after *)
(* data += offset; only the selected loads are performed.                  *)
MemBufAdvance(r, offset) ==
  LET d == r.data + offset
  IN  IF Strategy = "simple" THEN [r EXCEPT !.data = d]
      ELSE [r EXCEPT !.data = d,
                     !.b0 = IF offset = 0 THEN r.b0
                            ELSE IF offset = 1 THEN r.b1 ELSE Load(d),
                     !.b1 = IF offset = 0 THEN r.b1 ELSE Load(d + 1),
                     !.oob = r.oob \/ (offset # 0 /\ d + 1 >= N)]

(* Faulty variants of Bit_Buffer::advance: bit_ofs not reduced modulo W;  *)
(* the bit count taken for the word count (data += bit_ofs).              *)
BitBufferAdvanceNoWrap(r, bits) ==
  LET ofs == r.ofs + bits
  IN  [MemBufAdvance(r, ofs \div W) EXCEPT !.ofs = ofs]
BitBufferAdvanceNoDiv(r, bits) ==
  LET ofs == r.ofs + bits
  IN  [MemBufAdvance(r, ofs) EXCEPT !.ofs = ofs % W]
(* Bit_Buffer::advance(bits): bit_ofs += bits; data += bit_ofs / W;        *)
(* bit_ofs %= W.                                                           *)
BitBufferAdvance(r, bits) ==
  LET ofs == r.ofs + bits
  IN  [MemBufAdvance(r, ofs \div W) EXCEPT !.ofs = ofs % W]

(* Faulty variant of Bit_Buffer::extract: curr() and next() swapped.      *)
ExtractValueSwapped(r, bits, o) == ExtractBitRange(NextW(r), Curr(r), r.ofs, bits, o)

(* Bit_Buffer::extract(bits): the value, and the buffer after the call.   *)
ExtractValue(r, bits, o) == ExtractBitRange(Curr(r), NextW(r), r.ofs, bits, o)
AfterExtract(r, bits) ==
  BitBufferAdvance([r EXCEPT !.oob = @ \/ CurrNextOutOfBounds(r)], bits)

-----------------------------------------------------------------------------
TypeOK ==
  /\ mem \in [Index -> Word]
  /\ mem0 \in [Index -> Word]
  /\ wdata \in Index
  /\ wofs \in Pos
  /\ WPos <= Cap
  /\ fields \in Seq(Field)
  /\ ropen \in BOOLEAN
  /\ rd \in Reader
  /\ got \in Seq(Got)
  /\ Len(got) <= Len(fields)

Init ==
  /\ mem \in [Index -> InitWords]
  /\ mem0 = mem
  /\ wdata = 0
  /\ wofs = 0
  /\ fields = << >>
  /\ ropen = FALSE
  /\ rd = [data |-> 0, ofs |-> 0, b0 |-> Zero, b1 |-> Zero, oob |-> FALSE]
  /\ got = << >>

(* Bit_Writer::write(val, bits): set_bit_range(data, val, bit_ofs, bits),  *)
(* then bit_ofs += bits; data += bit_ofs / W; bit_ofs %= W.  The caller    *)
(* passes a width below W and a value that fits it, and keeps the data    *)
(* within Cap.                                                             *)
Write(val, bits, o) ==
  /\ Len(fields) < MaxFields
  /\ ~ropen \/ ReadWhileWriting
  /\ WPos + bits <= Cap
  /\ Fits(val, bits)
  /\ LET p == SetBitRange(mem[wdata], Load(wdata + 1), val, wofs, bits, o)
         ofs == wofs + bits
     IN  /\ mem' = IF bits = 0 THEN mem
                   ELSE [mem EXCEPT ![wdata] = p[1], ![wdata + 1] = p[2]]
         /\ wdata' = wdata + ofs \div W
         /\ wofs' = ofs % W
  /\ fields' = Append(fields, [val |-> val, bits |-> bits, at |-> WPos])
  /\ UNCHANGED <<mem0, ropen, rd, got>>

(* Bit_Extractor(data): the caller constructs the reader over the array.   *)
Open ==
  /\ ~ropen
  /\ ropen' = TRUE
  /\ rd' = NewBitBuffer
  /\ UNCHANGED <<mem, mem0, wdata, wofs, fields, got>>

(* One field of a Bit_Extractor::extract call: field i read with build     *)
(* outcome o into a destination that is signed or not.  The value is      *)
(* assigned to the destination as it is (where = buf.extract(num_bits)).  *)
ReadField(r, i, o, signed) ==
  [r |-> AfterExtract(r, fields[i].bits),
   g |-> [w |-> ExtractValue(r, fields[i].bits, o), signed |-> signed, skipped |-> FALSE]]

(* Bit_Extractor::extract with one, two, three or four (where, num_bits)   *)
(* pairs: buf.extract for each, left to right, in one call.                *)
Extract1(o, s) ==
  LET a == ReadField(rd, Len(got) + 1, o[1], s[1])
  IN  /\ rd' = a.r
      /\ got' = got \o <<a.g>>

Extract2(o, s) ==
  LET a == ReadField(rd, Len(got) + 1, o[1], s[1])
      b == ReadField(a.r, Len(got) + 2, o[2], s[2])
  IN  /\ rd' = b.r
      /\ got' = got \o <<a.g, b.g>>

Extract3(o, s) ==
  LET a == ReadField(rd, Len(got) + 1, o[1], s[1])
      b == ReadField(a.r, Len(got) + 2, o[2], s[2])
      c == ReadField(b.r, Len(got) + 3, o[3], s[3])
  IN  /\ rd' = c.r
      /\ got' = got \o <<a.g, b.g, c.g>>

Extract4(o, s) ==
  LET a == ReadField(rd, Len(got) + 1, o[1], s[1])
      b == ReadField(a.r, Len(got) + 2, o[2], s[2])
      c == ReadField(b.r, Len(got) + 3, o[3], s[3])
      d == ReadField(c.r, Len(got) + 4, o[4], s[4])
  IN  /\ rd' = d.r
      /\ got' = got \o <<a.g, b.g, c.g, d.g>>

Extract(n) ==
  /\ ropen
  /\ Len(got) + n <= Len(fields)
  /\ \E o \in [1 .. n -> OversizeResults], s \in [1 .. n -> SignedDests] :
       CASE n = 1 -> Extract1(o, s)
         [] n = 2 -> Extract2(o, s)
         [] n = 3 -> Extract3(o, s)
         [] n = 4 -> Extract4(o, s)
  /\ UNCHANGED <<mem, mem0, wdata, wofs, fields, ropen>>

(* Bit_Extractor::advance(bits): the caller skips the next field.          *)
Skip ==
  /\ ropen
  /\ Len(got) < Len(fields)
  /\ rd' = BitBufferAdvance(rd, fields[Len(got) + 1].bits)
  /\ got' = Append(got, [w |-> Zero, signed |-> FALSE, skipped |-> TRUE])
  /\ UNCHANGED <<mem, mem0, wdata, wofs, fields, ropen>>

Next ==
  \/ \E bits \in Pos, val \in Word, o \in OversizeResults : Write(val, bits, o)
  \/ Open
  \/ \E n \in 1 .. 4 : Extract(n)
  \/ Skip

Spec == Init /\ [][Next]_vars

-----------------------------------------------------------------------------
(* Round trip: every field the reader has extracted has the value the      *)
(* writer wrote, whatever the widths, offsets and straddles of the fields  *)
(* before it, the memory buffer strategy, and the fusing of extract calls *)
(* (Bit_Writer::write, Bit_Buffer::extract, Bit_Extractor::extract).       *)
ReadBackCorrect ==
  \A i \in 1 .. Len(got) : ~got[i].skipped => got[i].w = fields[i].val

(* The array holds the stream: every field written is in its bits at the  *)
(* position the writer's cursor had, and every bit past the writer's      *)
(* cursor still has its value from before the first write (set_bit_range  *)
(* never touches a bit outside its field, across word boundaries).        *)
MemoryHoldsStream ==
  /\ \A i \in 1 .. Len(fields) : \A j \in 0 .. (fields[i].bits - 1) :
       MemBit(fields[i].at + j) = fields[i].val[j]
  /\ \A p \in WPos .. (N * W - 1) : MemBit(p) = Mem0Bit(p)

(* The reader never loads a word past the end of the array, given the     *)
(* caller's padding (Simple_Mem_Buffer::curr/next, Buffered_Mem_Buffer's  *)
(* constructor and operator +=).                                           *)
NoOutOfBoundsRead == ~rd.oob
=============================================================================
