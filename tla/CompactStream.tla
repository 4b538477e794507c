---------------------------- MODULE CompactStream ----------------------------
(***************************************************************************)
(* compact_size_t values written to a store and read back from it:        *)
(* compact_size_t::serialize appends the bytes of encode_compact, and      *)
(* compact_size_t::reconstitute (or the compact_size_t(Store_Reader&)      *)
(* constructor) runs decode_compact at the reader's position.  The store   *)
(* is the byte sequence; the reader's position is rpos.                    *)
(*                                                                         *)
(* History variables: written (the values serialized), starts (the store  *)
(* position each record starts at).                                        *)
(***************************************************************************)
EXTENDS CompactSize

CONSTANTS Values,      \* the values callers serialize
          MaxValues    \* how many values a behaviour writes

ASSUME StreamAssumption == Values \subseteq ULong /\ MaxValues \in Nat

VARIABLES store, rpos, read, thrown, ub, written, starts

vars == <<store, rpos, read, thrown, ub, written, starts>>

TypeOK ==
  /\ store \in Seq(Byte)
  /\ rpos \in 0 .. Len(store)
  /\ read \in Seq(ULong)
  /\ thrown \in BOOLEAN
  /\ ub \in BOOLEAN
  /\ written \in Seq(Values)
  /\ starts \in Seq(Nat)

Init ==
  /\ store = << >>
  /\ rpos = 0
  /\ read = << >>
  /\ thrown = FALSE
  /\ ub = FALSE
  /\ written = << >>
  /\ starts = << >>

(* compact_size_t::serialize(Store_Writer&) -> encode_compact ->           *)
(* store.save_binary(buf, len).  A value with bit 63 set makes the packing *)
(* loop write buf[9], past the array: undefined behaviour, after which the *)
(* model stops (ub).                                                       *)
Serialize(val) ==
  /\ ~ub
  /\ Len(written) < MaxValues
  /\ IF EncodeOverflows(val)
     THEN /\ ub' = TRUE
          /\ UNCHANGED <<store, rpos, read, thrown, written, starts>>
     ELSE /\ store' = store \o EncodeCompact(val)
          /\ written' = Append(written, val)
          /\ starts' = Append(starts, Len(store))
          /\ UNCHANGED <<rpos, read, thrown, ub>>

(* The number of bytes decode_compact requires at the reader's position:   *)
(* must_have(1), then must_have(len) for the len of the marker.            *)
Needed == IF rpos < Len(store) THEN DecodeLen(store[rpos + 1]) ELSE 1

(* compact_size_t::reconstitute -> decode_compact: the bytes are there,    *)
(* the value is decoded and store.skip(len) moves past them.               *)
Reconstitute ==
  /\ ~ub
  /\ rpos + Needed <= Len(store)
  /\ \E o \in IntShiftResults :
       read' = Append(read, DecodeCompact(SubSeq(store, rpos + 1, rpos + Needed), o))
  /\ rpos' = rpos + Needed
  /\ thrown' = FALSE
  /\ UNCHANGED <<store, ub, written, starts>>

(* must_have throws before skip: the exception leaves the position alone.  *)
ReconstituteThrows ==
  /\ ~ub
  /\ ~thrown
  /\ rpos + Needed > Len(store)
  /\ thrown' = TRUE
  /\ UNCHANGED <<store, rpos, read, ub, written, starts>>

Next ==
  \/ \E val \in Values : Serialize(val)
  \/ Reconstitute
  \/ ReconstituteThrows

Spec == Init /\ [][Next]_vars

-----------------------------------------------------------------------------
(* Where record k + 1 starts, or the end of the store after the last one.  *)
Boundary(k) == IF k < Len(starts) THEN starts[k + 1] ELSE Len(store)

(* The reader stays in step with the writer: after k values are read, and *)
(* after any exception, its position is where the writer put record k + 1 *)
(* (the length decode_compact reads from the marker is the length          *)
(* encode_compact wrote, and skip(len) consumes exactly it).               *)
ReaderInSync == rpos = Boundary(Len(read))

(* Every value read back is the value written (the compact_size_t round    *)
(* trip that Decision_Tree and Perceptron serialisation rely on).          *)
RoundTrip == \A i \in 1 .. Len(read) : read[i] = written[i]
=============================================================================
