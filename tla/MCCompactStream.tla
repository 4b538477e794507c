--------------------------- MODULE MCCompactStream ---------------------------
(***************************************************************************)
(* Values for the compact size runs.  A value is given by the set of its   *)
(* one bits.  Together they take every marker length from 1 to 9 bytes at *)
(* its edges, and bytes >= 0x80 after the first (the sign-extension case). *)
(***************************************************************************)
EXTENDS CompactStream

ValueOf(S) == [p \in ULPos |-> IF p \in S THEN 1 ELSE 0]

(* 0, 5, 2^7 - 1, 2^7 (two bytes, the second 0x80), 2^14 - 1, 2^14 (three *)
(* bytes), 2^28 - 1 (four), 2^28 (five), 2^35 (six), 2^42 (seven), 2^49   *)
(* (eight), 2^56 and 2^63 - 1 (nine).                                      *)
MCValues ==
  { ValueOf({}), ValueOf({0, 2}), ValueOf(0 .. 6), ValueOf({7}),
    ValueOf(0 .. 13), ValueOf(0 .. 27), ValueOf({35}), ValueOf({56}),
    ValueOf({14}), ValueOf({28}), ValueOf({42}), ValueOf({49}),
    ValueOf(0 .. 62) }
=============================================================================
