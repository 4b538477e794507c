---------------------------- MODULE MCBitStream ----------------------------
(* BitStream instantiated for TLC: W = 4 stands for the word types, and   *)
(* the array's words start all zeros or all ones, so a write that drops a *)
(* bit of its field, or clobbers a bit outside it, shows in either case.  *)
EXTENDS BitStream

MCInitWords ==
  { [i \in Pos |-> 0], [i \in Pos |-> 1] }
=============================================================================
