------------------------- MODULE MCPerceptronAccuracy -------------------------
(* Threads and example scores for the accuracy runs.  A score is          *)
(* <<w * possible * correct, w * possible>>: not possible, wrong, right,   *)
(* and right with weight 2.                                                *)
EXTENDS PerceptronAccuracy

CONSTANTS w1, w2, c, none

MCWorkers == {w1}
MCScores == {<<0, 0>>, <<0, 1>>, <<1, 1>>, <<2, 2>>}
=============================================================================
