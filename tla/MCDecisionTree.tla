---------------------------- MODULE MCDecisionTree ----------------------------
(* Split weights for the decision tree run: one edge, the missing edge     *)
(* alone, two edges, and all three with different weights.                 *)
EXTENDS DecisionTree

MCWeights == {<<1, 0, 0>>, <<0, 0, 2>>, <<1, 1, 0>>, <<1, 2, 3>>}
=============================================================================
