----------------------------- MODULE AccuracySum -----------------------------
(***************************************************************************)
(* What Perceptron::accuracy promises: one call returns the weighted      *)
(* number of correct predictions and the weighted number of possible ones *)
(* over the examples 0 .. nx - 1, as one step.  score[x] is example x's    *)
(* contribution <<w * possible * correct, w * possible>>.                  *)
(***************************************************************************)
EXTENDS Integers

CONSTANTS MaxNX, Scores

VARIABLES nx, score, ret

(* The sum of component k of the scores of examples lo .. hi - 1.          *)
ScoreSum(sc, lo, hi, k) ==
  LET s[n \in 0 .. (hi - lo)] ==
        IF n = 0 THEN 0 ELSE s[n - 1] + sc[lo + n - 1][k]
  IN  IF hi <= lo THEN 0 ELSE s[hi - lo]

NoResult == [correct |-> -1, total |-> -1]

Init ==
  /\ nx \in 0 .. MaxNX
  /\ score \in [0 .. (MaxNX - 1) -> Scores]
  /\ ret = NoResult

Return ==
  /\ ret = NoResult
  /\ ret' = [correct |-> ScoreSum(score, 0, nx, 1), total |-> ScoreSum(score, 0, nx, 2)]
  /\ UNCHANGED <<nx, score>>

Spec == Init /\ [][Return]_<<nx, score, ret>>
=============================================================================
