-------------------------- MODULE MCBaggingGenerate --------------------------
(* Threads for the bagging runs: the caller and up to two pool threads.    *)
EXTENDS BaggingGenerate

CONSTANTS w1, w2, c

MCTwoWorkers == {w1, w2}
=============================================================================
