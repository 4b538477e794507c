------------------------------ MODULE DiagMult ------------------------------
(***************************************************************************)
(* The two diag_mult of algebra/least_squares.h, which irls uses to set up *)
(* its reweighted normal equations: X W X^T, accumulated chunk by chunk    *)
(* over the examples (chunk_size = 2048, "to fit in the cache"), and       *)
(* X W y in one pass.                                                      *)
(*                                                                         *)
(* One call of each: Init picks the matrix XT (nv x nx), the diagonal d    *)
(* and the vector y; each step of MatChunk is one iteration of the while   *)
(* loop.  Values are small integers: every product is exact.               *)
(***************************************************************************)
EXTENDS Integers

CONSTANTS NV,         \* nv = XT.shape()[0]
          MaxNX,      \* largest nx = XT.shape()[1]
          ChunkSize,  \* chunk_size (2048 in the code)
          Values      \* the entries of XT, d and y

ASSUME DiagAssumption ==
  /\ NV \in Nat /\ MaxNX \in Nat /\ ChunkSize \in Nat \ {0}
  /\ Values \subseteq Int

Vars == 0 .. (NV - 1)

VARIABLES nx, XT, d, y, x, result, vec, pc

vars == <<nx, XT, d, y, x, result, vec, pc>>

Init ==
  /\ nx \in 0 .. MaxNX
  /\ XT \in [Vars \X (0 .. (nx - 1)) -> Values]
  /\ d \in [0 .. (nx - 1) -> Values]
  /\ y \in [0 .. (nx - 1) -> Values]
  /\ x = 0
  /\ result = [ij \in Vars \X Vars |-> 0]
  /\ vec = [v \in Vars |-> 0]
  /\ pc = "mat"

(* The sum of f[k] for k in lo .. hi - 1.                                  *)
SumRange(lo, hi, f) ==
  LET s[k \in lo .. hi] == IF k = lo THEN 0 ELSE s[k - 1] + f[k - 1]
  IN  IF hi <= lo THEN 0 ELSE s[hi]

(* nxc = std::min<size_t>(chunk_size, nx - x).                             *)
ChunkLen == IF ChunkSize < nx - x THEN ChunkSize ELSE nx - x

(* Mutant: each chunk's product runs over nxc - 1 examples.               *)
MatChunkShort ==
  /\ pc = "mat"
  /\ x < nx
  /\ result' = [ij \in Vars \X Vars |->
                  result[ij] + SumRange(x, x + ChunkLen - 1,
                                        [k \in x .. (x + ChunkLen - 2) |-> XT[ij[1], k] * XT[ij[2], k] * d[k]])]
  /\ x' = x + ChunkLen
  /\ UNCHANGED <<nx, XT, d, y, vec, pc>>

(* One iteration of "while (x < nx)": for every i, j, result[i][j] +=     *)
(* vec_accum_prod3(&XT[i][x], &XT[j][x], &d[x], nxc); then x += nxc.      *)
MatChunk ==
  /\ pc = "mat"
  /\ x < nx
  /\ result' = [ij \in Vars \X Vars |->
                  result[ij] + SumRange(x, x + ChunkLen,
                                        [k \in x .. (x + ChunkLen - 1) |-> XT[ij[1], k] * XT[ij[2], k] * d[k]])]
  /\ x' = x + ChunkLen
  /\ UNCHANGED <<nx, XT, d, y, vec, pc>>

(* The loop ends and the matrix is returned.                               *)
MatDone ==
  /\ pc = "mat"
  /\ x >= nx
  /\ pc' = "vec"
  /\ UNCHANGED <<nx, XT, d, y, x, result, vec>>

(* diag_mult(X, d, y): result[v] += X[v][x] * d[x] * y[x] over all x.      *)
VecMult ==
  /\ pc = "vec"
  /\ vec' = [v \in Vars |-> SumRange(0, nx, [k \in 0 .. (nx - 1) |-> XT[v, k] * d[k] * y[k]])]
  /\ pc' = "done"
  /\ UNCHANGED <<nx, XT, d, y, x, result>>

Next == MatChunk \/ MatDone \/ VecMult

Spec == Init /\ [][Next]_vars

-----------------------------------------------------------------------------
(* The reference: (X W X^T)[i][j] and (X W y)[v] summed over every example *)
(* in one go.                                                              *)
XWXT(i, j) == SumRange(0, nx, [k \in 0 .. (nx - 1) |-> XT[i, k] * XT[j, k] * d[k]])
XWY(v)     == SumRange(0, nx, [k \in 0 .. (nx - 1) |-> XT[v, k] * d[k] * y[k]])

(* The normal equations irls solves are right: the chunked accumulation   *)
(* covers every example exactly once, whatever nx is relative to the      *)
(* chunk size, and X W y is the weighted product.                          *)
NormalEquations ==
  /\ pc # "mat" => \A i, j \in Vars : result[<<i, j>>] = XWXT(i, j)
  /\ pc = "done" => \A v \in Vars : vec[v] = XWY(v)
=============================================================================
