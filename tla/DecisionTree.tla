---------------------------- MODULE DecisionTree ----------------------------
(***************************************************************************)
(* Decision_Tree (boosting/decision_tree.cc): predict and                  *)
(* predict_recursive over every tree of up to two levels of splits, and    *)
(* serialize and reconstitute over a store of tokens, with the             *)
(* compact_size_t fields read back through decode_compact (CompactSize).   *)
(*                                                                         *)
(* A tree is laid out by position: the root is 1, and the true, false and *)
(* missing children of n are 3n - 1, 3n and 3n + 1.  A position holds a    *)
(* null pointer, a leaf or a node; only 1 and 2 may hold a node.  Split::  *)
(* apply (not in this repository) gives each node a weight per edge for    *)
(* the example; the weights are small integers, so that every product is  *)
(* exact.  Leaf n predicts Pred(n) over label_count() labels.              *)
(*                                                                         *)
(* Tree::serialize / reconstitute (not in this repository) write the tree *)
(* as one token that reads back as written; so are the strings, the        *)
(* feature space and the output encoding.  Classifier_Impl::init(fs,       *)
(* predicted) takes the label count the feature space gives the predicted  *)
(* feature, FsLabels.                                                      *)
(***************************************************************************)
EXTENDS CompactSize

CONSTANTS Weights,     \* the Split::Weights <<true, false, missing>> a node can give
          Encodings,   \* the Output_Encoding values
          LabelCounts, \* label counts a tree is built with
          FsLabels     \* the label count the feature space gives

ASSUME TreeAssumption ==
  /\ Weights \subseteq [1 .. 3 -> Nat]
  /\ LabelCounts \subseteq 1 .. 1000 /\ FsLabels \in 1 .. 1000

Ids == 1 .. 7

Child(n, b) == 3 * n - 1 + b            \* b = 0 (true), 1 (false), 2 (missing)
Parent(n)   == (n + 1) \div 3
Branch(n)   == n + 1 - 3 * Parent(n)

VARIABLES kind, w,       \* tree: what each position holds, each node's split weights
          encoding,      \* encoding
          labelCount,    \* label_count()
          store, rpos,   \* the store and the reader's position in it
          thrown,        \* reconstitute has thrown
          saved,         \* history: the tree serialize wrote, and where
          out            \* what predict returned for the tree now held

vars == <<kind, w, encoding, labelCount, store, rpos, thrown, saved, out>>

Trees == {k \in [Ids -> {"null", "leaf", "node"}] : \A n \in 3 .. 7 : k[n] # "node"}

Init ==
  /\ kind \in Trees
  /\ w \in [{1, 2} -> Weights]
  /\ encoding \in Encodings
  /\ labelCount \in LabelCounts
  /\ store = << >>
  /\ rpos = 0
  /\ thrown = FALSE
  /\ saved = << >>
  /\ out = [ran |-> FALSE]

Labels == 1 .. labelCount
Zero   == [l \in Labels |-> 0]

(* A leaf's pred: a distinct distribution per position.                    *)
Pred(n) == [l \in Labels |-> n * l]

Plus(a, b)  == [l \in Labels |-> a[l] + b[l]]
Scale(c, a) == [l \in Labels |-> c * a[l]]

(* Mutant: the missing edge is never followed.                            *)
PredictTreeNoMissing(k, wt) ==
  LET pr[n \in Ids] ==
        CASE k[n] = "null" -> Zero
          [] k[n] = "leaf" -> Pred(n)
          [] OTHER ->
               LET Edge(b) == IF b < 2 /\ wt[n][b + 1] > 0
                              THEN Scale(wt[n][b + 1], pr[Child(n, b)]) ELSE Zero
               IN  Plus(Plus(Edge(0), Edge(1)), Edge(2))
  IN  pr[1]

(* predict_recursive(features, tree.root): a null pointer gives label_count *)
(* zeros, a leaf its pred, and a node the sum over its edges of positive    *)
(* weight of the weight times the child's prediction.                       *)
PredictTree(k, wt) ==
  LET pr[n \in Ids] ==
        CASE k[n] = "null" -> Zero
          [] k[n] = "leaf" -> Pred(n)
          [] OTHER ->
               LET Edge(b) == IF wt[n][b + 1] > 0
                              THEN Scale(wt[n][b + 1], pr[Child(n, b)]) ELSE Zero
               IN  Plus(Plus(Edge(0), Edge(1)), Edge(2))
  IN  pr[1]

(* Decision_Tree::predict(features): the prediction, or the exception of  *)
(* predict_recursive rethrown (none here: Split::apply is total).         *)
Predict ==
  /\ out' = [ran |-> TRUE, v |-> PredictTree(kind, w)]
  /\ UNCHANGED <<kind, w, encoding, labelCount, store, rpos, thrown, saved>>

Str(s)  == [k |-> "str", s |-> s]
Size(n) == [k |-> "size", n |-> n]

(* Decision_Tree::serialize: ID, version 3, label count, the predicted     *)
(* feature, the tree, the encoding, the end marker 12345.                  *)
TreeRecord ==
  << Str("DECISION_TREE"), Size(3), Size(labelCount), [k |-> "fs"],
     [k |-> "tree", t |-> [kind |-> kind, w |-> w]], [k |-> "enc", e |-> encoding],
     Size(12345) >>

Serialize ==
  /\ saved = << >>
  /\ store' = store \o TreeRecord
  /\ saved' = [at |-> Len(store), kind |-> kind, w |-> w, encoding |-> encoding,
               labelCount |-> labelCount]
  /\ UNCHANGED <<kind, w, encoding, labelCount, rpos, thrown, out>>

(* Decision_Tree::reconstitute, reading from rpos: the ID check, the      *)
(* version switch (1: label count, tree; 2 and 3: label count, feature    *)
(* space, tree, and for 3 the encoding; otherwise "unknown version"), and *)
(* the end-marker check.  Each read advances the reader; a throw leaves   *)
(* the tree as the reads so far made it and stops the reading.            *)
Reconstitute ==
  /\ ~thrown
  /\ rpos < Len(store)
  /\ \E o \in IntShiftResults :
       LET r       == rpos
           version == ReadSize(store[r + 2].n, o)
           \* the position of the end marker, per version
           mpos    == CASE version = 1 -> r + 5
                        [] version = 2 -> r + 6
                        [] OTHER       -> r + 7
           tok     == store[IF version = 1 THEN r + 4 ELSE r + 5].t
       IN  CASE store[r + 1] # Str("DECISION_TREE") ->
                  /\ thrown' = TRUE /\ rpos' = r + 1
                  /\ UNCHANGED <<kind, w, encoding, labelCount, out>>
             [] version \notin {1, 2, 3} ->
                  /\ thrown' = TRUE /\ rpos' = r + 2
                  /\ UNCHANGED <<kind, w, encoding, labelCount, out>>
             [] OTHER ->
                  /\ labelCount' = IF version = 1 THEN ReadSize(store[r + 3].n, o)
                                   ELSE FsLabels
                  /\ kind' = tok.kind /\ w' = tok.w
                  /\ encoding' = IF version = 3 THEN store[r + 6].e ELSE "OE_PROB"
                  /\ rpos' = mpos
                  /\ thrown' = (ReadSize(store[mpos].n, o) # 12345)
                  /\ out' = [ran |-> FALSE]
  /\ UNCHANGED <<store, saved>>

Next == Predict \/ Serialize \/ Reconstitute

Spec == Init /\ [][Next]_vars

-----------------------------------------------------------------------------
(* The reference: the weight of the path from the root to position n (the *)
(* product of the edge weights along it; 0 off the tree), and the sum over *)
(* the leaves of path weight times pred.                                   *)
PathWeight ==
  LET pw[n \in Ids] ==
        IF n = 1 THEN 1
        ELSE IF kind[Parent(n)] = "node"
             THEN pw[Parent(n)] * w[Parent(n)][Branch(n) + 1] ELSE 0
  IN  pw

LeafSum ==
  LET s[n \in 0 .. 7] ==
        IF n = 0 THEN Zero
        ELSE Plus(s[n - 1], IF kind[n] = "leaf" THEN Scale(PathWeight[n], Pred(n)) ELSE Zero)
  IN  s[7]

(* predict returns the path-weighted sum of the leaves the example         *)
(* reaches, over every edge (true, false, missing) a split gives weight,    *)
(* with a null subtree counting for nothing, for the tree the object holds *)
(* when it is called, including after a (failed) reconstitute.             *)
PredictIsPathSum == out.ran => out.v = LeafSum
=============================================================================
