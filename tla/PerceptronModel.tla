---------------------------- MODULE PerceptronModel ----------------------------
(***************************************************************************)
(* A Perceptron's layers and their persistence (boosting/perceptron.cc):   *)
(* add_layer and clear maintain max_units, the size of the scratch arrays  *)
(* predict (and Accuracy_Job_Info::calc) allocate on the stack; serialize  *)
(* writes the record; reconstitute reads one back.                         *)
(*                                                                         *)
(* A layer is its shape and activation; weights and biases are abstracted  *)
(* to their counts.  The store is a sequence of tokens: a string, a       *)
(* compact_size_t, a feature space, a feature, a run of floats, an         *)
(* activation.  A compact_size_t reads back as what decode_compact         *)
(* returns for the bytes encode_compact wrote (module CompactSize).        *)
(* Perceptron::swap (perceptron.h) exchanges every member.                 *)
(***************************************************************************)
EXTENDS CompactSize

CONSTANTS MaxLayers,    \* how many layers a behaviour adds
          MaxUnits,     \* the largest layer width
          Activations,  \* the Activation values
          LabelCounts   \* the label counts a perceptron is built with

ASSUME PerceptronAssumption ==
  /\ MaxLayers \in Nat
  /\ MaxUnits \in Nat \ {0}
  /\ LabelCounts \subseteq 1 .. 1000

Units == 1 .. MaxUnits
Layer == [inputs : Units, outputs : Units, activation : Activations]

VARIABLES layers, maxUnits, nfeatures, labelCount, store, rpos, overflow, saved

vars == <<layers, maxUnits, nfeatures, labelCount, store, rpos, overflow, saved>>

TypeOK ==
  /\ layers \in Seq(Layer)
  /\ maxUnits \in Nat
  /\ nfeatures \in Nat
  /\ labelCount \in Nat
  /\ rpos \in 0 .. Len(store)
  /\ overflow \in BOOLEAN

Init ==
  /\ layers = << >>
  /\ maxUnits = 0
  /\ nfeatures \in Units
  /\ labelCount \in LabelCounts
  /\ store = << >>
  /\ rpos = 0
  /\ overflow = FALSE
  /\ saved = << >>

(* Mutant: max_units follows the inputs only.                               *)
AddLayerInputsOnly(l) ==
  /\ Len(layers) < MaxLayers
  /\ layers' = Append(layers, l)
  /\ maxUnits' = IF Len(layers) + 1 = 1 \/ l.inputs > maxUnits THEN l.inputs ELSE maxUnits
  /\ UNCHANGED <<nfeatures, labelCount, store, rpos, overflow, saved>>

(* Perceptron::add_layer.                                                  *)
AddLayer(l) ==
  /\ Len(layers) < MaxLayers
  /\ layers' = Append(layers, l)
  /\ LET m1 == IF Len(layers) + 1 = 1 \/ l.inputs > maxUnits THEN l.inputs ELSE maxUnits
     IN  maxUnits' = IF l.outputs > m1 THEN l.outputs ELSE m1
  /\ UNCHANGED <<nfeatures, labelCount, store, rpos, overflow, saved>>

(* Perceptron::clear.                                                      *)
Clear ==
  /\ layers # << >>
  /\ layers' = << >>
  /\ maxUnits' = 0
  /\ nfeatures' = 0
  /\ UNCHANGED <<labelCount, store, rpos, overflow, saved>>

(* Perceptron::predict: scratch1 and scratch2 hold max_units floats;       *)
(* extract_features fills layers[0]'s inputs, and each layer's apply       *)
(* writes its outputs into one and reads its inputs from the other.       *)
(* overflow records an index past max_units.  (predict on a perceptron    *)
(* without layers indexes layers[0] of an empty vector; it is called on   *)
(* trained perceptrons.)                                                    *)
Predict ==
  /\ layers # << >>
  /\ overflow' = \/ overflow
                 \/ \E l \in 1 .. Len(layers) :
                      layers[l].inputs > maxUnits \/ layers[l].outputs > maxUnits
  /\ UNCHANGED <<layers, maxUnits, nfeatures, labelCount, store, rpos, saved>>

-----------------------------------------------------------------------------
Str(s)    == [k |-> "str", s |-> s]
Size(n)   == [k |-> "size", n |-> n]
Floats(n) == [k |-> "floats", n |-> n]

(* Perceptron::Layer::serialize.                                            *)
LayerRecord(l) ==
  << Size(0), Str("PERCEPTRON LAYER"), Size(l.inputs), Size(l.outputs),
     Floats(l.inputs * l.outputs), Floats(l.outputs), [k |-> "act", a |-> l.activation] >>

LayersRecord(ls) ==
  LET r[i \in 0 .. Len(ls)] == IF i = 0 THEN << >> ELSE r[i - 1] \o LayerRecord(ls[i - 1 + 1])
  IN  r[Len(ls)]

(* Perceptron::serialize: magic, version 0, label count, the predicted    *)
(* feature's space, the features, the layers, the end string.              *)
PerceptronRecord ==
  << Str("PERCEPTRON"), Size(0), Size(labelCount), [k |-> "fs"], Size(nfeatures) >>
  \o [i \in 1 .. nfeatures |-> [k |-> "feature"]]
  \o << Size(Len(layers)) >> \o LayersRecord(layers) \o << Str("END PERCEPTRON") >>

Serialize ==
  /\ layers # << >>
  /\ saved = << >>
  /\ store' = store \o PerceptronRecord
  /\ saved' = [at |-> Len(store), len |-> Len(PerceptronRecord),
               layers |-> layers, labelCount |-> labelCount, nfeatures |-> nfeatures]
  /\ UNCHANGED <<layers, maxUnits, nfeatures, labelCount, rpos, overflow>>

(* Perceptron::reconstitute: store >> magic >> version, the checks, the   *)
(* label count, features->reconstitute, then Perceptron new_me(features,  *)
(* predicted_, label_count) and swap(new_me).  A failed check throws and  *)
(* changes nothing but the store.                                          *)
Reconstitute ==
  /\ rpos + 4 <= Len(store)
  /\ \E o \in IntShiftResults :
       LET magic   == store[rpos + 1]
           version == ReadSize(store[rpos + 2].n, o)
       IN  IF magic # Str("PERCEPTRON") \/ version > 0
           THEN /\ rpos' = rpos + 2
                /\ UNCHANGED <<layers, maxUnits, nfeatures, labelCount>>
           ELSE /\ labelCount' = ReadSize(store[rpos + 3].n, o)
                /\ rpos' = rpos + 4
                /\ layers' = << >>
                /\ maxUnits' = 0
                /\ nfeatures' = 0
  /\ UNCHANGED <<store, overflow, saved>>

Next ==
  \/ \E l \in Layer : AddLayer(l)
  \/ Clear
  \/ Predict
  \/ Serialize
  \/ Reconstitute

Spec == Init /\ [][Next]_vars

-----------------------------------------------------------------------------
(* predict's stack arrays of max_units floats hold every layer's inputs   *)
(* and outputs, whatever layers were added, cleared and added again        *)
(* (add_layer's two max_units updates).                                    *)
NoScratchOverflow == ~overflow
=============================================================================
