------------------------- MODULE PerceptronModelProofs -------------------------
(***************************************************************************)
(* Proof that predict's scratch arrays never overflow (NoScratchOverflow   *)
(* of PerceptronModel) for every number of layers and every layer width.   *)
(*                                                                         *)
(* NoScratchOverflow is not inductive: a Predict step keeps overflow FALSE *)
(* only if every layer fits in max_units.  The strengthening ScratchInv    *)
(* says so, and it is preserved because add_layer raises max_units to the  *)
(* new layer's inputs and outputs, and lowers it (to the inputs of a first *)
(* layer) only when there is no other layer; clear and reconstitute empty  *)
(* the layers.                                                             *)
(***************************************************************************)
EXTENDS PerceptronModel, TLAPS

(* Every layer's inputs and outputs fit in max_units.                      *)
LayersFit == \A i \in 1 .. Len(layers) : layers[i].inputs <= maxUnits
                                        /\ layers[i].outputs <= maxUnits

ScratchInv ==
  /\ layers \in Seq(Layer)
  /\ maxUnits \in Nat
  /\ LayersFit
  /\ overflow = FALSE

LEMMA InitScratch == Init => ScratchInv
BY DEF Init, ScratchInv, LayersFit

LEMMA AddLayerScratch ==
  ASSUME ScratchInv, NEW l \in Layer, AddLayer(l)
  PROVE  ScratchInv'
<1>1. l.inputs \in Nat /\ l.outputs \in Nat
  BY PerceptronAssumption DEF Layer, Units
<1>2. layers' \in Seq(Layer) /\ Len(layers') = Len(layers) + 1
      /\ layers'[Len(layers) + 1] = l
      /\ \A i \in 1 .. Len(layers) : layers'[i] = layers[i]
  BY DEF AddLayer, ScratchInv
<1>3. maxUnits' \in Nat /\ l.inputs <= maxUnits' /\ l.outputs <= maxUnits'
      /\ (Len(layers) > 0 => maxUnits <= maxUnits')
  BY <1>1 DEF AddLayer, ScratchInv
<1>4. LayersFit'
  <2>. SUFFICES ASSUME NEW i \in 1 .. Len(layers')
                PROVE  layers'[i].inputs <= maxUnits' /\ layers'[i].outputs <= maxUnits'
    BY DEF LayersFit
  <2>1. CASE i = Len(layers) + 1
    BY <1>2, <1>3, <2>1
  <2>2. CASE i \in 1 .. Len(layers)
    <3>1. layers[i] \in Layer
      BY <2>2 DEF ScratchInv
    <3>2. layers[i].inputs \in Nat /\ layers[i].outputs \in Nat
      BY <3>1, PerceptronAssumption DEF Layer, Units
    <3>3. layers[i].inputs <= maxUnits /\ layers[i].outputs <= maxUnits
      BY <2>2 DEF ScratchInv, LayersFit
    <3>. QED  BY <1>2, <1>3, <2>2, <3>2, <3>3 DEF ScratchInv
  <2>. QED  BY <1>2, <2>1, <2>2
<1>. QED  BY <1>2, <1>3, <1>4 DEF AddLayer, ScratchInv

LEMMA NextScratch == ScratchInv /\ [Next]_vars => ScratchInv'
<1>. SUFFICES ASSUME ScratchInv, [Next]_vars PROVE ScratchInv'
  OBVIOUS
<1>1. CASE \E l \in Layer : AddLayer(l)
  BY <1>1, AddLayerScratch
<1>2. CASE Clear
  <2>1. layers' = << >> /\ maxUnits' = 0 /\ overflow' = overflow
    BY <1>2 DEF Clear
  <2>. QED  BY <2>1 DEF ScratchInv, LayersFit
<1>3. CASE Predict
  <2>1. \A i \in 1 .. Len(layers) : layers[i].inputs \in Nat /\ layers[i].outputs \in Nat
    <3>. SUFFICES ASSUME NEW i \in 1 .. Len(layers)
                  PROVE  layers[i].inputs \in Nat /\ layers[i].outputs \in Nat
      OBVIOUS
    <3>1. layers[i] \in Layer
      BY DEF ScratchInv
    <3>. QED  BY <3>1, PerceptronAssumption DEF Layer, Units
  <2>2. ~\E i \in 1 .. Len(layers) :
           layers[i].inputs > maxUnits \/ layers[i].outputs > maxUnits
    BY <2>1 DEF ScratchInv, LayersFit
  <2>3. overflow' = FALSE /\ UNCHANGED <<layers, maxUnits>>
    BY <1>3, <2>2 DEF Predict, ScratchInv
  <2>. QED  BY <2>3 DEF ScratchInv, LayersFit
<1>4. CASE Serialize
  BY <1>4 DEF Serialize, ScratchInv, LayersFit
<1>5. CASE Reconstitute
  <2>1. (layers' = layers /\ maxUnits' = maxUnits) \/ (layers' = << >> /\ maxUnits' = 0)
    BY <1>5 DEF Reconstitute
  <2>2. overflow' = overflow
    BY <1>5 DEF Reconstitute
  <2>3. CASE layers' = layers /\ maxUnits' = maxUnits
    BY <2>2, <2>3 DEF ScratchInv, LayersFit
  <2>4. CASE layers' = << >> /\ maxUnits' = 0
    BY <2>2, <2>4 DEF ScratchInv, LayersFit
  <2>. QED  BY <2>1, <2>3, <2>4
<1>6. CASE UNCHANGED vars
  BY <1>6 DEF vars, ScratchInv, LayersFit
<1>. QED  BY <1>1, <1>2, <1>3, <1>4, <1>5, <1>6 DEF Next

(* predict's scratch1 and scratch2 of max_units floats hold every layer's *)
(* inputs and outputs in every reachable state, for every MaxLayers and    *)
(* MaxUnits: the overflow flag is never set.                               *)
THEOREM ScratchNeverOverflows == Spec => []NoScratchOverflow
<1>1. Init => ScratchInv
  BY InitScratch
<1>2. ScratchInv /\ [Next]_vars => ScratchInv'
  BY NextScratch
<1>3. ScratchInv => NoScratchOverflow
  BY DEF ScratchInv, NoScratchOverflow
<1>. QED  BY <1>1, <1>2, <1>3, PTL DEF Spec
=============================================================================
