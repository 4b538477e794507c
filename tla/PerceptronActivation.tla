-------------------------- MODULE PerceptronActivation --------------------------
(***************************************************************************)
(* The activation functions of a perceptron layer (boosting/perceptron.cc):*)
(* Perceptron::transform, Perceptron::derivative and Layer::deltas, over   *)
(* the Activation values the enum's parser accepts (Enum_Info OPT).        *)
(*                                                                         *)
(* One call: Init picks an activation, a unit's output (quarters in        *)
(* [0, 1], the range of logsig) and its error; one step evaluates the     *)
(* derivative and the delta of that unit.  Values are kept in sixteenths, *)
(* where every product here is exact.                                      *)
(***************************************************************************)
EXTENDS Integers

CONSTANTS Errors   \* the errors a unit can have

Activations == {"LOGSIG", "TANH", "TANHS", "IDENTITY"}
Quarters == 0 .. 4

VARIABLES act, q, err, out

vars == <<act, q, err, out>>

Init ==
  /\ act \in Activations
  /\ q \in Quarters         \* the output is q / 4
  /\ err \in Errors
  /\ out = [ran |-> FALSE]

(* Perceptron::transform throws for anything but these three.              *)
TransformSupports(a) == a \in {"IDENTITY", "LOGSIG", "TANH"}

(* Perceptron::derivative of the output q / 4, in sixteenths.             *)
Derivative(a, o) ==
  CASE a = "IDENTITY" -> [ok |-> TRUE, v |-> 16]
    [] a = "LOGSIG"   -> [ok |-> TRUE, v |-> o * (4 - o)]
    [] a = "TANH"     -> [ok |-> TRUE, v |-> 16 - o * o]
    [] OTHER          -> [ok |-> FALSE]

(* Layer::deltas for output q / 4 and error e, in sixteenths.              *)
Deltas(a, o, e) ==
  CASE a = "IDENTITY" -> [ok |-> TRUE, v |-> 4 * o * e]
    [] a = "LOGSIG"   -> [ok |-> TRUE, v |-> 4 * e * (4 - o)]
    [] a = "TANH"     -> [ok |-> TRUE, v |-> e * (16 - o * o)]
    [] OTHER          -> [ok |-> FALSE]

Evaluate ==
  /\ ~out.ran
  /\ out' = [ran |-> TRUE, transform |-> TransformSupports(act),
             derivative |-> Derivative(act, q), deltas |-> Deltas(act, q, err)]
  /\ UNCHANGED <<act, q, err>>

Next == Evaluate

Spec == Init /\ [][Next]_vars

-----------------------------------------------------------------------------
(* Layer::deltas is the error times the activation's derivative (what     *)
(* back-propagation needs, and what Perceptron::derivative computes), for *)
(* every activation both support.                                          *)
DeltasFollowDerivative ==
  out.ran /\ out.derivative.ok /\ out.deltas.ok =>
    out.deltas.v = err * out.derivative.v
=============================================================================
