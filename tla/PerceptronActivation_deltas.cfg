\* Every accepted activation, outputs 0..1 in quarters, errors 1 and 3.
CONSTANTS
  Errors = {1, 3}
SPECIFICATION Spec
INVARIANTS DeltasFollowDerivative
