CONSTANTS
  Capacity = 4
  Word = 16
  Records = {r1, r2}
  Zeroed = Zeroed
  MaxCallbacks = 6
  MaxRequest = 3
SPECIFICATION Spec
INVARIANT LossFree
