CONSTANTS
  Capacity = 1
  Word = 16
  Records = {r1, r2}
  Zeroed = Zeroed
  MaxCallbacks = 12
  MaxRequest = 3
SPECIFICATION Spec
INVARIANT OneSlotAcceptsNothing
