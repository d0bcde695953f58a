SPECIFICATION Spec
CONSTANTS
  None = None
  Garbage = Garbage
  Invalid = Invalid
  a1 = a1
  a2 = a2
  NumKeys = 2
  Alloc = {a1}
  AllocOf <- Together
  MaxFrames = 2
  Slots = 1
  SpillLimit = 1
  Val = {0, 1}
  Zero = 0
  RetainReleasedVa = TRUE
  PrefetchModes = {"read"}
  LateCalls = {}
  Faults = {}
CHECK_DEADLOCK FALSE
INVARIANT RuntimeSafe
PROPERTY ImplementsHeap
