SPECIFICATION Spec
CONSTANTS
  None = None
  Garbage = Garbage
  Invalid = Invalid
  a1 = a1
  a2 = a2
  NumKeys = 2
  Alloc = {a1, a2}
  AllocOf <- OneEach
  MaxFrames = 2
  Slots = 1
  SpillLimit = 1
  Val = {0, 1}
  Zero = 0
  RetainReleasedVa = FALSE
  PrefetchModes = {"read"}
  LateCalls = {"prefetch"}
  Faults = {"wait"}
CHECK_DEADLOCK FALSE
INVARIANT StagingExclusive
