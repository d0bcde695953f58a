SPECIFICATION Spec
CONSTANTS
  None = None
  Garbage = Garbage
  Invalid = Invalid
  a1 = a1
  a2 = a2
  NumKeys = 2
  Alloc = {a1, a2}
  AllocOf <- OneEach
  MaxFrames = 2
  Slots = 1
  SpillLimit = 1
  Val = {0}
  Zero = 0
  RetainReleasedVa = FALSE
  PrefetchModes = {"read"}
  LateCalls = {}
  Faults = {"oom", "create", "map", "unmap", "release", "h2dSubmit", "wait", "decode", "memInfo", "reserve",
            "d2hSubmit", "compress", "workspace", "hostOom", "event", "duration", "vaFree"}
CHECK_DEADLOCK FALSE
INVARIANT AdmittedPlanFindsFrames
INVARIANT CapacityBoundsResidency
INVARIANT TransfersExclusive
INVARIANT RuntimeSafe
