SPECIFICATION ApplicationsSpec
CONSTANTS
  Nobody = Nobody
  None = None
  t1 = t1
  s1 = s1
  s2 = s2
  l1 = l1
  a1 = a1
  a3 = a3
  h1 = h1
  x1 = x1
  x2 = x2
  Addr = {x1, x2, a3}
  Requested = 1
  Mapped = 2
SYMMETRY Symmetric
CHECK_DEADLOCK FALSE
INVARIANT TorchSafe
INVARIANT AllocatorSafe
INVARIANT CompatSafe
INVARIANT GemmSafe
INVARIANT InferenceSafe
PROPERTY ApplicationSteps
