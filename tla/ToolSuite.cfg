SPECIFICATION ToolsSpec
CONSTANTS
  Nobody = Nobody
  None = None
  t0 = t0
  t1 = t1
  t2 = t2
  lib1 = lib1
  dev0 = dev0
  ctxA = ctxA
  ctxB = ctxB
SYMMETRY Symmetric
CHECK_DEADLOCK FALSE
INVARIANT CacheSafe
INVARIANT WorkerSafe
INVARIANT AuditSafe
PROPERTY ToolSteps
