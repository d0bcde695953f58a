SPECIFICATION HostSpec
CONSTANTS
  c1 = c1
  c2 = c2
  k1 = k1
  a1 = a1
  w1 = w1
  w2 = w2
  Nobody = Nobody
  NoOp = NoOp
  NoThread = NoThread
  NoAlloc = NoAlloc
  NoJob = NoJob
  NoClient = NoClient
  Client = {c1, c2}
  Key = {k1}
  Block = {1, 2}
  Data = {0, 1}
  Meta = 1
  MaxGeneration = 3
  NoKey = NoKey
  NoContent = NoContent
  NoImage = NoImage
  Limit = 7
  Bytes = {0, 1, 2, 3}
  MaxReserves = 4
SYMMETRY Symmetric
CHECK_DEADLOCK FALSE
INVARIANT SessionSafe
INVARIANT CodecJobsSafe
INVARIANT StoreTruthful
INVARIANT StoreAccounts
INVARIANT LedgerSafe
PROPERTY CommitsApply
PROPERTY HostSteps
