SPECIFICATION ProgressSpec
CONSTANTS
  Nobody = Nobody
  None = None
  NoOp = NoOp
  NoThread = NoThread
  NoAlloc = NoAlloc
  NoJob = NoJob
  NoClient = NoClient
  NoTicket = NoTicket
  c1 = c1
  c2 = c2
  w1 = w1
  w2 = w2
  a1 = a1
  h1 = h1
CHECK_DEADLOCK FALSE
PROPERTY WorkEnds
