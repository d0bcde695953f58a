SPECIFICATION CodecsSpec
CONSTANTS
  Nobody = Nobody
  NoTicket = NoTicket
  SlotCount = 2
  MaxGeneration = 3
  MaxOperation = 4
  None = None
CHECK_DEADLOCK FALSE
INVARIANT PipelineSafe
INVARIANT CompressionSafe
INVARIANT BudgetSafe
PROPERTY CodecSteps
