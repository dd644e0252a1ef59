SPECIFICATION Spec
CONSTANTS
  Top = 2
  Step = 2
  Default = 0
  None = None
  Capacity = 1
  PollTicks = 2
  FeedbackTicks = 3
  MaxGestures = 3
INVARIANT TypeOK
INVARIANT EngineHearsRack
INVARIANT CopiesAgree
PROPERTY ExchangeRests
