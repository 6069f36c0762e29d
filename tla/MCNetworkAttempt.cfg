SPECIFICATION Spec
CONSTANTS
  Plans <- SomePlans
  MaxAuths = 2
  HeadLimit = 3
  Chunk = 2
  Heads = {2, 3, 4, 6}
  HostLengths = {0, 3}
  Payload = 3
  PositiveTtl = 2
  NegativeTtl = 1
  MaxSlack = 2
  MaxSends = 2
  None = None
  Responses <- SomeResponses
  Expected = "accept"
  Offered <- OneProtocol
  Wires <- SomeWires
  ShortMax = 2
  MiddleMax = 3
  LengthLimit = 6
  MaxFrameSize = 4
  MaxMessageSize = 3
  ReadChunkSize = 3
INVARIANTS TunnelIsClean BudgetIsShared LookupIsFresh FailureIsReported FramesAreExact
PROPERTIES SetupEnds
CHECK_DEADLOCK FALSE
