SPECIFICATION Spec
CONSTANTS
  Q64 = 16
  PipsDenom = 10
  MinSqrtPrice = 4
  MaxSqrtPrice = 256
  U64Max = 50
  None = None
  LastTick = 4
  SqrtAt <- MCSqrtAt
  FeePips = 1
  TickSource = "Turbos"
  Window = 3
  InitialPools <- MCInitialPools
  Positions <- MCPositions
  TradeSize = {6, 30}
  QuoteSize = {1, 2, 5, 9, 14, 25, 40}
  MaxTrades = 2
  MaxDeposits = 1
INVARIANT BoundariesAccurate
