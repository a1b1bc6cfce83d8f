SPECIFICATION Spec
CONSTANTS
  sui = sui
  usdc = usdc
  pool = pool
  twin = twin
  lent = lent
  owed = owed
  None = None
  Coin = {sui, usdc}
  Unit = 10
  Threshold <- MCThreshold
  Weight <- MCWeight
  CloseFactor = 10
  Bonus = 3
  HealthMargin = 1
  Fractions <- MCFractions
  CoinA <- MCCoinA
  CoinB <- MCCoinB
  FeePips = 2
  FlashFeeBps = 1
  GasCost = 3
  MinProfit = 5
  Q64 = 1000
  PipsDenom = 1000
  MinSqrtPrice = 100
  MaxSqrtPrice = 2048
  U64Max = 65535
  U128Max = 1000000000
  FeeDenom = 100
  Obligation = {lent, owed}
  Histories <- MCHistories
  OpensAs <- MCOpensAs
  Positions <- MCPositions
  SeedPage = 1
  RecentPage = 1
  MaxFailures = 1
  MaxEvents = 2
  Base = sui
  BaseIsSui = TRUE
  Metas <- MCMetas
  PriceAt <- MCPriceAt
  PoolStates <- MCPoolStates
  TickWindows <- MCTickWindows
  InitialPools <- MCInitialPools
  LenderFeeBps = 1
  SlippageBps = 1
  PythFee = 1
  GasUsed = {1, 6}
INVARIANT TypeOK
PROPERTY FailsOnlyIfStale IndexCatchesUp
CHECK_DEADLOCK FALSE
