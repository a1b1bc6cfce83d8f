SPECIFICATION Spec
CONSTANTS
  near = near
  far = far
  None = None
  U64Max = 63
  U128Max = 4095
  FeeDenom = 10
  Pool = {near, far}
  PoolFeeBps <- MCPoolFeeBps
  LenderFeeBps = 3
  Route <- MCRoute
  Input = {1, 3, 7, 20}
  SlippageBps = 1
  InitialPools <- MCInitialPools
  TradeSize = {1, 5, 40}
  MaxTrades = 2
INVARIANTS
  TypeOK
  SlippageOnlyFromRivals
  FloorsAdmitPrediction
  NoPhantomRoundTrip
  AmountInSuffices
CHECK_DEADLOCK FALSE
