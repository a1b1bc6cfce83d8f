SPECIFICATION Spec
CONSTANTS
  sui = sui
  usdc = usdc
  cheap = cheap
  dear = dear
  None = None
  U64Max = 20
  U128Max = 100000
  FeeDenom = 10
  Token = {sui, usdc}
  Base = sui
  Sui = sui
  Pool = {cheap, dear}
  SideA <- MCSideA
  SideB <- MCSideB
  Dex <- CetusThenTurbos
  PoolFeeBps <- MCPoolFeeBps
  FlashStyle = "Scallop"
  LenderFees = {1, 6}
  QuotedFeeBps = 3
  GasBudget = 2
  GasUsed = {1, 2}
  Route <- MCRoute
  Amount = {2, 4}
  MinProfit = {0, 1, 2}
  MinOut = {0, 2}
  Vaults = {3, 5}
  PoolStates <- ClmmPoolStates
  Purses <- MCPurses
  RivalAmount = {1}
  MaxJobs = 1
  MaxRivals = 1
INVARIANT
  InFlightConserved
PROPERTY
  ImplementsAtomicArb
CHECK_DEADLOCK FALSE
