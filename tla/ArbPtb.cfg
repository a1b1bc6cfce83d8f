SPECIFICATION Spec
CONSTANTS
  sui = sui
  usdc = usdc
  cheap = cheap
  dear = dear
  None = None
  U64Max = 60
  U128Max = 100000
  FeeDenom = 10
  Token = {sui, usdc}
  Base = sui
  Sui = sui
  Pool = {cheap, dear}
  SideA <- MCSideA
  SideB <- MCSideB
  Dex <- AllAmmV2
  PoolFeeBps <- MCPoolFeeBps
  FlashStyle = "MockVault"
  LenderFees = {3}
  QuotedFeeBps = 3
  GasBudget = 2
  GasUsed = {1, 2}
  Route <- MCRoute
  Amount = {2, 4}
  MinProfit = {0, 1, 2, 59}
  MinOut = {0, 3}
  Vaults = {3, 5}
  PoolStates <- MCPoolStates
  Purses <- MCPurses
  RivalAmount = {9}
  MaxJobs = 2
  MaxRivals = 1
INVARIANTS
  TypeOK
  FloorWithFeeRepays
PROPERTIES
  ProductNeverFalls
  ImplementsAtomicArb
CHECK_DEADLOCK FALSE
