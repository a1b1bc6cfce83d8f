SPECIFICATION ScanSpec
CONSTANTS
  sui = sui
  usdc = usdc
  weth = weth
  su = su
  su2 = su2
  uw = uw
  ws = ws
  None = None
  U64Max = 255
  U128Max = 65535
  FeeDenom = 20
  Token = {sui, usdc, weth}
  Base = sui
  Pool = {su, su2, uw, ws}
  TokenA <- MCTokenA
  TokenB <- MCTokenB
  PoolFeeBps <- MCPoolFeeBps
  Snapshots <- MCSnapshots
  CandidateInputs <- MCInputs
  MaxHops = 4
  GasCost = 1
  FlashFeeBps = 1
  MinProfit = 1
INVARIANTS
  ScanTypeOK
  CyclesExact
  BestExecutes
PROPERTY
  GridNeverBeatsBest
