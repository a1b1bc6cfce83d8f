SPECIFICATION Spec
CONSTANTS
  None = None
  Modes = {FALSE}
  Sizes = {1}
  Limits = {1}
  Quotes <- FlashQuote
  DryNets = {0, 1, 2}
  Results <- MCResults
  BaseIsSui = TRUE
  MinProfit = 1
  MaxDailyLoss = 2
  KillSwitch = FALSE
  SubmitEnabled = TRUE
  MaxQuoteAge = 1
  GasBudget = 1
  Coin = {1, 2}
  Balances = {4}
  MaxSent = 3
  MaxRestarts = 0
PROPERTY
  HaltsAtDailyLoss
CHECK_DEADLOCK FALSE
