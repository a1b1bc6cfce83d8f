SPECIFICATION Spec
CONSTANTS
  None = None
  Modes = {TRUE, FALSE}
  Sizes = {1, 3}
  Limits = {2, 5}
  Quotes <- MCQuotes
  DryNets = {0, 1, 2}
  Results <- MCResults
  BaseIsSui = TRUE
  MinProfit = 1
  MaxDailyLoss = 2
  KillSwitch = FALSE
  SubmitEnabled = TRUE
  MaxQuoteAge = 1
  GasBudget = 1
  Coin = {1, 2}
  Balances = {2, 4}
  MaxSent = 2
  MaxRestarts = 1
INVARIANTS
  TypeOK
  SentIsVetted
  NoLateTwin
  OvershootBounded
PROPERTY
  AttemptsEnd
CHECK_DEADLOCK FALSE
