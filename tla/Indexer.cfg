SPECIFICATION Spec
CONSTANTS
  c1 = c1
  c2 = c2
  c3 = c3
  t1 = t1
  None = None
  Pool = {c1, c2, c3, t1}
  Adapters <- MCAdapters
  DexOf <- MCDexOf
  TickPools = {c1, t1}
  Level = {0, 1, 2}
  MinLiquidity = 1
  MaxPools = 1
  MaxDiscover = 1
  EventPage = 2
  Histories <- MCHistories
  Liquidities <- MCLiquidities
  MaxMoves = 1
  MaxFailures = 1
INVARIANTS
  TypeOK
  CacheInRegistry
  ActiveOnOffer
  EvictionJustified
PROPERTIES
  ActiveCatchesUp
  ListingsJoin
