SPECIFICATION Spec
CONSTANTS
  cetus = cetus
  turbos = turbos
  amm = amm
  TURBOS = TURBOS
  None = None
  Pool = {cetus, turbos, amm}
  Spelling <- MCSpelling
  Decodable = {cetus, turbos}
  MaxVersion <- MCMaxVersion
  MaxFailures = 2
INVARIANTS
  TypeOK
  SeenIsCached
  CachedHasRef
PROPERTIES
  NeverBackwards
  FeedCatchesUp
