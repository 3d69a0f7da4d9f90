SPECIFICATION FairSpec
CONSTANTS
  ROUND_ROBIN_EN = TRUE
  BlockLen = 3
INVARIANTS NoLostRequest ResponseRouting LockExclusive
PROPERTIES NoStarvation
