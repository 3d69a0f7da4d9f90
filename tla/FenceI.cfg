SPECIFICATION Spec
CONSTANTS
  NUM_BLOCKS = 2
  BLOCK_WORDS = 2
  BURSTS_EN = FALSE
INVARIANTS FetchCurrent
