SPECIFICATION FairSpec
CONSTANTS
  Tags = {0, 1, 2, 3}
  Uncached = {2}
  NUM_BLOCKS = 2
  BLOCK_WORDS = 2
  READ_ONLY = FALSE
  BURSTS_EN = TRUE
  Size = 2
  Programs <- AllPrograms
  ReadErr <- LoadError
  WriteErr <- UploadError
INVARIANTS FenceFlushes ErrorsExact
PROPERTIES IsAtomic Served
