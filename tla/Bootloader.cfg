SPECIFICATION Spec
CONSTANTS
  SectorBytes = 4
  PollBound = 1
  WordBytes = 2
  FatPerSec = 4
  DirPerSec = 2
  MinEntries = 8
  Path <- TheFile
  Enabled = {"twi", "spi", "sd", "direct"}
  RamBytes = 14
  SectorSize = 12
  FlashBytes = 24
  Whole <- MCWhole
  Setups <- MCSetups
  MaxCuts = 1
  MaxNacks = 1
INVARIANTS OnlyVerifiedBoots StorageTrue ReadsFile
PROPERTY ComesBack
CHECK_DEADLOCK FALSE
