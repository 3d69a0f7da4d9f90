SPECIFICATION Spec
CONSTANTS
  SectorBytes = 4
  PollBound = 1
  WordBytes = 2
  FatPerSec = 4
  DirPerSec = 2
  MinEntries = 8
  Path <- TheFile
  Enabled = {"twi", "spi", "sd", "direct"}
  RamBytes = 14
  SectorSize = 12
  FlashBytes = 24
  Whole <- OddWhole
  Setups <- OddSetups
  MaxCuts = 0
  MaxNacks = 0
INVARIANTS StoredWhole
CHECK_DEADLOCK FALSE
