SPECIFICATION FairSpec
CONSTANTS
  XLEN = 2
  Addr = {"x", "y", "z"}
  FirstAddr = "x"
  Programs <- AllPrograms
  Granule <- G
  ReadErr = {"z"}
  WriteErr = {"z"}
INVARIANTS AtomicResultTrue
PROPERTIES IsAtomic CoresServed
