SPECIFICATION AllSpec
CONSTANTS
  ExpBits = 4
  ManBits = 3
  IntBits = 5
  Enabled = {"CSR", "EXC", "CONV", "ADDSUB", "MUL", "MINMAX", "COMPARE", "SGNINJ", "CLASSIFY", "CORNER", "UNAVAIL", "TIMING"}
  VectorsA <- Floats
  VectorsB <- Seconds
  TimedVectors <- Boundary
  TimedInts <- BoundaryInts
  Cases = 1
  NUM_REGIONS = 3
  Granularities = {2, 4}
  AddrBits = 6
  Addrs = {5, 11}
  Configs <- MCConfigs
  CntHalf = 10
  CntValues = {0, 9, 47, 90, 99}
  Typed <- MCTyped
  Uarts = {{0, 1}, {1}}
  Lengths = {1, 3}
  MaxSize = 4
  HEAP_BEGIN = 8
  HEAP_END = 16
  AddressSpace = 32
  Increments <- MCIncrements
  WordBits = 8
  Years <- MCYears
  TimesOfDay = {0, 59, 3599, 23295, 23296, 43200, 86399}
  Clocks <- MCClocks
  Bauds <- MCBauds
  MHz <- MCMHz
  Ticks <- MCTicks
  Numbers <- MCWords
  Bases <- MCBases
  Raws <- MCRaws
  MemorySize = 8
  ImmBits = 3
  Hpms <- MCHpms
  Processors <- MCProcessors
  DEPTH = 8
  Data <- MCData
  Bytes = 16
  NumValues = 8
  Jobs <- MCJobs
INVARIANTS FloatRight ProtectionRight CounterTrue CallsRight ConsoleRight TestsIndependent OutcomeTrue
PROPERTIES LockHolds Completes ImplementsQueue ReadPort JobEnds
CHECK_DEADLOCK FALSE
