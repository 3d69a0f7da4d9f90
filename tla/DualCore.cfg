SPECIFICATION Spec
CONSTANTS
  Programs = {"message", "retry", "primes", "rte", "clock"}
  Polls = 3
  NUM_MAX = 10
  Sec = 4
  Half = 8
  MaxTime = 30
  Granule <- G
INVARIANTS LaunchTruthful SharedDataWhole TimerWhole
PROPERTIES Served
