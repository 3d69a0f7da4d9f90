SPECIFICATION Spec
CONSTANTS
  Port = {"xbus", "mem", "hole", "slow"}
  PORT_TMO <- Tmo
  BurstLen = 3
  MemLatency = 3
  MaxPause = 2
  LateAnswers = FALSE
INVARIANTS TimeoutExact TransfersApart
