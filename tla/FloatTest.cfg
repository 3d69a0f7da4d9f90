INIT FloatInit
NEXT FloatNext
CONSTANTS
  ExpBits = 4
  ManBits = 3
  IntBits = 5
  Enabled = {"CONV"}
  VectorsA <- Floats
  VectorsB = {}
  TimedVectors = {}
  TimedInts = {}
  Cases = 1
INVARIANT HardwareIsEmulation
CHECK_DEADLOCK FALSE
