SPECIFICATION Spec
CONSTANTS
  Programs = {"message"}
  Polls = 3
  NUM_MAX = 10
  Sec = 4
  Half = 8
  MaxTime = 30
  Granule <- G
PROPERTIES LockReleased
