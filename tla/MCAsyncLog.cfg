SPECIFICATION Spec
CONSTANTS
  l1 = l1
  l2 = l2
  Loggers = {l1, l2}
  Levels <- MCLevels
  QueueSize = 1
INVARIANTS
  NoSendOnClosed
  NothingLostInSilence
  ShutdownFlushes
PROPERTIES
  QueueDrains
CHECK_DEADLOCK FALSE
