SPECIFICATION Spec
CONSTANTS
  Unset = Unset
  Blank = Blank
  Junk = Junk
  NoFile = NoFile
  Broken = Broken
  Commands = {"apid", "ingestd", "normalizerd", "agentd"}
  Scenarios <- MCScenarios
  MaxOutages = 1
INVARIANTS
  AcceptedComesUp
  PublishersAreHeard
CHECK_DEADLOCK FALSE
