SPECIFICATION Spec
CONSTANTS
  client = client
  Clients = {client}
  MaxAsks <- MCMaxAsks
  StepsAsked = {1, 6}
  MaxFailures = 1
  WriteTimeout = 1
  RunTimeout = 2
  MaxAge = 2
INVARIANTS
  ToldIsStored
  OneAnswerEach
  NoPhaseDropped
  AbandonedRunHasACause
PROPERTIES
  AskedIsAnswered
CHECK_DEADLOCK FALSE
