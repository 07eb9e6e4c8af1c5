SPECIFICATION Spec
CONSTANTS
  Empty = ""
  Inputs <- MCInputs
  Ticks = {1}
  MaxRuns <- MCMaxRuns
INVARIANTS
  AnnouncedIsStored
  UnifiedIsReplay
  IndexRunIsReplay
  ProjectionKeepsUp
  OkMeansDone
PROPERTIES
  SearchNeverGoesBack
  RunsEnd
CHECK_DEADLOCK FALSE
