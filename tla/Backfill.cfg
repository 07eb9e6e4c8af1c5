SPECIFICATION Spec
CONSTANTS
  N = 4
  Good = {1, 2, 3, 4}
  Workers = {w1, w2}
  MayFail = TRUE
PROPERTIES
  ActsSequentially
  NobodyLeftBehind
CHECK_DEADLOCK FALSE
