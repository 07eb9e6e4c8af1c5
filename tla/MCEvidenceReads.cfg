SPECIFICATION Spec
CONSTANTS
  Nil = Nil
  Events <- MCEvents
  Requests <- MCRequests
  Limit = 2
  Pad = 1
  Ticks = {1}
  MaxRows <- MCMaxRows
  MaxDocs = 2
INVARIANTS
  HitsAreExplained
  NewestInstantDecides
  NothingOverlooked
