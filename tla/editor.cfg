SPECIFICATION Spec
CONSTANTS
  Ref <- Refs
  Models <- Committed
  Incarnation = {1}
  Null = Null
  NoGen = NoGen
  Overlap = {}
  Fallible <- FailingRefs
  Few = 2
INVARIANTS SettledMatchesModel
PROPERTY EditorImplementsLifetimes
CHECK_DEADLOCK FALSE
