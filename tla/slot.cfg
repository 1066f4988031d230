SPECIFICATION NestedSpec
CONSTANTS
  NFamilies = 1
  OwnerId <- LoneOwnerId
  Requires <- LoneRequires
  KeysOf <- LoneKeysOf
  Cardinality1 = {1}
  Overlap = {}
  Restarting = {}
  Observing = {1}
  Projection = {0, 1, 2}
  Incarnation = {1}
  Retryable <- Ident
  MaxRestarts = 0
  MayShutdown = TRUE
  Desire <- DesiredSnapshot
  OneSlot = OneSlot
  NoProjection = NoProjection
  NoGen = NoGen
  Rejected = {2}
  MaxPending = 1
INVARIANTS TypeOK SequentialExclusive ChildFollows
