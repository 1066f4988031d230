SPECIFICATION Spec
CONSTANTS
  NFamilies = 1
  OwnerId <- LoneOwnerId
  Requires <- LoneRequires
  KeysOf <- LoneKey
  Cardinality1 = {1}
  Overlap = {}
  Restarting = {}
  Observing = {}
  Projection = {}
  Incarnation = {1}
  Retryable = {}
  MaxRestarts = 0
  MayShutdown = FALSE
  Desire <- DesiredSnapshot
  OneSlot = OneSlot
  NoProjection = NoProjection
  NoGen = NoGen
INVARIANT OvertakenStartupIsClosed
