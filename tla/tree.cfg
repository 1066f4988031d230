SPECIFICATION BarrierSpec
CONSTANTS
  NFamilies = 2
  OwnerId <- TreeOwnerId
  Requires <- TreeRequires
  KeysOf <- TreeKey
  Cardinality1 = {1}
  Overlap = {}
  Restarting = {}
  Observing = {}
  Projection = {}
  Incarnation = {1}
  Retryable <- Ident
  MaxRestarts = 0
  MayShutdown = TRUE
  Desire <- DesiredSnapshot
  OneSlot = OneSlot
  NoProjection = NoProjection
  NoGen = NoGen
INVARIANTS DrainingIsCovered AuthorityKeepsScope ClosedIsEmpty LatchTells
PROPERTIES DrainingEnds ShutdownCompletes NobodyWaitsForever Convergence ChangesAreSignalled
