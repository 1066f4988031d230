SPECIFICATION Spec
CONSTANTS
  NFamilies = 1
  OwnerId <- LoneOwnerId
  Requires <- LoneRequires
  KeysOf <- LoneKey
  Cardinality1 = {1}
  Overlap = {1}
  Restarting = {1}
  Observing = {}
  Projection = {}
  Incarnation = {1, 2}
  Retryable <- Ident
  MaxRestarts = 2
  MayShutdown = TRUE
  Desire <- DesiredSnapshot
  OneSlot = OneSlot
  NoProjection = NoProjection
  NoGen = NoGen
INVARIANTS IndexesAgree StatusAgreesWithSnapshot NoLostChange EffectiveBackoffIsCounted
