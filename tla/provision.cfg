SPECIFICATION Spec
CONSTANTS
  NFamilies = 3
  OwnerId <- ChainOwnerId
  Requires <- ChainRequires
  KeysOf <- ChainKeysOf
  Cardinality1 = {1, 2}
  Overlap = {}
  Restarting = {}
  Observing = {}
  Projection = {}
  Incarnation = {1}
  Retryable <- Ident
  MaxRestarts = 0
  MayShutdown = FALSE
  Desire <- ChainSwitches
  OneSlot = OneSlot
  NoProjection = NoProjection
  NoGen = NoGen
INVARIANTS OwnershipClosure CompletionCheckAgreesWithPass MatchCacheCoherent NothingOwedNothingToDo
PROPERTY ImplementsLifetimes
