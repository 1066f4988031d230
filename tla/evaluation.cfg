SPECIFICATION Spec
CONSTANTS
  NFamilies = 3
  OwnerId <- DocOwnerId
  Requires <- DocRequires
  KeysOf <- DocKeysOf
  Cardinality1 = {3}
  Overlap = {}
  Restarting = {}
  Observing = {2}
  Projection = {0, 1}
  OneSlot = OneSlot
  NoProjection = NoProjection
  State <- SomeStates
  Selector <- SomeSelector
  Deps <- SomeDeps
  Observe <- SomeObserve
  Incremental = {2, 3}
  Caller = {c1, c2}
  Throws = Throws
  Misshapen = Misshapen
  NoState = NoState
  Idle = Idle
INVARIANTS EvaluationIsPure PublishedIsCoherent
PROPERTY MemoryFollowsDesire
