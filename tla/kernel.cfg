SPECIFICATION Spec
CONSTANTS
  Old = Old
  New = New
  Session = Session
  Document = Document
  Ref <- Refs
  Parent <- ParentOf
  Family <- FamilyOf
  Many = {"Document"}
  Overlap = {}
  Desire <- Desires
  Incarnation = {1, 2}
  NoRef = NoRef
  NoGen = NoGen
  Fallible = {Session}
  MayShutdown = TRUE
INVARIANTS IdleReturns ConvergedIsConverged SequentialUnderOneOwner
PROPERTY KernelImplementsLifetimes
CHECK_DEADLOCK FALSE
