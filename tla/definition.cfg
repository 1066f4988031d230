SPECIFICATION Spec
CONSTANTS
  Declarable <- SomeDeclarable
  Bindable <- SomeBindable
  MaxBound = 2
  MaxEntries = 2
  Foreign = Foreign
INVARIANTS MadeIffWellDeclared AcceptedIsWellFormed
