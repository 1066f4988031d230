SPECIFICATION FairSpec
CONSTANTS
  Ref = {r, x}
  Alien = {x}
  Status = {"up", "stopping"}
  Stopping = "stopping"
  Absent = "none"
  Hook = {h}
  Element = {e}
  NoRef = NoRef
  MaxAsked = 2
INVARIANTS NoStaleReading PendingIsRequested RetriesInOrder
PROPERTIES CommitsNeverRollBack ScreenCatchesUp
