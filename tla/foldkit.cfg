SPECIFICATION Spec
CONSTANTS
  Language = {"typescript", "cobol"}
  Unsupported = {"cobol"}
  Uri = {"a"}
  Revision = {1, 2}
  MaxAttempts = 1
  MaxServers = 3
  MaxHandles = 2
  None = None
INVARIANTS NoStaleAnalyzer NothingForgotten LatestChoiceWins
