\* Two fleet hosts and two TPMs, kills anywhere, one late request.
CONSTANTS
  Hash = {h1, h2}
  EmptyHash = EmptyHash
  NoCall = NoCall
  Retries = 0
  MaxLate = 1
  Host = {a, b}
  NoHost = NoHost
  NoHash = NoHash
  Flags <- MCFlags
  Killable <- MCKillable
SYMMETRY Symmetry
SPECIFICATION OrchestratorSpec
INVARIANT BeliefHolds
PROPERTY CleanRunEnrolls
PROPERTY RunUnenrolls
CHECK_DEADLOCK FALSE
