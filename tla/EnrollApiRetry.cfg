\* An add that is retried, against what the handlers promise of their result.
CONSTANTS
  Hash = {h1, h2}
  EmptyHash = EmptyHash
  NoCall = NoCall
  Retries = 1
  MaxLate = 1
SPECIFICATION ApiSpec
CHECK_DEADLOCK FALSE
PROPERTY RetriedTrueOnlyIfDone
