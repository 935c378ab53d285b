\* Two TPMs, one retry, one request that is served late.
CONSTANTS
  Hash = {h1, h2}
  EmptyHash = EmptyHash
  NoCall = NoCall
  Retries = 1
  MaxLate = 1
SPECIFICATION ApiSpec
PROPERTY TrueOnlyIfDone
PROPERTY CallsEnd
CHECK_DEADLOCK FALSE
