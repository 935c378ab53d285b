\* Two callers and two principals, one of which a namespace derives; a primary
\* whose container stops, or fails in its set-up, twice.
CONSTANTS
  Mode = "primary"
  Principal = {p1, p2}
  Virtual = {p2}
  Caller = {c1, c2}
  MaxStop = 2
SPECIFICATION KdcSpec
INVARIANT InitializedWhole
INVARIANT RealmSetUpOnce
PROPERTY TrueOfWholeRealm
PROPERTY KdcTrueOnlyIfDone
PROPERTY CleanStart
CHECK_DEADLOCK FALSE
