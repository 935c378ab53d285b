\* Two TPMs and two workers; requests for one TPM do not overlap.
CONSTANTS
  TPM = {t1, t2}
  Worker = {w1, w2}
  Profile = {p1}
  AddProfile = {p1}
  NoProfile = NoProfile
  NoDir = NoDir
  Unenrolled = Unenrolled
SYMMETRY Symmetry
SPECIFICATION ExclusiveSpec
INVARIANT ExclusiveInv
INVARIANT EnrolledWhole
INVARIANT StagedOnlyByKilled
PROPERTY InstalledAsRequested
PROPERTY DeletedIsGone
PROPERTY ImplementsMap
CHECK_DEADLOCK FALSE
