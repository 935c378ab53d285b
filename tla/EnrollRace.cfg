\* Two workers race on one TPM: adds with a profile or without, every search.
CONSTANTS
  TPM = {t1}
  Worker = {w1, w2}
  Profile = {p1}
  AddProfile = {p1, NoProfile}
  NoProfile = NoProfile
  NoDir = NoDir
  Unenrolled = Unenrolled
SYMMETRY Symmetry
SPECIFICATION Spec
INVARIANT TypeOK
PROPERTY NoPhantomAdd
CHECK_DEADLOCK FALSE
