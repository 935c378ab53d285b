\* A host that attests beside a worker of the enrollment service.
CONSTANTS
  TPM = {t1}
  Worker = {w1}
  Profile = {p1, p2}
  AddProfile = {p1, p2}
  NoProfile = NoProfile
  NoDir = NoDir
  Reader = {r1}
  Assets = 1
  Host = {h1}
  OtherTPM = OtherTPM
  Nothing = Nothing
  Unenrolled = Unenrolled
  MaxAge = 1
  MaxFault = 1
SPECIFICATION AttestSpecification
PROPERTY NeverRefused
PROPERTY EntitledIsServed
PROPERTY KeepsPromise
PROPERTY EventuallyHeld
CHECK_DEADLOCK FALSE
