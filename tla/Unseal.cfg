\* Two assets, two failures, kills or restarts.
CONSTANTS
  Asset = {cert, keytab}
  ServerAsset = cert
  Other = keytab
  Version = {v1, v2}
  Manifests <- MCManifests
  MaxFail = 2
SPECIFICATION UnsealSpec
INVARIANT InstalledWhole
INVARIANT ServerCurrent
PROPERTY SuccessInstalls
PROPERTY EventuallyReady
