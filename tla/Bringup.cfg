\* The whole fleet, under the driver without options.  Two hosts may be left without
\* a TPM: one that others depend on, and one with a service in its own container.
CONSTANTS
  NoNfs = FALSE
  NoHost = FALSE
  MayFail = {"enrollsvc", "alicia"}
  MayCrash <- MCMayCrash
SPECIFICATION BringupSpec
PROPERTY BringupEnds
PROPERTY WaitedIsAttested
PROPERTY FailsOnlyKnown
CHECK_DEADLOCK FALSE
