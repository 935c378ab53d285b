----------------------------- MODULE MCLauncher -----------------------------
EXTENDS Launcher

S(block, will_exit) == [block |-> block, will_exit |-> will_exit]

\* A container's services: a setup, the attester, a server.
Workload ==
    [stanza |-> <<S("file", TRUE), S("file", FALSE), S("no", FALSE)>>,
     foreground |-> 0, result |-> 0]

\* One with its TPM beside the attester.
Cotenant ==
    [stanza |-> <<S("no", FALSE), S("file", FALSE), S("no", FALSE)>>,
     foreground |-> 0, result |-> 0]

\* One with a mounter, whose server gives the result.
Mounting ==
    [stanza |-> <<S("exit", TRUE), S("file", FALSE), S("no", FALSE)>>,
     foreground |-> 0, result |-> 3]

\* A command given as arguments, alone.
Dedicated ==
    [stanza |-> <<S("exit", FALSE)>>, foreground |-> 0, result |-> 1]

\* The orchestrator, in the foreground; and beside other services.
Orchestration ==
    [stanza |-> <<S("no", FALSE)>>, foreground |-> 1, result |-> 1]
Beside ==
    [stanza |-> <<S("exit", TRUE), S("no", FALSE), S("no", FALSE)>>,
     foreground |-> 3, result |-> 3]

MCConfigs == {Workload, Mounting, Dedicated, Orchestration,
              Cotenant, Beside}

=============================================================================
