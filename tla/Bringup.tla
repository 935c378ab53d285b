------------------------------ MODULE Bringup ------------------------------
(***************************************************************************)
(* The bring-up of a fleet (src/usecase/main-test.py): a driver that        *)
(* creates TPMs, enrolls them, starts containers and waits for some of      *)
(* them, beside the launchers of those containers, each of which starts its *)
(* services in priority order and blocks on some (Launcher has the          *)
(* details).  A host's attester succeeds at last, since it tries for ever,  *)
(* when its TPM is served and enrolled and all that its assets are made     *)
(* from is there; of an attempt that fails nothing is left.                 *)
(***************************************************************************)
EXTENDS Naturals, Sequences

CONSTANTS
    NoNfs, NoHost,   \* the driver's options
    MayFail,         \* the hosts whose TPM may fail to be created
    MayCrash         \* the services, <<container, service>>, that may end by themselves

-----------------------------------------------------------------------------
(* The fleet *)

Sidecar == {"enrollsvc", "kdc_primary", "kdc_secondary", "shell"}
Cotenant == {"auth_certificate", "auth_kerberos", "alicia", "nfs", "barton", "catarina"}
Managed == Sidecar \cup Cotenant
TpmOf == [enrollsvc |-> "enrollsvc_tpm", kdc_primary |-> "kdc_primary_tpm",
          kdc_secondary |-> "kdc_secondary_tpm", shell |-> "shell_tpm"]
Container == Managed \cup {TpmOf[h] : h \in Sidecar} \cup {"attestsvc", "hostside"}

\* Those whose profile has the Attestation Service get a keytab for them.
Keytab == {"auth_kerberos", "shell", "nfs", "alicia", "barton", "catarina"}

\* The services of a configuration in priority order: what the prototypes of a host
\* bring with them, among what its entry in the fleet lists.
AttestsvcStanzas == <<"xtra_global", "xtra_local", "webapi">>
EnrollsvcStanzas == <<"attester", "waitdb", "webapi">>
KdcsvcStanzas == <<"attester", "setup_global", "setup_local", "webapi", "TGS", "iprop">>
SidecarStanzas == <<"tpm-setup", "swtpm">>
CotenantStanzas(c) ==
    CASE c \in {"auth_certificate", "auth_kerberos"} ->
            <<"setup_local", "swtpm", "attester", "webapi">>
      [] c = "alicia" -> <<"setup_local", "swtpm", "attester", "sshd">>
      [] c = "nfs" -> <<"setup_local", "swtpm", "attester", "nfsd", "sshd">>
      [] c \in {"barton", "catarina"} ->
            <<"setup_local", "swtpm", "attester", "mounter", "sshd">>

Stanzas(c) ==
    CASE c = "attestsvc" -> AttestsvcStanzas
      [] c = "enrollsvc" -> EnrollsvcStanzas
      [] c \in {"kdc_primary", "kdc_secondary"} -> KdcsvcStanzas
      [] c \in Cotenant -> CotenantStanzas(c)
      [] c \in {"shell", "hostside"} -> <<"attester", "sshd">>
      [] OTHER -> SidecarStanzas

\* Those that do not say of themselves that they will exit.
Lasting == {"attester", "swtpm", "webapi", "TGS", "iprop", "sshd"}

-----------------------------------------------------------------------------
(* The driver's script *)

Step(do, c) == [do |-> do, c |-> c]
Each(do, cs) == [i \in DOMAIN cs |-> Step(do, cs[i])]

CoreSteps ==
    <<Step("create", "all"), Step("up", "attestsvc"), Step("up", "enrollsvc_tpm"),
      Step("waitek", "enrollsvc"), Step("enroll", "enrollsvc"),
      Step("up", "enrollsvc"), Step("waitweb", "enrollsvc")>>

\* Mutant: one sidecar is forgotten.
KdcUpsShort == <<"kdc_primary", "kdc_secondary", "kdc_secondary_tpm">>

KdcUps == <<"kdc_primary", "kdc_secondary", "kdc_primary_tpm", "kdc_secondary_tpm">>

KdcSteps ==
    Each("enroll", <<"kdc_primary", "kdc_secondary">>) \o Each("up", KdcUps)
        \o <<Step("waitweb", "kdc_secondary"), Step("enroll", "all")>>

WorkloadUps ==
    <<"shell", "shell_tpm", "alicia", "auth_certificate", "auth_kerberos">>
        \o IF NoNfs THEN <<>> ELSE <<"nfs">>

\* Mutant: shell is not waited for.
WorkloadWaitsShort == <<"alicia">>

WorkloadWaits == <<"alicia", "shell">>

SsoSteps ==
    <<Step("ssh", "shell"), Step("ssh", "alicia"),
      Step("auth", "auth_certificate"), Step("auth", "auth_kerberos")>>

NfsSteps ==
    <<Step("wait", "nfs"), Step("up", "barton"), Step("up", "catarina"),
      Step("wait", "barton"), Step("home", "barton"),
      Step("wait", "catarina"), Step("home", "catarina")>>

HostSteps ==
    <<Step("enroll", "hostside"), Step("up", "hostside"), Step("wait", "hostside")>>

Script ==
    CoreSteps \o KdcSteps \o Each("up", WorkloadUps) \o Each("wait", WorkloadWaits)
        \o SsoSteps
        \o (IF NoNfs THEN <<>> ELSE NfsSteps)
        \o (IF NoHost THEN <<>> ELSE HostSteps)

-----------------------------------------------------------------------------

VARIABLES
    at,           \* the driver's next step
    ended,        \* "no", "success" or "failed"
    tpm,          \* the hosts whose TPM was created
    enrolled,     \* the hosts whose TPM is enrolled
    up,           \* the containers that run
    passed,       \* passed[c]: how many services c's launcher is past
    gone,         \* the services <<c, s>> that have crashed, or ended with c
    dropped,      \* those whose launcher has seen that a service dropped
    replicated,   \* the secondary KDC has a copy of the realm
    mounted       \* the hosts whose mounter has mounted nfs's export

fleet == <<tpm, enrolled, up, passed, gone, dropped, replicated, mounted>>
bvars == <<at, ended, fleet>>

\* The driver begins by destroying whatever an earlier run has left.
BringupInit ==
    /\ at = 1 /\ ended = "no"
    /\ tpm = {} /\ enrolled = {} /\ up = {} /\ gone = {} /\ dropped = {}
    /\ passed = [c \in Container |-> 0]
    /\ replicated = FALSE /\ mounted = {}

-----------------------------------------------------------------------------
(* The containers *)

Past(c, s) == \E i \in 1..passed[c] : Stanzas(c)[i] = s
Serves(c, s) == Past(c, s) /\ <<c, s>> \notin gone

\* A service of c has crashed, or c has ended.
Lost(c) == \E p \in gone : p[1] = c

TpmServed(h) ==
    CASE h \in Sidecar -> Serves(TpmOf[h], "swtpm")
      [] h \in Cotenant -> Serves(h, "swtpm") /\ h \in tpm
      [] OTHER -> TRUE

\* get_assets has the KDC at hand that it gets keytabs from.
KeytabsServed == Serves("kdc_secondary", "webapi") /\ replicated

Attestable(h) ==
    /\ TpmServed(h) /\ h \in enrolled
    /\ Serves("attestsvc", "webapi")
    /\ h \in Keytab => KeytabsServed

\* What a service that the launcher blocks on waits for.
MayPass(c, s) ==
    CASE s = "attester" -> Attestable(c)
      [] s = "waitdb" -> Past("attestsvc", "xtra_global")
      [] s = "tpm-setup" -> \E h \in tpm \cap Sidecar : TpmOf[h] = c
      [] OTHER -> TRUE

\* One service is started, and waited for if it blocks; then the launcher looks for
\* drops.  mounter does not look whether its mount has succeeded.
Launch(c) ==
    /\ c \in up \ dropped /\ passed[c] < Len(Stanzas(c))
    /\ LET s == Stanzas(c)[passed[c] + 1] IN
          /\ MayPass(c, s) /\ <<c, s>> \notin gone
          /\ mounted' = IF s = "mounter" /\ Serves("nfs", "nfsd")
                        THEN mounted \cup {c} ELSE mounted
    /\ passed' = [passed EXCEPT ![c] = @ + 1]
    /\ dropped' = IF Lost(c) THEN dropped \cup {c} ELSE dropped
    /\ UNCHANGED <<at, ended, tpm, enrolled, up, gone, replicated>>

\* A lasting service ends by itself: one that was started, or the attester that its
\* launcher is blocked on.
Crash(c) ==
    /\ c \in up
    /\ \E s \in Lasting :
          /\ <<c, s>> \in MayCrash \ gone
          /\ \/ Past(c, s)
             \/ /\ s = "attester" /\ passed[c] < Len(Stanzas(c))
                /\ Stanzas(c)[passed[c] + 1] = s
          /\ gone' = gone \cup {<<c, s>>}
    /\ UNCHANGED <<at, ended, tpm, enrolled, up, passed, dropped, replicated, mounted>>

\* Mutant: the sign is given before the services are started.
AnnouncedEarly(c) == passed[c] > 0 \/ c \in dropped

\* The sign that the workload is launched, workload.running, is given when all is
\* started, and also when a service has dropped.
Announced(c) == passed[c] = Len(Stanzas(c)) \/ c \in dropped

\* The launcher sees that a service has dropped: a crash, which ends a block on that
\* service too, or an swtpm without state that has ended when it is looked at.
Drops(c) ==
    /\ c \in up \ dropped
    /\ Lost(c) \/ (c \in Cotenant \ tpm /\ passed[c] = 2)
    /\ dropped' = dropped \cup {c}
    /\ UNCHANGED <<at, ended, tpm, enrolled, up, passed, gone, replicated, mounted>>

\* A launcher that has lost a service ends, and all of its container with it.
Ends(c) ==
    /\ c \in up \cap dropped
    /\ up' = up \ {c}
    /\ gone' = gone \cup {<<c, Stanzas(c)[i]>> : i \in 1..passed[c]}
    /\ UNCHANGED <<at, ended, tpm, enrolled, passed, dropped, replicated, mounted>>

\* ipropd-slave, that is started until it connects to the primary's ipropd-master.
Replicate ==
    /\ Serves("kdc_primary", "iprop") /\ Serves("kdc_secondary", "iprop")
    /\ replicated' = TRUE
    /\ UNCHANGED <<at, ended, tpm, enrolled, up, passed, gone, dropped, mounted>>

-----------------------------------------------------------------------------
(* The driver *)

Doing(do) == ended = "no" /\ at <= Len(Script) /\ Script[at].do = do
Target == Script[at].c
Done == at' = at + 1 /\ UNCHANGED ended
Fail == ended' = "failed" /\ UNCHANGED at

\* The orchestrator only prints that the creation of a TPM has failed.
Create ==
    /\ Doing("create")
    /\ \E failed \in SUBSET MayFail : tpm' = Managed \ failed
    /\ Done /\ UNCHANGED <<enrolled, up, passed, gone, dropped, replicated, mounted>>

Up ==
    /\ Doing("up")
    /\ up' = up \cup {Target}
    /\ Done /\ UNCHANGED <<tpm, enrolled, passed, gone, dropped, replicated, mounted>>

\* swtpm.py puts ek.pub next to its socket before it runs swtpm.
WaitEkPub ==
    /\ Doing("waitek") /\ Past(TpmOf[Target], "swtpm")
    /\ Done /\ UNCHANGED fleet

\* enrollsvc enrolls itself by a script, the others through the service.  A TPM
\* that does not exist is passed over.
Enroll ==
    /\ Doing("enroll")
    /\ LET hosts == CASE Target = "all" -> tpm
                      [] Target = "hostside" -> {"hostside"}
                      [] OTHER -> {Target} \cap tpm
       IN \/ /\ Target = "enrollsvc" \/ Serves("enrollsvc", "webapi")
             /\ enrolled' = enrolled \cup hosts /\ Done
          \/ /\ Target # "enrollsvc" /\ ~Serves("enrollsvc", "webapi")
             /\ UNCHANGED enrolled /\ Fail
    /\ UNCHANGED <<tpm, up, passed, gone, dropped, replicated, mounted>>

\* waitWeb tries some times at intervals, then gives up.
WaitWeb ==
    /\ Doing("waitweb")
    /\ IF Serves(Target, "webapi") THEN Done ELSE Fail
    /\ UNCHANGED fleet

\* waitTouchfile has no bound; it is run in a container, which must be there.
Wait(c) ==
    /\ Doing("wait") /\ Target = c
    /\ \/ c \in up /\ Announced(c) /\ Done
       \/ c \notin up /\ Fail
    /\ UNCHANGED fleet

KerberosServed == Serves("kdc_secondary", "TGS") /\ replicated

\* What a test uses.
Usable(do, c) ==
    CASE do = "ssh" -> Past("alicia", "attester") /\ KerberosServed /\ Serves(c, "sshd")
      [] do = "auth" -> Serves(c, "webapi") /\ (c = "auth_kerberos" => KerberosServed)
      [] do = "home" -> KerberosServed /\ Serves(c, "sshd") /\ c \in mounted

Test(do) ==
    /\ Doing(do)
    /\ IF Usable(do, Target) THEN Done ELSE Fail
    /\ UNCHANGED fleet

Success ==
    /\ ended = "no" /\ at > Len(Script)
    /\ ended' = "success" /\ UNCHANGED <<at, fleet>>

Driver ==
    \/ Create \/ Up \/ WaitEkPub \/ Enroll \/ WaitWeb \/ Success
    \/ \E c \in Container : Wait(c)
    \/ \E do \in {"ssh", "auth", "home"} : Test(do)

\* At its exit the driver takes everything down.
Cleanup ==
    /\ ended # "no"
    /\ tpm' = {} /\ enrolled' = {} /\ up' = {}
    /\ gone' = {} /\ dropped' = {}
    /\ passed' = [c \in Container |-> 0]
    /\ replicated' = FALSE /\ mounted' = {}
    /\ UNCHANGED <<at, ended>>

Own(c) == Launch(c) \/ Drops(c) \/ Ends(c)

BringupNext ==
    \/ Driver \/ Cleanup
    \/ Replicate
    \/ \E c \in Container : Own(c) \/ Crash(c)

\* A launcher goes on, and ends.  Nothing is assumed of crashes, nor that one is seen
\* before all is started: a launcher that blocks on a service does not look.
BringupSpec ==
    /\ BringupInit /\ [][BringupNext]_bvars
    /\ WF_bvars(Driver) /\ WF_bvars(Replicate)
    /\ \A c \in Container : WF_bvars(Launch(c) \/ Ends(c))

\* What is taken here of container c's launcher is what Launcher keeps too.
Supervised(c) == INSTANCE Supervision WITH
    service <- 1..Len(Stanzas(c)), met <- {i \in 1..Len(Stanzas(c)) : MayPass(c, Stanzas(c)[i])},
    past <- 1..passed[c], dropped <- c \in dropped, announced <- Announced(c)

-----------------------------------------------------------------------------

\* When every TPM is created and nothing crashes, the driver comes to an end, whatever
\* the order in which containers come up and services start: nothing that it waits
\* for, or that a launcher is blocked on, waits for what only comes later.
BringupEnds == (at > 1 /\ tpm = Managed) ~> (ended # "no" \/ gone # {})

\* "By waiting for workload launch, we implicitly wait for attestation"
\* (main-test.py:177): the driver goes on from a wait only when the host is attested,
\* whatever other TPMs were not created and whatever else has crashed; it may go on
\* if the host's own TPM was not, or one of its own services has crashed.
WaitedIsAttested ==
    [][\A c \in Container :
          Wait(c) /\ at' # at /\ (c \in Managed => c \in tpm) /\ ~Lost(c)
             => Past(c, "attester")]_bvars

\* If every TPM is created and nothing has crashed, the driver fails only where it
\* gives up after a bounded time (waitWeb), and at the hosts auth_*, that it does not
\* wait for: its other waits are enough for the steps that follow them.
FailsOnlyKnown ==
    [][ended = "no" /\ ended' = "failed" /\ tpm = Managed /\ gone = {}
          => Script[at].do \in {"waitweb", "auth"}]_bvars

=============================================================================
