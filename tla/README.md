# A verification of newhcp in TLA+

newhcp enrolls the TPMs of a fleet's hosts, attests them, and hands attested
hosts the assets (certificates, keytabs, configuration) that let a stateless KDC
and ordinary web services run on them.  This directory holds TLA+ modules that
model its parts, TLC configurations that check them on small instances, and
theorems about them that the TLA+ proof system (TLAPS) checks.

Paths of code are relative to `src/hcp/python/hcp/` unless they begin with `src/`.

## 1. The system

| Component | State it keeps | Operations | Talks to |
|---|---|---|---|
| Enrollment Service backend (`backend/enrollsvc.py`, `backend/common.py`) | the tree `/backend/db/xx/xxxx/<ekpubhash>` and the staging directories `<ekpubhash>.tmp` next to it | add, query, delete, reenroll, janitor | the file system, which the Attestation Service reads |
| Enrollment Service front-end (`flask/enrollsvc.py`) | a temporary directory per request | the routes `/v1/...` | the backend, by hooks |
| webapi (`svc/webapi.py`) | uwsgi's and nginx's configuration | runs any flask application in two processes of two threads each, with a harakiri timer, behind nginx | docker, the launcher |
| Enrollment client (`api/enroll.py`) | none, but the arguments of a call | `enroll_add`, ... with retries and a timeout | the Enrollment Service |
| Orchestrator (`tool/orchestrator.py`) | the directories `/tpm_<host>` | create, delete, enroll, unenroll, status; several hosts in a run | the enrollment client, swtpm |
| Attestation Service (`flask/attestsvc.py`, `backend/attestsvc.py`) | a key for tickets | `/v1/initiate`, `/v1/complete`, `get_assets` | the enrollment database (by files), the KDC service, hxtool |
| Attestation client, tool and service (`api/attest.py`, `tool/attest.py`, `svc/attester.py`) | the asset directory and its `touch` file | initiate, quote, complete, unseal, over and over | the Attestation Service, the callback |
| Callback (`tool/callback.py`) | owners of assets | `pre`, `post` | nginx and kdc, by signals |
| Launcher (`tool/launcher.py`) | the processes of its services | start in order, announce, watch, tear down; health checks; injected commands | everything in a container or VM |
| Health check and VM command tools (`tool/healthcheck.py`, `tool/vm_cmd.py`) | request and result files in `/tmp` | ask, wait, read | the launcher, by files |
| KDC service (`src/hcp/kdcsvc/`) and client (`api/kdc.py`) | Heimdal's database, its configuration | set-up, kadmin requests, iprop | the Attestation Service (keytabs) |
| gson (`src/hcp/python/gson/`) | the mutater's registers | union, expansion, path extraction and mutation of JSON | all configuration |
| Fleet configuration (`src/usecase/fleet.py`, `src/usecase/proto/`) | none | from the fleet file to the configuration of each container | gson, the launcher, docker |
| Waiting and restarting tools (`tool/waitWeb.py`, `tool/waitTouchfile.py`, `svc/restarter.py`) | none | wait, retry | services |
| Drivers (`src/usecase/`), VM contexts (`src/ctx/`), shell (`src/hcp/bash/`), safeboot | -- | bring-up, tests, images, TPM commands | docker, qemu, uml |

There is no lock anywhere in this code.  What coordinates its parts is the file
system (existence of files, renames), HTTP status codes, exit codes and signals,
and every part can be killed: docker kills containers and health checks, uwsgi's
harakiri kills workers, users interrupt tools.  So what is hard about it is

- **workers that interleave** on one directory tree, and readers beside them;
- **kills** between any two steps, and what the next run makes of the remains;
- **calls that fail without saying whether they were performed**: the client's
  timeout (120 s) is shorter than the server's (600 s), and retries repeat;
- **files as messages**, written by one process while another one polls;
- **a supervisor** that blocks on one thing at a time;
- **exit codes that are ignored**, and exceptions nobody catches.

`PROJECT.json` lists each of these at the line where it bites ("hazards").

What makes each component correct, in a sentence: an *enrollment* is whole, is
what was asked for, and is gone when a delete says so; an *attestation* of an
enrolled TPM is of the TPM that made the quote, and is served from the profile it is
enrolled with; an *API call* says True only of what was
done; an *orchestrator run* that ends well has done what its options say; *assets*
in place are whole, and known to what uses them; a *launcher* starts in order, and
leaves nothing running; a *reply file* belongs to its request; a *configuration* says
what its layers say, with every variable replaced by what it means.

## 2. The modules

    EnrollSpec <--implements-- EnrollDB (+ EnrollRefines)  EnrollDBProofs,
       |    \                      |                        EnrollRefinesProofs
       |     \ instantiated by     | extended by
       |      v                    v
       |   AttestSpec          AttestAssets
       |         ^                 | extended by
       |          \                v
       |           `-implements-- Attest                    AttestProofs
       ^
       | implements, as the service that the client sees
    EnrollApi
       | extended by
       v
    Orchestrator                                            OrchestratorProofs

    Launcher --implements--> Supervision                    LauncherProofs
    Bringup  --implements-------^                           BringupProofs
                                ^
    Kdc      --implements-------'                           KdcProofs
    Kdc      --implements--> RealmSpec                      KdcProofs
    WatchLoop                                               LauncherProofs
    Unseal                                                  UnsealProofs

    GsonValue
       |    \ extended by
       |     \
       v      v
     Gson   Lifting                                         LauncherProofs (Lifting)
        \     /
         v   v extended by
       FleetConfig

An `MC...` module gives a module's constants their values, or symmetry, where a
`.cfg` cannot.

**EnrollDB** (backend and front-end of the Enrollment Service).  `db[t][p]` is the
directory of TPM `t` at a place `p`: staging, enrolled, or *nested* (what `mv`
makes of a staging directory when the enrollment exists already).  `pc`, `req`,
`todo`, `cur`, `at`, `targets` are a worker's locals.  Each system call that
touches the tree is an action: `AddCheck` (isdir), `AddMkdir`, `MoveCheck`,
`MoveOpen`, `MoveWrite` (shutil.move copies, because the front-end's temporary
directory is on another file system), `AddRename` (mv), `Glob`, `RmOpen`,
`RmUnlink`, `RmDir`, `RmGone` (rm -rf).  Open files follow their inodes: a file
that was opened before a rename is written where it is by then.  `Crash` kills a
worker anywhere.  `Spec` lets requests overlap as they like; `ExclusiveSpec` is
the deployment the orchestrator makes, with one client that waits for each answer,
so that no two requests for one TPM are served at once.  Taken as one step: a
glob's listing, the removal of a nested directory (it holds at most one level), the
writing of a file after it was opened and the copying of its mode (`MoveWrite`), what
`mv` finds at its target and its rename (`AddRename`).  A harakiri really kills a process with
both its threads; killing one worker at a time, any number of times, includes
that.

**EnrollSpec, EnrollRefines.**  The map from TPMs to profiles that the service
promises, and the refinement mapping: a TPM is enrolled from the `mv` that answers
its add to the first file that a delete unlinks.

**AttestAssets** (the base of Attest).  Adds the Attestation Service's `get_assets` beside the workers:
`ReadIsDir`, `ReadProfile`, `ReadSeal` (once per asset), `ReadDone` are its looks
at the enrollment, path by path.  What certificate tools and the KDC do is a
choice between success and a failure (`"tool"`).

**Attest.**  The whole exchange, over AttestAssets and so over EnrollDB.  The service
keeps nothing of it: `Initiate` gives the host a `ticket` that names its TPM,
`Quote` has the TPM that the host has by then (`quoted`) sign the ticket's nonce, and
`Complete` refuses (400) a ticket that is too old, or from the future, and a quote
that is not of the ticket's TPM (`Verified`), answers 401 for a TPM that has no
directory to look in, and else takes a free thread, whose looks at the enrollment are
`Serve`.  `client[r]` is the host that waits for thread `r`; an answer for a host that
has given up finds nobody (`Ends`).  `age[h]` is the service's clock less the time in
the ticket: `Tick` and `SetBack` move it for all tickets alike.  `Lost`,
`ThreadDies`, `ReplaceTPM`, `SetBack`, a tick that makes a ticket too old, and a
failing tool are faults, at most `MaxFault` of them.  A nonce, an AIK and a signature
are abstracted to the TPM that they bind: a ticket cannot be altered and a quote
cannot be made by another TPM than the one it is checked against.

**AttestSpec.**  What the two services together promise a host that attests, over
EnrollSpec's map: `Ask`, `Look` (once, while it is enrolled), and an answer from what
was looked up, a refusal at a moment when the TPM is not enrolled, or a failure that
changes nothing.  Attest maps to it by `readable` (a TPM is enrolled while its
profile can be read), `asking`, `found` and `held`.

**EnrollApi.**  One caller.  `requester_loop`'s retries (`Retry`), requests lost,
requests given up on and served later (`late`, a bag), responses lost, and what
each function takes for a success (`SuccessStatus`).  The service is EnrollSpec's
map with its status codes, and is proved to implement it (`ServiceIsMap`).  The tree
implements that map in what is enrolled; its status codes are the map's only as long
as no worker is killed.  After a delete that was killed the map holds nothing of a TPM
whose torn directory is still listed by a query, and answers 409 to an add, and a
killed add leaves staging that has later ones answered 500: what EnrollApi and
Orchestrator show is not shown of a service that is in that state.  A 200 or 201 whose body
does not parse (`api/enroll.py:119`) is an exception like any other failure, and is
left out.

**Orchestrator.**  Runs of the tool over EnrollApi: `pc` walks `__init__`,
`post_exist`, create, delete, enroll, unenroll for each host; `Proceed` is the
tool's control flow, `Stop` an uncaught exception or a kill.  The TPM's directory
is `none`, `whole`, `gutted` (a killed delete, ek.pub still there) or `hollow`
(ek.pub gone).  swtpm and tpm2 succeed with a new key or fail (`Setup`).

**Unseal.**  The attestation tool's runs on a host, its callback, and the web
server that reads one of the assets.  initiate, quote and complete are one step
that brings a bundle; `Unwrap`, `Compare`, `Pre`, `Move`, `Post`, `Finish` are
`unseal`'s loop; `Fail` is a failure or a kill anywhere, after which the attester
runs the tool again; `Restart` restarts the container on the same files.  The
server is external: it reads its certificate when it starts, then writes its pid
file, and reloads at a SIGHUP (a pending flag, as signals are).

**Launcher.**  The configuration is a sequence of stanzas in priority order;
`proc[s]` is a service's process.  `Exec` and `Block` start a service and wait for
its exit or its file; a program that is not there ends the launcher (`ExecRaises`),
and the services that run are left to themselves.  `AddService` takes it among the others, `IsExiting` looks
whether any of them has dropped, `Announce` writes `workload.running`, `Watch` and `Foreground` are the two main
loops, `Terminate`, `TornDown` and `End` the teardown.  Services end, fail and make
files whenever they like.

**Supervision.**  What a launcher promises those that wait for the workload of its
container, which is all that Bringup takes of it: it is past its services in their
order, each one when what it is blocked on is met (`Pass`), past no more once it has
seen a drop (`SeeDrop`, which it may do at once when it has passed a service), and gives the sign of the workload only when it is past all
or has seen a drop (`SignIsEarned`).  Launcher implements it by `Added`, `Met` and
`exiting`; Bringup's containers do by `passed`, `MayPass` and `dropped`, and the start
of a KDC's container by its `stage`.  A container that is taken down (`Remove`) is
Bringup's alone.

**Kdc.**  A KDC service's container over the life of its state directory, which is a
volume: `dirs`, `made`, `initialized`, `realm` and `princs` survive a `Stop`,
`link` and `localInit` survive it if the container is started again as it is, and
processes and requests never do.  The launcher runs `setup_global.sh` (`Mkdir`,
`WriteFile`, `RunScript`, `TouchGlobal`, each of which may fail under `set -e`:
`SetupFails`) and `setup_local.sh` (`LocalGuard`, `Link`, `TouchLocal`), and goes on
when the file it blocks on is there or the script has ended, with whatever code
(`AwaitGlobal`, `AwaitLocal`).  A request passes `Check` (sudo, the realm, the
policy), `Kadmin` (once per principal: `did` is what was done for it) and `Answer`
(exit code to HTTP status).  A caller waits, returns True or False, or gives up while
the service goes on.  `Mode` is primary or secondary.

**RealmSpec.**  What the KDC service promises those that manage its principals: nothing
before the realm is `Open`, and it stays open; a task (`Begin`) does its operation on
each principal it names (`Work`), in one step that happens at most once and only where
it applies; it may fail in the middle (`Fail`) and go on to others, and is sure
(`BeSure`) only of what was done on all of them; tasks are lost at any time (`Lose`),
and what they did stays.  Kdc implements it (`Promised`): a request is a task (`TaskOf`)
from the moment that sudo and the policy have let it through, stops of the container
lose all of them, and a set-up that is under way is no open realm.

**Bringup.**  The whole fleet: `at` is the driver's place in main-test.py's script,
`passed[c]` the number of services that container `c`'s launcher is past.  `MayPass`
says what a service that is blocked on waits for: an attester for its TPM, its
enrollment, the Attestation Service and, if its profile asks for keytabs, the
secondary KDC with a copy of the realm (`Attestable`).  That an attester succeeds at
last when all of that is there, and leaves nothing of a failure, is what Unseal and
Attest are about.  One step of a launcher starts a service and passes it; that this
is no more than Supervision allows, and that Launcher keeps within Supervision
too, is proved.  `Stanzas` puts together what the prototypes of a host bring
(`KdcsvcStanzas` and so on) and what its entry in the fleet lists; of stanzas that have
nothing to do with others only those that something waits for or uses are kept.  A host's TPM
may not have been created (`MayFail`): the orchestrator prints that and ends with 0.
A service that is to last may end by itself (`Crash`, of those in `MayCrash`), also an
attester before it has attested: its launcher comes to see that when it looks
(`Launch`, `Drops`), gives its sign, and ends with all of its container (`Ends`).
`gone` is what has ended in these ways: `Past` is what a launcher is past, `Serves`
what still runs.  A container that has ended is not started again, as the compose file
asks for no restarts.

**WatchLoop.**  The launcher's main loop once its services are started, composed
with those who ask it for something through files: `healthcheck.py` (several at a
time: `Begin`, `Ask`, `Poll`, `Read`) and `vm_cmd.py` (one at a time, as it is used:
`VmBegin` to `VmExit`).  The loop is sequential: `lpc` goes from the health request
(`NoRequest`, or `Check` and `Report`) to the command (`NoCommand`, or `Load`,
`Remove`, `CommandEnds` or `CommandFails`, `Dump`) and back, so that a command that
runs keeps health checks waiting.  It is left for good when a service has dropped, or by
an exception in a health check, which then has no answer (`Leave`).  A report is named by the round that made it, a
command and its result by a number.  Either pair of files that the loop looks for
(`/hosthack/tmp` in a guest, `/tmp` elsewhere) is the same exchange; one is
modelled.  That Launcher's main loop can end in this way, by an exception, is here alone.

**Gson.**  A JSON value is a pair of its Python type and its content, a string a
sequence of literals and references to variables, which is what expansion tells
apart (GsonValue, which has no recursive operators so that proofs can use it, and
`Overlay`, the part of union.py that is about two objects).  `Union`, `PathGet`, `PathSet`, `PathUnion`, `ExpandStr`, `ExpandVars` and
`Expand` are the functions of union.py, path.py and expander.py.  The order in which a
Python dict yields its keys is a parameter, since one pass of `expand_str` depends
on it.

**Lifting.**  The launcher's loop over 'toplevel': a `Pass` notes the names that are
there, and it comes by them in any order (`ComeBy`), lifting what is nested in each,
until a pass has lifted nothing.  What union makes of two stanzas of one name is a
parameter (`Clash`), which FleetConfig gives as `Union`.  `given` is the configuration
as it was and `lifted` the history of what was lifted from.

**FleetConfig.**  From the fleet file to the stanzas that a launcher starts: fleet.py
writes the origin and the script of one of a host's containers (`Start`, with `Vars`
and `Script`), the mutater runs it step by step over its registers (`Load`, `Set`,
`Merge`, `ExpandStep`), and the launcher takes out what is not a service (`TakeOut`),
lifts nested stanzas (`LiftStep`, over Lifting's actions) and goes on with them
(`Launch`).  The prototypes of `src/usecase/proto/` are kept to the keys by which
they depend on variables and on each other.  A host has up to three containers: its
own, the runner of its VM, and the sidecar with its TPM.

## 3. The runs

Runs that pass:

| Run | Instance | What it shows |
|---|---|---|
| `EnrollRace` | 1 TPM, 2 workers, adds with a profile or without (1.9 M states) | Two workers on one TPM reach every interleaving of two requests; a third one would only queue.  `NoPhantomAdd`: no 201 out of thin air, although exit codes are ignored. |
| `EnrollExclusive` | 2 TPMs, 2 workers (0.9 M) | Requests for different TPMs overlap, prefixes match both.  Enrollments are whole, are what was asked for, vanish when a delete says so; staging directories and 500s come from kills only; the tree implements EnrollSpec. |
| `Attest` | 1 host, 1 TPM that is enrolled and one that is not, 1 worker, 1 thread, 2 profiles, tickets that live for 1 tick, 1 fault (0.8 M) | The exchange beside the database: a host that is entitled to its assets is served those of its profile (`EntitledIsServed`), the exchange implements `AttestSpec` (`KeepsPromise`), a TPM that stays enrolled is never refused, and an enrollment that lasts is some time held (`EventuallyHeld`). |
| `EnrollApi` | 2 TPMs, 1 retry, 1 late request (10 k) | True only of what was done, for calls that do not retry an add; every call ends. |
| `Orchestrator` | 2 hosts, 2 hashes, kills anywhere, 1 late request (1.0 M, with symmetry) | What the tool believes is true when it acts on it; runs in which nothing fails create and enroll, or unenroll, all their hosts, whatever runs before them left. |
| `Unseal` | 2 assets, 2 contents, 2 failures (0.8 M) | Two failures reach a run that dies, then one that succeeds on its remains, beside a restart.  Assets in place are whole, a run that ends well has put all of its bundle in place, new content has been prepared before, and the server is current but for named losses.  Also `EventuallyReady`. |
| `Launcher` | 6 configurations of up to 3 services, any of which may be missing (9 k) | One before, one at, one after: order, teardown, result (`EndsAsConfigured`), end. |
| `Kdc` | 2 principals, one of which a namespace derives, 2 callers, 2 stops or failures (1.3 M) | A first set-up that is cut off, a second start that meets its remains, and a third; requests beside each other and beside a caller that gave up.  The mark and the API's True tell of a whole realm, that is set up once. |
| `Bringup` | 18 containers, the driver without options, 2 hosts that may lack a TPM, 2 services that may crash (0.6 M) | Nobody waits for what only comes later (`BringupEnds`, when TPMs are there and nothing crashes); a wait means attestation of a host that has a TPM and whose own services go on, whatever else has crashed; else no step fails but those with a time limit and the two hosts that are not waited for. |
| `WatchLoop` | 2 clients, 3 checks, 2 commands (0.6 M) | A client that was killed and one that comes after it, or beside it; an interrupted command and one that comes after it; each while the launcher is busy with the other kind, or has left its loop. |
| `FleetConfig` | 5 hosts, one of each kind, 2 sets of fleet variables, 2 orders of variables (1.4 k) | Sidecar, cotenant and absent TPMs, a VM, roots and services; variables that hang from each other three deep.  Layers overrule each other as intended and lose nothing (`Layered`), every value arrives as what it means in either order (`Resolved`), every nested stanza is lifted whichever comes first (`AllLifted`), and tools find the socket of their own TPM across containers (`TpmFound`). |

Every property of these runs is shown to be able to fail: `PROJECT.json` names, for
each, a mutant of a definition (`...Skip`, `...Missing`, `...Stale`: a plausible bug)
under which TLC finds it violated.

A run that shows where the code disagrees with what it says of itself (it checks one
sentence of the source, and TLC finds it violated; `PROJECT.json` quotes
the sentence):

| Run | The disagreement |
|---|---|
| `EnrollApiRetry` | a retried add posts an empty ek.pub, and reports True |

Other disagreements are visible in the models as actions, and no run is spent on them:

- `-c` after a `-d` that was killed between ek.pub and its directory moves the new
  TPM into the old directory, and takes it for created, although the help says "will
  be created if it doesn't exist" (`MoveTemp`; `tool/orchestrator.py:113`, 184);
- an asset that is identical to the one in place is moved over it without the `pre`
  callback, which the help has prepare every file before it is used: it goes back to
  its default owner (`Compare`, `Move`; `api/attest.py:254`, 380);
- a container's wait "for attestation" (`main-test.py:177`) also ends for a host
  whose TPM was not created, or whose attester or swtpm has died, as its launcher
  announces a workload when a service has dropped (`Announced`; `tool/launcher.py:234`,
  244); with its TPM and its services there it does not (`WaitedIsAttested`);
- the guard at the top of `setup_global.sh` tests `HCP_ENROLLSVC_GLOBAL_INIT`, which
  is another service's and never set, so the script's "already initialized" is never
  said: what ends a second set-up is that `mkdir` fails (`Start`, `Mkdir`;
  `src/hcp/kdcsvc/setup_global.sh:5`);
- a bad request to the KDC service is answered 500, not 400: its handler aborts with
  the exit code 40 in place of the status (`Check`; `src/hcp/kdcsvc/flask_api.py:159`);
- a query by prefix lists `<hash>.tmp`, a staging directory, as an entry
  (`Glob`; `backend/enrollsvc.py:42`, the help at `api/enroll.py:306` says "enrolled
  entries");
- the janitor's handler evaluates names it never binds, and dies of a NameError
  (`Janitor`; `flask/enrollsvc.py:173`);
- the "optional" profile (`api/enroll.py:286`) is required by every attestation,
  which answers 500 without it (`ReadProfile`; `backend/attestsvc.py:67`);
- `enroll_reenroll` takes only a 201 for a success, and the service answers 200
  (`SuccessStatus`; `api/enroll.py:139`);
- `-u` of a host that is not enrolled raises, and ends the run, although the help
  says "if it's enrolled"; `-d -u` deletes the TPM first and leaves it enrolled
  (`Unenroll`; `tool/orchestrator.py:148`, 187, 220);
- a signal that `post` did not send when a run died is never sent by the runs that
  succeed after it (`Compare`; `api/attest.py:254`; the exception `lost` of
  `ServerCurrent`);
- a service that exits while another one is blocked on is not noticed, and the
  workload is announced although its attestation never came (`Block`, `Announce`;
  `tool/launcher.py:56`, 244);
- a health client is told of a check that a killed client had asked for (the premise
  `alone` of `AloneIsTold`; `tool/healthcheck.py:25`);
- a launcher with a foreground service crashes at the first pause in which that
  service goes on running: `TimeoutExpired`, which is to be caught there, is never
  imported (`ForegroundTimeout`; `tool/launcher.py:256`);
- `vars` of a root prototype come after the host's own and overrule them, although a
  prototype is the more general of the two (`Script`, `Layered`;
  `src/usecase/fleet.py`);
- `expand_path` expands the whole object, and replaces that by the result whatever
  path it was given; `path_union` with the underlay option and a path that does not
  exist puts null there and loses the value: `union(value, None)` is None.  No
  script that fleet.py writes meets either (`ExpandStep`, `PathUnion`);
- a retried `complete` would post empty files, as it opens them once; nobody passes
  retries to it (`Complete`; `api/attest.py`);
- `--hup`, "send SIGHUP to currently-running webapi", is parsed and never looked at
  (`svc/webapi.py:17`): the tool would start a second web server;
- the result of a command is read while it is being written, and a command that
  cannot be started has none, so that its tool waits for ever (`Dump`,
  `CommandFails`; `tool/launcher.py:312`, 314).

Other behaviour the models reach and nobody promises otherwise: a set-up of a KDC
that was cut off before its last line is never completed, since each start after it
ends at `mkdir`, and the API is started all the same and answers 500; a caller that
gave up on the KDC service may find its request performed later; when a TPM that the
bring-up needs was not created, the driver waits for ever (a sidecar's service blocks
on its files, and so does the wait for ek.pub); two racing adds of
one TPM can both be answered 500 and leave a staging directory that makes every
later add fail until somebody deletes by prefix; racing adds can enroll a mixture
of two profiles' files; a kill in the middle of a delete leaves an enrollment that
answers 409 to adds and 500 to attestations; a kdcsvc host that shares
its container with its TPM would lift two stanzas called `setup_local`, and lose one
(no host of main-fleet.json is of that kind); a variable that refers to itself keeps
`expand_vars` busy for ever; an orchestrator run that fails to
create a TPM still ends with exit code 0, and an exception for one host leaves the
hosts after it unvisited.

## 4. Bounds, symmetry, deadlock

Bounds are constants with names: `MaxLate` (requests given up on and still alive),
`Retries`, `MaxFail` (failures, kills and restarts of a host), `MaxRound`,
`MaxCmd`, `MaxStop` (stops and failed set-ups of a KDC: the second start meets what
the first left, the third what that one did; since all starts after the first end at
`mkdir`, more add nothing), `MaxAge` (the ticks that a ticket lives: 1 is enough for
one that is fresh, one that is at its limit and one that is past it; ages go from -1
to `MaxAge` + 1, since all that are older, or all that are from the future, fare
alike), `MaxFault` (faults of an exchange: any one of them, at any moment),
`Inputs` and `Orders` (fleet files, and orders in which a dict may yield its
variables: as written and reversed, between which every pair of them changes
places), `MayFail` (hosts that may lack a TPM: one that others depend on, with its TPM
beside it, and one with its TPM inside), `MayCrash` (services that may end by
themselves: one that all others need, and an attester, before or after it has attested),
`Assets`.  Hashes are used once by the orchestrator, as keys are random.
Symmetry is used where workers, TPMs, hosts or profiles are interchangeable and only
safety is checked.  `CHECK_DEADLOCK FALSE` stands where the system may really stop:
workers and callers that may never get another request, a launcher that has ended,
counters at their bound, a bring-up that waits for a TPM nobody made.  Unseal and
FleetConfig are checked for deadlock.

## 5. Fairness

Only what the code's scheduling gives.  EnrollApi: a request that was sent is
served or lost, and a response is received -- the client's timeout sees to that;
nothing makes a late request served.  Unseal: the attester's loop and the server's
process run, while failures are bounded by `MaxFail` (`EventuallyReady` says "as
long as failures end").  Launcher: its process runs, and a service that was sent
SIGTERM ends, which is that signal's default action -- the code waits for it without
a timeout, so a service that ignores it is not covered.  WatchLoop: the launcher and
its askers run; nothing is assumed of commands nor of services, which need not drop, and the two liveness properties name
their premise, that no command runs for ever.  Kdc: the launcher and the scripts it starts run
(`CleanStart`, which is about a start that nothing stops); no request is assumed to
be served.  Bringup: the driver, each launcher and ipropd-slave's restarter
run (a launcher that has seen a drop ends, but nothing is assumed of crashes, nor of
when one is seen: `Drops` has no fairness, as a launcher that blocks does not look), and
an attester that has all it needs gets its assets, as its loop has no end.
Attest: the attester's loop goes on with its exchange (a run that fails makes the
launcher's service sleep and run again, `svc/attester.py`), and a thread that has
taken a request serves it; faults are bounded by `MaxFault`.  Nothing is assumed of
the workers that change the enrollment: `EventuallyHeld` is about an enrollment that
lasts from some time on.  EnrollDB, Orchestrator and FleetConfig check safety only,
and assume none.

## 6. The proofs

TLAPS proves, for any finite or infinite sets of TPMs, workers, profiles, hosts,
hashes, threads, principals, callers, assets and their versions, for any age of
tickets and number of faults, retries and late requests, for any configuration of a
launcher, any options of the driver, and for both modes of a KDC:

| Theorem | Says |
|---|---|
| `EnrollDBProofs!TypeCorrect` | `Spec => [](TypeOK /\ JobOK)` |
| `EnrollDBProofs!NoPhantom` | `Spec => NoPhantomAdd` |
| `EnrollDBProofs!ExclusiveCorrect` | `ExclusiveSpec => [](TypeOK /\ JobOK /\ ExclusiveInv)` |
| `EnrollDBProofs!EnrolledIsWhole` | `ExclusiveSpec => []EnrolledWhole` |
| `EnrollDBProofs!StagingIsUsed` | `ExclusiveSpec => []StagedOnlyByKilled` |
| `EnrollDBProofs!InstallsWhatWasAsked` | `ExclusiveSpec => InstalledAsRequested` |
| `EnrollDBProofs!DeletesForGood` | `ExclusiveSpec => DeletedIsGone` |
| `EnrollRefinesProofs!TreeImplementsMap` | `ExclusiveSpec => ImplementsMap`: the tree implements EnrollSpec |
| `AttestProofs!AttestNeverRefused` | `SharedSpec => NeverRefused` |
| `AttestProofs!ExchangeImplementsReaders` | `AttestSafetySpec => SharedSpec`: Attest implements AttestAssets |
| `AttestProofs!ExchangeNeverRefused` | `AttestSafetySpec => NeverRefused` |
| `AttestProofs!ExchangeCorrect` | `AttestSafetySpec => []AttestInv` |
| `AttestProofs!ExchangeServesEntitled` | `AttestSafetySpec => EntitledIsServed` |
| `AttestProofs!ExchangeKeepsPromise` | `AttestSafetySpec => KeepsPromise`: the exchange implements AttestSpec |
| `AttestProofs!NoHostIsForgotten` | `AttestSafetySpec => []WaiterHasThread` |
| `AttestProofs!ThreadsAnswer` | `AttestSafetySpec => ThreadsGetOn` |
| `OrchestratorProofs!TrueOnlyOfWhatIsDone` | `ApiSpec => TrueOnlyIfDone` |
| `OrchestratorProofs!CallIsUnderWay` | `ApiSpec => []CallUnderWay` |
| `OrchestratorProofs!CallStepsCount` | `ApiSpec => CallGetsOn` |
| `OrchestratorProofs!ServiceIsMap` | `ApiSpec => Service!Spec`: the service that the client sees implements EnrollSpec |
| `OrchestratorProofs!ToolKeepsMap` | `OrchestratorSpec => Service!Spec` |
| `OrchestratorProofs!ApiTypeCorrect` | `ApiSpec => []ApiTypeOK` |
| `OrchestratorProofs!OrchestratorTypeCorrect` | `OrchestratorSpec => []OrchestratorTypeOK` |
| `OrchestratorProofs!BeliefIsSo` | `OrchestratorSpec => []BeliefHolds` |
| `OrchestratorProofs!CleanRunsEnroll` | `OrchestratorSpec => CleanRunEnrolls` |
| `OrchestratorProofs!RunsUnenroll` | `OrchestratorSpec => RunUnenrolls` |
| `UnsealProofs!AssetsAreWhole` | `UnsealSpec => []InstalledWhole` |
| `UnsealProofs!ServerIsCurrent` | `UnsealSpec => []ServerCurrent` |
| `UnsealProofs!RunsInstall` | `UnsealSpec => SuccessInstalls` |
| `UnsealProofs!RunsLeaveNothingOut` | `UnsealSpec => []NothingLeftOut` |
| `UnsealProofs!RunsGetOn` | `UnsealSpec => RunGetsOn` |
| `LauncherProofs!ServicesStartInOrder` | `LauncherSpec => []StartsInOrder` |
| `LauncherProofs!LauncherEndsAsConfigured` | `LauncherSpec => []EndsAsConfigured` |
| `LauncherProofs!LauncherSupervises` | `LauncherSpec => Supervised!Spec`: Launcher implements Supervision |
| `LauncherProofs!LauncherComesToItsEnd` | `LauncherSpec => LauncherGetsOn` |
| `LauncherProofs!AllAreLifted` | `LiftSpec /\ IsDict(given) /\ Distinct => []AllLifted` |
| `LauncherProofs!AloneClientIsTold` | `WatchSpec => []AloneIsTold` |
| `LauncherProofs!ResultIsOwn` | `WatchSpec => []OwnResult` |
| `LauncherProofs!NoRequestIsLost` | `WatchSpec => []RequestIsKept` |
| `LauncherProofs!NoCommandIsLost` | `WatchSpec => []CommandIsKept` |
| `LauncherProofs!WatchTypeCorrect` | `WatchSpec => [](WatchTypeOK /\ RoundsOK)` |
| `KdcProofs!KdcTypeCorrect` | `KdcSpec => []KdcTypeOK` |
| `KdcProofs!MarkMeansDone` | `KdcSpec => []InitializedWhole` |
| `KdcProofs!SetUpOnce` | `KdcSpec => []RealmSetUpOnce` |
| `KdcProofs!TrueMeansWhole` | `KdcSpec => TrueOfWholeRealm` |
| `KdcProofs!TrueMeansDone` | `KdcSpec => KdcTrueOnlyIfDone` |
| `KdcProofs!CleanStartServes` | `KdcSpec => []ServesWhenUp` |
| `KdcProofs!CleanStartMovesOn` | `KdcSpec => []StartMovesOn` |
| `KdcProofs!StartTerminates` | `KdcSpec => StartGetsOn` |
| `KdcProofs!ServiceKeepsRealmPromise` | `KdcSpec => KeepsRealmPromise`: the KDC service implements RealmSpec |
| `KdcProofs!StartIsSupervised` | `KdcSpec => Supervised!Spec`: its start implements Supervision |
| `BringupProofs!EffectsHold` | `BringupSpec => []BringupInv` |
| `BringupProofs!WaitMeansAttested` | `BringupSpec => WaitedIsAttested` |
| `BringupProofs!DriverWaitsAreEnough` | `BringupSpec => FailsOnlyKnown` |
| `BringupProofs!ContainersAreSupervised` | `BringupSpec => Supervised(c)!Spec` for each container `c`: Bringup implements Supervision |
| `BringupProofs!NoCircleOfWaiting` | `BringupSpec => []MovesOn` |
| `BringupProofs!EachStepCounts` | `BringupSpec => StepsCount` |

With these, every safety property that a passing run checks is a theorem, but
`Layered`, `Resolved` and `TpmFound` of FleetConfig.

They assume `EnrollAssumption` (the constants do not clash: no profile is called
"partial", `NoDir` is no directory), and their own modules' `UnenrolledAssumption`,
`AssetsAssumption`, `AttestAssumption`, `ApiAssumption`, `UnsealAssumption` and
`KdcAssumption`, which are of the same kind; TLC evaluates all of them in the runs.
`OrchestratorAssumption` says besides that flags do not contradict each other, which
argparse's groups see to, and that the tool passes no retries, which it does not.
`LauncherAssumption` says that configurations are as `Config` describes them, and
`WatchAssumption` that clients are finitely many and the bounds of the run numbers,
which only `WatchTypeCorrect` needs.  The theorems about
`ExclusiveSpec`, and those of Attest that rest on them, assume besides that each add
brings a profile (`AddProfile \subseteq Profile`), as the orchestrator's do.

The first two need no more than types and, for
NoPhantom, an invariant about a worker that is past `AddCheck`: either a staging
directory exists, or its history variable `seen` is set.  The enrollment's others
rest on `ExclusiveInv`, which says why exclusive requests are enough:

- `HandlesHeld`: a file is open for writing, or a directory is being emptied, only
  by the worker that now serves its TPM -- so a rename never moves a directory into
  which somebody else still writes;
- `DeletesOwn`: a delete works on what its own search matched;
- `Staged`: an add that is past its check still finds no enrollment, and what it has
  moved is in the staging directory, whole, and is its own;
- `Sound`: nothing is nested, what is enrolled is whole unless a delete has begun,
  and staging directories without an add belong to a TPM for which a worker died.

Neither `EnrolledWhole` nor `StagedOnlyByKilled` is inductive alone: the step that
makes an enrollment is a rename of a staging directory, and only `Staged` knows
what is in it.  TLC checks `ExclusiveInv` in `EnrollExclusive`; the proof has one
lemma per action.  `InstallsWhatWasAsked` reads off it what a rename finds in the
staging directory.  `DeletesForGood` adds `BeforeIt`: whatever of what a delete was
asked to remove exists is still among what the delete has before it, for nothing of it
comes back while it works (`NothingComesBack`).  `TreeImplementsMap` is that every
action either leaves the map alone, or is the one rename or the first unlink that
changes one entry.  `AttestNeverRefused` follows from `ExclusiveInv` and from what the
history variable `stable` remembers, without a look at who else runs.

The exchange rests on `AttestInv`: threads work for different hosts; a host that waits
has a quote and a ticket that agree; the thread that works for it works on the
ticket's TPM, and has a profile once it seals (`ExchangeOK`).  `EntitledOK` says of a
host whose history is as it should be that its ticket and quote are of the TPM it has,
and that a thread for it finds the profile which is enrolled, and so that no refusal is
reachable.  `ExchangeKeepsPromise` maps the state by `readable`, `asking` and `found`.
A step of a worker changes what can be read of one TPM at most; a thread's look is the
promise's `Look`; `Complete` answers 401 only when there is nothing to read, which is
the promise's refusal.

`InstalledWhole`, `SuccessInstalls` and `ServerCurrent` rest on `Done`, which says what
a run of the tool has done by the time it is where it is: before its `Move` the copy
is what the bundle brings, and the comparison with the file in place still holds;
whatever is no longer to do is in place.  Any failure keeps it, since it ends the run.

The KDC's theorems rest on `KdcInv`.  `InitializedWhole` alone does not survive
`TouchGlobal`: that the directory is whole by then is the work of all the script's
steps, which `Progress` states place by place (at "krb5" both directories and the head
of kdc.conf are made, ... at "touch" everything is).  `Setups` says that a
set-up which is past its first `mkdir` is the first one, that has not run the script
yet, and that the directory is there once the script was run: no later start gets past
that `mkdir`.  `LocalAfterGlobal` says that sudo's link is only made after the
mark, and so that a request that passes `Check` meets a whole realm, also when a stop
came in between.  `JobsDone` says that a request that is still a success has done its
operation on all that is no longer left.

A caller's theorem rests on `ApiOK`: there is one request or one response of the call
that runs, and a response that will count as a success is of something done since the
call began, by a request for the same thing; late requests, which may be performed at
any time, take nothing from that.  `ServiceIsMap` needs of the requests that are late
only that somebody made them (`RequestsOK`).  The service that the client sees and the
tree (`TreeImplementsMap`) implement one map, EnrollSpec's.  That is about what is
enrolled; that the answers are those of the tree as well is so only as long as no
worker is killed (section 2, EnrollApi).

The orchestrator's three properties are about the end of a run of many hosts and many
stages, and none of them is inductive.  `OrchestratorInv` has a part for the tool's
control (`PlacesOK`: a label belongs to a stage, and a stage is only entered if the
flags ask for it), for the directories (`DiskOK`), the hosts (`HostsOK`: visited,
visited now, still to be visited), and `CleanOK`, which is about the run as long as
nothing outside of the tool fails.  `CleanOK` says of the hosts still to be visited
that they are as the run found them (`Waiting`), of the host that is visited that what
the tool remembers of its directory is so (`VisitOK`), of the call it waits for what
can be its answer (`QueryOK`, `AddOK`, `DeleteOK`: the service answers 409 only if the
belief was wrong), and of those behind it that they are as the flags ask (`SoFarOK`).
Each stage ends in `StageDone`, which is what one stage leaves for the next, and
`ProceedKeepsClean` shows once, for all stages, that this and `OthersKept` carry the
invariant into the next stage or to the next host.  No visit undoes what an
earlier one did, since the flags exclude each other: a run that enrolls only adds to
the enrollments, and one that unenrolls only takes from them.

The launcher's rest on `LauncherInv`: `StartOK` says that services up to `at` are
started and up and those after it are not, and `ResultOK` that the result, once there
is one, is of the configured service, and that those which were torn down have ended.
`LauncherSupervises` adds `OnItsWay`: the launcher has seen no drop while it starts
services, and comes to announce with all of them started or after a drop.  That the
services before one are past when it is passed is `StartOK`.

`AllAreLifted` is about configurations in which no two stanzas have one name, wherever
they are nested (`Distinct`), as those of the repository are: were there two, union
would merge them, and which of them overrules the other would depend on the order.
`AllLifted` is far from inductive, being about the end of the last pass.  `LiftInv`
says at every step that the configuration has exactly the stanzas that are known so
far, each bare if it was lifted from and as it was if not (`ConfigOK`), and that a pass
that has lifted nothing has come by nothing to lift (`PassOK`).  The step that
lifts keeps it because the names it adds are new (`LiftedAreNew`): a stanza of that
name would have to be the very one that is nested here, and could only be known from
another place where it is nested.  So `Clash` is never reached, and nothing is assumed
of it.

`AloneIsTold` rests on `Underway`, which says where the request of a client that waits
can be -- not seen yet, being answered by a check that began after it, answered, or
left for good with the launcher's loop --
and on `Settled`, that nothing is left of the clients before it.  `OwnResult` rests on
`CommandOK`, the same for a command: submitted, held by the launcher (`Holding`) or
answered, in one place at a time.  `WatchTypeOK` bounds the rounds, and that bound is
not inductive: `RoundsOK` counts the clients that are about to ask, the request that is
there and the checks that were begun.

The bring-up's have two halves.  The first is about the script that main-test.py makes
of its options, before anything runs: `Needs` says which steps a step relies on, and
`ScriptIs` that in each script of each choice of options these come before it
(`WellFormed`), part by part as the script is put together.  The second is about the
fleet: `Effect` is what a step has brought about, and `EffectsOK` that all steps the
driver is past still have their effect, whatever containers do since.  `FleetOK` holds
what containers owe each other: an attester that is past has met a secondary KDC with
a copy of the realm, and a host that mounts home directories has met the NFS server.
No script is made to wait for a service that has crashed, so what is promised is under
`AllWell`, that every TPM was created and nothing has crashed; `WaitedIsAttested` asks
that only of the host itself, and rests on that a launcher sees a drop only of a host
without its TPM, or one that has lost a service of its own (`FleetOK`).
`ContainersAreSupervised` needs only that a launcher is past no more services than its
container has (`PassedOK`).

`ServiceKeepsRealmPromise` is a refinement in which the abstract task begins late, ends
early, and is never told of an answer that nobody reads: `JobOnce` adds to `KdcInv` that
what a request has done and what it has left are apart, so that no principal is worked
on twice, and `RealmSpec!BeSure` follows from `JobsDone`.  A stop maps to one `Lose` of all
tasks, and is a stutter for `open`: the mark is on the volume.

### What is proved of what must happen at last

Temporal reasoning about fairness, and ENABLED, are out of TLAPS's reach, so each of
the eight liveness properties is checked by TLC, and never proved.  But most of what
could be wrong with one of them is about states and steps: that a place is reached
where nobody can move, that something that somebody waits for is gone, or that a loop
takes back what was gained.  That half is proved, for every value of the constants:

| Liveness (TLC) | There is always something that moves | and each step counts |
|---|---|---|
| `BringupEnds` | `NoCircleOfWaiting`: if every TPM is created, nothing has crashed, and the driver waits, a launcher or the replication can go on | `EachStepCounts`: the script, the services passed and the replication only grow, and each is bounded, while nothing crashes |
| `CleanStart` | `CleanStartMovesOn`, and `CleanStartServes` of its end | `StartTerminates`: `StartAt`, at most 16, grows |
| `DroppedEndsLauncher` | the launcher is sequential, and waits for services it has signalled | `LauncherComesToItsEnd`: its phase and place grow, but for a look around that finds no drop |
| `CallsEnd` | `CallIsUnderWay`: one request or one response, and never both | `CallStepsCount`: no retry gives back what was used of the budget |
| `EventuallyHeld` | `NoHostIsForgotten`: a waiting host has a thread for itself | `ThreadsAnswer`: a thread has at most `Assets + 3` steps of its own |
| `EventuallyReady` | `RunsLeaveNothingOut`: what was sent is to do or in place | `RunsGetOn`: a run ends, or one asset less is to do, or the one at hand is further |
| `ClientsEnd` | `NoRequestIsLost`: request, check or report is there, or the loop was left | -- |
| `VmCmdEnds` | `NoCommandIsLost`: command, launcher or result has it | -- |

What is left to TLC of each is that a step which stays possible is taken at last, by the
fairness of section 5.  The circle of waiting is the hard one: the driver waits for a
launch of the host, the host's attester for the enrollment that the driver makes, for
the Attestation Service and for a secondary KDC whose copy of the realm comes from the
primary.  Its invariant is that of the bring-up, extended by the fleet's types: whatever
a waiting step needs (`Needs`) is behind the driver and has its effect (`EffectsOK`),
so a host that is waited for has all that it needs, or else a KDC, the Attestation
Service or a TPM which it needs can pass its next service (`NextLaunches`, `RealmMoves`,
`HostMoves`), or the realm's copy can be made.

Model-checked only: the rest of liveness, as above; and Gson
and FleetConfig with `Layered`, `TpmFound` and `Resolved`, whose recursive
operators are out of reach too (what a recursive definition computes needs an
induction over data, which the installed provers cannot do).  The refinements of
RealmSpec and of Supervision by Kdc, and the invariants and step properties of the table
above, are proved and were found true by TLC on the instances of the runs before; they
are not repeated as properties of the runs.  That at most `MaxLate`
requests are late is the guard of `RequestTimeout` and `Kill`, and no part of
`ApiTypeOK`: the size of a bag is defined by recursion.

## 7. Not modelled

Contents: certificates, keytabs, the PEM conversion of ek.pub (whose output the
orchestrator discards), profiles beyond their identity, log messages.  The cryptography
of tickets, quotes, AIKs and sealed assets, which is a comparison of TPMs in Attest.
SIGTERM to the launcher itself.  pid files that outlive a
restart, so that a SIGHUP could reach another process (`tool/callback.py:48`).
`--retries` and `--pause` of the command-line clients, which are parsed and never
passed on.  How webapi writes uwsgi's and nginx's configuration.  The mutater's `copy`
and `remove` and paths with indexes, which no script here uses; the rest of the
docker-compose file that fleet.py writes.  The inside of swtpm, sshd, nfsd and mounter,
which are straight lines.  The event log parser and the image builders.  A host's
second attestation, and restarts, in Bringup; crashes there of services that are not
in `MayCrash`'s reach, setups among them, which end anyway.

Assumed of the environment: `/tmp` and `/backend/db` are different file systems (as
deployed, so that shutil.move copies); a rename inside one file system is atomic;
nginx reads certificates before it writes its pid file; kadmin's exit code tells whether
any of its commands failed, and a command works on its principals one by one.

## 8. The plan

Done, in this order: the enrollment database, its map and its proofs; the
attestation reader; the client API; the orchestrator; the host side (Unseal);
the launcher and its watch loop; the KDC service and its proofs; the bring-up; the
exchange of an attestation, its promise and their proofs; gson and the fleet's
configurations; the refinement of EnrollSpec, the action properties of the exclusive
enrollment, and Unseal, proved; the client over EnrollSpec, the orchestrator, the
launcher, its watch loop and the bring-up, proved; Supervision, by which Bringup rests
on Launcher, and the lifting of stanzas, proved; RealmSpec, the KDC service's promise,
and its refinement; the safety half of each liveness property, proved.  Next:

1. `Webapi`: how the wrapper rewrites the configuration of uwsgi and nginx, over
   restarts of a container.
2. Restarts in Bringup: a container that is stopped and started while the driver
   waits, and a host's second attestation after its enrollment was changed.

## 9. Running it

    tlasany EnrollDB.tla
    tlc -workers 2 -config EnrollExclusive.cfg MCEnrollDB
    tlapm EnrollDBProofs.tla     (EnrollRefinesProofs, AttestProofs, OrchestratorProofs, ...)

`PROJECT.json` holds the runs, the mutants, the map from definitions to lines of code,
the findings, the hazards and the theorems.
