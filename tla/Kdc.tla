-------------------------------- MODULE Kdc --------------------------------
(***************************************************************************)
(* The KDC service (hcp/kdcsvc) in one container, whose state directory is  *)
(* a volume that outlives it: the launcher runs setup_global.sh and         *)
(* setup_local.sh at each start, blocks on their files, and goes on to the  *)
(* management API (flask_api.py), which hands each request to do_kadmin.py   *)
(* behind sudo; the callers are functions of hcp/python/hcp/api/kdc.py.     *)
(* The container can stop between any two steps, and callers give up.       *)
(* Heimdal's kadmin is external: it works on the principals of a command    *)
(* one by one, and its exit code tells whether it failed on any.            *)
(***************************************************************************)
EXTENDS Naturals

CONSTANTS
    Mode,        \* .kdcsvc.mode: "primary" or "secondary"
    Principal,
    Virtual,     \* the principals that the namespaces derive keys for
    Caller,
    MaxStop      \* bound: stops of the container, and failures of its set-up

ASSUME KdcAssumption ==
    /\ Virtual \subseteq Principal
    /\ MaxStop \in Nat

\* What script.kadmin has kadmin do: init the realm, add its two namespaces.
Entries == {"init", "names", "hosts"}

\* kdc.conf is written in two steps: its head, then what $KRB5_CONFIG holds.
Files == {"conf", "krb5", "sudoers"} \cup (IF Mode = "primary" THEN {"script"} ELSE {})
Dirs == {"etc", "var"}

\* add_ns and del_ns, which do the same for namespaces, are in "add" and "del".
Op == {"add", "del", "get", "ext_keytab"}
Job == [phase : {"none", "check", "kadmin", "reply"}, op : Op,
        names : SUBSET Principal,  \* what the request names, or has listed
        left : SUBSET Principal,   \* what kadmin is still to work on
        did : SUBSET Principal,    \* history: what it has done its operation on
        status : {"200", "403", "500"}]
NoJob == [phase |-> "none", op |-> "get", names |-> {}, left |-> {}, did |-> {},
          status |-> "200"]

VARIABLES
    dirs, made,    \* the directories and files of the state directory
    initialized,   \* its file 'initialized', which setup_global is to make
    realm,         \* the entries of the database that script.kadmin makes
    princs,        \* the principals added to it
    setups,        \* history: how often script.kadmin was run
    link,          \* /etc/sudoers.d/hcp-<id>, in the root file system
    localInit,     \* the file that setup_local is to make, in /tmp
    stage,         \* where the launcher is
    gpc, lpc,      \* where setup_global and setup_local are
    stops,
    waiting,       \* waiting[c]: caller c waits for an answer
    job            \* job[c]: its request at the service

disk == <<dirs, made, initialized, realm, princs, setups>>
rootfs == <<link, localInit>>
boot == <<stage, gpc, lpc>>
calls == <<waiting, job>>
kvars == <<disk, rootfs, boot, stops, calls>>

KdcInit ==
    /\ dirs = {} /\ made = {} /\ initialized = FALSE
    /\ realm = {} /\ princs = {} /\ setups = 0
    /\ link = FALSE /\ localInit = FALSE
    /\ stage = "down" /\ gpc = "off" /\ lpc = "off"
    /\ stops = 0
    /\ waiting = [c \in Caller |-> FALSE]
    /\ job = [c \in Caller |-> NoJob]

-----------------------------------------------------------------------------
(* The start of the container.  The launcher goes on when the file it blocks  *)
(* on is there, or the process has exited, with whatever code.                *)

\* setup_global's own guard tests a variable that is never set, and lets it pass.
Start ==
    /\ stage = "down"
    /\ stage' = "global" /\ gpc' = "etc"
    /\ UNCHANGED <<lpc, disk, rootfs, stops, calls>>

\* Mutant: the launcher does not block.
AwaitGlobalNot ==
    /\ stage = "global"
    /\ stage' = "local" /\ lpc' = "guard"
    /\ UNCHANGED <<gpc, disk, rootfs, stops, calls>>

AwaitGlobal ==
    /\ stage = "global"
    /\ initialized \/ gpc = "ended"
    /\ stage' = "local" /\ lpc' = "guard"
    /\ UNCHANGED <<gpc, disk, rootfs, stops, calls>>

AwaitLocal ==
    /\ stage = "local"
    /\ localInit \/ lpc = "ended"
    /\ stage' = "up"
    /\ UNCHANGED <<gpc, lpc, disk, rootfs, stops, calls>>

\* Everything in the container ends.  It is started again as it is, or recreated
\* on the same volume.
Stop ==
    /\ stage # "down" /\ stops < MaxStop
    /\ stops' = stops + 1
    /\ stage' = "down" /\ gpc' = "off" /\ lpc' = "off"
    /\ \/ UNCHANGED rootfs
       \/ link' = FALSE /\ localInit' = FALSE
    /\ job' = [c \in Caller |-> NoJob]
    /\ waiting' = [c \in Caller |-> FALSE]
    /\ UNCHANGED disk

-----------------------------------------------------------------------------
(* setup_global.sh, under 'set -e'                                            *)

Goto(label) ==
    /\ gpc' = label
    /\ UNCHANGED <<stage, lpc, rootfs, stops, calls>>

\* Mutant: mkdir -p.
MkdirAgain(d, next) ==
    /\ gpc = d
    /\ dirs' = dirs \cup {d} /\ Goto(next)
    /\ UNCHANGED <<made, initialized, realm, princs, setups>>

\* mkdir fails if the directory exists: this ends all set-ups but the first.
Mkdir(d, next) ==
    /\ gpc = d
    /\ \/ d \notin dirs /\ dirs' = dirs \cup {d} /\ Goto(next)
       \/ d \in dirs /\ UNCHANGED dirs /\ Goto("ended")
    /\ UNCHANGED <<made, initialized, realm, princs, setups>>

WriteFile(f, next) ==
    /\ gpc = f
    /\ made' = made \cup {f} /\ Goto(next)
    /\ UNCHANGED <<dirs, initialized, realm, princs, setups>>

\* Mutant: the exit code of kadmin is ignored.
RunScriptUnchecked ==
    /\ gpc = "kadmin"
    /\ setups' = setups + 1
    /\ \E done \in SUBSET Entries : realm' = realm \cup done
    /\ Goto("touch")
    /\ UNCHANGED <<dirs, made, initialized, princs>>

\* kadmin -l < script.kadmin.
RunScript ==
    /\ gpc = "kadmin"
    /\ setups' = setups + 1
    /\ realm' = Entries
    /\ Goto("touch")
    /\ UNCHANGED <<dirs, made, initialized, princs>>

TouchGlobal ==
    /\ gpc = "touch"
    /\ initialized' = TRUE /\ Goto("ended")
    /\ UNCHANGED <<dirs, made, realm, princs, setups>>

\* A command fails: the disk is full, there is no $KRB5_CONFIG, or it is one of
\* kadmin's, which does not keep kadmin from the next one.
SetupFails ==
    /\ gpc \notin {"off", "ended"} /\ stops < MaxStop
    /\ stops' = stops + 1
    /\ gpc' = "ended"
    /\ \/ UNCHANGED <<realm, setups>>
       \/ /\ gpc = "kadmin"
          /\ setups' = setups + 1
          /\ \E done \in SUBSET Entries : realm' = realm \cup done
    /\ UNCHANGED <<stage, lpc, dirs, made, initialized, princs, rootfs, calls>>

SetupGlobal ==
    \/ Mkdir("etc", "var")
    \/ Mkdir("var", "conf")
    \/ WriteFile("conf", "krb5")
    \/ WriteFile("krb5", "sudoers")
    \/ WriteFile("sudoers", IF Mode = "primary" THEN "script" ELSE "touch")
    \/ WriteFile("script", "kadmin")
    \/ RunScript
    \/ TouchGlobal

-----------------------------------------------------------------------------
(* setup_local.sh *)

\* Mutant: it does not look whether setup_global is done.
LocalGuardMissing ==
    /\ lpc = "guard"
    /\ lpc' = IF localInit THEN "ended" ELSE "link"
    /\ UNCHANGED <<stage, gpc, disk, rootfs, stops, calls>>

LocalGuard ==
    /\ lpc = "guard"
    /\ lpc' = IF initialized /\ ~localInit THEN "link" ELSE "ended"
    /\ UNCHANGED <<stage, gpc, disk, rootfs, stops, calls>>

\* The link is made, or is there already.
Link ==
    /\ lpc = "link"
    /\ link' = TRUE
    /\ lpc' = "touch"
    /\ UNCHANGED <<stage, gpc, localInit, disk, stops, calls>>

TouchLocal ==
    /\ lpc = "touch"
    /\ localInit' = TRUE
    /\ lpc' = "ended"
    /\ UNCHANGED <<stage, gpc, link, disk, stops, calls>>

SetupLocal == LocalGuard \/ Link \/ TouchLocal

-----------------------------------------------------------------------------
(* A request at the service *)

AtService == UNCHANGED <<dirs, made, initialized, realm, setups, rootfs, boot, stops>>

\* An answer that is an error says nothing of the request.
Error(status) == [NoJob EXCEPT !.phase = "reply", !.status = status]

\* sudo needs its rule, and do_kadmin the realm of its configuration; the policy
\* checker refuses, or cannot be reached.  A 'get' that names nothing lists all.
Check(c) ==
    /\ job[c].phase = "check"
    /\ \/ /\ link /\ "sudoers" \in made
          /\ LET names == IF job[c].op = "get" /\ job[c].names = {}
                          THEN princs ELSE job[c].names
             IN job' = [job EXCEPT ![c].phase = "kadmin", ![c].names = names,
                                   ![c].left = names]
       \/ \E status \in {"403", "500"} :
             job' = [job EXCEPT ![c] = Error(status)]
    /\ UNCHANGED <<princs, waiting>> /\ AtService

Feasible(op, p) ==
    /\ "krb5" \in made /\ "init" \in realm
    /\ CASE op = "add" -> p \notin princs
         [] op \in {"del", "get"} -> p \in princs
         [] op = "ext_keytab" -> p \in princs \/ (p \in Virtual /\ "hosts" \in realm)

Effect(op, p) ==
    CASE op = "add" -> princs \cup {p}
      [] op = "del" -> princs \ {p}
      [] OTHER -> princs

\* kadmin, at the next principal of its command.
Kadmin(c) ==
    LET j == job[c] IN
    /\ j.phase = "kadmin"
    /\ \E p \in j.left :
          \/ /\ Feasible(j.op, p)
             /\ princs' = Effect(j.op, p)
             /\ job' = [job EXCEPT ![c] = [j EXCEPT !.left = @ \ {p}, !.did = @ \cup {p}]]
          \/ /\ \E rest \in {j.left \ {p}, {}} :
                   job' = [job EXCEPT ![c] = [j EXCEPT !.left = rest, !.status = "500"]]
             /\ UNCHANGED princs
    /\ UNCHANGED waiting /\ AtService

\* Mutant: an exit code that is not a status is taken for a success.
AnswerAny(c) ==
    /\ job[c].phase = "kadmin" /\ job[c].left = {}
    /\ job' = [job EXCEPT ![c].phase = "reply", ![c].status = "200"]
    /\ UNCHANGED <<princs, waiting>> /\ AtService

\* do_kadmin's exit code, through http2exit and exit2http: 500, or a 200 with the
\* output.  kadmin fails when it is given nothing to work on, except by 'get'.
Answer(c) ==
    LET j == job[c]
        success == j.status = "200" /\ (j.names # {} \/ j.op = "get")
    IN
    /\ j.phase = "kadmin" /\ j.left = {}
    /\ job' = [job EXCEPT ![c] = IF success THEN [j EXCEPT !.phase = "reply"]
                                            ELSE Error("500")]
    /\ UNCHANGED <<princs, waiting>> /\ AtService

-----------------------------------------------------------------------------
(* A caller: no retries are ever passed to the functions of api/kdc.py        *)

Call(c, op, names) ==
    /\ stage = "up" /\ job[c] = NoJob
    /\ waiting' = [waiting EXCEPT ![c] = TRUE]
    /\ job' = [job EXCEPT ![c] = [NoJob EXCEPT !.phase = "check", !.op = op,
                                               !.names = names]]
    /\ UNCHANGED <<disk, rootfs, boot, stops>>

\* The call returns True of a 200, and False of anything else.
Return(c, value) ==
    /\ waiting[c] /\ job[c].phase = "reply"
    /\ value = (job[c].status = "200")
    /\ waiting' = [waiting EXCEPT ![c] = FALSE]
    /\ job' = [job EXCEPT ![c] = NoJob]
    /\ UNCHANGED <<disk, rootfs, boot, stops>>

\* The connection breaks or the timeout expires: an exception.  The service goes on.
GiveUp(c) ==
    /\ waiting[c]
    /\ waiting' = [waiting EXCEPT ![c] = FALSE]
    /\ UNCHANGED <<job, disk, rootfs, boot, stops>>

Forget(c) ==
    /\ ~waiting[c] /\ job[c].phase = "reply"
    /\ job' = [job EXCEPT ![c] = NoJob]
    /\ UNCHANGED <<waiting, disk, rootfs, boot, stops>>

Request(c) ==
    \/ Check(c) \/ Kadmin(c) \/ Answer(c)
    \/ \E value \in BOOLEAN : Return(c, value)
    \/ GiveUp(c) \/ Forget(c)
    \/ \E op \in Op, names \in SUBSET Principal : Call(c, op, names)

KdcStart == Start \/ AwaitGlobal \/ AwaitLocal \/ SetupGlobal \/ SetupLocal

KdcNext == KdcStart \/ SetupFails \/ Stop \/ \E c \in Caller : Request(c)

\* The launcher and the scripts it starts run; no request is assumed to.
KdcSpec == KdcInit /\ [][KdcNext]_kvars /\ WF_kvars(KdcStart)

-----------------------------------------------------------------------------

KdcTypeOK ==
    /\ dirs \subseteq Dirs /\ made \subseteq Files
    /\ realm \subseteq Entries /\ princs \subseteq Principal
    /\ initialized \in BOOLEAN /\ link \in BOOLEAN /\ localInit \in BOOLEAN
    /\ setups \in Nat /\ stops \in 0..MaxStop
    /\ stage \in {"down", "global", "local", "up"}
    /\ gpc \in Dirs \cup Files \cup {"off", "kadmin", "touch", "ended"}
    /\ lpc \in {"off", "guard", "link", "touch", "ended"}
    /\ waiting \in [Caller -> BOOLEAN]
    /\ job \in [Caller -> Job]

Whole ==
    /\ dirs = Dirs /\ made = Files
    /\ Mode = "primary" => realm = Entries

\* "Mark it all as done (services may be polling on the existence of this file)":
\* however set-ups were stopped or failed, the mark is only on a state directory
\* that one of them finished.
InitializedWhole == initialized => Whole

\* script.kadmin is run once in the life of the state directory, however often the
\* container starts: no start adds to, or re-initialises, a realm that is there.
RealmSetUpOnce == setups <= 1

\* A call returns True only of a realm whose set-up was finished, although the
\* launcher starts the API whether or not it was.
TrueOfWholeRealm == [][\A c \in Caller : Return(c, TRUE) => Whole]_kvars

\* "result is True iff the operation was successful": a call returns True only if
\* its own request has performed the operation on all the principals it names.
KdcTrueOnlyIfDone ==
    [][\A c \in Caller : Return(c, TRUE) =>
          /\ job[c].did = job[c].names
          /\ job[c].names # {} \/ job[c].op = "get"]_kvars

\* A first start that nothing disturbs ends with an API that is ready to serve.
CleanStart == [](stops = 0) => <>(stage = "up" /\ link /\ initialized)

\* What a request is for those that rely on the service: nothing before sudo has
\* let it through, nor after an error.
TaskOf(j) ==
    LET as(state) == [state |-> state, op |-> j.op, names |-> j.names, did |-> j.did] IN
    CASE j.phase = "kadmin" /\ j.status = "200" -> as("open")
      [] j.phase = "kadmin" /\ j.status # "200" -> as("failed")
      [] j.phase = "reply" /\ j.status = "200" -> as("sure")
      [] OTHER -> [state |-> "none", op |-> "get", names |-> {}, did |-> {}]

Promised == INSTANCE RealmSpec WITH
    open <- initialized, task <- [c \in Caller |-> TaskOf(job[c])]

\* The service, whose container stops at any step and whose commands fail half
\* way, implements the promise of RealmSpec.
KeepsRealmPromise == Promised!Spec

\* What is taken of the launcher here: it passes the two set-ups, in their order, each
\* when its file is there or its process is gone, and then the API is there.
Supervised == INSTANCE Supervision WITH
    service <- 1..2,
    met <- {s \in 1..2 : IF s = 1 THEN initialized \/ gpc = "ended"
                                  ELSE localInit \/ lpc = "ended"},
    past <- {s \in 1..2 : stage = "up" \/ (stage = "local" /\ s = 1)},
    dropped <- FALSE, announced <- (stage = "up")

=============================================================================
