----------------------------- MODULE KdcProofs -----------------------------
(***************************************************************************)
(* Theorems about Kdc, for any principals and callers, any number of stops  *)
(* and both modes.  What setup_global knows at each of its commands is      *)
(* Progress; that it never gets past its first mkdir again is what keeps    *)
(* it true over restarts.                                                   *)
(***************************************************************************)
EXTENDS Kdc, TLAPS

\* Where setup_global is past its second mkdir, and where it is past its first.
PastDirs == {"conf", "krb5", "sudoers", "script", "kadmin", "touch"}
PastEtc == {"var"} \cup PastDirs

\* What setup_global has made, by the command it is at.
Progress ==
    /\ gpc = "var" => "etc" \in dirs
    /\ gpc \in PastDirs => dirs = Dirs
    /\ gpc = "krb5" => "conf" \in made
    /\ gpc = "sudoers" => {"conf", "krb5"} \subseteq made
    /\ gpc = "script" => Mode = "primary" /\ {"conf", "krb5", "sudoers"} \subseteq made
    /\ gpc = "kadmin" => Mode = "primary" /\ made = Files
    /\ gpc = "touch" => Whole

\* script.kadmin is run by the set-up that made the first directory.
Setups ==
    /\ setups <= 1
    /\ gpc \in PastEtc \ {"touch"} => setups = 0
    /\ setups > 0 => "etc" \in dirs

\* setup_local, and so the sudo rule, come after a finished set-up.
LocalAfterGlobal ==
    /\ lpc \in {"link", "touch"} => initialized
    /\ link => initialized

\* A request that has not failed yet has done what it names, but for what is left,
\* and works on a finished realm.
JobDone(j) ==
    /\ j.phase = "kadmin" => Whole
    /\ j.phase \in {"kadmin", "reply"} /\ j.status = "200" =>
          /\ Whole
          /\ j.did \cup j.left = j.names
    /\ j.phase = "reply" /\ j.status = "200" =>
          /\ j.left = {}
          /\ j.names # {} \/ j.op = "get"
    /\ j.phase = "check" => j.status = "200" /\ j.did = {}

JobsDone == \A c \in Caller : JobDone(job[c])

KdcInv ==
    /\ KdcTypeOK
    /\ InitializedWhole
    /\ Progress
    /\ Setups
    /\ LocalAfterGlobal
    /\ JobsDone

-----------------------------------------------------------------------------

(* The invariant holds initially, and every step keeps it. *)

LEMMA FilesType ==
    /\ Files \subseteq {"conf", "krb5", "sudoers", "script"}
    /\ {"conf", "krb5", "sudoers"} \subseteq Files
    /\ "script" \in Files <=> Mode = "primary"
BY DEF Files

LEMMA NoJobType ==
    /\ NoJob \in Job
    /\ \A status \in {"200", "403", "500"} : Error(status) \in Job
BY DEF NoJob, Job, Op, Error

LEMMA InitInv == KdcInit => KdcInv
<1> SUFFICES ASSUME KdcInit PROVE KdcInv
  OBVIOUS
<1>1. KdcTypeOK
  <2>1. job \in [Caller -> Job] /\ waiting \in [Caller -> BOOLEAN]
    BY NoJobType DEF KdcInit
  <2>2. setups \in Nat /\ stops \in 0..MaxStop
    BY KdcAssumption DEF KdcInit
  <2>3. QED
    BY <2>1, <2>2, Zenon DEF KdcInit, KdcTypeOK
<1>2. JobsDone
  BY DEF KdcInit, JobsDone, JobDone, NoJob
<1>3. QED
  BY <1>1, <1>2 DEF KdcInit, KdcInv, InitializedWhole, Progress, Setups,
                    LocalAfterGlobal, PastDirs, PastEtc

\* What does not concern the requests keeps what is said of them, if it undoes
\* nothing of a finished realm.
LEMMA JobsStay ==
    ASSUME JobsDone, UNCHANGED job, Whole => Whole'
    PROVE  JobsDone'
BY DEF JobsDone, JobDone

\* A step of setup_global changes neither what comes after it nor the requests.
LEMMA SetupGlobalInv ==
    ASSUME KdcInv, SetupGlobal \/ SetupFails
    PROVE  KdcInv'
<1> USE DEF KdcInv
<1>1. ASSUME NEW d \in {"etc", "var"}, NEW next, Mkdir(d, next),
             d = "etc" => next = "var", d = "var" => next = "conf"
      PROVE  KdcInv'
  <2> USE <1>1, FilesType DEF Mkdir, Goto, rootfs, calls
  <2>1. KdcTypeOK'
    BY DEF KdcTypeOK, Dirs
  <2>2. Whole => Whole'
    BY DEF Whole, Dirs
  <2>3. InitializedWhole' /\ LocalAfterGlobal'
    BY <2>2 DEF InitializedWhole, LocalAfterGlobal
  <2>4. Progress' /\ Setups'
    <3>1. CASE gpc' = "ended"
      BY <3>1 DEF Progress, Setups, PastDirs, PastEtc
    <3>2. CASE d = "etc" /\ d \notin dirs
      BY <3>2 DEF Progress, Setups, PastDirs, PastEtc, KdcTypeOK
    <3>3. CASE d = "var" /\ d \notin dirs
      BY <3>3 DEF Progress, Setups, PastDirs, PastEtc, KdcTypeOK, Dirs
    <3>4. QED
      BY <3>1, <3>2, <3>3
  <2>5. QED
    BY <2>1, <2>2, <2>3, <2>4, JobsStay
<1>2. ASSUME NEW f \in Files, NEW next, WriteFile(f, next),
             f = "conf" => next = "krb5", f = "krb5" => next = "sudoers",
             f = "sudoers" => next = IF Mode = "primary" THEN "script" ELSE "touch",
             f = "script" => next = "kadmin"
      PROVE  KdcInv'
  <2> USE <1>2, FilesType DEF WriteFile, Goto, rootfs, calls
  <2>1. KdcTypeOK'
    BY DEF KdcTypeOK
  <2>2. Whole => Whole'
    BY DEF Whole, KdcTypeOK
  <2>3. Progress'
    BY DEF Progress, PastDirs, Whole, Files, KdcTypeOK
  <2>4. InitializedWhole' /\ Setups' /\ LocalAfterGlobal'
    BY <2>2 DEF InitializedWhole, Setups, LocalAfterGlobal, PastDirs, PastEtc
  <2>5. QED
    BY <2>1, <2>2, <2>3, <2>4, JobsStay
<1>3. CASE RunScript
  <2> USE <1>3, FilesType DEF RunScript, Goto, rootfs, calls
  <2>1. KdcTypeOK'
    BY DEF KdcTypeOK
  <2>2. Whole => Whole'
    BY DEF Whole
  <2>3. InitializedWhole' /\ Progress' /\ Setups' /\ LocalAfterGlobal'
    BY <2>2 DEF InitializedWhole, Progress, Setups, LocalAfterGlobal, PastDirs,
                PastEtc, Whole, Dirs
  <2>4. QED
    BY <2>1, <2>2, <2>3, JobsStay
<1>4. CASE TouchGlobal
  <2> USE <1>4 DEF TouchGlobal, Goto, rootfs, calls
  <2>1. KdcTypeOK'
    BY DEF KdcTypeOK
  <2>2. Whole /\ Whole'
    BY DEF Progress, Whole
  <2>3. InitializedWhole' /\ Progress' /\ Setups' /\ LocalAfterGlobal'
    BY <2>2 DEF InitializedWhole, Progress, Setups, LocalAfterGlobal, PastDirs, PastEtc
  <2>4. QED
    BY <2>1, <2>2, <2>3, JobsStay
<1>5. CASE SetupFails
  <2> USE <1>5, KdcAssumption DEF SetupFails, rootfs, calls
  <2>1. KdcTypeOK'
    BY DEF KdcTypeOK
  <2>2. Whole => Whole'
    BY DEF Whole, KdcTypeOK
  <2>3. InitializedWhole' /\ Progress' /\ Setups' /\ LocalAfterGlobal'
    BY <2>2 DEF InitializedWhole, Progress, Setups, LocalAfterGlobal, PastDirs,
                PastEtc, Dirs
  <2>4. QED
    BY <2>1, <2>2, <2>3, JobsStay
<1>6. CASE Mkdir("etc", "var") \/ Mkdir("var", "conf")
  BY <1>1, <1>6
<1>7. CASE \/ WriteFile("conf", "krb5")
           \/ WriteFile("krb5", "sudoers")
           \/ WriteFile("sudoers", IF Mode = "primary" THEN "script" ELSE "touch")
  BY <1>2, <1>7, FilesType
<1>8. CASE WriteFile("script", "kadmin")
  <2>1. "script" \in Files
    BY <1>8, FilesType DEF WriteFile, Progress
  <2>2. QED
    BY <1>2, <1>8, <2>1
<1>9. QED
  BY <1>3, <1>4, <1>5, <1>6, <1>7, <1>8 DEF SetupGlobal

\* The launcher, setup_local and a stop leave the state directory as it is.
LEMMA BootInv ==
    ASSUME KdcInv, Start \/ AwaitGlobal \/ AwaitLocal \/ SetupLocal
    PROVE  KdcInv'
<1> USE DEF KdcInv, Start, AwaitGlobal, AwaitLocal, SetupLocal, LocalGuard, Link,
            TouchLocal, disk, rootfs, boot, calls
<1>1. KdcTypeOK'
  BY DEF KdcTypeOK, Dirs
<1>2. Whole <=> Whole'
  BY DEF Whole
<1>3. JobsDone'
  BY <1>2, JobsStay
<1>4. QED
  BY <1>1, <1>2, <1>3
     DEF InitializedWhole, Progress, Setups, LocalAfterGlobal, PastDirs, PastEtc

LEMMA StopInv ==
    ASSUME KdcInv, Stop
    PROVE  KdcInv'
<1> USE DEF KdcInv, Stop, disk, rootfs
<1>1. KdcTypeOK'
  <2>1. job' \in [Caller -> Job] /\ waiting' \in [Caller -> BOOLEAN]
    BY NoJobType
  <2>2. stops' \in 0..MaxStop
    BY KdcAssumption DEF KdcTypeOK
  <2>3. QED
    BY <2>1, <2>2 DEF KdcTypeOK
<1>2. Whole <=> Whole'
  BY DEF Whole
<1>3. JobsDone'
  BY DEF JobsDone, JobDone, NoJob
<1>4. QED
  BY <1>1, <1>2, <1>3
     DEF InitializedWhole, Progress, Setups, LocalAfterGlobal, PastDirs, PastEtc

\* A request changes the principals of a realm, its job and its caller only.
LEMMA RequestInv ==
    ASSUME KdcInv, NEW c \in Caller, Request(c)
    PROVE  KdcInv'
<1> USE DEF KdcInv
<1>1. UNCHANGED <<dirs, made, initialized, realm, setups, rootfs, boot, stops>>
  BY DEF Request, Check, Kadmin, Answer, Return, GiveUp, Forget, Call, AtService, disk
<1>2. Whole <=> Whole'
  BY <1>1 DEF Whole
<1>3. InitializedWhole' /\ Progress' /\ Setups' /\ LocalAfterGlobal'
  BY <1>1, <1>2 DEF InitializedWhole, Progress, Setups, LocalAfterGlobal, rootfs, boot
<1>4. /\ princs' \subseteq Principal
      /\ waiting' \in [Caller -> BOOLEAN]
      /\ job' \in [Caller -> Job]
  <2> DEFINE j == job[c]
  <2>1. j \in Job
    BY DEF KdcTypeOK
  <2>2. CASE Check(c)
    <3>1. ASSUME NEW names \in SUBSET Principal
          PROVE  [j EXCEPT !.phase = "kadmin", !.names = names, !.left = names] \in Job
      BY <2>1 DEF Job
    <3>2. PICK new : job' = [job EXCEPT ![c] = new] /\ new \in Job
      <4> DEFINE listed == IF j.op = "get" /\ j.names = {} THEN princs ELSE j.names
      <4>1. listed \subseteq Principal
        BY <2>1 DEF Job, KdcTypeOK
      <4>2. \/ job' = [job EXCEPT ![c] = [j EXCEPT !.phase = "kadmin", !.names = listed,
                                                   !.left = listed]]
            \/ \E status \in {"403", "500"} : job' = [job EXCEPT ![c] = Error(status)]
        BY <2>2 DEF Check, KdcTypeOK
      <4> HIDE DEF listed
      <4>3. QED
        BY <3>1, <4>1, <4>2, NoJobType
    <3>3. QED
      BY <2>2, <3>2 DEF Check, KdcTypeOK
  <2>3. CASE Kadmin(c)
    <3>1. PICK p \in j.left :
             \/ /\ princs' = Effect(j.op, p)
                /\ job' = [job EXCEPT ![c] = [j EXCEPT !.left = @ \ {p},
                                                       !.did = @ \cup {p}]]
             \/ /\ \E rest \in {j.left \ {p}, {}} :
                      job' = [job EXCEPT ![c] = [j EXCEPT !.left = rest, !.status = "500"]]
                /\ UNCHANGED princs
      BY <2>3 DEF Kadmin
    <3>2. p \in Principal /\ j.left \subseteq Principal /\ j.did \subseteq Principal
      BY <2>1 DEF Job
    <3>3. Effect(j.op, p) \subseteq Principal
      BY <3>2 DEF Effect, KdcTypeOK
    <3>4. [j EXCEPT !.left = @ \ {p}, !.did = @ \cup {p}] \in Job
      BY <2>1, <3>2 DEF Job
    <3>5. \A rest \in {j.left \ {p}, {}} :
             [j EXCEPT !.left = rest, !.status = "500"] \in Job
      BY <2>1, <3>2 DEF Job
    <3>6. QED
      BY <2>3, <3>1, <3>3, <3>4, <3>5 DEF Kadmin, KdcTypeOK
  <2>4. CASE Answer(c)
    <3>1. [j EXCEPT !.phase = "reply"] \in Job
      BY <2>1 DEF Job
    <3>2. QED
      BY <2>4, <3>1, NoJobType DEF Answer, KdcTypeOK
  <2>5. CASE \E op \in Op, names \in SUBSET Principal : Call(c, op, names)
    <3>1. ASSUME NEW op \in Op, NEW names \in SUBSET Principal
          PROVE  [NoJob EXCEPT !.phase = "check", !.op = op, !.names = names] \in Job
      BY NoJobType DEF Job
    <3>2. QED
      BY <2>5, <3>1 DEF Call, disk, KdcTypeOK
  <2>6. CASE (\E value \in BOOLEAN : Return(c, value)) \/ GiveUp(c) \/ Forget(c)
    BY <2>6, NoJobType DEF Return, GiveUp, Forget, disk, KdcTypeOK
  <2>7. QED
    BY <2>2, <2>3, <2>4, <2>5, <2>6 DEF Request
<1>5. JobsDone'
  <2> DEFINE j == job[c]
  <2>1. j \in Job /\ JobDone(j)
    BY DEF KdcTypeOK, JobsDone
  <2>2. PICK new : job' = [job EXCEPT ![c] = new] /\ JobDone(new)
    <3>1. JobDone(NoJob) /\ \A status \in {"403", "500"} : JobDone(Error(status))
      BY DEF JobDone, NoJob, Error
    <3>2. CASE Check(c)
      <4> DEFINE listed == IF j.op = "get" /\ j.names = {} THEN princs ELSE j.names
      <4>1. CASE link /\ job' = [job EXCEPT ![c] = [j EXCEPT !.phase = "kadmin",
                                                        !.names = listed, !.left = listed]]
        <5>1. Whole /\ j.did = {}
          BY <3>2, <4>1, <2>1 DEF Check, LocalAfterGlobal, InitializedWhole, JobDone
        <5>2. JobDone([j EXCEPT !.phase = "kadmin", !.names = listed, !.left = listed])
          BY <2>1, <5>1 DEF JobDone, Job
        <5>3. QED
          BY <4>1, <5>2
      <4>2. CASE \E status \in {"403", "500"} : job' = [job EXCEPT ![c] = Error(status)]
        BY <3>1, <4>2
      <4>3. QED
        BY <3>2, <4>1, <4>2 DEF Check, KdcTypeOK
    <3>3. CASE Kadmin(c)
      <4>1. PICK p \in j.left :
               \/ job' = [job EXCEPT ![c] = [j EXCEPT !.left = @ \ {p},
                                                      !.did = @ \cup {p}]]
               \/ \E rest \in {j.left \ {p}, {}} :
                     job' = [job EXCEPT ![c] = [j EXCEPT !.left = rest, !.status = "500"]]
        BY <3>3 DEF Kadmin, KdcTypeOK
      <4>2. j.phase = "kadmin"
        BY <3>3 DEF Kadmin
      <4>3. JobDone([j EXCEPT !.left = @ \ {p}, !.did = @ \cup {p}])
        BY <2>1, <4>2 DEF JobDone, Job
      <4>4. \A rest : JobDone([j EXCEPT !.left = rest, !.status = "500"])
        BY <2>1, <4>2 DEF JobDone, Job
      <4>5. QED
        BY <4>1, <4>3, <4>4
    <3>4. CASE Answer(c)
      <4>1. CASE j.status = "200" /\ (j.names # {} \/ j.op = "get")
        <5>1. job' = [job EXCEPT ![c] = [j EXCEPT !.phase = "reply"]]
          BY <3>4, <4>1 DEF Answer
        <5>2. j.phase = "kadmin" /\ j.left = {}
          BY <3>4 DEF Answer
        <5>3. JobDone([j EXCEPT !.phase = "reply"])
          BY <2>1, <4>1, <5>2 DEF JobDone, Job
        <5>4. QED
          BY <5>1, <5>3
      <4>2. CASE ~(j.status = "200" /\ (j.names # {} \/ j.op = "get"))
        BY <3>1, <3>4, <4>2 DEF Answer
      <4>3. QED
        BY <4>1, <4>2
    <3>5. CASE \E op \in Op, names \in SUBSET Principal : Call(c, op, names)
      <4>1. PICK op \in Op, names \in SUBSET Principal : Call(c, op, names)
        BY <3>5
      <4>2. JobDone([NoJob EXCEPT !.phase = "check", !.op = op, !.names = names])
        BY DEF JobDone, NoJob
      <4>3. QED
        BY <4>1, <4>2 DEF Call
    <3>6. CASE (\E value \in BOOLEAN : Return(c, value)) \/ Forget(c)
      BY <3>1, <3>6 DEF Return, Forget
    <3>7. CASE GiveUp(c)
      BY <2>1, <3>7 DEF GiveUp, KdcTypeOK
    <3>8. QED
      BY <3>2, <3>3, <3>4, <3>5, <3>6, <3>7 DEF Request
  <2>3. \A d \in Caller : JobDone(job'[d])
    BY <2>1, <2>2 DEF JobsDone, KdcTypeOK
  <2>4. QED
    BY <1>2, <2>3 DEF JobsDone, JobDone
<1>6. QED
  BY <1>1, <1>3, <1>4, <1>5 DEF KdcTypeOK, rootfs, boot

LEMMA NextInv == KdcInv /\ [KdcNext]_kvars => KdcInv'
<1> SUFFICES ASSUME KdcInv, [KdcNext]_kvars PROVE KdcInv'
  OBVIOUS
<1>1. CASE KdcStart \/ SetupFails
  BY <1>1, SetupGlobalInv, BootInv DEF KdcStart
<1>2. CASE Stop
  BY <1>2, StopInv
<1>3. CASE \E c \in Caller : Request(c)
  BY <1>3, RequestInv
<1>4. CASE UNCHANGED kvars
  <2>1. Whole <=> Whole'
    BY <1>4 DEF kvars, disk, Whole
  <2>2. JobsDone'
    BY <1>4, <2>1, JobsStay DEF kvars, calls, KdcInv
  <2>3. QED
    BY <1>4, <2>1, <2>2
       DEF kvars, disk, rootfs, boot, calls, KdcInv, KdcTypeOK, InitializedWhole,
           Progress, Setups, LocalAfterGlobal
<1>5. QED
  BY <1>1, <1>2, <1>3, <1>4 DEF KdcNext

THEOREM KdcInvariant == KdcSpec => []KdcInv
BY InitInv, NextInv, PTL DEF KdcSpec

-----------------------------------------------------------------------------
(* What the runs check *)

\* Every reachable state of the container, its volume and its callers is well typed.
THEOREM KdcTypeCorrect == KdcSpec => []KdcTypeOK
BY KdcInvariant, PTL DEF KdcInv

\* The mark "it all as done" is only on a state directory that one set-up finished.
THEOREM MarkMeansDone == KdcSpec => []InitializedWhole
BY KdcInvariant, PTL DEF KdcInv

\* script.kadmin is run at most once, however often the container starts.
THEOREM SetUpOnce == KdcSpec => []RealmSetUpOnce
<1>1. KdcInv => RealmSetUpOnce
  BY DEF KdcInv, Setups, RealmSetUpOnce
<1>2. QED
  BY <1>1, KdcInvariant, PTL

\* A call that returns True is about a realm whose set-up was finished.
THEOREM TrueMeansWhole == KdcSpec => TrueOfWholeRealm
<1>1. KdcInv /\ [KdcNext]_kvars =>
         [\A c \in Caller : Return(c, TRUE) => Whole]_kvars
  BY DEF KdcInv, JobsDone, JobDone, Return
<1>2. QED
  BY <1>1, KdcInvariant, PTL DEF KdcSpec, TrueOfWholeRealm

\* A call returns True only if its own request did its operation on all it names.
THEOREM TrueMeansDone == KdcSpec => KdcTrueOnlyIfDone
<1> DEFINE Did(c) == /\ job[c].did = job[c].names
                     /\ job[c].names # {} \/ job[c].op = "get"
<1>1. KdcInv /\ [KdcNext]_kvars => [\A c \in Caller : Return(c, TRUE) => Did(c)]_kvars
  <2> SUFFICES ASSUME KdcInv, NEW c \in Caller, Return(c, TRUE) PROVE Did(c)
    OBVIOUS
  <2>1. job[c] \in Job /\ JobDone(job[c]) /\ job[c].phase = "reply" /\ job[c].status = "200"
    BY DEF KdcInv, KdcTypeOK, JobsDone, Return
  <2>2. QED
    BY <2>1 DEF JobDone, Job
<1>2. QED
  BY <1>1, KdcInvariant, PTL DEF KdcSpec, KdcTrueOnlyIfDone

-----------------------------------------------------------------------------
(* A first start that nothing disturbs: the safety half of CleanStart.  That  *)
(* what stays possible is done at last is left to the run.                    *)

\* A set-up is under way only when the launcher has started it.
Started ==
    /\ stage = "down" <=> gpc = "off"
    /\ stage \in {"down", "global"} <=> lpc = "off"

\* What is there for it, as long as nothing has been stopped and nothing has failed.
Undisturbed ==
    /\ stage = "down" => dirs = {} /\ ~initialized
    /\ gpc = "etc" => dirs = {}
    /\ gpc = "var" => dirs = {"etc"}
    /\ initialized <=> gpc = "ended"
    /\ localInit <=> lpc = "ended"
    /\ lpc \in {"touch", "ended"} => link
    /\ stage \in {"local", "up"} => initialized
    /\ stage = "up" => localInit

CleanInv == KdcInv /\ Started /\ (stops = 0 => Undisturbed)

\* The API of an undisturbed start is up only when it can serve: sudo's rule is
\* there, and the realm is set up.
ServesWhenUp == stops = 0 /\ stage = "up" => link /\ initialized

\* Until then the launcher or a set-up that it waits for has a step to take: never
\* does it wait for a file that nobody is there to make.
StartMovesOn ==
    stops = 0 =>
       \/ stage = "down"
       \/ stage = "global" /\ initialized
       \/ stage = "local" /\ localInit
       \/ gpc \in Dirs \cup Files \cup {"kadmin", "touch"}
       \/ lpc \in {"guard", "link", "touch"}
       \/ stage = "up"

\* How far they are.
StageAt == CASE stage = "down" -> 0 [] stage = "global" -> 1
             [] stage = "local" -> 2 [] stage = "up" -> 3
GlobalAt == CASE gpc = "off" -> 0 [] gpc = "etc" -> 1 [] gpc = "var" -> 2
              [] gpc = "conf" -> 3 [] gpc = "krb5" -> 4 [] gpc = "sudoers" -> 5
              [] gpc = "script" -> 6 [] gpc = "kadmin" -> 7 [] gpc = "touch" -> 8
              [] gpc = "ended" -> 9
LocalAt == CASE lpc = "off" -> 0 [] lpc = "guard" -> 1 [] lpc = "link" -> 2
             [] lpc = "touch" -> 3 [] lpc = "ended" -> 4
StartAt == StageAt + GlobalAt + LocalAt

\* Their steps bring them further, and no request, stop or failure apart from the
\* next one brings them back.
StartGetsOn ==
    [][/\ KdcStart => StartAt' > StartAt
       /\ stops' = stops => UNCHANGED boot \/ StartAt' > StartAt]_kvars

LEMMA CleanInit == KdcInit => CleanInv
BY InitInv DEF KdcInit, CleanInv, Started, Undisturbed

LEMMA StartedStep == KdcInv /\ Started /\ [KdcNext]_kvars => Started'
<1> SUFFICES ASSUME KdcInv, Started, [KdcNext]_kvars PROVE Started'
  OBVIOUS
<1>1. stage \in {"down", "global", "local", "up"}
  BY DEF KdcInv, KdcTypeOK
<1>2. CASE KdcStart
  <2>1. CASE Start \/ AwaitGlobal \/ AwaitLocal
    BY <2>1 DEF Start, AwaitGlobal, AwaitLocal, Started
  <2>2. CASE SetupLocal
    BY <2>2 DEF SetupLocal, LocalGuard, Link, TouchLocal, Started
  <2>3. CASE SetupGlobal
    BY <2>3 DEF SetupGlobal, Mkdir, WriteFile, RunScript, TouchGlobal, Goto, Started
  <2>4. QED
    BY <1>2, <2>1, <2>2, <2>3 DEF KdcStart
<1>3. CASE SetupFails \/ Stop
  BY <1>3 DEF SetupFails, Stop, Started
<1>4. CASE UNCHANGED boot
  BY <1>4 DEF Started, boot
<1>5. CASE \E c \in Caller : Request(c)
  BY <1>4, <1>5 DEF Request, Check, Kadmin, Answer, Return, GiveUp, Forget, Call, AtService
<1>6. QED
  BY <1>2, <1>3, <1>4, <1>5 DEF KdcNext, kvars

LEMMA CleanStep == CleanInv /\ [KdcNext]_kvars => CleanInv'
<1> SUFFICES ASSUME CleanInv, [KdcNext]_kvars, stops' = 0 PROVE Undisturbed'
  BY NextInv, StartedStep DEF CleanInv
<1>1. stops = 0 /\ Undisturbed /\ Started /\ KdcInv
  <2>1. stops = 0
    <3>1. CASE SetupFails \/ Stop
      BY <3>1 DEF CleanInv, KdcInv, KdcTypeOK, SetupFails, Stop
    <3>2. CASE UNCHANGED stops
      BY <3>2
    <3>3. CASE KdcStart
      BY <3>2, <3>3 DEF KdcStart, Start, AwaitGlobal, AwaitLocal, SetupGlobal, Mkdir,
                        WriteFile, RunScript, TouchGlobal, Goto, SetupLocal, LocalGuard,
                        Link, TouchLocal
    <3>4. CASE \E c \in Caller : Request(c)
      BY <3>2, <3>4 DEF Request, Check, Kadmin, Answer, Return, GiveUp, Forget, Call,
                        AtService
    <3>5. QED
      BY <3>1, <3>2, <3>3, <3>4 DEF KdcNext, kvars
  <2>2. QED
    BY <2>1 DEF CleanInv
<1> USE <1>1
<1>2. CASE Start \/ AwaitGlobal \/ AwaitLocal
  BY <1>2 DEF Start, AwaitGlobal, AwaitLocal, Started, Undisturbed, disk, rootfs
<1>3. CASE SetupLocal
  <2>1. stage \in {"down", "global", "local", "up"}
    BY DEF KdcInv, KdcTypeOK
  <2>2. QED
    <3>1. CASE LocalGuard
      <4>1. initialized /\ ~localInit /\ lpc' = "link"
        BY <2>1, <3>1 DEF LocalGuard, Started, Undisturbed
      <4>2. QED
        BY <3>1, <4>1 DEF LocalGuard, Started, Undisturbed, disk, rootfs
    <3>2. CASE Link \/ TouchLocal
      BY <3>2 DEF Link, TouchLocal, Started, Undisturbed, disk
    <3>3. QED
      BY <1>3, <3>1, <3>2 DEF SetupLocal
<1>4. CASE SetupGlobal
  <2>1. CASE Mkdir("etc", "var") \/ Mkdir("var", "conf")
    BY <2>1 DEF Mkdir, Goto, Started, Undisturbed, rootfs
  <2>2. ASSUME NEW f \in {"conf", "krb5", "sudoers", "script"},
               NEW next \in {"krb5", "sudoers", "script", "touch", "kadmin"},
               WriteFile(f, next)
        PROVE  Undisturbed'
    BY <2>2 DEF WriteFile, Goto, Started, Undisturbed, rootfs
  <2>3. CASE RunScript \/ TouchGlobal
    BY <2>3 DEF RunScript, TouchGlobal, Goto, Started, Undisturbed, rootfs
  <2>4. QED
    BY <1>4, <2>1, <2>2, <2>3 DEF SetupGlobal
<1>5. CASE SetupFails \/ Stop
  BY <1>5 DEF SetupFails, Stop
<1>6. CASE \E c \in Caller : Request(c)
  <2>1. UNCHANGED <<dirs, initialized, rootfs, boot>>
    BY <1>6 DEF Request, Check, Kadmin, Answer, Return, GiveUp, Forget, Call, AtService,
                disk
  <2>2. QED
    BY <2>1 DEF Undisturbed, rootfs, boot
<1>7. CASE UNCHANGED kvars
  BY <1>7 DEF kvars, disk, rootfs, boot, Started, Undisturbed
<1>8. QED
  BY <1>2, <1>3, <1>4, <1>5, <1>6, <1>7 DEF KdcNext, KdcStart

\* An undisturbed start comes to an API that serves, if it comes to one.
THEOREM CleanStartServes == KdcSpec => []ServesWhenUp
<1>1. CleanInv => ServesWhenUp
  BY DEF CleanInv, Undisturbed, ServesWhenUp
<1>2. QED
  BY <1>1, CleanInit, CleanStep, PTL DEF KdcSpec

\* It never waits for what nobody is there to do.
THEOREM CleanStartMovesOn == KdcSpec => []StartMovesOn
<1>1. CleanInv => StartMovesOn
  BY DEF CleanInv, KdcInv, KdcTypeOK, Started, Undisturbed, StartMovesOn
<1>2. QED
  BY <1>1, CleanInit, CleanStep, PTL DEF KdcSpec

LEMMA Nearer ==
    ASSUME NEW s \in 0..3, NEW g \in 0..9, NEW h \in 0..9, NEW l \in 0..4, NEW m \in 0..4
    PROVE  /\ m > l => s + g + m > s + g + l
           /\ h > g => s + h + l > s + g + l
OBVIOUS

\* It does not go in circles: every step of the start, disturbed or not, is one
\* nearer to its end, which is StartAt = 16 at most.
THEOREM StartTerminates == KdcSpec => StartGetsOn
<1>1. ASSUME KdcInv, Started, KdcStart PROVE StartAt' > StartAt
  <2>1. /\ stage \in {"down", "global", "local", "up"}
        /\ lpc \in {"off", "guard", "link", "touch", "ended"}
        /\ gpc \in {"off", "etc", "var", "conf", "krb5", "sudoers", "script", "kadmin",
                    "touch", "ended"}
    BY <1>1, FilesType DEF KdcInv, KdcTypeOK, Dirs
  <2>2. StageAt \in 0..3 /\ GlobalAt \in 0..9 /\ LocalAt \in 0..4
    BY <2>1 DEF StageAt, GlobalAt, LocalAt
  <2>sum. /\ StartAt = StageAt + GlobalAt + LocalAt
        /\ StartAt' = StageAt' + GlobalAt' + LocalAt'
    BY DEF StartAt
  <2>3. CASE Start
    <3>1. StageAt = 0 /\ StageAt' = 1 /\ GlobalAt = 0 /\ GlobalAt' = 1 /\ LocalAt' = LocalAt
      BY <1>1, <2>3 DEF Start, Started, StageAt, GlobalAt, LocalAt
    <3>2. QED
      BY <2>2, <3>1 DEF StartAt
  <2>4. CASE AwaitGlobal
    <3>1. StageAt = 1 /\ StageAt' = 2 /\ LocalAt = 0 /\ LocalAt' = 1 /\ GlobalAt' = GlobalAt
      BY <1>1, <2>4 DEF AwaitGlobal, Started, StageAt, GlobalAt, LocalAt
    <3>2. QED
      BY <2>2, <3>1 DEF StartAt
  <2>5. CASE AwaitLocal
    <3>1. StageAt = 2 /\ StageAt' = 3 /\ LocalAt' = LocalAt /\ GlobalAt' = GlobalAt
      BY <2>5 DEF AwaitLocal, StageAt, GlobalAt, LocalAt
    <3>2. QED
      BY <2>2, <3>1 DEF StartAt
  <2>6. CASE SetupLocal
    <3>1. LocalAt' > LocalAt
      BY <2>6 DEF SetupLocal, LocalGuard, Link, TouchLocal, LocalAt
    <3>2. UNCHANGED <<stage, gpc>>
      BY <2>6 DEF SetupLocal, LocalGuard, Link, TouchLocal
    <3>3. StageAt' = StageAt /\ GlobalAt' = GlobalAt
      BY <3>2 DEF StageAt, GlobalAt
    <3>4. LocalAt' \in 0..4
      BY <2>6 DEF SetupLocal, LocalGuard, Link, TouchLocal, LocalAt
    <3>5. QED
      BY <2>2, <2>sum, <3>1, <3>3, <3>4, Nearer
  <2>7. CASE SetupGlobal
    <3>1. GlobalAt' \in 0..9 /\ GlobalAt' > GlobalAt
      BY <2>7 DEF SetupGlobal, Mkdir, WriteFile, RunScript, TouchGlobal, Goto, GlobalAt
    <3>2. UNCHANGED <<stage, lpc>>
      BY <2>7 DEF SetupGlobal, Mkdir, WriteFile, RunScript, TouchGlobal, Goto
    <3>3. StageAt' = StageAt /\ LocalAt' = LocalAt
      BY <3>2 DEF StageAt, LocalAt
    <3>4. QED
      BY <2>2, <2>sum, <3>1, <3>3, Nearer
  <2>8. QED
    BY <1>1, <2>3, <2>4, <2>5, <2>6, <2>7 DEF KdcStart
<1>2. ASSUME KdcInv, SetupFails \/ Stop PROVE stops' # stops
  BY <1>2 DEF SetupFails, Stop, KdcInv, KdcTypeOK
<1>3. ASSUME NEW c \in Caller, Request(c) PROVE UNCHANGED boot
  BY <1>3 DEF Request, Check, Kadmin, Answer, Return, GiveUp, Forget, Call, AtService
<1>4. CleanInv /\ [KdcNext]_kvars =>
         [/\ KdcStart => StartAt' > StartAt
          /\ stops' = stops => UNCHANGED boot \/ StartAt' > StartAt]_kvars
  BY <1>1, <1>2, <1>3 DEF KdcNext, CleanInv
<1>5. QED
  BY <1>4, CleanInit, CleanStep, PTL DEF KdcSpec, StartGetsOn

-----------------------------------------------------------------------------
(* The service implements the promise of RealmSpec. *)

\* A request does its operation on a principal once, and only on what it names.
JobOnce(j) ==
    j.phase = "kadmin" => j.did \cap j.left = {} /\ j.did \cup j.left \subseteq j.names

PromiseInv == KdcInv /\ \A c \in Caller : JobOnce(job[c])

LEMMA PromiseInit == KdcInit => PromiseInv
BY InitInv DEF KdcInit, PromiseInv, JobOnce, NoJob

LEMMA PromiseStep == PromiseInv /\ [KdcNext]_kvars => PromiseInv'
<1> SUFFICES ASSUME PromiseInv, [KdcNext]_kvars
             PROVE  \A d \in Caller : JobOnce(job[d])'
  BY NextInv DEF PromiseInv
<1>1. CASE UNCHANGED job
  BY <1>1 DEF PromiseInv, JobOnce
<1>2. CASE Stop
  BY <1>2 DEF Stop, JobOnce, NoJob
<1>3. ASSUME NEW c \in Caller, Request(c) PROVE \A d \in Caller : JobOnce(job[d])'
  <2> DEFINE j == job[c]
  <2>1. /\ j \in Job /\ JobOnce(j) /\ job \in [Caller -> Job]
        /\ j.phase = "check" => j.did = {}
    BY DEF PromiseInv, KdcInv, KdcTypeOK, JobsDone, JobDone
  <2>2. CASE UNCHANGED job
    BY <2>2, <1>1
  <2>3. PICK new : (job' = [job EXCEPT ![c] = new] /\ JobOnce(new)) \/ UNCHANGED job
    <3>0. JobOnce(NoJob) /\ \A status \in {"403", "500"} : JobOnce(Error(status))
      BY DEF JobOnce, Error, NoJob
    <3>1. CASE Check(c)
      <4>1. \/ \E names : job' = [job EXCEPT ![c] = [j EXCEPT !.phase = "kadmin",
                                                       !.names = names, !.left = names]]
            \/ \E status \in {"403", "500"} : job' = [job EXCEPT ![c] = Error(status)]
        BY <2>1, <3>1, Zenon DEF Check
      <4>2. ASSUME NEW names
            PROVE  JobOnce([j EXCEPT !.phase = "kadmin", !.names = names, !.left = names])
        <5>1. j.phase = "check" /\ j.did = {}
          BY <2>1, <3>1 DEF Check
        <5>2. QED
          BY <2>1, <5>1 DEF JobOnce, Job
      <4>3. QED
        BY <3>0, <4>1, <4>2
    <3>2. CASE Kadmin(c)
      <4>1. PICK p \in j.left :
               \/ job' = [job EXCEPT ![c] = [j EXCEPT !.left = @ \ {p},
                                                      !.did = @ \cup {p}]]
               \/ \E rest \in {j.left \ {p}, {}} :
                     job' = [job EXCEPT ![c] = [j EXCEPT !.left = rest, !.status = "500"]]
        BY <3>2 DEF Kadmin
      <4>2. j.phase = "kadmin"
        BY <3>2 DEF Kadmin
      <4>3. JobOnce([j EXCEPT !.left = @ \ {p}, !.did = @ \cup {p}])
        BY <2>1, <4>2 DEF JobOnce, Job
      <4>4. \A rest \in {j.left \ {p}, {}} :
               JobOnce([j EXCEPT !.left = rest, !.status = "500"])
        BY <2>1, <4>2 DEF JobOnce, Job
      <4>5. QED
        BY <4>1, <4>3, <4>4
    <3>3. CASE Answer(c)
      <4>1. JobOnce([j EXCEPT !.phase = "reply"])
        BY <2>1 DEF JobOnce, Job
      <4>2. QED
        BY <3>0, <3>3, <4>1 DEF Answer
    <3>4. CASE \E value \in BOOLEAN : Return(c, value)
      BY <3>0, <3>4 DEF Return
    <3>5. CASE Forget(c)
      BY <3>0, <3>5 DEF Forget
    <3>6. CASE GiveUp(c)
      BY <3>6 DEF GiveUp
    <3>7. CASE \E op \in Op, names \in SUBSET Principal : Call(c, op, names)
      <4>1. PICK op \in Op, names \in SUBSET Principal : Call(c, op, names)
        BY <3>7
      <4>2. JobOnce([NoJob EXCEPT !.phase = "check", !.op = op, !.names = names])
        BY DEF JobOnce, NoJob
      <4>3. QED
        BY <4>1, <4>2 DEF Call
    <3>8. QED
      BY <1>3, <3>1, <3>2, <3>3, <3>4, <3>5, <3>6, <3>7 DEF Request
  <2>4. QED
    BY <2>1, <2>2, <2>3 DEF PromiseInv, JobOnce
<1>4. CASE KdcStart \/ SetupFails \/ UNCHANGED kvars
  BY <1>4, <1>1
     DEF KdcStart, Start, AwaitGlobal, AwaitLocal, SetupGlobal, Mkdir, WriteFile, RunScript,
         TouchGlobal, Goto, SetupLocal, LocalGuard, Link, TouchLocal, SetupFails, calls, kvars
<1>5. QED
  BY <1>2, <1>3, <1>4 DEF KdcNext

\* What the tasks come to when one job changes.
Tasks == [c \in Caller |-> TaskOf(job[c])]

LEMMA TaskChanges ==
    ASSUME NEW c \in Caller, job \in [Caller -> Job],
           NEW new, job' = [job EXCEPT ![c] = new]
    PROVE  /\ Tasks[c] = TaskOf(job[c])
           /\ Tasks' = [Tasks EXCEPT ![c] = TaskOf(new)]
           /\ TaskOf(new) = TaskOf(job[c]) => Tasks' = Tasks
           /\ TaskOf(new) = Promised!NoTask =>
                 Tasks' = [d \in Caller |-> IF d \in {c} THEN Promised!NoTask ELSE Tasks[d]]
<1>1. \A d \in Caller : job'[d] = IF d = c THEN new ELSE job[d]
  OBVIOUS
<1>2. Tasks' = [d \in Caller |-> TaskOf(job'[d])]
  BY DEF Tasks
<1>3. Tasks' = [d \in Caller |-> IF d = c THEN TaskOf(new) ELSE TaskOf(job[d])]
  BY <1>1, <1>2, Zenon
<1>4. \A d \in Caller : Tasks[d] = TaskOf(job[d])
  BY DEF Tasks
<1>5. Tasks = [d \in Caller |-> Tasks[d]]
  BY DEF Tasks
<1> HIDE DEF Tasks
<1>6. QED
  BY <1>3, <1>4, <1>5

LEMMA TaskOfPhase ==
    ASSUME NEW j
    PROVE  /\ j.phase = "kadmin" =>
                 TaskOf(j) = [state |-> IF j.status = "200" THEN "open" ELSE "failed",
                              op |-> j.op, names |-> j.names, did |-> j.did]
           /\ j.phase = "reply" /\ j.status = "200" =>
                 TaskOf(j) = [state |-> "sure", op |-> j.op, names |-> j.names, did |-> j.did]
           /\ j.phase \in {"none", "check"} => TaskOf(j) = Promised!NoTask
           /\ j.phase = "reply" /\ j.status # "200" => TaskOf(j) = Promised!NoTask
BY DEF TaskOf, Promised!NoTask

\* The start, a failure and a stop: the realm is opened, or all tasks are lost.
LEMMA BootKeepsPromise ==
    ASSUME PromiseInv, KdcStart \/ SetupFails \/ Stop \/ UNCHANGED kvars
    PROVE  [Promised!Next]_(Promised!promised)
<1>1. CASE Stop
  <2>1. job' = [c \in Caller |-> NoJob] /\ UNCHANGED <<initialized, princs>>
    BY <1>1 DEF Stop, disk
  <2>2. TaskOf(NoJob) = Promised!NoTask
    BY DEF TaskOf, NoJob, Promised!NoTask
  <2>3. Tasks' = [c \in Caller |-> IF c \in Caller THEN Promised!NoTask ELSE Tasks[c]]
    BY <2>1, <2>2 DEF Tasks
  <2>4. Promised!Lose(Caller)
    BY <2>1, <2>3 DEF Promised!Lose, Tasks
  <2>5. QED
    BY <2>4 DEF Promised!Next
<1>2. CASE KdcStart \/ SetupFails \/ UNCHANGED kvars
  <2>1. UNCHANGED <<job, princs>> /\ (initialized => initialized')
    BY <1>2 DEF KdcStart, Start, AwaitGlobal, AwaitLocal, SetupGlobal, Mkdir, WriteFile,
                RunScript, TouchGlobal, Goto, SetupLocal, LocalGuard, Link, TouchLocal,
                SetupFails, calls, disk, kvars
  <2>2. initialized \in BOOLEAN /\ initialized' \in BOOLEAN
    BY <1>2, NextInv DEF PromiseInv, KdcInv, KdcTypeOK, KdcNext
  <2>3. Tasks' = Tasks
    BY <2>1 DEF Tasks
  <2>4. CASE initialized' = initialized
    BY <2>1, <2>3, <2>4 DEF Promised!promised, Tasks
  <2>5. CASE initialized'
    BY <2>1, <2>3, <2>5 DEF Promised!Next, Promised!Open, Tasks
  <2>6. QED
    BY <2>1, <2>2, <2>4, <2>5
<1>3. QED
  BY <1>1, <1>2

\* Each step of a request is one of its task, or none.
LEMMA RequestKeepsPromise ==
    ASSUME PromiseInv, NEW c \in Caller, Request(c)
    PROVE  [Promised!Next]_(Promised!promised)
<1> DEFINE j == job[c]
<1>1. /\ job \in [Caller -> Job] /\ j \in Job /\ JobDone(j) /\ JobOnce(j)
      /\ initialized' = initialized
  BY DEF PromiseInv, KdcInv, KdcTypeOK, JobsDone, Request, Check, Kadmin, Answer, Return,
         GiveUp, Forget, Call, AtService, disk
<1>2. Tasks[c] = TaskOf(j)
  BY DEF Tasks
\* The two ways in which a step is none of the promise's own.
<1>3. ASSUME UNCHANGED <<Tasks, princs>> PROVE UNCHANGED Promised!promised
  BY <1>1, <1>3 DEF Promised!promised, Tasks
<1>4. ASSUME NEW new, job' = [job EXCEPT ![c] = new], TaskOf(new) = Promised!NoTask,
             UNCHANGED princs
      PROVE  Promised!Next
  <2>1. Tasks' = [d \in Caller |-> IF d \in {c} THEN Promised!NoTask ELSE Tasks[d]]
    BY <1>1, <1>4, TaskChanges
  <2>2. Promised!Lose({c})
    BY <1>1, <1>4, <2>1 DEF Promised!Lose, Tasks
  <2>3. QED
    BY <2>2 DEF Promised!Next
<1>5. /\ TaskOf(NoJob) = Promised!NoTask
      /\ \A status \in {"403", "500"} : TaskOf(Error(status)) = Promised!NoTask
  BY DEF TaskOf, NoJob, Error, Promised!NoTask
<1>6. CASE Check(c)
  <2>1. CASE \E status \in {"403", "500"} : job' = [job EXCEPT ![c] = Error(status)]
    BY <1>4, <1>5, <1>6, <2>1 DEF Check
  <2>2. CASE link /\ ~\E status \in {"403", "500"} : job' = [job EXCEPT ![c] = Error(status)]
    <3> DEFINE listed == IF j.op = "get" /\ j.names = {} THEN princs ELSE j.names
               new == [j EXCEPT !.phase = "kadmin", !.names = listed, !.left = listed]
    <3>1. job' = [job EXCEPT ![c] = new] /\ j.phase = "check" /\ UNCHANGED princs
      BY <1>6, <2>2 DEF Check
    <3>2. initialized /\ j.status = "200" /\ j.did = {}
      BY <1>1, <2>2, <3>1 DEF PromiseInv, KdcInv, LocalAfterGlobal, JobDone
    <3>3. /\ new.phase = "kadmin" /\ new.status = "200" /\ new.op = j.op
          /\ new.names = listed /\ new.did = {}
      BY <1>1, <3>2 DEF Job
    <3>4. TaskOf(new) = [state |-> "open", op |-> j.op, did |-> {}, names |-> listed]
      <4> HIDE DEF new
      <4>1. QED
        BY <3>3, TaskOfPhase
    <3>5. Tasks[c].state = "none"
      BY <1>2, <3>1, TaskOfPhase DEF Promised!NoTask
    <3>6. Tasks' = [Tasks EXCEPT ![c] = TaskOf(new)]
      BY <1>1, <3>1, TaskChanges
    <3>7. j.op \in {"add", "del", "get", "ext_keytab"} /\ j.names \in SUBSET Principal
      BY <1>1 DEF Job, Op
    <3>8. Promised!Begin(c, j.op, j.names)
      BY <1>1, <3>1, <3>2, <3>4, <3>5, <3>6 DEF Promised!Begin, Tasks
    <3>9. QED
      BY <3>7, <3>8 DEF Promised!Next
  <2>3. QED
    BY <1>6, <2>1, <2>2 DEF Check
<1>7. CASE Kadmin(c)
  <2>1. PICK p \in j.left :
           \/ /\ Feasible(j.op, p)
              /\ princs' = Effect(j.op, p)
              /\ job' = [job EXCEPT ![c] = [j EXCEPT !.left = @ \ {p}, !.did = @ \cup {p}]]
           \/ /\ \E rest \in {j.left \ {p}, {}} :
                    job' = [job EXCEPT ![c] = [j EXCEPT !.left = rest, !.status = "500"]]
              /\ UNCHANGED princs
    BY <1>7 DEF Kadmin
  <2>2. j.phase = "kadmin"
    BY <1>7 DEF Kadmin
  <2>3. Tasks[c] = [state |-> IF j.status = "200" THEN "open" ELSE "failed",
                    op |-> j.op, names |-> j.names, did |-> j.did]
    BY <1>2, <2>2, TaskOfPhase
  <2>4. CASE /\ Feasible(j.op, p)
             /\ princs' = Effect(j.op, p)
             /\ job' = [job EXCEPT ![c] = [j EXCEPT !.left = @ \ {p}, !.did = @ \cup {p}]]
    <3> DEFINE new == [j EXCEPT !.left = @ \ {p}, !.did = @ \cup {p}]
    <3>1. /\ new.phase = "kadmin" /\ new.status = j.status /\ new.op = j.op
          /\ new.names = j.names /\ new.did = j.did \cup {p}
      BY <1>1, <2>2 DEF Job
    <3>2. Tasks' = [Tasks EXCEPT ![c] = TaskOf(new)]
      BY <1>1, <2>4, TaskChanges
    <3>3. TaskOf(new) = [state |-> IF j.status = "200" THEN "open" ELSE "failed",
                         op |-> j.op, names |-> j.names, did |-> j.did \cup {p}]
      <4> HIDE DEF new
      <4>1. QED
        BY <3>1, TaskOfPhase
    <3>4. Tasks' = [Tasks EXCEPT ![c].did = @ \cup {p}]
      <4>1. TaskOf(new) = [Tasks[c] EXCEPT !.did = @ \cup {p}]
        BY <2>3, <3>3
      <4>2. QED
        BY <3>2, <4>1, Zenon
    <3>5. p \in Principal /\ p \in j.names \ j.did
      BY <1>1, <2>1, <2>2 DEF Job, JobOnce
    <3>6. Promised!Does(j.op, p)
      BY <1>1, <2>4 DEF Promised!Does, Feasible, Effect, Job, Op
    <3>7. Promised!Work(c, p)
      BY <1>1, <2>3, <3>4, <3>5, <3>6 DEF Promised!Work, Tasks
    <3>8. QED
      BY <3>5, <3>7 DEF Promised!Next
  <2>5. ASSUME NEW rest, UNCHANGED princs,
               job' = [job EXCEPT ![c] = [j EXCEPT !.left = rest, !.status = "500"]]
        PROVE  [Promised!Next]_(Promised!promised)
    <3> DEFINE new == [j EXCEPT !.left = rest, !.status = "500"]
    <3>1. /\ new.phase = "kadmin" /\ new.status = "500" /\ new.op = j.op
          /\ new.names = j.names /\ new.did = j.did
      BY <1>1, <2>2 DEF Job
    <3>2. Tasks' = [Tasks EXCEPT ![c] = TaskOf(new)]
      BY <1>1, <2>5, TaskChanges
    <3>3. TaskOf(new) = [state |-> "failed", op |-> j.op, names |-> j.names, did |-> j.did]
      <4> HIDE DEF new
      <4>1. QED
        BY <3>1, TaskOfPhase
    <3>4. CASE j.status = "200"
      <4>1. Tasks[c].state = "open" /\ Tasks' = [Tasks EXCEPT ![c].state = "failed"]
        <5>1. TaskOf(new) = [Tasks[c] EXCEPT !.state = "failed"]
          BY <2>3, <3>3
        <5>2. Tasks' = [Tasks EXCEPT ![c].state = "failed"]
          BY <3>2, <5>1, Zenon
        <5>3. QED
          BY <2>3, <3>4, <5>2
      <4>2. Promised!Fail(c)
        BY <1>1, <2>5, <4>1 DEF Promised!Fail, Tasks
      <4>3. QED
        BY <4>2 DEF Promised!Next
    <3>5. CASE j.status # "200"
      <4>1. TaskOf(new) = TaskOf(j)
        BY <1>2, <2>3, <3>3, <3>5
      <4>2. Tasks' = Tasks
        BY <1>1, <2>5, <4>1, TaskChanges
      <4>3. QED
        BY <1>3, <2>5, <4>2
    <3>6. QED
      BY <3>4, <3>5
  <2>6. QED
    BY <2>1, <2>4, <2>5
<1>8. CASE Answer(c)
  <2> DEFINE success == j.status = "200" /\ (j.names # {} \/ j.op = "get")
  <2>1. j.phase = "kadmin" /\ j.left = {} /\ UNCHANGED princs
    BY <1>8 DEF Answer
  <2>2. CASE ~success
    BY <1>4, <1>5, <1>8, <2>1, <2>2 DEF Answer
  <2>3. CASE success
    <3> DEFINE new == [j EXCEPT !.phase = "reply"]
    <3>1. job' = [job EXCEPT ![c] = new]
      BY <1>8, <2>3 DEF Answer
    <3>2. /\ new.phase = "reply" /\ new.status = "200" /\ new.op = j.op
          /\ new.names = j.names /\ new.did = j.did /\ j.did = j.names
      BY <1>1, <2>1, <2>3 DEF Job, JobDone
    <3>3. TaskOf(new) = [state |-> "sure", op |-> j.op, names |-> j.names, did |-> j.did]
      <4> HIDE DEF new
      <4>1. QED
        BY <3>2, TaskOfPhase
    <3>4. Tasks[c] = [state |-> "open", op |-> j.op, names |-> j.names, did |-> j.did]
      BY <1>2, <2>1, <2>3, TaskOfPhase
    <3>5. Tasks' = [Tasks EXCEPT ![c] = TaskOf(new)]
      BY <1>1, <3>1, TaskChanges
    <3>6. Tasks' = [Tasks EXCEPT ![c].state = "sure"]
      <4>1. TaskOf(new) = [Tasks[c] EXCEPT !.state = "sure"]
        BY <3>3, <3>4
      <4>2. QED
        BY <3>5, <4>1, Zenon
    <3>7. Promised!BeSure(c)
      BY <1>1, <2>1, <2>3, <3>2, <3>4, <3>6 DEF Promised!BeSure, Tasks
    <3>8. QED
      BY <3>7 DEF Promised!Next
  <2>4. QED
    BY <2>2, <2>3
<1>9. CASE (\E value \in BOOLEAN : Return(c, value)) \/ Forget(c)
  BY <1>4, <1>5, <1>9 DEF Return, Forget, disk
<1>10. CASE GiveUp(c)
  BY <1>3, <1>10 DEF GiveUp, disk, Tasks
<1>11. CASE \E op \in Op, names \in SUBSET Principal : Call(c, op, names)
  <2>1. PICK op \in Op, names \in SUBSET Principal : Call(c, op, names)
    BY <1>11
  <2> DEFINE new == [NoJob EXCEPT !.phase = "check", !.op = op, !.names = names]
  <2>2. job' = [job EXCEPT ![c] = new] /\ UNCHANGED princs
    BY <2>1 DEF Call, disk
  <2>3. TaskOf(new) = Promised!NoTask
    <3>1. new.phase = "check"
      BY DEF NoJob
    <3> HIDE DEF new
    <3>2. QED
      BY <3>1, TaskOfPhase
  <2>4. QED
    BY <1>4, <2>2, <2>3
<1>12. QED
  BY <1>6, <1>7, <1>8, <1>9, <1>10, <1>11 DEF Request

\* The KDC service, whose container stops at any step and whose kadmin fails on any
\* principal, implements RealmSpec: what callers may rely on is a realm that opens
\* once, and tasks that are sure only of what they have done on every principal.
THEOREM ServiceKeepsRealmPromise == KdcSpec => KeepsRealmPromise
<1>1. KdcInit => Promised!Init
  BY DEF KdcInit, Promised!Init, TaskOf, NoJob, Promised!NoTask
<1>2. PromiseInv /\ [KdcNext]_kvars => [Promised!Next]_(Promised!promised)
  BY BootKeepsPromise, RequestKeepsPromise DEF KdcNext
<1>3. QED
  BY <1>1, <1>2, PromiseInit, PromiseStep, PTL DEF KdcSpec, KeepsRealmPromise, Promised!Spec

-----------------------------------------------------------------------------
(* The launcher *)

\* What the KDC's start takes the launcher to do is no more than what others may rely
\* on of a launcher (Supervision), and that is what Launcher keeps: LauncherSupervises.
THEOREM StartIsSupervised == KdcSpec => Supervised!Spec
<1>1. KdcInit => Supervised!Init
  BY DEF KdcInit, Supervised!Init
<1>2. ASSUME KdcTypeOK, [KdcNext]_kvars
      PROVE  [Supervised!Next]_Supervised!promised
  <2> USE <1>2 DEF Supervised!promised
  <2>1. CASE UNCHANGED stage
    BY <2>1
  <2>2. CASE Start
    BY <2>2 DEF Start
  <2>3. CASE AwaitGlobal
    <3>1. Supervised!Pass(1) /\ Supervised!SignIsEarned
      BY <2>3 DEF AwaitGlobal, Supervised!Pass, Supervised!SignIsEarned
    <3>2. QED
      BY <3>1 DEF Supervised!Next
  <2>4. CASE AwaitLocal
    <3>1. Supervised!Pass(2) /\ Supervised!SignIsEarned
      BY <2>4 DEF AwaitLocal, Supervised!Pass, Supervised!SignIsEarned
    <3>2. QED
      BY <3>1 DEF Supervised!Next
  <2>5. CASE Stop
    BY <2>5 DEF Stop, Supervised!Remove, Supervised!Next
  <2>6. CASE SetupGlobal \/ SetupLocal \/ SetupFails
    BY <2>1, <2>6 DEF SetupGlobal, Mkdir, WriteFile, RunScript, TouchGlobal, Goto,
                      SetupLocal, LocalGuard, Link, TouchLocal, SetupFails
  <2>7. CASE \E c \in Caller : Request(c)
    BY <2>1, <2>7 DEF Request, Check, Kadmin, Answer, Return, GiveUp, Forget, Call,
                      AtService, boot
  <2>8. CASE UNCHANGED kvars
    BY <2>1, <2>8 DEF kvars, boot
  <2>9. QED
    BY <2>2, <2>3, <2>4, <2>5, <2>6, <2>7, <2>8 DEF KdcNext, KdcStart
<1>3. QED
  BY <1>1, <1>2, KdcTypeCorrect, PTL DEF KdcSpec, Supervised!Spec

=============================================================================
