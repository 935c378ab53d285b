-------------------------- MODULE OrchestratorProofs --------------------------
(***************************************************************************)
(* What a caller may believe of an enrollment that it changes over an        *)
(* unreliable connection, for any hashes and retries; and what a run of the  *)
(* orchestrator has done when it ends, for any hosts, any sequence of runs   *)
(* and of kills, and any number of late requests.                           *)
(***************************************************************************)
EXTENDS Orchestrator, TLAPS

(* Calls *)

\* There is one request or one response of the call that runs, and none without;
\* and a response that will count as a success is of something done.
ApiOK ==
    /\ call \in Call \cup {NoCall}
    /\ sent # NoCall => call # NoCall /\ response = "none" /\ sent = RequestOf(call)
    /\ response # "none" => call # NoCall /\ sent = NoCall
    /\ response = "none" \/ response # SuccessStatus(call.op)
          \/ (call.op = "add" /\ ~call.fresh) \/ done

LEMMA NoCallIs == NoCall \notin Call /\ NoCall \notin HttpRequest
BY ApiAssumption

LEMMA RequestType ==
    ASSUME NEW c \in Call
    PROVE  RequestOf(c) \in HttpRequest /\ RequestOf(c) # NoCall
BY NoCallIs DEF RequestOf, Call, HttpRequest

LEMMA BeginKeepsApi ==
    ASSUME ApiOK, NEW op \in Op, NEW h \in Hash, BeginCall(op, h)
    PROVE  ApiOK' /\ call' # NoCall
<1> DEFINE c == [op |-> op, hash |-> h, left |-> Retries, fresh |-> TRUE]
<1>1. c \in Call
  BY ApiAssumption DEF Call
<1>2. QED
  BY <1>1, NoCallIs DEF ApiOK, BeginCall

LEMMA RetryKeepsCall ==
    ASSUME call \in Call, Retry
    PROVE  \/ call' = NoCall /\ sent' = NoCall /\ result' = "raised"
           \/ /\ call' \in Call /\ call' # NoCall /\ sent' = RequestOf(call)'
              /\ ~call'.fresh /\ call'.op = call.op /\ result' = result
<1>1. CASE call.left = 0 /\ call' = NoCall
  BY <1>1 DEF Retry
<1>2. CASE call.left > 0
  <2> DEFINE c == [call EXCEPT !.left = @ - 1, !.fresh = FALSE]
  <2>1. call.left \in 0..Retries /\ call.left - 1 \in 0..Retries
    BY <1>2, ApiAssumption DEF Call
  <2>2. c \in Call /\ ~c.fresh /\ c.op = call.op
    BY <2>1 DEF Call
  <2>3. QED
    BY <1>2, <2>1, <2>2, NoCallIs DEF Retry, RequestOf
<1>3. QED
  BY <1>1, <1>2 DEF Retry

LEMMA ExchangeKeepsApi ==
    ASSUME ApiOK, Exchange
    PROVE  ApiOK'
<1> USE DEF ApiOK
<1>1. CASE Serve
  <2>1. PICK status \in Status \ {"none"} : Perform(sent, status) /\ response' = status
    BY <1>1 DEF Serve
  <2>2. call \in Call /\ sent = RequestOf(call) /\ sent' = NoCall /\ call' = call
    BY <1>1 DEF Serve
  <2>3. ASSUME status = SuccessStatus(call.op), call.op # "add" \/ call.fresh
        PROVE  done'
    BY <2>1, <2>2, <2>3, NoCallIs
       DEF Perform, Performed, RequestOf, SuccessStatus, Status
  <2>4. QED
    BY <2>1, <2>2, <2>3, NoCallIs
<1>2. CASE ServeLate
  <2>1. UNCHANGED <<call, sent, response>>
    BY <1>2 DEF ServeLate
  <2>2. done' = done \/ \E r, status : done' = (done \/ Performed(r, status))
    BY <1>2, Zenon DEF ServeLate, Perform
  <2>3. done => done'
    BY <2>2, Zenon
  <2>4. QED
    BY <2>1, <2>3 DEF RequestOf
<1>3. CASE RequestLost \/ RequestTimeout \/ ResponseLost
  <2>1. call \in Call /\ Retry /\ response' = "none"
    BY <1>3 DEF RequestLost, RequestTimeout, ResponseLost
  <2>2. QED
    BY <2>1, RetryKeepsCall
<1>4. CASE Receive
  BY <1>4 DEF Receive
<1>5. QED
  BY <1>1, <1>2, <1>3, <1>4 DEF Exchange

LEMMA CallsAreOK == ApiSpec => []ApiOK
<1>1. ApiInit => ApiOK
  BY DEF ApiInit, ApiOK
<1>2. ApiOK /\ [ApiNext]_api => ApiOK'
  <2> SUFFICES ASSUME ApiOK, [ApiNext]_api
               PROVE  ApiOK'
    OBVIOUS
  <2>1. CASE UNCHANGED api
    BY <2>1 DEF api, ApiOK, RequestOf
  <2>2. QED
    BY <2>1, BeginKeepsApi, ExchangeKeepsApi DEF ApiNext
<1>3. QED
  BY <1>1, <1>2, PTL DEF ApiSpec

\* Whatever is lost, late or repeated, and for any number of retries: a call
\* returns True only if the service has performed its operation, on the TPM that
\* it was called with, unless it is an add whose file was read before.
THEOREM TrueOnlyOfWhatIsDone == ApiSpec => TrueOnlyIfDone
<1>1. ApiOK /\ [ApiNext]_api =>
         [Returns("true") /\ (call.op = "add" => call.fresh) => done']_api
  <2> SUFFICES ASSUME ApiOK, ApiNext, Returns("true"), call.op = "add" => call.fresh
               PROVE  done'
    OBVIOUS
  <2>1. CASE Receive
    BY <2>1 DEF Receive, ApiOK, Returns
  <2>2. CASE ~Receive
    <3>1. ~Serve /\ ~ServeLate /\ ~\E op \in Op, h \in Hash : BeginCall(op, h)
      BY DEF Returns, Serve, ServeLate, BeginCall
    <3>2. Retry
      BY <2>2, <3>1 DEF ApiNext, Exchange, RequestLost, RequestTimeout, ResponseLost
    <3>3. QED
      BY <3>2 DEF Retry, Returns
  <2>3. QED
    BY <2>1, <2>2
<1>2. QED
  BY <1>1, CallsAreOK, PTL DEF ApiSpec, TrueOnlyIfDone

-----------------------------------------------------------------------------
(* The end of a call: the safety half of CallsEnd *)

\* A call that runs has its request at the service or its response on the way back,
\* and never both: a step that ends it, or brings it nearer to its end, is possible.
CallUnderWay == call # NoCall => (sent # NoCall <=> response = "none")

\* How many steps of its own a call has at most.
StepsLeft == IF call = NoCall THEN 0
             ELSE 2 * call.left + IF sent # NoCall THEN 2 ELSE 1

\* A call that has begun only gets nearer to its end: no retry, loss, late request
\* or answer gives it back what it has used of requester_loop's budget.
CallGetsOn == [][call # NoCall => UNCHANGED <<call, sent, response>>
                                     \/ StepsLeft' < StepsLeft]_api

LEMMA UnderWayStep == ApiOK /\ CallUnderWay /\ [ApiNext]_api => CallUnderWay'
<1> SUFFICES ASSUME ApiOK, CallUnderWay, [ApiNext]_api, call' # NoCall
             PROVE  sent' # NoCall <=> response' = "none"
  BY DEF CallUnderWay
<1> USE DEF ApiOK, CallUnderWay
<1>1. CASE \E op \in Op, h \in Hash : BeginCall(op, h)
  <2>1. PICK op \in Op, h \in Hash : BeginCall(op, h)
    BY <1>1
  <2>2. [op |-> op, hash |-> h, left |-> Retries, fresh |-> TRUE] \in Call
    BY ApiAssumption DEF Call
  <2>3. QED
    BY <2>1, <2>2, RequestType DEF BeginCall
<1>2. CASE Serve
  BY <1>2 DEF Serve
<1>3. CASE ServeLate
  BY <1>3 DEF ServeLate
<1>4. CASE RequestLost \/ RequestTimeout \/ ResponseLost
  <2>1. call \in Call /\ Retry /\ response' = "none"
    BY <1>4 DEF RequestLost, RequestTimeout, ResponseLost
  <2>2. call' \in Call /\ sent' = RequestOf(call')
    BY <2>1, RetryKeepsCall DEF RequestOf
  <2>3. QED
    BY <2>1, <2>2, RequestType
<1>5. CASE Receive
  BY <1>5 DEF Receive
<1>6. CASE UNCHANGED api
  BY <1>6 DEF api
<1>7. QED
  BY <1>1, <1>2, <1>3, <1>4, <1>5, <1>6 DEF ApiNext, Exchange

\* However the connection fails, a call that runs has a step to take: it is never
\* left without a request and without an answer.
THEOREM CallIsUnderWay == ApiSpec => []CallUnderWay
<1>1. ApiInit => CallUnderWay
  BY DEF ApiInit, CallUnderWay
<1>2. QED
  BY <1>1, UnderWayStep, CallsAreOK, PTL DEF ApiSpec

\* Whatever is lost, late or repeated, each of the steps of a call brings it nearer
\* to its end, by the budget of requester_loop, for any number of retries.
THEOREM CallStepsCount == ApiSpec => CallGetsOn
<1>1. ASSUME ApiOK, CallUnderWay, ApiNext, call # NoCall
      PROVE  UNCHANGED <<call, sent, response>> \/ StepsLeft' < StepsLeft
  <2> USE <1>1 DEF ApiOK, CallUnderWay
  <2>1. call \in Call /\ call.left \in Nat
    BY ApiAssumption DEF Call
  <2>2. CASE Serve
    <3>1. sent # NoCall /\ sent' = NoCall /\ call' = call
      BY <2>2 DEF Serve
    <3>2. StepsLeft = 2 * call.left + 2 /\ StepsLeft' = 2 * call.left + 1
      BY <2>1, <3>1 DEF StepsLeft
    <3>3. QED
      BY <2>1, <3>2
  <2>3. CASE ServeLate
    BY <2>3 DEF ServeLate
  <2>4. CASE Receive
    <3>1. StepsLeft' = 0
      BY <2>4 DEF Receive, StepsLeft
    <3>2. StepsLeft > 0
      BY <2>1 DEF StepsLeft
    <3>3. QED
      BY <3>1, <3>2
  <2>5. CASE RequestLost \/ RequestTimeout \/ ResponseLost
    <3>1. Retry
      BY <2>5 DEF RequestLost, RequestTimeout, ResponseLost
    <3>2. CASE call' = NoCall
      <4>1. StepsLeft' = 0
        BY <3>2 DEF StepsLeft
      <4>2. StepsLeft > 0
        BY <2>1 DEF StepsLeft
      <4>3. QED
        BY <4>1, <4>2
    <3>3. CASE call' # NoCall
      <4>1. call.left > 0 /\ call' = [call EXCEPT !.left = @ - 1, !.fresh = FALSE]
        BY <3>1, <3>3 DEF Retry
      <4>2. call'.left = call.left - 1
        BY <2>1, <4>1 DEF Call
      <4>3. StepsLeft' \in {2 * (call.left - 1) + 1, 2 * (call.left - 1) + 2}
        BY <3>3, <4>2 DEF StepsLeft
      <4>4. StepsLeft \in {2 * call.left + 1, 2 * call.left + 2}
        BY DEF StepsLeft
      <4>5. StepsLeft' < StepsLeft
        BY <2>1, <4>1, <4>3, <4>4
      <4>6. QED
        BY <4>5
    <3>4. QED
      BY <3>2, <3>3
  <2>6. CASE \E op \in Op, h \in Hash : BeginCall(op, h)
    BY <2>6 DEF BeginCall
  <2>7. QED
    BY <2>2, <2>3, <2>4, <2>5, <2>6 DEF ApiNext, Exchange
<1>2. ApiOK /\ CallUnderWay /\ [ApiNext]_api =>
         [call # NoCall => UNCHANGED <<call, sent, response>>
                              \/ StepsLeft' < StepsLeft]_api
  BY <1>1
<1>3. QED
  BY <1>2, CallsAreOK, CallIsUnderWay, PTL DEF ApiSpec, CallGetsOn

-----------------------------------------------------------------------------
(* Runs *)

\* Each label belongs to a stage, and a stage is only entered if the flags ask for it.
PlacesOK ==
    /\ pc \in Label /\ stage \in 0..4
    /\ pc \in {"idle", "init"} => stage = 0
    /\ pc \in {"exist", "query"} => stage \in {0, 1}
    /\ pc \in {"create", "setup", "move"} => stage = 1
    /\ pc \in {"delete", "rmtree"} => stage = 2
    /\ pc \in {"enroll", "adding"} => stage = 3
    /\ pc \in {"unenroll", "deleting"} => stage = 4
    /\ stage # 0 => Stages[stage] \in flags

LegalFlags ==
    /\ ~({"create", "delete"} \subseteq flags)
    /\ ~({"enroll", "unenroll"} \subseteq flags)

DiskOK ==
    /\ disk \in [Host -> Disk]
    /\ \A h \in Host : disk[h].tpm \in HasEkpub <=> disk[h].ek # NoHash
    /\ pc = "move" => disk[host].tempek \in Hash

\* The hosts of the run: visited, visited now, and still to be visited.
HostsOK ==
    /\ host \in Host \cup {NoHost} /\ queue \subseteq Host
    /\ pc = "idle" => host = NoHost /\ queue = {}
    /\ pc # "idle" => /\ queue \subseteq DOMAIN before /\ DOMAIN before \subseteq Host
                      /\ host \in DOMAIN before \ queue

MemoryOK ==
    /\ {exists, belief, clean} \subseteq BOOLEAN
    /\ ekpubhash \in Hash \cup {NoHash}
    /\ unused \subseteq Hash

\* The tool waits while a call runs, and never retries it.
CallsOK ==
    /\ call # NoCall => call.fresh /\ pc \in {"query", "adding", "deleting"}
    /\ enrolled \subseteq Hash \cup {EmptyHash}
    /\ sent # NoCall => sent \in HttpRequest
    /\ BagToSet(late) \subseteq HttpRequest
    /\ listed \in BOOLEAN

\* The hosts still to be visited are as the run has found them.
Waiting(h) == disk[h].tpm \in {"none", "whole"} /\ disk[h].ek = before[h]

\* The host that is visited: what the tool remembers of its directory is so.
VisitOK ==
    /\ pc = "init" => Waiting(host)
    /\ pc \notin {"init", "rmtree"} =>
          disk[host].tpm \in {"none", "whole"} /\ (exists <=> disk[host].tpm = "whole")
    /\ pc \in {"setup", "move"} => ~exists
    /\ pc \in {"exist", "query", "rmtree", "adding", "deleting"} => exists
    /\ pc = "exist" \/ (stage \in {0, 1} /\ pc # "init" /\ ~exists) => ekpubhash = NoHash
    /\ "assume" \in flags /\ pc # "init" => ekpubhash = NoHash
    /\ "assume" \notin flags /\ exists /\ pc \notin {"init", "exist", "rmtree"} =>
          ekpubhash = disk[host].ek

\* The call that the tool waits for, from its request to its result.
QueryOK ==
    pc = "query" =>
        /\ "assume" \notin flags
        /\ call # NoCall => call.op = "query" /\ call.hash = ekpubhash
        /\ response # "none" => response = "200"
        /\ call = NoCall => result = "true"
        /\ response # "none" \/ call = NoCall => (listed <=> ekpubhash \in enrolled)

AddOK ==
    pc = "adding" =>
        /\ call # NoCall => call.op = "add" /\ call.hash = disk[host].ek
        /\ response = "201" \/ (call = NoCall /\ result = "true") =>
              disk[host].ek \in enrolled
        /\ "assume" \notin flags =>
              /\ sent # NoCall => disk[host].ek \notin enrolled
              /\ response # "none" => response = "201"
              /\ call = NoCall => result = "true"

DeleteOK ==
    pc = "deleting" =>
        /\ "assume" \notin flags
        /\ call # NoCall => call.op = "delete" /\ call.hash = ekpubhash
        /\ response = "200" \/ (call = NoCall /\ result = "true") =>
              ekpubhash \notin enrolled

Visited == DOMAIN before \ (queue \cup {host})

CreatesAndEnrolls == {"create", "enroll"} \subseteq flags /\ "assume" \notin flags
UnenrollsOnly == "unenroll" \in flags /\ "delete" \notin flags

\* What the run has done so far.
SoFarOK ==
    /\ CreatesAndEnrolls =>
          \A h \in Visited : disk[h].tpm = "whole" /\ disk[h].ek \in enrolled
    /\ UnenrollsOnly => \A h \in Visited : before[h] \notin enrolled

\* While nothing outside of the tool fails.
CleanOK ==
    clean =>
        /\ CreatesAndEnrolls => outcome # "raised"
        /\ pc # "idle" \/ outcome = "ok" => SoFarOK
        /\ pc # "idle" =>
              /\ \A h \in queue : Waiting(h)
              /\ VisitOK /\ QueryOK /\ AddOK /\ DeleteOK
              /\ BeliefHolds
              /\ CreatesAndEnrolls /\ pc = "enroll" => exists
              /\ UnenrollsOnly => before[host] \in {NoHash, disk[host].ek}

OrchestratorInv ==
    /\ ApiOK /\ PlacesOK /\ LegalFlags /\ DiskOK /\ HostsOK /\ MemoryOK /\ CallsOK
    /\ CleanOK

-----------------------------------------------------------------------------
(* Where a step of the tool takes the run *)

\* The cases of Proceed: the first stage that is left, a host, the end.
LEMMA ProceedIs ==
    ASSUME PlacesOK, Proceed
    PROVE  \/ \E k \in stage + 1 .. 4 :
                 /\ Stages[k] \in flags /\ \A j \in stage + 1 .. k - 1 : Stages[j] \notin flags
                 /\ stage' = k /\ pc' = Stages[k]
                 /\ UNCHANGED <<queue, host, outcome>>
           \/ /\ \A k \in stage + 1 .. 4 : Stages[k] \notin flags
              /\ stage' = 0
              /\ \/ /\ pc' = "init" /\ host' \in queue /\ queue' = queue \ {host'}
                    /\ outcome' = outcome
                 \/ /\ pc' = "idle" /\ queue = {} /\ queue' = {} /\ host' = NoHost
                    /\ outcome' = "ok"
<1> DEFINE later == {k \in stage + 1 .. 4 : Stages[k] \in flags}
           first == CHOOSE k \in later : \A j \in later : k <= j
<1>1. CASE later # {}
  <2>1. \E k \in later : \A j \in later : k <= j
    <3>1. \A k \in later : k \in {1, 2, 3, 4}
      BY DEF PlacesOK
    <3>2. QED
      BY <1>1, <3>1
  <2>2. first \in later /\ \A j \in later : first <= j
    BY <2>1
  <2>3. stage' = first /\ pc' = Stages[first] /\ UNCHANGED <<queue, host, outcome>>
    BY <1>1 DEF Proceed
  <2>4. \A j \in stage + 1 .. first - 1 : Stages[j] \notin flags
    BY <2>2 DEF PlacesOK
  <2>5. QED
    BY <2>2, <2>3, <2>4
<1>2. CASE later = {}
  BY <1>2 DEF Proceed
<1>3. QED
  BY <1>1, <1>2

LEMMA ProceedKeepsControl ==
    ASSUME PlacesOK, LegalFlags, HostsOK, pc # "idle", Proceed, UNCHANGED <<flags, before>>
    PROVE  /\ PlacesOK' /\ LegalFlags' /\ HostsOK'
           /\ pc' \in {"create", "delete", "enroll", "unenroll", "init", "idle"}
<1>1. CASE stage' # 0
  <2>1. PICK k \in stage + 1 .. 4 : Stages[k] \in flags /\ stage' = k /\ pc' = Stages[k]
                                    /\ UNCHANGED <<queue, host>>
    BY <1>1, ProceedIs
  <2>2. k \in {1, 2, 3, 4}
    BY DEF PlacesOK
  <2>3. PlacesOK' /\ pc' \in {"create", "delete", "enroll", "unenroll"}
    BY <2>1, <2>2 DEF PlacesOK, Stages, Label
  <2>4. QED
    BY <2>1, <2>3 DEF LegalFlags, HostsOK
<1>2. CASE stage' = 0
  <2>1. pc' \in {"init", "idle"}
    BY <1>2, ProceedIs DEF PlacesOK
  <2>2. PlacesOK' /\ LegalFlags'
    BY <1>2, <2>1 DEF PlacesOK, LegalFlags, Label
  <2>3. HostsOK'
    BY <1>2, ProceedIs, OrchestratorAssumption DEF PlacesOK, HostsOK
  <2>4. QED
    BY <2>1, <2>2, <2>3
<1>3. QED
  BY <1>1, <1>2

LEMMA StopKeepsControl ==
    ASSUME PlacesOK, LegalFlags, NEW how, Stop(how), flags' = flags
    PROVE  PlacesOK' /\ LegalFlags' /\ HostsOK' /\ pc' = "idle" /\ outcome' = how
BY DEF Stop, PlacesOK, LegalFlags, HostsOK, Label

\* What a stage leaves for the next one, and the last stage for the next host: with
\* the host's directory and the tool's memory as they are after the step.
StageDone ==
    /\ disk'[host].tpm \in {"none", "whole"} /\ (exists' <=> disk'[host].tpm = "whole")
    /\ stage = 0 /\ ~exists' => ekpubhash' = NoHash
    /\ "assume" \in flags => ekpubhash' = NoHash
    /\ "assume" \notin flags /\ exists' => ekpubhash' = disk'[host].ek
    /\ exists' /\ ekpubhash' # NoHash => (belief' <=> ekpubhash' \in enrolled')
    /\ CreatesAndEnrolls =>
          /\ stage # 0 => exists'
          /\ stage = 3 => disk'[host].ek \in enrolled'
    /\ UnenrollsOnly =>
          /\ before[host] \in {NoHash, disk'[host].ek}
          /\ stage = 4 => before[host] \notin enrolled'

\* And what no step of the tool changes for the other hosts.
OthersKept ==
    /\ \A h \in Host \ {host} : disk'[h] = disk[h]
    /\ UNCHANGED <<enrolled, flags, before>>

LEMMA ProceedKeepsClean ==
    ASSUME PlacesOK, LegalFlags, HostsOK, CleanOK, pc # "idle", clean,
           Proceed, StageDone, OthersKept
    PROVE  CleanOK'
<1> USE DEF OthersKept
<1>1. \A h \in queue' : Waiting(h)'
  <2>1. \A h \in queue : Waiting(h)' /\ h \in Host \ {host}
    BY DEF CleanOK, Waiting, HostsOK
  <2>2. queue' \subseteq queue
    BY ProceedIs
  <2>3. QED
    BY <2>1, <2>2
<1>2. SoFarOK /\ \A h \in Visited : h \in Host \ {host}
  BY DEF CleanOK, Visited, HostsOK
<1>3. CASE stage' # 0
  <2>1. PICK k \in stage + 1 .. 4 :
               /\ Stages[k] \in flags /\ \A j \in stage + 1 .. k - 1 : Stages[j] \notin flags
               /\ stage' = k /\ pc' = Stages[k] /\ UNCHANGED <<queue, host, outcome>>
    BY <1>3, ProceedIs
  <2>2. k \in {1, 2, 3, 4} /\ stage \in {0, 1, 2, 3} /\ pc' \in {"create", "delete", "enroll", "unenroll"}
        /\ (pc' = "enroll" => k = 3) /\ (k = 1 => stage = 0)
    BY <2>1 DEF PlacesOK, Stages
  <2>3. VisitOK'
    BY <2>1, <2>2 DEF VisitOK, StageDone, PlacesOK
  <2>4. QueryOK' /\ AddOK' /\ DeleteOK' /\ BeliefHolds'
    BY <2>1, <2>2 DEF QueryOK, AddOK, DeleteOK, BeliefHolds, StageDone
  <2>5. CreatesAndEnrolls' /\ pc' = "enroll" => exists'
    <3>1. SUFFICES ASSUME CreatesAndEnrolls, k = 3
                   PROVE  exists'
      BY <2>2 DEF CreatesAndEnrolls
    <3>2. stage # 0
      BY <2>1, <3>1 DEF CreatesAndEnrolls, Stages
    <3>3. QED
      BY <3>1, <3>2 DEF StageDone
  <2>6. SoFarOK'
    BY <1>2, <2>1 DEF SoFarOK, Visited, CreatesAndEnrolls, UnenrollsOnly
  <2>7. UnenrollsOnly' => before'[host'] \in {NoHash, disk'[host'].ek}
    BY <2>1 DEF StageDone, UnenrollsOnly
  <2>8. CreatesAndEnrolls' => outcome' # "raised"
    BY <2>1 DEF CleanOK, CreatesAndEnrolls
  <2>9. QED
    BY <1>1, <2>3, <2>4, <2>5, <2>6, <2>7, <2>8 DEF CleanOK
<1>4. CASE stage' = 0
  <2>1. /\ \A k \in stage + 1 .. 4 : Stages[k] \notin flags
        /\ \/ /\ pc' = "init" /\ host' \in queue /\ queue' = queue \ {host'}
              /\ outcome' = outcome
           \/ /\ pc' = "idle" /\ queue = {} /\ queue' = {} /\ host' = NoHost
              /\ outcome' = "ok"
    BY <1>4, ProceedIs DEF PlacesOK
  <2>2. Visited' \subseteq Visited \cup {host}
    BY <2>1 DEF Visited, HostsOK
  <2>3. ASSUME CreatesAndEnrolls
        PROVE  disk'[host].tpm = "whole" /\ disk'[host].ek \in enrolled'
    <3>1. stage = 3
      BY <2>1, <2>3 DEF CreatesAndEnrolls, PlacesOK, LegalFlags, Stages
    <3>2. QED
      BY <2>3, <3>1 DEF StageDone
  <2>4. ASSUME UnenrollsOnly
        PROVE  before[host] \notin enrolled'
    <3>1. stage = 4
      BY <2>1, <2>4 DEF UnenrollsOnly, PlacesOK, Stages
    <3>2. QED
      BY <2>4, <3>1 DEF StageDone
  <2>5. SoFarOK'
    BY <1>2, <2>2, <2>3, <2>4 DEF SoFarOK, CreatesAndEnrolls, UnenrollsOnly
  <2>6. CreatesAndEnrolls' => outcome' # "raised"
    BY <2>1 DEF CleanOK, CreatesAndEnrolls
  <2>7. CASE pc' = "idle"
    BY <2>5, <2>6, <2>7 DEF CleanOK
  <2>8. CASE pc' = "init" /\ host' \in queue
    <3>1. Waiting(host)' /\ QueryOK' /\ AddOK' /\ DeleteOK' /\ BeliefHolds'
      <4>1. PICK h \in queue : host' = h
        BY <2>8
      <4>2. Waiting(h) /\ h \in Host \ {host}
        BY DEF CleanOK, HostsOK
      <4>3. disk'[h] = disk[h] /\ before' = before
        BY <4>2
      <4>4. QED
        BY <2>8, <4>1, <4>2, <4>3 DEF Waiting, QueryOK, AddOK, DeleteOK, BeliefHolds
    <3>2. VisitOK'
      BY <2>8, <3>1 DEF VisitOK
    <3>3. before'[host'] \in {NoHash, disk'[host'].ek}
      BY <3>1 DEF Waiting
    <3>4. QED
      BY <1>1, <2>5, <2>6, <2>8, <3>1, <3>2, <3>3 DEF CleanOK
  <2>9. QED
    BY <2>1, <2>7, <2>8
<1>5. QED
  BY <1>3, <1>4

\* An exception ends a run that nothing has disturbed only if it is not one that
\* creates and enrolls.
LEMMA StopKeepsClean ==
    ASSUME NEW how \in {"raised", "killed"}, Stop(how), UNCHANGED <<clean, flags>>,
           clean /\ CreatesAndEnrolls => how # "raised"
    PROVE  CleanOK'
BY DEF Stop, CleanOK, CreatesAndEnrolls

-----------------------------------------------------------------------------
(* Each step of the tool *)

WaitLabels == {"query", "adding", "deleting"}

LEMMA NoCallKept ==
    ASSUME ApiOK, CallsOK, UNCHANGED api, pc \notin WaitLabels \/ call = NoCall
    PROVE  ApiOK' /\ CallsOK' /\ call = NoCall
BY DEF ApiOK, CallsOK, api, WaitLabels, RequestOf

LEMMA BeginKept ==
    ASSUME ApiOK, CallsOK, NEW op \in Op, NEW h \in Hash, BeginCall(op, h), pc' \in WaitLabels
    PROVE  /\ ApiOK' /\ CallsOK'
           /\ call' # NoCall /\ call'.op = op /\ call'.hash = h /\ call'.fresh
           /\ response' = "none" /\ enrolled' = enrolled
<1>1. ApiOK' /\ call' # NoCall
  BY BeginKeepsApi
<1>2. sent' \in HttpRequest
  BY <1>1, RequestType DEF ApiOK, BeginCall
<1>3. call'.op = op /\ call'.hash = h /\ call'.fresh
  BY DEF BeginCall
<1>4. UNCHANGED <<enrolled, listed, late>>
  BY DEF BeginCall
<1>5. response' = "none"
  BY <1>1, NoCallIs DEF ApiOK, BeginCall
<1>6. CallsOK'
  BY <1>1, <1>2, <1>3, <1>4 DEF CallsOK, WaitLabels
<1>7. QED
  BY <1>1, <1>3, <1>4, <1>5, <1>6

\* The parts of the invariant that no step of the tool but MoveTemp, Setup and
\* RmTree can disturb.
LEMMA DiskKept ==
    ASSUME DiskOK, disk' = disk, pc' # "move"
    PROVE  DiskOK'
BY DEF DiskOK

LEMMA HostInRun ==
    ASSUME HostsOK, pc # "idle"
    PROVE  host \in Host
BY DEF HostsOK

LEMMA RunKeepsInv ==
    ASSUME OrchestratorInv, NEW F \in Flags, NEW hosts \in SUBSET Host, Run(F, hosts)
    PROVE  OrchestratorInv'
<1> USE DEF OrchestratorInv
<1>1. /\ pc = "idle" /\ host' \in hosts /\ queue' = hosts \ {host'}
      /\ pc' = "init" /\ stage' = 0 /\ flags' = F /\ outcome' = "none"
      /\ before' = [h \in hosts |-> disk[h].ek]
      /\ UNCHANGED <<api, disk, exists, belief, ekpubhash, unused>>
      /\ clean' = (/\ late = EmptyBag
                   /\ \A h \in hosts : /\ disk[h].tpm \in {"none", "whole"}
                                       /\ disk[h].temp = "none")
  BY DEF Run
<1>2. PlacesOK' /\ LegalFlags'
  BY <1>1, OrchestratorAssumption DEF PlacesOK, LegalFlags, Label, Flag
<1>3. HostsOK' /\ DiskOK' /\ MemoryOK'
  BY <1>1 DEF HostsOK, DiskOK, MemoryOK
<1>4. ApiOK' /\ CallsOK'
  BY <1>1, NoCallKept DEF WaitLabels
<1>5. CleanOK'
  <2> SUFFICES ASSUME clean'
               PROVE  CleanOK'
    BY DEF CleanOK
  <2>1. \A h \in hosts : Waiting(h)'
    BY <1>1 DEF Waiting
  <2>2. VisitOK' /\ QueryOK' /\ AddOK' /\ DeleteOK' /\ BeliefHolds'
    BY <1>1, <2>1 DEF VisitOK, QueryOK, AddOK, DeleteOK, BeliefHolds
  <2>3. SoFarOK'
    BY <1>1 DEF SoFarOK, Visited
  <2>4. before'[host'] = disk'[host'].ek
    BY <1>1
  <2>5. QED
    BY <1>1, <2>1, <2>2, <2>3, <2>4 DEF CleanOK
<1>6. QED
  BY <1>2, <1>3, <1>4, <1>5

LEMMA NewKeepsInv ==
    ASSUME OrchestratorInv, New
    PROVE  OrchestratorInv'
<1> USE DEF OrchestratorInv
<1>1. /\ pc = "init" /\ stage = 0 /\ host \in Host
      /\ belief' = FALSE /\ ekpubhash' = NoHash
      /\ UNCHANGED <<api, disk, flags, unused, clean, before>>
      /\ (exists' /\ Goto("exist")) \/ (~exists' /\ Proceed)
  BY HostInRun DEF New, PlacesOK
<1>2. exists' \in BOOLEAN /\ (exists' <=> disk[host].tpm \in HasEkpub)
  <2>1. exists' = (disk[host].tpm \in HasEkpub)
    BY DEF New
  <2>2. exists' \in BOOLEAN
    BY <2>1
  <2>3. exists' <=> disk[host].tpm \in HasEkpub
    BY <2>1
  <2>4. QED
    BY <2>2, <2>3
<1>3. ApiOK' /\ CallsOK' /\ call = NoCall
  BY <1>1, NoCallKept DEF WaitLabels
<1>4. MemoryOK'
  BY <1>1, <1>2, OrchestratorAssumption DEF MemoryOK
<1>5. CASE exists' /\ Goto("exist")
  <2>1. pc' = "exist" /\ UNCHANGED <<stage, queue, host, outcome>>
    BY <1>5 DEF Goto
  <2>2. PlacesOK' /\ LegalFlags' /\ HostsOK' /\ DiskOK'
    BY <1>1, <2>1, DiskKept DEF PlacesOK, LegalFlags, HostsOK, Label
  <2>3. ASSUME clean'
        PROVE  CleanOK'
    <3>1. Waiting(host) /\ \A h \in queue : Waiting(h)'
      BY <1>1, <2>1, <2>3 DEF CleanOK, VisitOK, Waiting
    <3>2. VisitOK' /\ QueryOK' /\ AddOK' /\ DeleteOK' /\ BeliefHolds'
      BY <1>1, <1>2, <1>5, <2>1, <3>1
         DEF VisitOK, QueryOK, AddOK, DeleteOK, BeliefHolds, Waiting, HasEkpub
    <3>3. SoFarOK' /\ (CreatesAndEnrolls' => outcome' # "raised")
      BY <1>1, <1>3, <2>1, <2>3
         DEF CleanOK, SoFarOK, Visited, CreatesAndEnrolls, UnenrollsOnly, api
    <3>4. before'[host'] = disk'[host'].ek
      BY <1>1, <2>1, <3>1 DEF Waiting
    <3>5. QED
      BY <2>1, <2>3, <3>1, <3>2, <3>3, <3>4 DEF CleanOK
  <2>4. QED
    BY <1>3, <1>4, <2>2, <2>3 DEF CleanOK
<1>6. CASE ~exists' /\ Proceed
  <2>1. PlacesOK' /\ LegalFlags' /\ HostsOK' /\ DiskOK'
    BY <1>1, <1>6, ProceedKeepsControl, DiskKept
  <2>2. ASSUME clean
        PROVE  StageDone /\ OthersKept
    <3>1. Waiting(host)
      BY <1>1, <2>2 DEF CleanOK, VisitOK
    <3>2. QED
      BY <1>1, <1>2, <1>6, <3>1 DEF StageDone, OthersKept, Waiting, HasEkpub, api
  <2>3. CleanOK'
    BY <1>1, <1>6, <2>2, ProceedKeepsClean DEF CleanOK
  <2>4. QED
    BY <1>3, <1>4, <2>1, <2>3
<1>7. QED
  BY <1>1, <1>5, <1>6

\* A step that neither leaves the stage nor touches what earlier hosts and later
\* ones are known by: only what is true of the host of the run is left to show.
LEMMA GotoKeepsClean ==
    ASSUME HostsOK, CleanOK, clean, pc # "idle", pc' # "idle",
           UNCHANGED <<queue, host, outcome, flags, before>>,
           \A h \in Host \ {host} : disk'[h] = disk[h],
           enrolled' = enrolled,
           UnenrollsOnly => before[host] = NoHash \/ disk'[host].ek = disk[host].ek,
           VisitOK', QueryOK', AddOK', DeleteOK', BeliefHolds', pc' # "enroll"
    PROVE  CleanOK'
<1>1. \A h \in queue' : Waiting(h)'
  BY DEF CleanOK, Waiting, HostsOK
<1>2. SoFarOK'
  BY DEF CleanOK, SoFarOK, Visited, HostsOK, CreatesAndEnrolls, UnenrollsOnly
<1>3. UnenrollsOnly' => before'[host'] \in {NoHash, disk'[host'].ek}
  BY DEF CleanOK, UnenrollsOnly
<1>4. QED
  BY <1>1, <1>2, <1>3 DEF CleanOK, CreatesAndEnrolls

LEMMA PostExistKeepsInv ==
    ASSUME OrchestratorInv, PostExist
    PROVE  OrchestratorInv'
<1> USE DEF OrchestratorInv
<1>1. /\ pc = "exist" /\ stage \in {0, 1} /\ host \in Host
      /\ UNCHANGED <<disk, flags, exists, unused, clean, before>>
  BY HostInRun DEF PostExist, PlacesOK
<1>2. ASSUME clean
      PROVE  exists /\ disk[host].tpm = "whole" /\ ekpubhash = NoHash /\ disk[host].ek # NoHash
             /\ (UnenrollsOnly => before[host] \in {NoHash, disk[host].ek})
  BY <1>1, <1>2 DEF CleanOK, VisitOK, DiskOK, HasEkpub
<1>3. CASE /\ "assume" \in flags /\ belief' = ("unenroll" \in flags) /\ Proceed
           /\ UNCHANGED <<api, ekpubhash>>
  <2>1. ApiOK' /\ CallsOK'
    BY <1>1, <1>3, NoCallKept DEF WaitLabels
  <2>2. PlacesOK' /\ LegalFlags' /\ HostsOK' /\ DiskOK'
    BY <1>1, <1>3, ProceedKeepsControl, DiskKept
  <2>3. MemoryOK'
    <3>1. belief' \in BOOLEAN
      BY <1>3
    <3>2. QED
      BY <1>1, <1>3, <3>1 DEF MemoryOK
  <2>4. ASSUME clean
        PROVE  StageDone /\ OthersKept
    BY <1>1, <1>2, <1>3, <2>4 DEF StageDone, OthersKept, api, CreatesAndEnrolls
  <2>5. CleanOK'
    BY <1>1, <1>3, <2>4, ProceedKeepsClean DEF CleanOK
  <2>6. QED
    BY <2>1, <2>2, <2>3, <2>5
<1>4. CASE /\ "assume" \notin flags /\ disk[host].tpm \in HasEkpub
           /\ ekpubhash' = disk[host].ek
           /\ BeginCall("query", disk[host].ek) /\ Goto("query")
           /\ UNCHANGED belief
  <2>1. disk[host].ek \in Hash
    BY <1>1, <1>4 DEF DiskOK, Disk
  <2>2. pc' = "query" /\ UNCHANGED <<stage, queue, host, outcome>>
    BY <1>4 DEF Goto
  <2>3. PlacesOK' /\ LegalFlags' /\ HostsOK' /\ DiskOK' /\ MemoryOK'
    BY <1>1, <1>4, <2>1, <2>2, DiskKept DEF PlacesOK, LegalFlags, HostsOK, MemoryOK, Label
  <2>4. /\ ApiOK' /\ CallsOK' /\ call' # NoCall
        /\ call'.op = "query" /\ call'.hash = disk[host].ek
        /\ response' = "none" /\ enrolled' = enrolled
    BY <1>4, <2>1, <2>2, BeginKept DEF Op, WaitLabels
  <2>5. ASSUME clean
        PROVE  CleanOK'
    <3>1. VisitOK' /\ QueryOK' /\ AddOK' /\ DeleteOK' /\ BeliefHolds'
      BY <1>1, <1>2, <1>4, <2>2, <2>4, <2>5
         DEF VisitOK, QueryOK, AddOK, DeleteOK, BeliefHolds
    <3>2. QED
      BY <1>1, <2>2, <2>4, <2>5, <3>1, GotoKeepsClean
  <2>6. QED
    BY <1>1, <2>3, <2>4, <2>5 DEF CleanOK
<1>5. CASE /\ disk[host].tpm \notin HasEkpub /\ Stop("raised")
           /\ UNCHANGED <<api, belief, ekpubhash>>
  <2>1. ~clean
    BY <1>2, <1>5 DEF HasEkpub
  <2>2. QED
    BY <1>1, <1>5, <2>1, NoCallKept, StopKeepsControl, DiskKept
       DEF CleanOK, MemoryOK, WaitLabels
<1>6. QED
  BY <1>3, <1>4, <1>5 DEF PostExist

LEMMA QueriedKeepsInv ==
    ASSUME OrchestratorInv, Queried
    PROVE  OrchestratorInv'
<1> USE DEF OrchestratorInv
<1>1. /\ pc = "query" /\ stage \in {0, 1} /\ host \in Host /\ call = NoCall
      /\ UNCHANGED <<api, disk, flags, exists, ekpubhash, unused, clean, before>>
  BY HostInRun DEF Queried, PlacesOK
<1>2. ApiOK' /\ CallsOK' /\ sent = NoCall /\ response = "none"
  BY <1>1, NoCallKept DEF ApiOK
<1>3. CASE result = "true" /\ belief' = listed /\ Proceed
  <2>1. PlacesOK' /\ LegalFlags' /\ HostsOK' /\ DiskOK'
    BY <1>1, <1>3, ProceedKeepsControl, DiskKept
  <2>2. MemoryOK'
    BY <1>1, <1>3 DEF MemoryOK, CallsOK
  <2>3. ASSUME clean
        PROVE  StageDone /\ OthersKept
    <3>1. VisitOK /\ (listed <=> ekpubhash \in enrolled)
          /\ (UnenrollsOnly => before[host] \in {NoHash, disk[host].ek})
      BY <1>1, <2>3 DEF CleanOK, QueryOK
    <3>2. UNCHANGED enrolled
      BY <1>1 DEF api
    <3>3. QED
      BY <1>1, <1>3, <3>1, <3>2 DEF StageDone, OthersKept, VisitOK
  <2>4. CleanOK'
    BY <1>1, <1>3, <2>3, ProceedKeepsClean DEF CleanOK
  <2>5. QED
    BY <1>2, <2>1, <2>2, <2>4
<1>4. CASE result # "true" /\ Stop("raised") /\ UNCHANGED belief
  <2>1. ~clean
    BY <1>1, <1>2, <1>4 DEF CleanOK, QueryOK
  <2>2. QED
    BY <1>1, <1>2, <1>4, <2>1, StopKeepsControl, DiskKept DEF CleanOK, MemoryOK
<1>5. QED
  BY <1>3, <1>4 DEF Queried

\* A step on the directories of the host of the run.
LEMMA DiskChanged ==
    ASSUME DiskOK, NEW d \in Disk, host \in Host, disk' = [disk EXCEPT ![host] = d],
           d.tpm \in HasEkpub <=> d.ek # NoHash,
           host' = host /\ pc' = "move" => d.tempek \in Hash,
           pc' # "move" \/ host' = host
    PROVE  /\ DiskOK'
           /\ disk'[host] = d /\ \A h \in Host \ {host} : disk'[h] = disk[h]
BY DEF DiskOK

LEMMA CreateKeepsInv ==
    ASSUME OrchestratorInv, Create
    PROVE  OrchestratorInv'
<1> USE DEF OrchestratorInv
<1>1. /\ pc = "create" /\ stage = 1 /\ host \in Host
      /\ UNCHANGED <<api, flags, exists, belief, ekpubhash, unused, clean, before>>
  BY HostInRun DEF Create, PlacesOK
<1>2. ApiOK' /\ CallsOK' /\ call = NoCall /\ enrolled' = enrolled /\ MemoryOK'
  BY <1>1, NoCallKept DEF WaitLabels, MemoryOK, api
<1>3. CASE exists /\ Proceed /\ UNCHANGED disk
  <2>1. PlacesOK' /\ LegalFlags' /\ HostsOK' /\ DiskOK'
    BY <1>1, <1>3, ProceedKeepsControl, DiskKept
  <2>2. ASSUME clean
        PROVE  StageDone /\ OthersKept
    <3>1. VisitOK /\ BeliefHolds /\ (UnenrollsOnly => before[host] \in {NoHash, disk[host].ek})
      BY <1>1, <2>2 DEF CleanOK
    <3>2. QED
      BY <1>1, <1>2, <1>3, <2>2, <3>1 DEF StageDone, OthersKept, VisitOK, BeliefHolds
  <2>3. QED
    BY <1>1, <1>2, <1>3, <2>1, <2>2, ProceedKeepsClean DEF CleanOK
<1>4. CASE /\ ~exists /\ Goto("setup")
           /\ disk' = [disk EXCEPT ![host].temp = IF @ = "none" THEN "partial" ELSE @]
  <2> DEFINE d == [disk[host] EXCEPT !.temp = IF @ = "none" THEN "partial" ELSE @]
  <2>1. pc' = "setup" /\ UNCHANGED <<stage, queue, host, outcome>>
    BY <1>4 DEF Goto
  <2>2. PlacesOK' /\ LegalFlags' /\ HostsOK'
    BY <1>1, <2>1 DEF PlacesOK, LegalFlags, HostsOK, Label
  <2>3. disk[host] \in Disk /\ (disk[host].tpm \in HasEkpub <=> disk[host].ek # NoHash)
    BY <1>1 DEF DiskOK
  <2>4. d \in Disk /\ d.tpm = disk[host].tpm /\ d.ek = disk[host].ek
    BY <2>3 DEF Disk
  <2>5. disk' = [disk EXCEPT ![host] = d]
    BY <1>4
  <2>6. DiskOK' /\ disk'[host] = d /\ \A h \in Host \ {host} : disk'[h] = disk[h]
    <3> HIDE DEF d
    <3>1. QED
      BY <1>1, <2>1, <2>3, <2>4, <2>5, DiskChanged
  <2>7. ASSUME clean
        PROVE  CleanOK'
    <3>1. VisitOK
      BY <1>1, <2>7 DEF CleanOK
    <3>2. VisitOK' /\ QueryOK' /\ AddOK' /\ DeleteOK' /\ BeliefHolds'
      BY <1>1, <1>4, <2>1, <2>4, <2>6, <3>1
         DEF VisitOK, QueryOK, AddOK, DeleteOK, BeliefHolds
    <3>3. QED
      BY <1>1, <1>2, <2>1, <2>4, <2>6, <2>7, <3>2, GotoKeepsClean
  <2>8. QED
    BY <1>1, <1>2, <2>2, <2>6, <2>7 DEF CleanOK
<1>5. QED
  BY <1>3, <1>4 DEF Create

LEMMA SetupKeepsInv ==
    ASSUME OrchestratorInv, Setup
    PROVE  OrchestratorInv'
<1> USE DEF OrchestratorInv
<1>1. /\ pc = "setup" /\ stage = 1 /\ host \in Host
      /\ UNCHANGED <<api, flags, exists, belief, ekpubhash, before>>
  BY HostInRun DEF Setup, PlacesOK
<1>2. ApiOK' /\ CallsOK' /\ call = NoCall /\ enrolled' = enrolled
  BY <1>1, NoCallKept DEF WaitLabels, api
<1>3. ASSUME NEW u \in unused, unused' = unused \ {u}, Goto("move"), clean' = clean,
             disk' = [disk EXCEPT ![host].temp = "ready", ![host].tempek = u]
      PROVE  OrchestratorInv'
  <2> DEFINE d == [disk[host] EXCEPT !.temp = "ready", !.tempek = u]
  <2>1. pc' = "move" /\ UNCHANGED <<stage, queue, host, outcome>>
    BY <1>3 DEF Goto
  <2>2. PlacesOK' /\ LegalFlags' /\ HostsOK' /\ MemoryOK'
    BY <1>1, <1>3, <2>1 DEF PlacesOK, LegalFlags, HostsOK, MemoryOK, Label
  <2>3. /\ disk[host] \in Disk /\ (disk[host].tpm \in HasEkpub <=> disk[host].ek # NoHash)
        /\ u \in Hash
    BY <1>1 DEF DiskOK, MemoryOK
  <2>4. d \in Disk /\ d.tpm = disk[host].tpm /\ d.ek = disk[host].ek /\ d.tempek = u
    BY <2>3 DEF Disk
  <2>5. disk' = [disk EXCEPT ![host] = d]
    BY <1>1, <1>3 DEF DiskOK
  <2>6. DiskOK' /\ disk'[host] = d /\ \A h \in Host \ {host} : disk'[h] = disk[h]
    <3> HIDE DEF d
    <3>1. QED
      BY <1>1, <2>1, <2>3, <2>4, <2>5, DiskChanged
  <2>7. ASSUME clean
        PROVE  CleanOK'
    <3>1. VisitOK
      BY <1>1, <2>7 DEF CleanOK
    <3>2. VisitOK' /\ QueryOK' /\ AddOK' /\ DeleteOK' /\ BeliefHolds'
      BY <1>1, <2>1, <2>4, <2>6, <3>1
         DEF VisitOK, QueryOK, AddOK, DeleteOK, BeliefHolds
    <3>3. QED
      BY <1>1, <1>2, <2>1, <2>4, <2>6, <2>7, <3>2, GotoKeepsClean
  <2>8. QED
    BY <1>2, <1>3, <2>2, <2>6, <2>7 DEF CleanOK
<1>4. CASE clean' = FALSE /\ Proceed /\ UNCHANGED <<disk, unused>>
  BY <1>1, <1>2, <1>4, ProceedKeepsControl, DiskKept DEF CleanOK, MemoryOK
<1>5. QED
  BY <1>1, <1>3, <1>4 DEF Setup

LEMMA MoveTempKeepsInv ==
    ASSUME OrchestratorInv, MoveTemp
    PROVE  OrchestratorInv'
<1> USE DEF OrchestratorInv
<1> DEFINE d == disk[host]
           moved == [d EXCEPT !.temp = "none", !.tempek = NoHash]
           whole == [moved EXCEPT !.tpm = "whole", !.ek = d.tempek]
<1>1. /\ pc = "move" /\ stage = 1 /\ host \in Host
      /\ UNCHANGED <<api, flags, belief, ekpubhash, unused, clean, before>>
  BY HostInRun DEF MoveTemp, PlacesOK
<1>2. ApiOK' /\ CallsOK' /\ call = NoCall /\ enrolled' = enrolled
  BY <1>1, NoCallKept DEF WaitLabels, api
<1>3. d \in Disk /\ (d.tpm \in HasEkpub <=> d.ek # NoHash) /\ d.tempek \in Hash
  BY <1>1 DEF DiskOK
<1>4. /\ [moved EXCEPT !.inner = TRUE] \in Disk
      /\ [moved EXCEPT !.inner = TRUE].tpm = d.tpm
      /\ [moved EXCEPT !.inner = TRUE].ek = d.ek
  BY <1>3 DEF Disk
<1>5. whole \in Disk /\ whole.tpm = "whole" /\ whole.ek = d.tempek
  BY <1>3 DEF Disk, TpmDir
<1>6. ASSUME clean
      PROVE  VisitOK /\ d.tpm = "none" /\ d.ek = NoHash
  BY <1>1, <1>3, <1>6 DEF CleanOK, VisitOK, HasEkpub
<1> HIDE DEF moved, whole
<1>7. CASE d.tpm = "none" /\ disk' = [disk EXCEPT ![host] = whole] /\ exists' = TRUE
           /\ Goto("exist")
  <2>1. pc' = "exist" /\ UNCHANGED <<stage, queue, host, outcome>>
    BY <1>7 DEF Goto
  <2>2. PlacesOK' /\ LegalFlags' /\ HostsOK' /\ MemoryOK'
    BY <1>1, <1>7, <2>1 DEF PlacesOK, LegalFlags, HostsOK, MemoryOK, Label
  <2>3. DiskOK' /\ disk'[host] = whole /\ \A h \in Host \ {host} : disk'[h] = disk[h]
    BY <1>1, <1>3, <1>5, <1>7, <2>1, DiskChanged, OrchestratorAssumption DEF HasEkpub
  <2>4. ASSUME clean
        PROVE  CleanOK'
    <3>1. VisitOK' /\ QueryOK' /\ AddOK' /\ DeleteOK' /\ BeliefHolds'
      BY <1>1, <1>5, <1>6, <1>7, <2>1, <2>3, <2>4
         DEF VisitOK, QueryOK, AddOK, DeleteOK, BeliefHolds
    <3>2. UnenrollsOnly => before[host] = NoHash
      BY <1>1, <1>6, <2>4 DEF CleanOK
    <3>3. QED
      BY <1>1, <1>2, <2>1, <2>3, <2>4, <3>1, <3>2, GotoKeepsClean
  <2>5. QED
    BY <1>1, <1>2, <2>2, <2>3, <2>4 DEF CleanOK
<1>8. CASE /\ d.tpm # "none" /\ exists' = TRUE /\ Goto("exist")
           /\ disk' = [disk EXCEPT ![host] = [moved EXCEPT !.inner = TRUE]]
  <2>1. pc' = "exist" /\ UNCHANGED <<stage, queue, host, outcome>>
    BY <1>8 DEF Goto
  <2>2. PlacesOK' /\ LegalFlags' /\ HostsOK' /\ MemoryOK'
    BY <1>1, <1>8, <2>1 DEF PlacesOK, LegalFlags, HostsOK, MemoryOK, Label
  <2>3. DiskOK'
    BY <1>1, <1>3, <1>4, <1>8, <2>1, DiskChanged
  <2>4. QED
    BY <1>1, <1>2, <1>6, <1>8, <2>2, <2>3 DEF CleanOK
<1>9. CASE d.tpm # "none" /\ Stop("raised") /\ UNCHANGED <<disk, exists>>
  BY <1>1, <1>2, <1>6, <1>9, StopKeepsControl, DiskKept DEF CleanOK, MemoryOK
<1>10. QED
  BY <1>7, <1>8, <1>9 DEF MoveTemp, moved, whole

LEMMA DeleteKeepsInv ==
    ASSUME OrchestratorInv, Delete
    PROVE  OrchestratorInv'
<1> USE DEF OrchestratorInv
<1>1. /\ pc = "delete" /\ stage = 2 /\ host \in Host
      /\ UNCHANGED <<api, disk, flags, exists, belief, ekpubhash, unused, clean, before>>
      /\ (exists /\ Goto("rmtree")) \/ (~exists /\ Proceed)
  BY HostInRun DEF Delete, PlacesOK
<1>2. ApiOK' /\ CallsOK' /\ call = NoCall /\ enrolled' = enrolled /\ MemoryOK'
  BY <1>1, NoCallKept DEF WaitLabels, MemoryOK, api
<1>3. ASSUME clean
      PROVE  VisitOK /\ ~CreatesAndEnrolls /\ ~UnenrollsOnly
  BY <1>1, <1>3 DEF CleanOK, CreatesAndEnrolls, UnenrollsOnly, PlacesOK, LegalFlags, Stages
<1>4. CASE exists /\ Goto("rmtree")
  <2>1. pc' = "rmtree" /\ UNCHANGED <<stage, queue, host, outcome>>
    BY <1>4 DEF Goto
  <2>2. PlacesOK' /\ LegalFlags' /\ HostsOK' /\ DiskOK'
    BY <1>1, <2>1, DiskKept DEF PlacesOK, LegalFlags, HostsOK, Label
  <2>3. ASSUME clean
        PROVE  CleanOK'
    <3>1. VisitOK' /\ QueryOK' /\ AddOK' /\ DeleteOK' /\ BeliefHolds'
      BY <1>1, <1>3, <1>4, <2>1, <2>3
         DEF VisitOK, QueryOK, AddOK, DeleteOK, BeliefHolds
    <3>2. QED
      BY <1>1, <1>2, <2>1, <2>3, <3>1, GotoKeepsClean
  <2>4. QED
    BY <1>1, <1>2, <2>2, <2>3 DEF CleanOK
<1>5. CASE ~exists /\ Proceed
  <2>1. PlacesOK' /\ LegalFlags' /\ HostsOK' /\ DiskOK'
    BY <1>1, <1>5, ProceedKeepsControl, DiskKept
  <2>2. ASSUME clean
        PROVE  StageDone /\ OthersKept
    BY <1>1, <1>2, <1>3, <1>5, <2>2 DEF StageDone, OthersKept, VisitOK
  <2>3. QED
    BY <1>1, <1>2, <1>5, <2>1, <2>2, ProceedKeepsClean DEF CleanOK
<1>6. QED
  BY <1>1, <1>4, <1>5

LEMMA RmTreeKeepsInv ==
    ASSUME OrchestratorInv, RmTree
    PROVE  OrchestratorInv'
<1> USE DEF OrchestratorInv
<1> DEFINE d == disk[host]
           gutted == [d EXCEPT !.tpm = "gutted"]
           hollow == [d EXCEPT !.tpm = "hollow", !.ek = NoHash]
           gone == [d EXCEPT !.tpm = "none", !.inner = FALSE]
<1>1. /\ pc = "rmtree" /\ stage = 2 /\ host \in Host
      /\ UNCHANGED <<api, flags, belief, ekpubhash, unused, clean, before>>
  BY HostInRun DEF RmTree, PlacesOK
<1>2. ApiOK' /\ CallsOK' /\ call = NoCall /\ enrolled' = enrolled
  BY <1>1, NoCallKept DEF WaitLabels, api
<1>3. d \in Disk /\ (d.tpm \in HasEkpub <=> d.ek # NoHash)
  BY <1>1 DEF DiskOK
<1>4. /\ gutted \in Disk /\ gutted.tpm = "gutted" /\ gutted.ek = d.ek
      /\ hollow \in Disk /\ hollow.tpm = "hollow" /\ hollow.ek = NoHash
      /\ gone \in Disk /\ gone.tpm = "none" /\ gone.ek = d.ek
  BY <1>3 DEF Disk, TpmDir
<1>5. ASSUME clean
      PROVE  VisitOK /\ ~CreatesAndEnrolls /\ ~UnenrollsOnly
  BY <1>1, <1>5 DEF CleanOK, CreatesAndEnrolls, UnenrollsOnly, PlacesOK, LegalFlags, Stages
<1> HIDE DEF gutted, hollow, gone
<1>6. ASSUME UNCHANGED <<exists, pc, stage, queue, host, outcome>>,
             NEW e \in {gutted, hollow}, disk' = [disk EXCEPT ![host] = e],
             e.tpm \in HasEkpub <=> e.ek # NoHash
      PROVE  OrchestratorInv'
  <2>1. PlacesOK' /\ LegalFlags' /\ HostsOK' /\ MemoryOK'
    BY <1>1, <1>6 DEF PlacesOK, LegalFlags, HostsOK, MemoryOK
  <2>2. DiskOK' /\ \A h \in Host \ {host} : disk'[h] = disk[h]
    BY <1>1, <1>4, <1>6, DiskChanged
  <2>3. ASSUME clean
        PROVE  CleanOK'
    <3>1. VisitOK' /\ QueryOK' /\ AddOK' /\ DeleteOK' /\ BeliefHolds'
      BY <1>1, <1>5, <1>6, <2>3
         DEF VisitOK, QueryOK, AddOK, DeleteOK, BeliefHolds
    <3>2. QED
      BY <1>1, <1>2, <1>5, <1>6, <2>2, <2>3, <3>1, GotoKeepsClean
  <2>4. QED
    BY <1>1, <1>2, <2>1, <2>2, <2>3 DEF CleanOK
<1>7. CASE d.tpm = "hollow" /\ disk' = [disk EXCEPT ![host] = gone] /\ exists' = FALSE /\ Proceed
  <2>1. PlacesOK' /\ LegalFlags' /\ HostsOK' /\ pc' # "move"
    BY <1>1, <1>7, ProceedKeepsControl
  <2>2. DiskOK' /\ disk'[host] = gone /\ \A h \in Host \ {host} : disk'[h] = disk[h]
    BY <1>1, <1>3, <1>4, <1>7, <2>1, DiskChanged DEF HasEkpub
  <2>3. MemoryOK'
    BY <1>1, <1>7 DEF MemoryOK
  <2>4. ASSUME clean
        PROVE  StageDone /\ OthersKept
    BY <1>1, <1>2, <1>4, <1>5, <1>7, <2>2, <2>4 DEF StageDone, OthersKept, VisitOK
  <2>5. QED
    BY <1>1, <1>2, <1>7, <2>1, <2>2, <2>3, <2>4, ProceedKeepsClean DEF CleanOK
<1>8. \/ /\ d.tpm = "whole" /\ disk' = [disk EXCEPT ![host] = gutted]
         /\ UNCHANGED <<exists, pc, stage, queue, host, outcome>>
      \/ /\ disk' = [disk EXCEPT ![host] = hollow]
         /\ UNCHANGED <<exists, pc, stage, queue, host, outcome>>
      \/ d.tpm = "hollow" /\ disk' = [disk EXCEPT ![host] = gone] /\ exists' = FALSE /\ Proceed
  BY <1>1 DEF RmTree, DiskOK, gutted, hollow, gone
<1>9. QED
  BY <1>3, <1>4, <1>6, <1>7, <1>8 DEF HasEkpub

LEMMA EnrollKeepsInv ==
    ASSUME OrchestratorInv, Enroll
    PROVE  OrchestratorInv'
<1> USE DEF OrchestratorInv
<1>1. /\ pc = "enroll" /\ stage = 3 /\ host \in Host /\ ~UnenrollsOnly
      /\ UNCHANGED <<disk, flags, exists, belief, ekpubhash, unused, clean, before>>
  BY HostInRun DEF Enroll, PlacesOK, LegalFlags, UnenrollsOnly, Stages
<1>2. MemoryOK'
  BY <1>1 DEF MemoryOK
<1>3. ASSUME clean
      PROVE  VisitOK /\ BeliefHolds /\ (CreatesAndEnrolls => exists)
             /\ (disk[host].tpm = "whole" => disk[host].ek # NoHash)
  BY <1>1, <1>3 DEF CleanOK, DiskOK, HasEkpub
<1>4. CASE (~exists \/ belief) /\ Proceed /\ UNCHANGED api
  <2>1. ApiOK' /\ CallsOK' /\ enrolled' = enrolled
    BY <1>1, <1>4, NoCallKept DEF WaitLabels, api
  <2>2. PlacesOK' /\ LegalFlags' /\ HostsOK' /\ DiskOK'
    BY <1>1, <1>4, ProceedKeepsControl, DiskKept
  <2>3. ASSUME clean
        PROVE  StageDone /\ OthersKept
    BY <1>1, <1>3, <1>4, <2>1, <2>3
       DEF StageDone, OthersKept, VisitOK, BeliefHolds, CreatesAndEnrolls
  <2>4. QED
    BY <1>1, <1>2, <1>4, <2>1, <2>2, <2>3, ProceedKeepsClean DEF CleanOK
<1>5. CASE /\ exists /\ ~belief /\ disk[host].tpm \in HasEkpub
           /\ BeginCall("add", disk[host].ek) /\ Goto("adding")
  <2>1. disk[host].ek \in Hash
    BY <1>1, <1>5 DEF DiskOK, Disk
  <2>2. pc' = "adding" /\ UNCHANGED <<stage, queue, host, outcome>>
    BY <1>5 DEF Goto
  <2>3. PlacesOK' /\ LegalFlags' /\ HostsOK' /\ DiskOK'
    BY <1>1, <2>2, DiskKept DEF PlacesOK, LegalFlags, HostsOK, Label
  <2>4. /\ ApiOK' /\ CallsOK' /\ call' # NoCall
        /\ call'.op = "add" /\ call'.hash = disk[host].ek
        /\ response' = "none" /\ enrolled' = enrolled
    BY <1>5, <2>1, <2>2, BeginKept DEF Op, WaitLabels
  <2>5. ASSUME clean
        PROVE  CleanOK'
    <3>1. "assume" \notin flags => disk[host].ek \notin enrolled
      BY <1>1, <1>3, <1>5, <2>5 DEF VisitOK, BeliefHolds
    <3>2. VisitOK' /\ QueryOK' /\ AddOK' /\ DeleteOK' /\ BeliefHolds'
      BY <1>1, <1>3, <1>5, <2>2, <2>4, <2>5, <3>1
         DEF VisitOK, QueryOK, AddOK, DeleteOK, BeliefHolds
    <3>3. QED
      BY <1>1, <2>2, <2>4, <2>5, <3>2, GotoKeepsClean
  <2>6. QED
    BY <1>1, <1>2, <2>3, <2>4, <2>5 DEF CleanOK
<1>6. CASE exists /\ ~belief /\ disk[host].tpm \notin HasEkpub /\ Stop("raised") /\ UNCHANGED api
  <2>1. ~clean
    BY <1>1, <1>3, <1>6 DEF VisitOK, HasEkpub
  <2>2. QED
    BY <1>1, <1>2, <1>6, <2>1, NoCallKept, StopKeepsControl, DiskKept DEF CleanOK, WaitLabels
<1>7. QED
  BY <1>4, <1>5, <1>6 DEF Enroll

LEMMA AddedKeepsInv ==
    ASSUME OrchestratorInv, Added
    PROVE  OrchestratorInv'
<1> USE DEF OrchestratorInv
<1>1. /\ pc = "adding" /\ stage = 3 /\ host \in Host /\ call = NoCall /\ ~UnenrollsOnly
      /\ UNCHANGED <<api, disk, flags, exists, ekpubhash, unused, clean, before>>
  BY HostInRun DEF Added, PlacesOK, LegalFlags, UnenrollsOnly, Stages
<1>2. ApiOK' /\ CallsOK' /\ enrolled' = enrolled
  BY <1>1, NoCallKept DEF api
<1>3. CASE result = "true" /\ belief' = TRUE /\ Proceed
  <2>1. PlacesOK' /\ LegalFlags' /\ HostsOK' /\ DiskOK'
    BY <1>1, <1>3, ProceedKeepsControl, DiskKept
  <2>2. MemoryOK'
    BY <1>1, <1>3 DEF MemoryOK
  <2>3. ASSUME clean
        PROVE  StageDone /\ OthersKept
    <3>1. VisitOK /\ disk[host].ek \in enrolled
      BY <1>1, <1>3, <2>3 DEF CleanOK, AddOK
    <3>2. QED
      BY <1>1, <1>2, <1>3, <3>1 DEF StageDone, OthersKept, VisitOK
  <2>4. QED
    BY <1>1, <1>2, <1>3, <2>1, <2>2, <2>3, ProceedKeepsClean DEF CleanOK
<1>4. CASE result # "true" /\ Stop("raised") /\ UNCHANGED belief
  <2>1. clean => ~CreatesAndEnrolls
    BY <1>1, <1>4 DEF CleanOK, AddOK, CreatesAndEnrolls
  <2>2. CleanOK'
    BY <1>1, <1>4, <2>1, StopKeepsClean
  <2>3. QED
    BY <1>1, <1>2, <1>4, <2>2, StopKeepsControl, DiskKept DEF MemoryOK
<1>5. QED
  BY <1>3, <1>4 DEF Added

LEMMA UnenrollKeepsInv ==
    ASSUME OrchestratorInv, Unenroll
    PROVE  OrchestratorInv'
<1> USE DEF OrchestratorInv
<1>1. /\ pc = "unenroll" /\ stage = 4 /\ host \in Host /\ ~CreatesAndEnrolls
      /\ UNCHANGED <<disk, flags, exists, belief, ekpubhash, unused, clean, before>>
  BY HostInRun DEF Unenroll, PlacesOK, LegalFlags, CreatesAndEnrolls, Stages
<1>2. MemoryOK'
  BY <1>1 DEF MemoryOK
<1>3. ASSUME clean
      PROVE  VisitOK /\ BeliefHolds /\ (UnenrollsOnly => before[host] \in {NoHash, disk[host].ek})
             /\ (disk[host].tpm = "none" => disk[host].ek = NoHash)
             /\ (disk[host].tpm = "whole" => disk[host].ek # NoHash)
  BY <1>1, <1>3 DEF CleanOK, DiskOK, HasEkpub
<1>4. CASE ~exists /\ Proceed /\ UNCHANGED api
  <2>1. ApiOK' /\ CallsOK' /\ enrolled' = enrolled
    BY <1>1, <1>4, NoCallKept DEF WaitLabels, api
  <2>2. PlacesOK' /\ LegalFlags' /\ HostsOK' /\ DiskOK'
    BY <1>1, <1>4, ProceedKeepsControl, DiskKept
  <2>3. ASSUME clean
        PROVE  StageDone /\ OthersKept
    <3>1. NoHash \notin enrolled
      BY OrchestratorAssumption DEF CallsOK
    <3>2. QED
      BY <1>1, <1>3, <1>4, <2>1, <2>3, <3>1 DEF StageDone, OthersKept, VisitOK
  <2>4. QED
    BY <1>1, <1>2, <1>4, <2>1, <2>2, <2>3, ProceedKeepsClean DEF CleanOK
<1>5. CASE exists /\ ekpubhash # NoHash /\ BeginCall("delete", ekpubhash) /\ Goto("deleting")
  <2>1. ekpubhash \in Hash
    BY <1>5 DEF MemoryOK
  <2>2. pc' = "deleting" /\ UNCHANGED <<stage, queue, host, outcome>>
    BY <1>5 DEF Goto
  <2>3. PlacesOK' /\ LegalFlags' /\ HostsOK' /\ DiskOK'
    BY <1>1, <2>2, DiskKept DEF PlacesOK, LegalFlags, HostsOK, Label
  <2>4. /\ ApiOK' /\ CallsOK' /\ call' # NoCall
        /\ call'.op = "delete" /\ call'.hash = ekpubhash
        /\ response' = "none" /\ enrolled' = enrolled
    BY <1>5, <2>1, <2>2, BeginKept DEF Op, WaitLabels
  <2>5. ASSUME clean
        PROVE  CleanOK'
    <3>1. VisitOK' /\ QueryOK' /\ AddOK' /\ DeleteOK' /\ BeliefHolds'
      BY <1>1, <1>3, <1>5, <2>2, <2>4, <2>5
         DEF VisitOK, QueryOK, AddOK, DeleteOK, BeliefHolds
    <3>2. QED
      BY <1>1, <2>2, <2>4, <2>5, <3>1, GotoKeepsClean
  <2>6. QED
    BY <1>1, <1>2, <2>3, <2>4, <2>5 DEF CleanOK
<1>6. CASE exists /\ ekpubhash = NoHash /\ Stop("raised") /\ UNCHANGED api
  <2>1. CleanOK'
    BY <1>1, <1>6, StopKeepsClean
  <2>2. QED
    BY <1>1, <1>2, <1>6, <2>1, NoCallKept, StopKeepsControl, DiskKept DEF WaitLabels
<1>7. QED
  BY <1>4, <1>5, <1>6 DEF Unenroll

LEMMA DeletedKeepsInv ==
    ASSUME OrchestratorInv, Deleted
    PROVE  OrchestratorInv'
<1> USE DEF OrchestratorInv
<1>1. /\ pc = "deleting" /\ stage = 4 /\ host \in Host /\ call = NoCall /\ ~CreatesAndEnrolls
      /\ UNCHANGED <<api, disk, flags, exists, ekpubhash, unused, clean, before>>
  BY HostInRun DEF Deleted, PlacesOK, LegalFlags, CreatesAndEnrolls, Stages
<1>2. ApiOK' /\ CallsOK' /\ enrolled' = enrolled
  BY <1>1, NoCallKept DEF api
<1>3. CASE result = "true" /\ belief' = FALSE /\ Proceed
  <2>1. PlacesOK' /\ LegalFlags' /\ HostsOK' /\ DiskOK'
    BY <1>1, <1>3, ProceedKeepsControl, DiskKept
  <2>2. MemoryOK'
    BY <1>1, <1>3 DEF MemoryOK
  <2>3. ASSUME clean
        PROVE  StageDone /\ OthersKept
    <3>1. VisitOK /\ ekpubhash \notin enrolled /\ NoHash \notin enrolled
          /\ "assume" \notin flags
          /\ (UnenrollsOnly => before[host] \in {NoHash, disk[host].ek})
      BY <1>1, <1>3, <2>3, OrchestratorAssumption DEF CleanOK, DeleteOK, CallsOK
    <3>2. QED
      BY <1>1, <1>2, <1>3, <3>1 DEF StageDone, OthersKept, VisitOK
  <2>4. QED
    BY <1>1, <1>2, <1>3, <2>1, <2>2, <2>3, ProceedKeepsClean DEF CleanOK
<1>4. CASE result # "true" /\ Stop("raised") /\ UNCHANGED belief
  <2>1. CleanOK'
    BY <1>1, <1>4, StopKeepsClean
  <2>2. QED
    BY <1>1, <1>2, <1>4, <2>1, StopKeepsControl, DiskKept DEF MemoryOK
<1>5. QED
  BY <1>3, <1>4 DEF Deleted

-----------------------------------------------------------------------------
(* The service and the connection *)

\* The bag operators, by the sets of what is in the bags.
LEMMA BagSets ==
    ASSUME NEW B, NEW e
    PROVE  /\ BagToSet(B (+) SetToBag({e})) = BagToSet(B) \cup {e}
           /\ BagToSet(B (-) SetToBag({e})) \subseteq BagToSet(B)
BY DEF BagToSet, SetToBag, (+), (-)

LEMMA PerformKeepsType ==
    ASSUME enrolled \subseteq Hash \cup {EmptyHash}, NEW r \in HttpRequest, NEW status,
           Perform(r, status)
    PROVE  enrolled' \subseteq Hash \cup {EmptyHash}
BY DEF Perform, HttpRequest

\* A call of the tool ends with its first failure.
LEMMA NoRetry ==
    ASSUME call \in Call, Retry
    PROVE  call' = NoCall /\ sent' = NoCall /\ result' = "raised"
<1>1. call.left = 0
  BY OrchestratorAssumption DEF Call
<1>2. QED
  BY <1>1 DEF Retry

LEMMA ExchangeKeepsCalls ==
    ASSUME ApiOK, CallsOK, Exchange, pc' = pc
    PROVE  CallsOK'
<1> USE DEF ApiOK, CallsOK
<1>1. CASE Serve
  <2>1. PICK status \in Status \ {"none"} : Perform(sent, status)
    BY <1>1 DEF Serve
  <2>2. enrolled' \subseteq Hash \cup {EmptyHash}
    BY <1>1, <2>1, PerformKeepsType DEF Serve
  <2>3. UNCHANGED <<call, late>> /\ sent' = NoCall /\ listed' \in BOOLEAN
    BY <1>1 DEF Serve
  <2>4. QED
    BY <2>2, <2>3
<1>2. CASE ServeLate
  <2>1. PICK r \in BagToSet(late) :
               /\ late' = late (-) SetToBag({r})
               /\ (\E status \in Status \ {"none"} : Perform(r, status)) \/ UNCHANGED enrolled
               /\ UNCHANGED <<call, sent, listed>>
    BY <1>2, Zenon DEF ServeLate
  <2>2. BagToSet(late') \subseteq HttpRequest
    <3>1. BagToSet(late (-) SetToBag({r})) \subseteq BagToSet(late)
      BY BagSets
    <3>2. QED
      BY <2>1, <3>1
  <2>3. enrolled' \subseteq Hash \cup {EmptyHash}
    BY <2>1, PerformKeepsType
  <2>4. QED
    BY <2>1, <2>2, <2>3
<1>3. CASE RequestLost \/ ResponseLost
  <2>1. Retry /\ call \in Call /\ UNCHANGED <<enrolled, listed, late>>
    BY <1>3 DEF RequestLost, ResponseLost
  <2>2. QED
    BY <2>1, NoRetry
<1>4. CASE RequestTimeout
  <2>1. /\ Retry /\ call \in Call /\ UNCHANGED <<enrolled, listed>>
        /\ late' = late (+) SetToBag({sent}) /\ sent \in HttpRequest
    BY <1>4 DEF RequestTimeout
  <2>2. BagToSet(late') \subseteq HttpRequest
    <3>1. BagToSet(late (+) SetToBag({sent})) = BagToSet(late) \cup {sent}
      BY BagSets
    <3>2. QED
      BY <2>1, <3>1
  <2>3. QED
    BY <2>1, <2>2, NoRetry
<1>5. CASE Receive
  BY <1>5 DEF Receive
<1>6. QED
  BY <1>1, <1>2, <1>3, <1>4, <1>5 DEF Exchange

\* Served as it should be, the tool's call: no other host is touched.
LEMMA ServeKeepsClean ==
    ASSUME OrchestratorInv, clean, pc # "idle", Serve, response' = StatusOf(sent),
           UNCHANGED <<disk, pc, stage, flags, queue, host, exists, belief,
                       ekpubhash, outcome, unused, before>>
    PROVE  CleanOK'
<1> USE DEF OrchestratorInv
<1>1. /\ call' = call /\ call # NoCall /\ call.fresh /\ pc \in WaitLabels
      /\ sent # NoCall /\ sent' = NoCall /\ response = "none"
      /\ listed' = (sent.hash \in enrolled)
      /\ sent.op = call.op /\ sent.hash = call.hash
  BY DEF Serve, ApiOK, CallsOK, WaitLabels, RequestOf
<1>2. /\ \A h \in queue : Waiting(h)
      /\ VisitOK /\ QueryOK /\ AddOK /\ DeleteOK /\ BeliefHolds /\ SoFarOK
      /\ CreatesAndEnrolls => outcome # "raised"
      /\ UnenrollsOnly => before[host] \in {NoHash, disk[host].ek}
  BY DEF CleanOK
<1>3. Perform(sent, StatusOf(sent))
  BY DEF Serve
<1>4. VisitOK' /\ BeliefHolds' /\ \A h \in queue' : Waiting(h)'
  BY <1>1, <1>2 DEF VisitOK, BeliefHolds, Waiting, WaitLabels
<1>5. CASE pc = "query"
  <2>1. sent.op = "query" /\ sent.hash = ekpubhash /\ response' = "200"
    BY <1>1, <1>2, <1>5 DEF QueryOK, StatusOf
  <2>2. enrolled' = enrolled
    BY <1>3, <2>1 DEF Perform
  <2>3. QueryOK' /\ AddOK' /\ DeleteOK'
    <3>1. listed' <=> ekpubhash \in enrolled
      BY <1>1, <2>1
    <3>2. QED
      BY <1>1, <1>2, <1>5, <2>1, <2>2, <3>1 DEF QueryOK, AddOK, DeleteOK
  <2>4. SoFarOK'
    BY <1>2, <2>2 DEF SoFarOK, Visited, CreatesAndEnrolls, UnenrollsOnly
  <2>5. QED
    BY <1>2, <1>4, <1>5, <2>3, <2>4 DEF CleanOK, CreatesAndEnrolls, UnenrollsOnly
<1>6. CASE pc = "adding"
  <2>1. sent.op = "add" /\ sent.hash = disk[host].ek /\ ~UnenrollsOnly
    BY <1>1, <1>2, <1>6 DEF AddOK, PlacesOK, LegalFlags, UnenrollsOnly, Stages
  <2>2. response' = IF disk[host].ek \in enrolled THEN "409" ELSE "201"
    BY <2>1 DEF StatusOf
  <2>3. enrolled' = enrolled \cup {disk[host].ek}
    BY <1>3, <2>1 DEF Perform, StatusOf
  <2>4. QueryOK' /\ AddOK' /\ DeleteOK'
    BY <1>1, <1>2, <1>6, <2>1, <2>2, <2>3 DEF QueryOK, AddOK, DeleteOK
  <2>5. SoFarOK'
    BY <1>2, <2>1, <2>3 DEF SoFarOK, Visited, CreatesAndEnrolls, UnenrollsOnly
  <2>6. QED
    BY <1>2, <1>4, <1>6, <2>1, <2>4, <2>5 DEF CleanOK, CreatesAndEnrolls, UnenrollsOnly
<1>7. CASE pc = "deleting"
  <2>1. sent.op = "delete" /\ sent.hash = ekpubhash /\ ~CreatesAndEnrolls
    BY <1>1, <1>2, <1>7 DEF DeleteOK, PlacesOK, LegalFlags, CreatesAndEnrolls, Stages
  <2>2. response' = IF ekpubhash \in enrolled THEN "200" ELSE "404"
    BY <2>1 DEF StatusOf
  <2>3. enrolled' = enrolled \ {ekpubhash}
    BY <1>3, <2>1 DEF Perform, StatusOf
  <2>4. QueryOK' /\ AddOK' /\ DeleteOK'
    BY <1>1, <1>2, <1>7, <2>1, <2>2, <2>3 DEF QueryOK, AddOK, DeleteOK
  <2>5. SoFarOK'
    BY <1>2, <2>1, <2>3 DEF SoFarOK, Visited, CreatesAndEnrolls, UnenrollsOnly
  <2>6. QED
    BY <1>2, <1>4, <1>7, <2>1, <2>4, <2>5 DEF CleanOK, CreatesAndEnrolls, UnenrollsOnly
<1>8. QED
  BY <1>1, <1>5, <1>6, <1>7 DEF WaitLabels

LEMMA ReceiveKeepsClean ==
    ASSUME OrchestratorInv, clean, pc # "idle", Receive,
           UNCHANGED <<disk, pc, stage, flags, queue, host, exists, belief,
                       ekpubhash, outcome, unused, before>>
    PROVE  CleanOK'
<1> USE DEF OrchestratorInv
<1>1. /\ response # "none" /\ response' = "none" /\ call' = NoCall
      /\ result' = IF response = SuccessStatus(call.op) THEN "true" ELSE "false"
      /\ UNCHANGED <<enrolled, sent, listed>>
      /\ call # NoCall /\ sent = NoCall /\ pc \in WaitLabels
  BY DEF Receive, ApiOK, CallsOK, WaitLabels
<1>2. /\ \A h \in queue : Waiting(h)
      /\ VisitOK /\ QueryOK /\ AddOK /\ DeleteOK /\ BeliefHolds /\ SoFarOK
      /\ CreatesAndEnrolls => outcome # "raised"
      /\ UnenrollsOnly => before[host] \in {NoHash, disk[host].ek}
  BY DEF CleanOK
<1>3. VisitOK' /\ BeliefHolds' /\ \A h \in queue' : Waiting(h)'
  BY <1>1, <1>2 DEF VisitOK, BeliefHolds, Waiting, WaitLabels
<1>4. QueryOK' /\ AddOK' /\ DeleteOK'
  BY <1>1, <1>2 DEF QueryOK, AddOK, DeleteOK, SuccessStatus
<1>5. SoFarOK'
  BY <1>1, <1>2 DEF SoFarOK, Visited, CreatesAndEnrolls, UnenrollsOnly
<1>6. QED
  BY <1>1, <1>2, <1>3, <1>4, <1>5 DEF CleanOK, CreatesAndEnrolls, UnenrollsOnly, WaitLabels

LEMMA OrchestratorExchangeKeepsInv ==
    ASSUME OrchestratorInv, OrchestratorExchange
    PROVE  OrchestratorInv'
<1> USE DEF OrchestratorInv
<1>1. /\ Exchange
      /\ UNCHANGED <<disk, pc, stage, flags, queue, host, exists, belief,
                     ekpubhash, outcome, unused, before>>
  BY DEF OrchestratorExchange
<1>2. ApiOK' /\ CallsOK'
  BY <1>1, ExchangeKeepsApi, ExchangeKeepsCalls
<1>3. PlacesOK' /\ LegalFlags' /\ HostsOK' /\ DiskOK'
  BY <1>1 DEF PlacesOK, LegalFlags, HostsOK, DiskOK
<1>4. clean' = (clean /\ (Receive \/ (Serve /\ response' = StatusOf(sent))))
  BY DEF OrchestratorExchange
<1>5. MemoryOK'
  <2>1. clean' \in BOOLEAN
    BY <1>4
  <2>2. QED
    BY <1>1, <2>1 DEF MemoryOK
<1>6. CleanOK'
  <2> SUFFICES ASSUME clean'
               PROVE  CleanOK'
    BY DEF CleanOK
  <2>1. clean /\ (Receive \/ (Serve /\ response' = StatusOf(sent)))
    BY <1>4
  <2>2. pc # "idle"
    BY <2>1 DEF Receive, Serve, ApiOK, CallsOK
  <2>3. QED
    BY <1>1, <2>1, <2>2, ServeKeepsClean, ReceiveKeepsClean
<1>7. QED
  BY <1>2, <1>3, <1>5, <1>6

LEMMA KillKeepsInv ==
    ASSUME OrchestratorInv, Kill
    PROVE  OrchestratorInv'
<1> USE DEF OrchestratorInv
<1>1. /\ Stop("killed") /\ call' = NoCall /\ sent' = NoCall /\ response' = "none"
      /\ UNCHANGED <<enrolled, listed, done, disk, flags, exists, belief,
                     ekpubhash, unused, clean, before>>
  BY DEF Kill
<1>2. PlacesOK' /\ LegalFlags' /\ HostsOK' /\ pc' = "idle"
  BY <1>1, StopKeepsControl
<1>3. DiskOK' /\ MemoryOK'
  BY <1>1, <1>2, DiskKept DEF MemoryOK
<1>4. CleanOK'
  BY <1>1, StopKeepsClean
<1>5. BagToSet(late') \subseteq HttpRequest
  <2>1. CASE late' = late
    BY <2>1 DEF CallsOK
  <2>2. CASE sent # NoCall /\ late' = late (+) SetToBag({sent})
    <3>1. BagToSet(late (+) SetToBag({sent})) = BagToSet(late) \cup {sent}
      BY BagSets
    <3>2. QED
      BY <2>2, <3>1 DEF CallsOK
  <2>3. QED
    BY <2>1, <2>2 DEF Kill
<1>6. ApiOK' /\ CallsOK'
  BY <1>1, <1>5 DEF ApiOK, CallsOK
<1>7. QED
  BY <1>2, <1>3, <1>4, <1>6

LEMMA InitHasInv ==
    ASSUME OrchestratorInit
    PROVE  OrchestratorInv
<1> USE DEF OrchestratorInit, ApiInit
<1>1. ApiOK
  BY DEF ApiOK
<1>2. PlacesOK /\ LegalFlags
  BY DEF PlacesOK, LegalFlags, Label
<1>3. HostsOK
  BY DEF HostsOK
<1>4. MemoryOK
  BY DEF MemoryOK
<1>5. NoDisk \in Disk /\ NoDisk.tpm = "none" /\ NoDisk.ek = NoHash
  BY DEF NoDisk, Disk, TpmDir
<1>6. DiskOK
  <2>1. disk = [h \in Host |-> NoDisk] /\ pc = "idle"
    OBVIOUS
  <2>2. QED
    BY <1>5, <2>1 DEF DiskOK, HasEkpub
<1>7. CallsOK
  BY DEF CallsOK, EmptyBag, SetToBag, BagToSet
<1>8. CleanOK
  BY DEF CleanOK
<1>9. QED
  BY <1>1, <1>2, <1>6, <1>7, <1>8, <1>3, <1>4 DEF OrchestratorInv

LEMMA StepKeepsInv ==
    ASSUME OrchestratorInv, [OrchestratorNext]_ovars
    PROVE  OrchestratorInv'
<1>1. CASE UNCHANGED ovars
  <2>1. ApiOK' /\ CallsOK'
    BY <1>1 DEF OrchestratorInv, ApiOK, CallsOK, ovars, api, tool, RequestOf
  <2>2. PlacesOK' /\ LegalFlags' /\ HostsOK' /\ DiskOK' /\ MemoryOK'
    BY <1>1 DEF OrchestratorInv, PlacesOK, LegalFlags, HostsOK, DiskOK, MemoryOK, ovars, tool
  <2>3. CleanOK'
    BY <1>1 DEF OrchestratorInv, CleanOK, Waiting, VisitOK, QueryOK, AddOK, DeleteOK,
           BeliefHolds, SoFarOK, Visited, CreatesAndEnrolls, UnenrollsOnly, ovars, api, tool
  <2>4. QED
    BY <2>1, <2>2, <2>3 DEF OrchestratorInv
<1>2. CASE \E F \in Flags, hosts \in SUBSET Host : Run(F, hosts)
  BY <1>2, RunKeepsInv
<1>3. CASE ToolStep
  BY <1>3, NewKeepsInv, PostExistKeepsInv, QueriedKeepsInv, CreateKeepsInv, SetupKeepsInv,
     MoveTempKeepsInv, DeleteKeepsInv, RmTreeKeepsInv, EnrollKeepsInv, AddedKeepsInv,
     UnenrollKeepsInv, DeletedKeepsInv
     DEF ToolStep
<1>4. QED
  BY <1>1, <1>2, <1>3, OrchestratorExchangeKeepsInv, KillKeepsInv DEF OrchestratorNext

LEMMA RunsAreOK == OrchestratorSpec => []OrchestratorInv
BY InitHasInv, StepKeepsInv, PTL DEF OrchestratorSpec

\* Whatever hosts are visited with whatever flags, and whatever was killed before:
\* in a run that nothing has disturbed, what the tool remembers of an enrollment
\* agrees with the service whenever a stage is about to use it.
THEOREM BeliefIsSo == OrchestratorSpec => []BeliefHolds
<1>1. OrchestratorInv => BeliefHolds
  BY DEF OrchestratorInv, CleanOK, BeliefHolds
<1>2. QED
  BY <1>1, RunsAreOK, PTL

\* A run is not disturbed by the step that ends it, but for a TPM that could not be
\* set up; and that does not end a run with a later stage.
LEMMA EndIsClean ==
    ASSUME OrchestratorInv, OrchestratorNext, pc # "idle", pc' = "idle",
           clean, {"enroll", "unenroll"} \cap flags # {}
    PROVE  clean' /\ UNCHANGED <<flags, before>>
<1>1. CASE Setup
  <2>1. stage = 1
    BY <1>1 DEF Setup, OrchestratorInv, PlacesOK
  <2>2. 3 \in stage + 1 .. 4 /\ 4 \in stage + 1 .. 4
    BY <2>1
  <2>3. ~Proceed
    <3>1. \E k \in stage + 1 .. 4 : Stages[k] \in flags
      BY <2>2 DEF Stages
    <3>2. QED
      BY <3>1, ProceedIs DEF OrchestratorInv, PlacesOK, Stages
  <2>4. QED
    BY <1>1, <2>3 DEF Setup, Goto
<1>2. CASE ToolStep /\ ~Setup
  BY <1>2 DEF ToolStep, New, PostExist, Queried, Create, MoveTemp, Delete, RmTree,
     Enroll, Added, Unenroll, Deleted
<1>3. CASE Kill
  BY <1>3 DEF Kill
<1>4. QED
  BY <1>1, <1>2, <1>3 DEF OrchestratorNext, Run, OrchestratorExchange

\* For any number of hosts, and whatever runs and kills came before: a run with
\* '-c -e' in which nothing outside of the tool fails, and which found no half
\* made directory, does not end with an exception; and when it ends, each of its
\* hosts has its TPM, and that TPM is enrolled.
THEOREM CleanRunsEnroll == OrchestratorSpec => CleanRunEnrolls
<1> DEFINE Claim ==
      clean /\ {"create", "enroll"} \subseteq flags /\ "assume" \notin flags
         => /\ ~Ends("raised")
            /\ Ends("ok") => \A h \in DOMAIN before :
                               /\ disk'[h].tpm = "whole"
                               /\ disk'[h].ek \in enrolled'
<1>1. OrchestratorInv /\ OrchestratorInv' /\ [OrchestratorNext]_ovars => [Claim]_ovars
  <2> SUFFICES ASSUME OrchestratorInv, OrchestratorInv', OrchestratorNext,
                      clean, CreatesAndEnrolls, NEW how, Ends(how)
               PROVE  /\ how # "raised"
                      /\ how = "ok" => \A h \in DOMAIN before :
                                          /\ disk'[h].tpm = "whole"
                                          /\ disk'[h].ek \in enrolled'
    BY DEF CreatesAndEnrolls
  <2>1. clean' /\ UNCHANGED <<flags, before>> /\ pc' = "idle" /\ outcome' = how
    BY EndIsClean DEF Ends, CreatesAndEnrolls
  <2>2. how # "raised" /\ (how = "ok" => SoFarOK')
    BY <2>1 DEF OrchestratorInv, CleanOK, CreatesAndEnrolls
  <2>3. Visited' = DOMAIN before
    <3>1. host' = NoHost /\ queue' = {} /\ NoHost \notin DOMAIN before
      BY <2>1, OrchestratorAssumption DEF OrchestratorInv, HostsOK, Ends
    <3>2. QED
      BY <2>1, <3>1 DEF Visited
  <2>4. QED
    BY <2>1, <2>2, <2>3 DEF SoFarOK, CreatesAndEnrolls
<1>2. QED
  BY <1>1, RunsAreOK, PTL DEF OrchestratorSpec, CleanRunEnrolls

\* For any number of hosts: a run with '-u' that nothing has disturbed, and that
\* does not also delete, leaves no TPM that its hosts had enrolled when it ends well.
THEOREM RunsUnenroll == OrchestratorSpec => RunUnenrolls
<1> DEFINE Claim ==
      clean /\ "unenroll" \in flags /\ "delete" \notin flags /\ Ends("ok")
         => \A h \in DOMAIN before : before[h] \notin enrolled'
<1>1. OrchestratorInv /\ OrchestratorInv' /\ [OrchestratorNext]_ovars => [Claim]_ovars
  <2> SUFFICES ASSUME OrchestratorInv, OrchestratorInv', OrchestratorNext,
                      clean, UnenrollsOnly, Ends("ok")
               PROVE  \A h \in DOMAIN before : before[h] \notin enrolled'
    BY DEF UnenrollsOnly
  <2>1. clean' /\ UNCHANGED <<flags, before>> /\ pc' = "idle" /\ outcome' = "ok"
    BY EndIsClean DEF Ends, UnenrollsOnly
  <2>2. SoFarOK'
    BY <2>1 DEF OrchestratorInv, CleanOK
  <2>3. Visited' = DOMAIN before
    <3>1. host' = NoHost /\ queue' = {} /\ NoHost \notin DOMAIN before
      BY <2>1, OrchestratorAssumption DEF OrchestratorInv, HostsOK, Ends
    <3>2. QED
      BY <2>1, <3>1 DEF Visited
  <2>4. QED
    BY <2>1, <2>2, <2>3 DEF SoFarOK, UnenrollsOnly
<1>2. QED
  BY <1>1, RunsAreOK, PTL DEF OrchestratorSpec, RunUnenrolls

-----------------------------------------------------------------------------
(* The service that the client calls, as a map *)

\* With one profile only, since clients do not tell them apart.
map == [h \in Hash \cup {EmptyHash} |-> IF h \in enrolled THEN "some" ELSE "none"]

Service == INSTANCE EnrollSpec WITH
    TPM <- Hash \cup {EmptyHash}, Profile <- {"some"}, Unenrolled <- "none", enrolled <- map

\* A request, served as it should be or not, changes one entry at most.
LEMMA PerformIsMapped ==
    ASSUME enrolled \subseteq Hash \cup {EmptyHash},
           NEW r \in HttpRequest, NEW status, Perform(r, status)
    PROVE  [Service!Next]_map
<1>1. r.hash \in Hash \cup {EmptyHash} /\ r.op \in Op
  BY DEF HttpRequest
<1>2. CASE enrolled' = enrolled
  BY <1>2 DEF map
<1>3. CASE r.op = "add" /\ enrolled' = enrolled \cup {r.hash} /\ r.hash \notin enrolled
  <2>1. map[r.hash] = "none" /\ map' = [map EXCEPT ![r.hash] = "some"]
    BY <1>1, <1>3 DEF map
  <2>2. Service!Enroll(r.hash, "some")
    BY <2>1 DEF Service!Enroll
  <2>3. QED
    BY <1>1, <2>2 DEF Service!Next
<1>4. CASE r.op = "delete" /\ enrolled' = enrolled \ {r.hash}
  <2>1. map' = [map EXCEPT ![r.hash] = "none"]
    BY <1>1, <1>4 DEF map
  <2>2. Service!Unenroll(r.hash)
    BY <2>1 DEF Service!Unenroll
  <2>3. QED
    BY <1>1, <2>2 DEF Service!Next
<1>5. status = "500" \/ status = StatusOf(r)
  BY DEF Perform
<1>6. CASE status = "500"
  BY <1>2, <1>6 DEF Perform
<1>7. CASE status # "500" /\ r.op = "add"
  BY <1>3, <1>5, <1>7, <1>2 DEF Perform, StatusOf
<1>8. CASE status # "500" /\ r.op = "delete"
  BY <1>4, <1>8 DEF Perform
<1>9. CASE status # "500" /\ r.op \notin {"add", "delete"}
  BY <1>2, <1>9 DEF Perform
<1>10. QED
  BY <1>6, <1>7, <1>8, <1>9

\* What is under way is a request that somebody has made.
RequestsOK ==
    /\ ApiOK
    /\ enrolled \subseteq Hash \cup {EmptyHash}
    /\ BagToSet(late) \subseteq HttpRequest

LEMMA ExchangeIsMapped ==
    ASSUME RequestsOK, Exchange
    PROVE  [Service!Next]_map
<1> USE DEF RequestsOK
<1>1. CASE Serve
  <2>1. PICK status \in Status \ {"none"} : Perform(sent, status)
    BY <1>1 DEF Serve
  <2>2. sent \in HttpRequest
    BY <1>1, RequestType DEF Serve, ApiOK
  <2>3. QED
    BY <2>1, <2>2, PerformIsMapped
<1>2. CASE ServeLate
  <2>1. PICK r \in BagToSet(late) :
           (\E status \in Status \ {"none"} : Perform(r, status)) \/ UNCHANGED enrolled
    BY <1>2, Zenon DEF ServeLate
  <2>2. CASE UNCHANGED enrolled
    BY <2>2 DEF map
  <2>3. QED
    BY <2>1, <2>2, PerformIsMapped
<1>3. CASE UNCHANGED enrolled
  BY <1>3 DEF map
<1>4. QED
  BY <1>1, <1>2, <1>3
     DEF Exchange, RequestLost, RequestTimeout, ResponseLost, Receive

LEMMA ExchangeKeepsRequests ==
    ASSUME RequestsOK, Exchange
    PROVE  RequestsOK'
<1> USE DEF RequestsOK
<1>1. ApiOK'
  BY ExchangeKeepsApi
<1>2. enrolled' \subseteq Hash \cup {EmptyHash}
  <2>1. CASE Serve
    <3>1. sent \in HttpRequest /\ \E status : Perform(sent, status)
      BY <2>1, RequestType DEF Serve, ApiOK
    <3>2. QED
      BY <3>1, PerformKeepsType
  <2>2. CASE ServeLate
    <3>1. UNCHANGED enrolled \/ \E r \in BagToSet(late) : \E status : Perform(r, status)
      BY <2>2, Zenon DEF ServeLate
    <3>2. QED
      BY <3>1, PerformKeepsType
  <2>3. QED
    BY <2>1, <2>2 DEF Exchange, RequestLost, RequestTimeout, ResponseLost, Receive
<1>3. BagToSet(late') \subseteq HttpRequest
  <2>1. CASE late' = late
    BY <2>1
  <2>2. CASE ServeLate
    <3>1. PICK r \in BagToSet(late) : late' = late (-) SetToBag({r})
      BY <2>2, Zenon DEF ServeLate
    <3>2. BagToSet(late (-) SetToBag({r})) \subseteq BagToSet(late)
      BY BagSets
    <3>3. QED
      BY <3>1, <3>2
  <2>3. CASE RequestTimeout
    <3>1. late' = late (+) SetToBag({sent}) /\ sent \in HttpRequest
      BY <2>3, RequestType DEF RequestTimeout, ApiOK
    <3>2. BagToSet(late (+) SetToBag({sent})) = BagToSet(late) \cup {sent}
      BY BagSets
    <3>3. QED
      BY <3>1, <3>2
  <2>4. QED
    BY <2>1, <2>2, <2>3 DEF Exchange, Serve, RequestLost, ResponseLost, Receive
<1>4. QED
  BY <1>1, <1>2, <1>3

LEMMA InitIsMapped == ApiInit => RequestsOK /\ Service!Init
<1>1. ApiInit => RequestsOK
  BY DEF ApiInit, RequestsOK, ApiOK, EmptyBag, SetToBag, BagToSet
<1>2. ApiInit => Service!Init
  BY DEF ApiInit, Service!Init, map
<1>3. QED
  BY <1>1, <1>2

\* Whatever is lost, late or repeated: what the requests of a caller do to the
\* enrollments is what EnrollSpec's map allows, which the directory tree implements.
THEOREM ServiceIsMap == ApiSpec => Service!Spec
<1>1. RequestsOK /\ [ApiNext]_api => RequestsOK' /\ [Service!Next]_map
  <2> SUFFICES ASSUME RequestsOK, [ApiNext]_api
               PROVE  RequestsOK' /\ [Service!Next]_map
    OBVIOUS
  <2>1. CASE UNCHANGED api
    BY <2>1 DEF api, RequestsOK, ApiOK, RequestOf, map
  <2>2. ASSUME NEW op \in Op, NEW h \in Hash, BeginCall(op, h)
        PROVE  RequestsOK' /\ [Service!Next]_map
    <3>1. UNCHANGED <<enrolled, late>>
      BY <2>2 DEF BeginCall
    <3>2. ApiOK'
      BY <2>2, BeginKeepsApi DEF RequestsOK
    <3>3. QED
      BY <3>1, <3>2 DEF RequestsOK, map
  <2>3. QED
    BY <2>1, <2>2, ExchangeIsMapped, ExchangeKeepsRequests DEF ApiNext
<1>2. QED
  BY <1>1, InitIsMapped, PTL DEF ApiSpec, Service!Spec

\* The same of the orchestrator's runs, kills and all.
THEOREM ToolKeepsMap == OrchestratorSpec => Service!Spec
<1>1. OrchestratorInit => Service!Init
  BY InitIsMapped DEF OrchestratorInit
<1>2. OrchestratorInv /\ [OrchestratorNext]_ovars => [Service!Next]_map
  <2> SUFFICES ASSUME OrchestratorInv, [OrchestratorNext]_ovars
               PROVE  [Service!Next]_map
    OBVIOUS
  <2>1. RequestsOK
    BY DEF OrchestratorInv, CallsOK, RequestsOK
  <2>2. CASE OrchestratorExchange
    BY <2>1, <2>2, ExchangeIsMapped DEF OrchestratorExchange
  <2>3. CASE UNCHANGED enrolled
    BY <2>3 DEF map
  <2>4. CASE ToolStep
    <3>1. UNCHANGED enrolled
      BY <2>4 DEF ToolStep, New, PostExist, Queried, Create, Setup, MoveTemp, Delete,
         RmTree, Enroll, Added, Unenroll, Deleted, BeginCall, api
    <3>2. QED
      BY <2>3, <3>1
  <2>5. QED
    BY <2>2, <2>3, <2>4 DEF OrchestratorNext, Run, Kill, ovars, api
<1>3. QED
  BY <1>1, <1>2, RunsAreOK, PTL DEF OrchestratorSpec, Service!Spec

-----------------------------------------------------------------------------
(* Types *)

AnswersOK == response \in Status /\ result \in Result /\ done \in BOOLEAN

LEMMA ExchangeKeepsAnswers ==
    ASSUME AnswersOK, Exchange
    PROVE  AnswersOK'
<1> USE DEF AnswersOK
<1>1. response' \in Status
  BY DEF Exchange, Serve, ServeLate, RequestLost, RequestTimeout, ResponseLost, Receive, Status
<1>2. result' \in Result
  BY DEF Exchange, Serve, ServeLate, RequestLost, RequestTimeout, ResponseLost, Receive, Retry,
     Result
<1>3. done' \in BOOLEAN
  <2>1. done' = done \/ \E r, status : done' = (done \/ Performed(r, status))
    BY Zenon DEF Exchange, Serve, ServeLate, Perform, RequestLost, RequestTimeout,
       ResponseLost, Receive
  <2>2. QED
    BY <2>1, Zenon
<1>4. QED
  BY <1>1, <1>2, <1>3

LEMMA ApiParts ==
    RequestsOK /\ AnswersOK /\ listed \in BOOLEAN => ApiTypeOK
BY RequestType DEF RequestsOK, ApiOK, AnswersOK, ApiTypeOK

\* Type correctness of a caller and of the service that it calls.
THEOREM ApiTypeCorrect == ApiSpec => []ApiTypeOK
<1> DEFINE Inv == RequestsOK /\ AnswersOK /\ listed \in BOOLEAN
<1>1. ApiInit => Inv
  BY InitIsMapped DEF ApiInit, AnswersOK, Status, Result
<1>2. Inv /\ [ApiNext]_api => Inv'
  <2> SUFFICES ASSUME Inv, [ApiNext]_api
               PROVE  Inv'
    OBVIOUS
  <2>1. CASE UNCHANGED api
    <3>1. RequestsOK'
      BY <2>1 DEF api, RequestsOK, ApiOK, RequestOf
    <3>2. AnswersOK' /\ listed' \in BOOLEAN
      BY <2>1 DEF api, AnswersOK
    <3>3. QED
      BY <3>1, <3>2
  <2>2. ASSUME NEW op \in Op, NEW h \in Hash, BeginCall(op, h)
        PROVE  Inv'
    <3>1. RequestsOK'
      BY <2>2, BeginKeepsApi DEF BeginCall, RequestsOK
    <3>2. AnswersOK' /\ listed' \in BOOLEAN
      BY <2>2 DEF BeginCall, AnswersOK, Result
    <3>3. QED
      BY <3>1, <3>2
  <2>3. CASE Exchange
    <3>1. listed' \in BOOLEAN
      <4>1. CASE Serve
        BY <4>1 DEF Serve
      <4>2. CASE ~Serve
        BY <2>3, <4>2 DEF Exchange, ServeLate, RequestLost, RequestTimeout, ResponseLost, Receive
      <4>3. QED
        BY <4>1, <4>2
    <3>2. QED
      BY <2>3, <3>1, ExchangeKeepsRequests, ExchangeKeepsAnswers
  <2>4. QED
    BY <2>1, <2>2, <2>3 DEF ApiNext
<1>3. Inv => ApiTypeOK
  BY ApiParts
<1>4. QED
  BY <1>1, <1>2, <1>3, PTL DEF ApiSpec

RunTypeOK == flags \in SUBSET Flag /\ outcome \in {"none", "ok", "raised", "killed"}

LEMMA OrchestratorParts ==
    OrchestratorInv /\ AnswersOK /\ RunTypeOK => OrchestratorTypeOK
<1> SUFFICES ASSUME OrchestratorInv, AnswersOK, RunTypeOK
             PROVE  OrchestratorTypeOK
  OBVIOUS
<1>1. ApiTypeOK
  BY ApiParts DEF OrchestratorInv, CallsOK, RequestsOK
<1>2. exists \in BOOLEAN /\ belief \in BOOLEAN /\ clean \in BOOLEAN
  BY Zenon DEF OrchestratorInv, MemoryOK
<1>3. QED
  BY <1>1, <1>2 DEF OrchestratorInv, PlacesOK, DiskOK, HostsOK, MemoryOK, RunTypeOK,
     OrchestratorTypeOK

\* Type correctness of the orchestrator's runs.
THEOREM OrchestratorTypeCorrect == OrchestratorSpec => []OrchestratorTypeOK
<1>1. OrchestratorInit => AnswersOK /\ RunTypeOK
  BY DEF OrchestratorInit, ApiInit, AnswersOK, RunTypeOK, Status, Result
<1>2. AnswersOK /\ [OrchestratorNext]_ovars => AnswersOK'
  <2> SUFFICES ASSUME AnswersOK, [OrchestratorNext]_ovars
               PROVE  AnswersOK'
    OBVIOUS
  <2>1. CASE OrchestratorExchange
    BY <2>1, ExchangeKeepsAnswers DEF OrchestratorExchange
  <2>2. CASE ToolStep
    <3>1. UNCHANGED api \/ \E op, h : BeginCall(op, h)
      BY <2>2, Zenon DEF ToolStep, New, PostExist, Queried, Create, Setup, MoveTemp, Delete,
         RmTree, Enroll, Added, Unenroll, Deleted
    <3>2. QED
      BY <3>1 DEF api, BeginCall, AnswersOK, Result
  <2>3. CASE Kill
    BY <2>3 DEF Kill, AnswersOK, Status, Result
  <2>4. CASE UNCHANGED api
    BY <2>4 DEF api, AnswersOK
  <2>5. QED
    BY <2>1, <2>2, <2>3, <2>4 DEF OrchestratorNext, Run, ovars
<1>3. RunTypeOK /\ [OrchestratorNext]_ovars => RunTypeOK'
  <2> SUFFICES ASSUME RunTypeOK, [OrchestratorNext]_ovars
               PROVE  RunTypeOK'
    OBVIOUS
  <2>1. CASE \E F \in Flags, hosts \in SUBSET Host : Run(F, hosts)
    BY <2>1, OrchestratorAssumption DEF Run, RunTypeOK
  <2>2. CASE ToolStep
    BY <2>2 DEF ToolStep, New, PostExist, Queried, Create, Setup, MoveTemp, Delete,
       RmTree, Enroll, Added, Unenroll, Deleted, Proceed, Stop, Goto, RunTypeOK
  <2>3. CASE OrchestratorExchange \/ Kill \/ UNCHANGED ovars
    BY <2>3 DEF OrchestratorExchange, Kill, Stop, ovars, tool, RunTypeOK
  <2>4. QED
    BY <2>1, <2>2, <2>3 DEF OrchestratorNext
<1>4. QED
  BY <1>1, <1>2, <1>3, RunsAreOK, OrchestratorParts, PTL DEF OrchestratorSpec

=============================================================================
