------------------------------ MODULE EnrollApi ------------------------------
(***************************************************************************)
(* The client side of the Enrollment Service's API                         *)
(* (hcp/python/hcp/api/enroll.py): one caller, whose calls retry over a     *)
(* connection that can fail before the request arrives, while it is being   *)
(* served, or before the response is back.  The service is the atomic map   *)
(* of EnrollSpec, with its status codes: what EnrollDB implements when the  *)
(* requests for a TPM do not overlap.  A request that its caller has given  *)
(* up on (the client's timeout is shorter than the server's) may still be   *)
(* served later.                                                           *)
(***************************************************************************)
EXTENDS Naturals, Bags

CONSTANTS
    Hash,        \* the ekpubhashes of TPMs
    EmptyHash,   \* the hash of an empty file
    NoCall,      \* no call is running, no request is under way
    Retries,     \* the 'retries' argument of the calls
    MaxLate      \* bound: requests given up on and still to be served

Op == {"add", "query", "delete", "reenroll", "janitor"}
HttpRequest == [op : Op, hash : Hash \cup {EmptyHash}]

\* 'left' retries remain; 'fresh' until the ek.pub file has been read to its end.
Call == [op : Op, hash : Hash, left : 0..Retries, fresh : BOOLEAN]

ASSUME ApiAssumption ==
    /\ EmptyHash \notin Hash
    /\ NoCall \notin Call \cup HttpRequest
    /\ Retries \in Nat /\ MaxLate \in Nat

Result == {"none", "true", "false", "raised"}
Status == {"none", "200", "201", "404", "409", "500"}

VARIABLES
    enrolled,   \* the hashes enrolled at the service
    call,       \* the call that is running, or NoCall
    sent,       \* its request, while no worker has served it, or NoCall
    response,   \* the status that is on its way back, or "none"
    listed,     \* whether the last request served matched an enrollment
    result,     \* what the last call returned, or that it raised
    late,       \* the bag of requests given up on and still to be served
    done        \* history: the service has performed the operation of the last
                \* call, on the hash it was called with, since it was called

api == <<enrolled, call, sent, response, listed, result, late, done>>

ApiInit ==
    /\ enrolled = {}
    /\ call = NoCall /\ sent = NoCall
    /\ response = "none" /\ result = "none"
    /\ listed = FALSE
    /\ late = EmptyBag
    /\ done = FALSE

\* requests.post reads the ek.pub file that enroll_add opened, from wherever the
\* attempt before left off; the service hashes what it gets.
RequestOf(c) ==
    [op |-> c.op,
     hash |-> IF c.op = "add" /\ ~c.fresh THEN EmptyHash ELSE c.hash]

BeginCall(op, h) ==
    LET c == [op |-> op, hash |-> h, left |-> Retries, fresh |-> TRUE] IN
    /\ call = NoCall
    /\ call' = c
    /\ sent' = RequestOf(c)
    /\ result' = "none"
    /\ done' = FALSE
    /\ UNCHANGED <<enrolled, response, listed, late>>

-----------------------------------------------------------------------------
(* The service *)

StatusOf(r) ==
    CASE r.op = "add" -> IF r.hash \in enrolled THEN "409" ELSE "201"
      [] r.op = "query" -> "200"
      [] r.op \in {"delete", "reenroll"} ->
            IF r.hash \in enrolled THEN "200" ELSE "404"
      [] r.op = "janitor" -> "500"

Performed(r, status) ==
    /\ status \in {"200", "201"}
    /\ call # NoCall /\ r.op = call.op /\ r.hash = call.hash

\* A worker performs request r and answers 'status', or fails.
Perform(r, status) ==
    /\ status \in {StatusOf(r), "500"}
    /\ enrolled' = CASE status = "500" -> enrolled
                     [] status # "500" /\ r.op = "add" -> enrolled \cup {r.hash}
                     [] status # "500" /\ r.op = "delete" -> enrolled \ {r.hash}
                     [] OTHER -> enrolled
    /\ done' = (done \/ Performed(r, status))

Serve ==
    /\ sent # NoCall
    /\ \E status \in Status \ {"none"} :
          /\ Perform(sent, status)
          /\ response' = status
    /\ listed' = (sent.hash \in enrolled)
    /\ sent' = NoCall
    /\ UNCHANGED <<call, result, late>>

\* A request nobody waits for is served, or dies with its worker.
ServeLate ==
    \E r \in BagToSet(late) :
       /\ late' = late (-) SetToBag({r})
       /\ \/ \E status \in Status \ {"none"} : Perform(r, status)
          \/ UNCHANGED <<enrolled, done>>
       /\ UNCHANGED <<call, sent, response, listed, result>>

-----------------------------------------------------------------------------
(* The caller *)

\* Mutant: a retry does not use the budget of retries up.
RetryForever ==
    LET c == [call EXCEPT !.fresh = FALSE] IN
    /\ call' = c
    /\ sent' = RequestOf(c)
    /\ UNCHANGED result

\* requester_loop, when the request raised an exception.
Retry ==
    LET c == [call EXCEPT !.left = @ - 1, !.fresh = FALSE] IN
    \/ /\ call.left > 0
       /\ call' = c
       /\ sent' = RequestOf(c)
       /\ UNCHANGED result
    \/ /\ call.left = 0
       /\ call' = NoCall
       /\ sent' = NoCall
       /\ result' = "raised"

\* The connection breaks, or the client's timeout expires: the request is lost,
\* or is left to a worker that may still serve it, or its response is lost.
RequestLost ==
    /\ sent # NoCall
    /\ Retry
    /\ UNCHANGED <<enrolled, response, listed, late, done>>

RequestTimeout ==
    /\ sent # NoCall /\ BagCardinality(late) < MaxLate
    /\ late' = late (+) SetToBag({sent})
    /\ Retry
    /\ UNCHANGED <<enrolled, response, listed, done>>

ResponseLost ==
    /\ response # "none"
    /\ response' = "none"
    /\ Retry
    /\ UNCHANGED <<enrolled, listed, late, done>>

\* Mutant: any answer but a server error is taken as a success.
ReceiveAny ==
    /\ response # "none"
    /\ result' = IF response # "500" THEN "true" ELSE "false"
    /\ response' = "none"
    /\ call' = NoCall
    /\ UNCHANGED <<enrolled, sent, listed, late, done>>

\* What the functions want to see of a success.
SuccessStatus(op) == IF op \in {"add", "reenroll"} THEN "201" ELSE "200"

Receive ==
    /\ response # "none"
    /\ result' = IF response = SuccessStatus(call.op) THEN "true" ELSE "false"
    /\ response' = "none"
    /\ call' = NoCall
    /\ UNCHANGED <<enrolled, sent, listed, late, done>>

Exchange ==
    \/ Serve \/ ServeLate
    \/ RequestLost \/ RequestTimeout \/ ResponseLost \/ Receive

ApiNext == Exchange \/ \E op \in Op, h \in Hash : BeginCall(op, h)

\* A call's request is answered or given up on; nothing makes late ones served.
ApiFairness == WF_api(Serve \/ RequestLost) /\ WF_api(Receive)

ApiSpec == ApiInit /\ [][ApiNext]_api /\ ApiFairness

-----------------------------------------------------------------------------

ApiTypeOK ==
    /\ enrolled \subseteq Hash \cup {EmptyHash}
    /\ call \in Call \cup {NoCall}
    /\ sent \in HttpRequest \cup {NoCall}
    /\ response \in Status
    /\ listed \in BOOLEAN
    /\ result \in Result
    /\ BagToSet(late) \subseteq HttpRequest
    /\ done \in BOOLEAN

Returns(value) == result = "none" /\ result' = value

\* The handlers' comment says that the result is True iff the operation was
\* successful.  It is never True of an operation that was not performed, nor of
\* one that was performed on another TPM, as long as an add is not retried.
TrueOnlyIfDone ==
    [][Returns("true") /\ (call.op = "add" => call.fresh) => done']_api

\* The same, of adds that are retried.
RetriedTrueOnlyIfDone == [][Returns("true") => done']_api

\* However the connection fails, a call ends: requester_loop's budget is finite.
CallsEnd == call # NoCall ~> call = NoCall

=============================================================================
