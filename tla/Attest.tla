------------------------------- MODULE Attest -------------------------------
(***************************************************************************)
(* The exchange by which a host attests: initiate, quote and complete of   *)
(* the client (hcp/python/hcp/api/attest.py), and the two handlers of the  *)
(* Attestation Service (hcp/python/hcp/flask/attestsvc.py), the second of   *)
(* which ends in AttestAssets' get_assets.                                  *)
(*                                                                         *)
(* The service remembers nothing of an exchange: /v1/initiate gives the     *)
(* client a ticket that holds what it must know again.  The client runs    *)
(* the exchange over and over.  Meanwhile time passes, a clock is set back, *)
(* the host gets another TPM, either side gives up or dies, and the        *)
(* enrollment comes and goes.                                               *)
(***************************************************************************)
EXTENDS AttestAssets, Integers

CONSTANTS
    Host,
    OtherTPM,     \* a TPM that nobody enrolls
    Nothing,
    Unenrolled,
    MaxAge,       \* MAX_TICKET_AGE
    MaxFault      \* bound: how often something goes wrong

AnyTPM == TPM \cup {OtherTPM}

ASSUME AttestAssumption ==
    /\ OtherTPM \notin TPM
    /\ Nothing \notin AnyTPM \cup Profile \cup Host
    /\ Unenrolled \notin Profile
    /\ MaxAge \in Nat /\ MaxFault \in Nat

VARIABLES
    tpm,      \* tpm[h]: the TPM that host h has
    hpc,      \* hpc[h]: what it has of the exchange
    ticket,   \* ticket[h]: the TPM that its ticket names
    age,      \* age[h]: the service's clock now, less the time in the ticket
    quoted,   \* quoted[h]: the TPM that made its quote
    client,   \* client[r]: the host that waits for thread r, or Nothing
    held,     \* held[h]: what it got last: a TPM and a profile, or Unenrolled
    entitled, \* history: since h initiated, its TPM has been the same, enrolled
              \* without a change, and the service's clock went forward, not too far
    faults

hvars == <<tpm, hpc, ticket, age, quoted, held>>
attestvars == <<allvars, hvars, client, entitled, faults>>

AttestInit ==
    /\ SharedInit
    /\ tpm \in [Host -> TPM]
    /\ hpc = [h \in Host |-> "sleep"]
    /\ ticket = [h \in Host |-> OtherTPM]
    /\ age = [h \in Host |-> 0]
    /\ quoted = [h \in Host |-> OtherTPM]
    /\ client = [r \in Reader |-> Nothing]
    /\ held = [h \in Host |-> Nothing]
    /\ entitled = [h \in Host |-> FALSE]
    /\ faults = 0

Fault(n) == faults + n <= MaxFault /\ faults' = faults + n

-----------------------------------------------------------------------------

\* The thread that works for host h.
Thread(h) == CHOOSE r \in Reader : client[r] = h

\* Host h's exchange ends; what was sent and made for it is forgotten, and an
\* answer that still comes finds nobody.
Ends(h, code) ==
    /\ hpc' = [hpc EXCEPT ![h] = "sleep"]
    /\ ticket' = [ticket EXCEPT ![h] = OtherTPM]
    /\ age' = [age EXCEPT ![h] = 0]
    /\ quoted' = [quoted EXCEPT ![h] = OtherTPM]
    /\ client' = [r \in Reader |-> IF client[r] = h THEN Nothing ELSE client[r]]
    /\ held' = [held EXCEPT ![h] =
                   CASE code = "200" -> <<ticket[h], rprofile[Thread(h)]>>
                     [] code = "401" -> <<ticket[h], Unenrolled>>
                     [] OTHER -> @]
    /\ UNCHANGED tpm

\* Mutant: the attester's loop ends with the first thing that goes wrong.
InitiateOnce(h) ==
    /\ hpc[h] = "sleep" /\ faults = 0
    /\ hpc' = [hpc EXCEPT ![h] = "initial"]
    /\ ticket' = [ticket EXCEPT ![h] = tpm[h]]
    /\ UNCHANGED <<allvars, tpm, age, quoted, client, held, faults>>

\* The client hashes its ek.pub and posts it; /v1/initiate issues a ticket.
Initiate(h) ==
    /\ hpc[h] = "sleep"
    /\ hpc' = [hpc EXCEPT ![h] = "initial"]
    /\ ticket' = [ticket EXCEPT ![h] = tpm[h]]
    /\ UNCHANGED <<allvars, tpm, age, quoted, client, held, faults>>

\* The TPM that the host has by now quotes the nonce of the ticket.
Quote(h) ==
    /\ hpc[h] = "initial"
    /\ hpc' = [hpc EXCEPT ![h] = "quote"]
    /\ quoted' = [quoted EXCEPT ![h] = tpm[h]]
    /\ UNCHANGED <<allvars, tpm, ticket, age, client, held, faults>>

InTime(h) == age[h] >= 0 /\ age[h] <= MaxAge

\* Mutants: a ticket lives a second less; the key that came with the quote is not
\* compared.
VerifiedYoung(h) == InTime(h) /\ age[h] < MaxAge /\ quoted[h] = ticket[h]
VerifiedAny(h) == InTime(h)

\* What /v1/complete asks of ticket and quote before it looks the TPM up.
Verified(h) == InTime(h) /\ quoted[h] = ticket[h]

\* POST /v1/complete, on a thread of the service that is free.
Complete(h, r) ==
    /\ hpc[h] = "quote" /\ rpc[r] = "idle"
    /\ \/ /\ Verified(h) /\ ticket[h] \in TPM
          /\ ReadStart(r, ticket[h])
          /\ client' = [client EXCEPT ![r] = h]
          /\ hpc' = [hpc EXCEPT ![h] = "wait"]
          /\ age' = [age EXCEPT ![h] = 0]
          /\ UNCHANGED <<tpm, ticket, quoted, held>>
       \/ /\ Verified(h) /\ ticket[h] \notin TPM
          /\ Ends(h, "401")
          /\ UNCHANGED rvars
       \/ /\ ~Verified(h)
          /\ Ends(h, "400")
          /\ UNCHANGED rvars
    /\ UNCHANGED <<vars, faults>>

\* The service's thread goes on, and what it answers reaches the host, if that
\* still waits.
Serve(r) ==
    /\ ReadIsDir(r) \/ ReadProfile(r) \/ ReadSeal(r) \/ ReadDone(r)
    /\ IF rpc'[r] = "idle" /\ client[r] # Nothing
       THEN Ends(client[r], ranswer'[r])
       ELSE UNCHANGED <<hvars, client>>
    /\ Fault(IF ranswer'[r] = "tool" THEN 1 ELSE 0)
    /\ UNCHANGED vars

-----------------------------------------------------------------------------
(* What goes wrong *)

\* The TPM fails, the service cannot be reached or does not answer in time, or
\* the tool is killed.
Lost(h) ==
    /\ hpc[h] # "sleep"
    /\ Ends(h, "lost")
    /\ Fault(1)
    /\ UNCHANGED allvars

ThreadDies(r) ==
    /\ ReadDies(r)
    /\ IF client[r] # Nothing THEN Ends(client[r], "lost")
       ELSE UNCHANGED <<hvars, client>>
    /\ Fault(1)
    /\ UNCHANGED vars

\* Time that does not make a ticket too old is no fault.
Live(h) == hpc[h] \in {"initial", "quote"}
Tick ==
    /\ \E h \in Host : Live(h) /\ age[h] <= MaxAge
    /\ age' = [h \in Host |-> IF Live(h) /\ age[h] <= MaxAge
                              THEN age[h] + 1 ELSE age[h]]
    /\ Fault(IF \E h \in Host : age'[h] > MaxAge /\ age'[h] # age[h] THEN 1 ELSE 0)
    /\ UNCHANGED <<allvars, tpm, hpc, ticket, quoted, client, held>>

SetBack ==
    /\ \E h \in Host : Live(h) /\ age[h] >= 0
    /\ age' = [h \in Host |-> IF Live(h) /\ age[h] >= 0
                              THEN age[h] - 1 ELSE age[h]]
    /\ Fault(1)
    /\ UNCHANGED <<allvars, tpm, hpc, ticket, quoted, client, held>>

\* The orchestrator deletes the host's TPM and creates one, or restores it.
ReplaceTPM(h) ==
    /\ \E t \in AnyTPM \ {tpm[h]} : tpm' = [tpm EXCEPT ![h] = t]
    /\ Fault(1)
    /\ UNCHANGED <<allvars, hpc, ticket, age, quoted, client, held>>

-----------------------------------------------------------------------------

HostStep(h) == Initiate(h) \/ Quote(h) \/ \E r \in Reader : Complete(h, r)

\* The enrollment database goes its own way.
Enrolling == Write /\ UNCHANGED <<hvars, client, faults>>

Remember ==
    entitled' = [h \in Host |->
        /\ hpc[h] = "sleep" \/ (entitled[h] /\ tpm'[h] = tpm[h])
        /\ hpc'[h] # "sleep"
        /\ tpm[h] \in TPM
        /\ Enrolled(tpm[h])'
        /\ db'[tpm[h]]["enrolled"].file = db[tpm[h]]["enrolled"].file
        /\ hpc'[h] # "wait" => age'[h] \in age[h]..MaxAge]

AttestNext ==
    /\ \/ Enrolling
       \/ \E h \in Host : HostStep(h) \/ Lost(h) \/ ReplaceTPM(h)
       \/ \E r \in Reader : Serve(r) \/ ThreadDies(r)
       \/ Tick \/ SetBack
    /\ Remember

\* The attester's loop and the service's threads run.
Fairness ==
    /\ \A h \in Host : WF_attestvars(HostStep(h) /\ Remember)
    /\ \A r \in Reader : WF_attestvars(Serve(r) /\ Remember)

AttestSafetySpec == AttestInit /\ [][AttestNext]_attestvars
AttestSpecification == AttestSafetySpec /\ Fairness

-----------------------------------------------------------------------------

AttestTypeOK ==
    /\ tpm \in [Host -> AnyTPM]
    /\ hpc \in [Host -> {"sleep", "initial", "quote", "wait"}]
    /\ ticket \in [Host -> AnyTPM]
    /\ age \in [Host -> -1..MaxAge + 1]
    /\ quoted \in [Host -> AnyTPM]
    /\ client \in [Reader -> Host \cup {Nothing}]
    /\ held \in [Host -> {Nothing} \cup (AnyTPM \X (Profile \cup {Unenrolled}))]
    /\ entitled \in [Host -> BOOLEAN]
    /\ faults \in 0..MaxFault

\* A host whose exchange is as it should be -- one TPM throughout, enrolled
\* without a change from before the ticket on, no clock set back, the ticket not
\* too old -- gets the bundle of its profile unless something breaks, however
\* kills left the database, and whatever exchanges it gave up before.
EntitledIsServed ==
    [][\A h \in Host :
          entitled[h] /\ hpc'[h] = "sleep" /\ faults' = faults =>
              held'[h] = <<tpm[h], Lookup(tpm[h], "profile")>>]_attestvars

\* The map of EnrollSpec as an attestation sees it: enrolled is what has a
\* profile that can be read.
readable ==
    [t \in TPM |-> IF Lookup(t, "profile") \in Profile THEN Lookup(t, "profile")
                   ELSE Unenrolled]

\* Once the service has accepted it, a host asks for the TPM that made its quote.
asking ==
    [h \in Host |-> CASE hpc[h] = "sleep" -> Nothing
                      [] hpc[h] = "wait" -> quoted[h]
                      [] OTHER -> ticket[h]]

found ==
    [h \in Host |-> IF \E r \in Reader : client[r] = h /\ rpc[r] = "seal"
                    THEN rprofile[Thread(h)] ELSE Nothing]

Promise == INSTANCE AttestSpec WITH
    TPM <- TPM, Profile <- Profile, Unenrolled <- Unenrolled, Host <- Host,
    AnyTPM <- AnyTPM, Nothing <- Nothing,
    enrolled <- readable, asks <- asking, looked <- found, held <- held

\* The exchange, beside the workers that change the database, their deaths, and
\* all that goes wrong with it, implements the promise of AttestSpec: no bundle
\* is of a profile that was enrolled only before the host asked, or never, or of
\* a TPM that the host had before and has not any more.
KeepsPromise == Promise!Spec

\* As long as faults end, a host whose TPM stays enrolled with a profile comes to
\* hold the bundle of that profile, and keeps it.
EventuallyHeld ==
    \A h \in Host, t \in TPM, p \in Profile :
        <>[](tpm[h] = t /\ Enrolled(t) /\ Lookup(t, "profile") = p)
            => <>[](held[h] = <<t, p>>)

=============================================================================
