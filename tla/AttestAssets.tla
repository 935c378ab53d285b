---------------------------- MODULE AttestAssets ----------------------------
(***************************************************************************)
(* The other reader of the enrollment database: get_assets of the          *)
(* Attestation Service (hcp/python/hcp/backend/attestsvc.py), which looks   *)
(* the enrollment of an attested TPM up, and generates and seals its        *)
(* assets, file by file, while the Enrollment Service's workers change the  *)
(* same directories.  The two services share nothing but the file system.  *)
(***************************************************************************)
EXTENDS EnrollDB

CONSTANTS
    Reader,    \* the attestation service's worker threads
    Assets     \* bound: the number of secret assets a profile asks for

ASSUME AssetsAssumption == Assets \in Nat

VARIABLES
    rpc,       \* rpc[r]: where reader r is in its handler
    rtpm,      \* rtpm[r]: the TPM it serves
    rprofile,  \* rprofile[r]: the profile it read; "absent" for none
    rleft,     \* rleft[r]: how many assets are still to be sealed
    ranswer,   \* ranswer[r]: its last answer; "tool" is the 500 that a failing
               \* certificate tool or KDC causes
    stable     \* history: stable[r], since r's request arrived its TPM has been
               \* enrolled, and no request has changed its directory

rvars == <<rpc, rtpm, rprofile, rleft, ranswer, stable>>
allvars == <<vars, rvars>>

RPC == {"idle", "isdir", "profile", "seal"}
Answer == {"none", "200", "401", "500", "tool"}

ReaderTypeOK ==
    /\ rpc \in [Reader -> RPC]
    /\ rtpm \in [Reader -> TPM]
    /\ rprofile \in [Reader -> Value]
    /\ rleft \in [Reader -> 0..Assets]
    /\ ranswer \in [Reader -> Answer]
    /\ stable \in [Reader -> BOOLEAN]

ReaderInit ==
    /\ rpc = [r \in Reader |-> "idle"]
    /\ rtpm \in [Reader -> TPM]
    /\ rprofile = [r \in Reader |-> "absent"]
    /\ rleft = [r \in Reader |-> 0]
    /\ ranswer = [r \in Reader |-> "none"]
    /\ stable = [r \in Reader |-> FALSE]

\* The content of a file of t's enrollment, as a path lookup finds it.
Lookup(t, f) ==
    IF Exists(t, "enrolled") THEN db[t]["enrolled"].file[f].val ELSE "absent"

\* The tree r's request depends on: all of its TPM's enrollment.
Enrolled(t) == Exists(t, "enrolled") /\ t \notin torn

ReaderGoto(r, label) == rpc' = [rpc EXCEPT ![r] = label]
\* The handler ends, and its locals with it.
ReaderEnds(r) ==
    /\ ReaderGoto(r, "idle")
    /\ rprofile' = [rprofile EXCEPT ![r] = "absent"]
    /\ rleft' = [rleft EXCEPT ![r] = 0]
    /\ stable' = [stable EXCEPT ![r] = FALSE]
ReaderAnswer(r, code) == ReaderEnds(r) /\ ranswer' = [ranswer EXCEPT ![r] = code]

\* POST /v1/complete has verified a quote of t's TPM.
ReadStart(r, t) ==
    /\ rpc[r] = "idle"
    /\ ReaderGoto(r, "isdir")
    /\ rtpm' = [rtpm EXCEPT ![r] = t]
    /\ ranswer' = [ranswer EXCEPT ![r] = "none"]
    /\ stable' = [stable EXCEPT ![r] = Enrolled(t)]
    /\ UNCHANGED <<rprofile, rleft>>

\* No such directory: UnenrolledTPM, which the front-end makes a 401.
ReadIsDir(r) ==
    /\ rpc[r] = "isdir"
    /\ IF Exists(rtpm[r], "enrolled")
       THEN ReaderGoto(r, "profile") /\ UNCHANGED <<rprofile, rleft, ranswer, stable>>
       ELSE ReaderAnswer(r, "401")
    /\ UNCHANGED rtpm

\* A profile that is missing is taken as {}, and then has no 'days'; one that is
\* only partly written does not parse.
ReadProfile(r) ==
    /\ rpc[r] = "profile"
    /\ LET p == Lookup(rtpm[r], "profile") IN
       \/ /\ p \in Profile
          /\ rprofile' = [rprofile EXCEPT ![r] = p]
          /\ \E n \in 0..Assets : rleft' = [rleft EXCEPT ![r] = n]
          /\ ReaderGoto(r, "seal")
          /\ UNCHANGED <<ranswer, stable>>
       \/ /\ p \notin Profile
          /\ ReaderAnswer(r, "500")
    /\ UNCHANGED rtpm

\* Each asset is generated, and sealed to the ek.pub of the enrollment.
ReadSeal(r) ==
    /\ rpc[r] = "seal" /\ rleft[r] > 0
    /\ \/ /\ Lookup(rtpm[r], "ek.pub") = "ek"
          /\ rleft' = [rleft EXCEPT ![r] = @ - 1]
          /\ UNCHANGED <<rpc, rprofile, ranswer, stable>>
       \/ Lookup(rtpm[r], "ek.pub") # "ek" /\ ReaderAnswer(r, "500")
       \/ ReaderAnswer(r, "tool")
    /\ UNCHANGED rtpm

ReadDone(r) ==
    /\ rpc[r] = "seal" /\ rleft[r] = 0
    /\ ReaderAnswer(r, "200")
    /\ UNCHANGED rtpm

\* uwsgi's harakiri, or the container's end: there is no answer.
ReadDies(r) ==
    /\ rpc[r] # "idle"
    /\ ReaderEnds(r)
    /\ UNCHANGED <<rtpm, ranswer>>

Read(r) ==
    \/ \E t \in TPM : ReadStart(r, t)
    \/ ReadIsDir(r) \/ ReadProfile(r) \/ ReadSeal(r) \/ ReadDone(r)
    \/ ReadDies(r)

\* A step of the enrollment service, as the readers' history records it.
Write ==
    /\ Next /\ Exclusive'
    /\ UNCHANGED <<rpc, rtpm, rprofile, rleft, ranswer>>
    /\ stable' = [r \in Reader |->
                     /\ stable[r]
                     /\ Enrolled(rtpm[r])'
                     /\ db'[rtpm[r]]["enrolled"].file
                           = db[rtpm[r]]["enrolled"].file]

SharedInit == Init /\ ReaderInit
SharedNext == Write \/ ((\E r \in Reader : Read(r)) /\ UNCHANGED vars)
SharedSpec == SharedInit /\ [][SharedNext]_allvars

-----------------------------------------------------------------------------

Refused(r) == rpc[r] # "idle" /\ ranswer'[r] \in {"401", "500"}

\* An attestation whose TPM stays enrolled with a profile is never refused,
\* whatever dies in the middle of earlier adds and deletes, and whatever goes on
\* with other TPMs: what get_assets finds of an enrollment is complete.
NeverRefused ==
    [][\A r \in Reader : stable[r] => ~Refused(r)]_allvars

=============================================================================
