---------------------------- MODULE AttestProofs ----------------------------
(***************************************************************************)
(* The two services together: a reader in the Attestation Service needs of  *)
(* the enrollment's directories only what EnrollDBProofs shows of them; the *)
(* exchange by which hosts attest adds nothing to what AttestAssets lets    *)
(* its readers do, so what is proved there holds of it, and what links a    *)
(* ticket, a quote and a thread of the service is inductive; a host whose   *)
(* exchange goes as it should is served; and each step of the two together  *)
(* is a step of the promise of AttestSpec, or none of it.                   *)
(***************************************************************************)
EXTENDS Attest, EnrollDBProofs

(* The readers *)

ReadersOK ==
    \A r \in Reader :
        /\ rtpm[r] \in TPM
        /\ stable[r] => Enrolled(rtpm[r])
        /\ rpc[r] # "idle" => ranswer[r] = "none"

SharedInv == TypeOK /\ JobOK /\ ExclusiveInv /\ ReaderTypeOK /\ ReadersOK

LEMMA EnrolledStays ==
    ASSUME UNCHANGED vars, NEW t \in TPM
    PROVE  Enrolled(t)' <=> Enrolled(t)
BY DEF vars, Enrolled, Exists

\* However a request ends, there is nothing left of it but its answer.
LEMMA EndKeeps ==
    ASSUME SharedInv, UNCHANGED vars, NEW r \in Reader, ReaderEnds(r),
           UNCHANGED rtpm, NEW a \in Answer,
           ranswer' = ranswer \/ ranswer' = [ranswer EXCEPT ![r] = a]
    PROVE  ReaderTypeOK' /\ ReadersOK'
<1> USE DEF SharedInv, ReaderTypeOK, ReaderEnds, ReaderGoto
<1>1. rpc' \in [Reader -> RPC]
  BY DEF RPC
<1>2. rleft' \in [Reader -> 0..Assets]
  BY AssetsAssumption
<1>3. rprofile' \in [Reader -> Value] /\ ranswer' \in [Reader -> Answer]
  BY DEF Value
<1>4. stable' \in [Reader -> BOOLEAN]
  BY Zenon
<1>5. ReadersOK'
  <2> SUFFICES ASSUME NEW q \in Reader
               PROVE  /\ rtpm'[q] \in TPM
                      /\ stable'[q] => Enrolled(rtpm[q])'
                      /\ rpc'[q] # "idle" => ranswer'[q] = "none"
    BY DEF ReadersOK
  <2>1. rtpm[q] \in TPM /\ (Enrolled(rtpm[q])' <=> Enrolled(rtpm[q]))
    BY EnrolledStays DEF ReadersOK
  <2>2. CASE q = r
    BY <2>1, <2>2
  <2>3. CASE q # r
    BY <2>1, <2>3 DEF ReadersOK
  <2>4. QED
    BY <2>2, <2>3
<1>6. QED
  BY <1>1, <1>2, <1>3, <1>4, <1>5

LEMMA AnswerKeeps ==
    ASSUME SharedInv, UNCHANGED vars, NEW r \in Reader, UNCHANGED rtpm,
           NEW a \in Answer, ReaderAnswer(r, a)
    PROVE  ReaderTypeOK' /\ ReadersOK'
BY EndKeeps DEF ReaderAnswer

LEMMA ReadKeeps ==
    ASSUME SharedInv, NEW r \in Reader, Read(r), UNCHANGED vars
    PROVE  ReaderTypeOK' /\ ReadersOK'
<1>1. \A t \in TPM : Enrolled(t)' <=> Enrolled(t)
  BY EnrolledStays
<1>2. {"200", "401", "500", "tool", "none"} \subseteq Answer
  BY DEF Answer
<1> USE DEF SharedInv, ReaderTypeOK, ReadersOK, ReaderGoto, RPC
<1>3. ASSUME NEW t \in TPM, ReadStart(r, t)
      PROVE  ReaderTypeOK' /\ ReadersOK'
  BY <1>1, <1>2, <1>3 DEF ReadStart, Enrolled, Exists
<1>4. CASE ReadIsDir(r)
  <2>1. CASE Exists(rtpm[r], "enrolled")
    BY <1>1, <1>4, <2>1 DEF ReadIsDir
  <2>2. CASE ~Exists(rtpm[r], "enrolled")
    BY <1>2, <1>4, <2>2, AnswerKeeps DEF ReadIsDir
  <2>3. QED
    BY <2>1, <2>2
<1>5. CASE ReadProfile(r)
  <2>1. CASE ReaderAnswer(r, "500") /\ UNCHANGED rtpm
    BY <1>2, <2>1, AnswerKeeps
  <2>2. CASE ~ReaderAnswer(r, "500")
    <3>1. rprofile' \in [Reader -> Value] /\ rleft' \in [Reader -> 0..Assets]
      BY <1>5, <2>2 DEF ReadProfile, Value
    <3>2. rpc' \in [Reader -> RPC] /\ ranswer' \in [Reader -> Answer]
      BY <1>5, <2>2 DEF ReadProfile
    <3>3. QED
      BY <1>1, <1>5, <2>2, <3>1, <3>2 DEF ReadProfile
  <2>3. QED
    BY <1>5, <2>1, <2>2 DEF ReadProfile
<1>6. CASE ReadSeal(r)
  <2>1. CASE \E a \in {"500", "tool"} : ReaderAnswer(r, a) /\ UNCHANGED rtpm
    BY <1>2, <2>1, AnswerKeeps
  <2>2. CASE ~\E a \in {"500", "tool"} : ReaderAnswer(r, a)
    <3>1. rleft' \in [Reader -> 0..Assets]
      BY <1>6, <2>2, AssetsAssumption DEF ReadSeal
    <3>2. QED
      BY <1>1, <1>6, <2>2, <3>1 DEF ReadSeal
  <2>3. QED
    BY <1>6, <2>1, <2>2 DEF ReadSeal
<1>7. CASE ReadDone(r)
  BY <1>2, <1>7, AnswerKeeps DEF ReadDone
<1>8. CASE ReadDies(r)
  BY <1>2, <1>8, EndKeeps DEF ReadDies
<1>9. QED
  BY <1>3, <1>4, <1>5, <1>6, <1>7, <1>8 DEF Read

LEMMA WriteKeeps ==
    ASSUME SharedInv, Write
    PROVE  ReaderTypeOK' /\ ReadersOK'
<1>1. UNCHANGED <<rpc, rtpm, rprofile, rleft, ranswer>>
  BY DEF Write
<1>2. ASSUME NEW r \in Reader
      PROVE  stable'[r] \in BOOLEAN /\ (stable'[r] => Enrolled(rtpm[r])')
  BY DEF Write, SharedInv, ReaderTypeOK
<1>3. stable' \in [Reader -> BOOLEAN]
  BY <1>2 DEF Write
<1>4. QED
  BY <1>1, <1>2, <1>3 DEF SharedInv, ReaderTypeOK, ReadersOK

LEMMA SharedStep ==
    ASSUME AddProfile \subseteq Profile, SharedInv, [SharedNext]_allvars
    PROVE  SharedInv'
<1>1. CASE Write
  <2>1. TypeOK' /\ JobOK'
    BY <1>1, StepType, JobStep DEF Write, Next, SharedInv
  <2>2. ExclusiveInv'
    BY <1>1, ExclusiveInvStep DEF Write, SharedInv
  <2>3. QED
    BY <1>1, <2>1, <2>2, WriteKeeps DEF SharedInv
<1>2. CASE (\E r \in Reader : Read(r)) /\ UNCHANGED vars
  <2>1. TypeOK' /\ JobOK'
    BY <1>2 DEF vars, SharedInv, TypeOK, JobOK, JobOf, FilesOf
  <2>2. ExclusiveInv'
    BY <1>2, ExclusiveInvStep DEF SharedInv
  <2>3. QED
    BY <1>2, <2>1, <2>2, ReadKeeps DEF SharedInv
<1>3. CASE UNCHANGED allvars
  <2>1. TypeOK' /\ JobOK'
    BY <1>3 DEF allvars, vars, SharedInv, TypeOK, JobOK, JobOf, FilesOf
  <2>2. ExclusiveInv'
    BY <1>3, ExclusiveInvStep DEF SharedInv, allvars
  <2>3. ReaderTypeOK' /\ ReadersOK'
    BY <1>3 DEF allvars, vars, rvars, SharedInv, ReaderTypeOK, ReadersOK,
                Enrolled, Exists
  <2>4. QED
    BY <2>1, <2>2, <2>3 DEF SharedInv
<1>4. QED
  BY <1>1, <1>2, <1>3 DEF SharedNext

LEMMA SharedInitInv == SharedInit => SharedInv
<1> SUFFICES ASSUME SharedInit PROVE SharedInv
  OBVIOUS
<1>1. TypeOK /\ JobOK /\ ExclusiveInv
  BY InitTypeOK, ExclusiveInvInit DEF SharedInit
<1>2. ReaderTypeOK /\ ReadersOK
  BY AssetsAssumption
     DEF SharedInit, ReaderInit, ReaderTypeOK, ReadersOK, RPC, Answer, Value
<1>3. QED
  BY <1>1, <1>2 DEF SharedInv

\* What is read of an enrollment that nobody is changing is complete.
LEMMA StableNotRefused ==
    ASSUME SharedInv, [SharedNext]_allvars, NEW r \in Reader, stable[r]
    PROVE  ~Refused(r)
<1>1. /\ Exists(rtpm[r], "enrolled")
      /\ Lookup(rtpm[r], "profile") \in Profile
      /\ Lookup(rtpm[r], "ek.pub") = "ek"
  BY DEF SharedInv, ReadersOK, Enrolled, ExclusiveInv, Sound, Whole, Lookup
<1>2. SUFFICES ASSUME Refused(r)
               PROVE  FALSE
  OBVIOUS
<1> USE DEF Refused, ReaderTypeOK, SharedInv, ReaderGoto, ReaderAnswer, ReaderEnds,
            ReadersOK
<1>3. CASE Write \/ UNCHANGED allvars
  BY <1>2, <1>3 DEF Write, allvars, rvars
<1>4. ASSUME NEW q \in Reader, Read(q)
      PROVE  FALSE
  <2>1. CASE q # r
    BY <1>2, <1>4, <2>1
       DEF Read, ReadStart, ReadIsDir, ReadProfile, ReadSeal, ReadDone, ReadDies
  <2>2. CASE q = r
    BY <1>1, <1>2, <1>4, <2>2
       DEF Read, ReadStart, ReadIsDir, ReadProfile, ReadSeal, ReadDone, ReadDies
  <2>3. QED
    BY <2>1, <2>2
<1>5. QED
  BY <1>3, <1>4 DEF SharedNext

\* An attested TPM whose enrollment is not being changed gets its assets (or the
\* error of a tool that generates them): never a 401, nor the 500 of an
\* enrollment that lacks a file, whatever killed workers left behind.
THEOREM AttestNeverRefused ==
    ASSUME AddProfile \subseteq Profile
    PROVE  SharedSpec => NeverRefused
<1>1. SharedInit => SharedInv
  BY SharedInitInv
<1>2. SharedInv /\ [SharedNext]_allvars => SharedInv'
  BY SharedStep
<1>3. SharedInv /\ [SharedNext]_allvars
        => [\A r \in Reader : stable[r] => ~Refused(r)]_allvars
  BY StableNotRefused
<1>4. QED
  BY <1>1, <1>2, <1>3, PTL DEF SharedSpec, NeverRefused

-----------------------------------------------------------------------------
(* The exchange *)

\* A thread works for the host that waits for it, on the TPM of its ticket.
ThreadOK(r) ==
    /\ client[r] # Nothing =>
          rpc[r] # "idle" /\ hpc[client[r]] = "wait" /\ rtpm[r] = ticket[client[r]]
    /\ rpc[r] = "seal" => rprofile[r] \in Profile

ExchangeOK ==
    /\ \A r \in Reader : ThreadOK(r)
    /\ \A q, r \in Reader : client[q] = client[r] /\ client[r] # Nothing => q = r
    /\ \A h \in Host : hpc[h] = "wait" => quoted[h] = ticket[h]

AttestInv == SharedInv /\ AttestTypeOK /\ ExchangeOK

-----------------------------------------------------------------------------

\* Each step of the exchange is a step of AttestAssets, or none of its concern.
LEMMA ExchangeIsShared ==
    ASSUME [AttestNext]_attestvars
    PROVE  [SharedNext]_allvars
<1>1. CASE Enrolling
  BY <1>1 DEF Enrolling, SharedNext
<1>2. ASSUME NEW h \in Host, HostStep(h) \/ Lost(h) \/ ReplaceTPM(h)
      PROVE  [SharedNext]_allvars
  <2>1. CASE Initiate(h) \/ Quote(h) \/ Lost(h) \/ ReplaceTPM(h)
    BY <2>1 DEF Initiate, Quote, Lost, ReplaceTPM
  <2>2. ASSUME NEW r \in Reader, Complete(h, r)
        PROVE  [SharedNext]_allvars
    BY <2>2 DEF Complete, SharedNext, Read, allvars
  <2>3. QED
    BY <1>2, <2>1, <2>2 DEF HostStep
<1>3. ASSUME NEW r \in Reader, Serve(r) \/ ThreadDies(r)
      PROVE  [SharedNext]_allvars
  BY <1>3 DEF Serve, ThreadDies, SharedNext, Read
<1>4. CASE Tick \/ SetBack \/ UNCHANGED attestvars
  BY <1>4 DEF Tick, SetBack, attestvars
<1>5. QED
  BY <1>1, <1>2, <1>3, <1>4 DEF AttestNext

THEOREM ExchangeImplementsReaders == AttestSafetySpec => SharedSpec
<1>1. AttestInit => SharedInit
  BY DEF AttestInit
<1>2. QED
  BY <1>1, ExchangeIsShared, PTL DEF AttestSafetySpec, SharedSpec

\* In the whole exchange, whatever is lost, late, killed or replaced, a TPM that
\* stays enrolled while the service works for it is never refused.
THEOREM ExchangeNeverRefused ==
    ASSUME AddProfile \subseteq Profile
    PROVE  AttestSafetySpec => NeverRefused
BY ExchangeImplementsReaders, AttestNeverRefused

-----------------------------------------------------------------------------

\* A thread's step is no other thread's business.
LEMMA OtherThreads ==
    ASSUME ReaderTypeOK, NEW r \in Reader, Read(r), NEW q \in Reader, q # r
    PROVE  /\ rpc'[q] = rpc[q] /\ rtpm'[q] = rtpm[q] /\ rprofile'[q] = rprofile[q]
           /\ ranswer'[q] = ranswer[q] /\ stable'[q] = stable[q]
BY DEF ReaderTypeOK, Read, ReadStart, ReadIsDir, ReadProfile, ReadSeal, ReadDone,
       ReadDies, ReaderAnswer, ReaderEnds, ReaderGoto

\* A thread that has looked a profile up has one.
LEMMA ReadOwn ==
    ASSUME ReaderTypeOK, NEW r \in Reader, Read(r), rpc'[r] # "idle"
    PROVE  /\ rpc[r] # "idle" => rtpm'[r] = rtpm[r]
           /\ rpc'[r] = "seal" =>
                 \/ rpc[r] = "seal" /\ rprofile'[r] = rprofile[r]
                 \/ /\ rpc[r] = "profile"
                    /\ rprofile'[r] = Lookup(rtpm[r], "profile")
                    /\ rprofile'[r] \in Profile
BY DEF ReaderTypeOK, Read, ReadStart, ReadIsDir, ReadProfile, ReadSeal, ReadDone,
       ReadDies, ReaderAnswer, ReaderEnds, ReaderGoto

LEMMA ThreadIs ==
    ASSUME ExchangeOK, NEW r \in Reader, NEW h \in Host, client[r] = h
    PROVE  Thread(h) = r
BY AttestAssumption DEF ExchangeOK, Thread

\* When an exchange has ended, what is left of the others is as it was.
LEMMA EndsType ==
    ASSUME AttestTypeOK, NEW h \in Host, NEW code, Ends(h, code),
           code = "200" => rprofile[Thread(h)] \in Profile
    PROVE  /\ tpm' \in [Host -> AnyTPM]
           /\ hpc' \in [Host -> {"sleep", "initial", "quote", "wait"}]
           /\ ticket' \in [Host -> AnyTPM]
           /\ age' \in [Host -> -1..MaxAge + 1]
           /\ quoted' \in [Host -> AnyTPM]
           /\ client' \in [Reader -> Host \cup {Nothing}]
           /\ held' \in [Host -> {Nothing} \cup (AnyTPM \X (Profile \cup {Unenrolled}))]
<1> USE DEF AttestTypeOK, Ends
<1>1. OtherTPM \in AnyTPM
  BY DEF AnyTPM
<1>2. 0 \in -1..MaxAge + 1
  BY AttestAssumption
<1>3. age' \in [Host -> -1..MaxAge + 1]
  BY <1>2
<1>4. held'[h] \in {Nothing} \cup (AnyTPM \X (Profile \cup {Unenrolled}))
  OBVIOUS
<1>5. held' = [held EXCEPT ![h] = held'[h]]
  OBVIOUS
<1>6. held' \in [Host -> {Nothing} \cup (AnyTPM \X (Profile \cup {Unenrolled}))]
  BY <1>4, <1>5
<1>7. QED
  BY <1>1, <1>3, <1>6

\* What a step of thread r gives away of the profile it has looked up.
LEMMA AnswerHasProfile ==
    ASSUME AttestInv, NEW r \in Reader, Serve(r), client[r] # Nothing,
           ranswer'[r] = "200", rpc'[r] = "idle"
    PROVE  /\ rprofile[Thread(client[r])] \in Profile
           /\ Thread(client[r]) = r /\ rpc[r] = "seal"
<1> USE DEF AttestInv
<1>1. client[r] \in Host /\ Thread(client[r]) = r
  BY ThreadIs DEF AttestTypeOK
<1>2. ReadDone(r)
  BY DEF Serve, ReadIsDir, ReadProfile, ReadSeal, ReadDone, ReaderAnswer, ReaderEnds,
         ReaderGoto, SharedInv, ReaderTypeOK, RPC
<1>3. rpc[r] = "seal" /\ rprofile[r] \in Profile
  BY <1>2 DEF ReadDone, ExchangeOK, ThreadOK
<1>4. QED
  BY <1>1, <1>3

LEMMA AttestTypeStep ==
    ASSUME AttestInv, [AttestNext]_attestvars
    PROVE  AttestTypeOK'
<1> USE DEF AttestInv
<1>1. CASE UNCHANGED attestvars
  BY <1>1 DEF attestvars, hvars, AttestTypeOK
<1>2. CASE AttestNext
  <2>1. entitled' \in [Host -> BOOLEAN]
    <3>1. \A h \in Host : entitled'[h] \in BOOLEAN
      BY <1>2, Zenon DEF AttestNext, Remember
    <3>2. QED
      BY <1>2, <3>1 DEF AttestNext, Remember
  <2>2. ASSUME NEW n \in 0..1, Fault(n)
        PROVE  faults' \in 0..MaxFault
    BY <2>2, AttestAssumption DEF Fault, AttestTypeOK
  <2>3. CASE Enrolling
    BY <2>1, <2>3 DEF Enrolling, hvars, AttestTypeOK
  <2>4. ASSUME NEW h \in Host, Initiate(h) \/ Quote(h)
        PROVE  AttestTypeOK'
    BY <2>1, <2>4 DEF Initiate, Quote, AttestTypeOK
  <2>5. ASSUME NEW h \in Host, NEW r \in Reader, Complete(h, r)
        PROVE  AttestTypeOK'
    <3>1. CASE \E code \in {"400", "401"} : Ends(h, code)
      BY <2>1, <2>5, <3>1, EndsType DEF Complete, AttestTypeOK
    <3>2. CASE ~\E code \in {"400", "401"} : Ends(h, code)
      <4>1. 0 \in -1..MaxAge + 1
        BY AttestAssumption
      <4>2. age' \in [Host -> -1..MaxAge + 1]
        BY <2>5, <3>2, <4>1 DEF Complete, AttestTypeOK
      <4>3. QED
        BY <2>1, <2>5, <3>2, <4>2 DEF Complete, AttestTypeOK
    <3>3. QED
      BY <3>1, <3>2
  <2>6. ASSUME NEW r \in Reader, Serve(r)
        PROVE  AttestTypeOK'
    <3>1. faults' \in 0..MaxFault
      BY <2>2, <2>6 DEF Serve
    <3>2. CASE rpc'[r] = "idle" /\ client[r] # Nothing
      <4>1. client[r] \in Host /\ Ends(client[r], ranswer'[r])
        BY <2>6, <3>2 DEF Serve, AttestTypeOK
      <4>2. QED
        BY <2>1, <2>6, <3>1, <3>2, <4>1, EndsType, AnswerHasProfile DEF AttestTypeOK
    <3>3. CASE ~(rpc'[r] = "idle" /\ client[r] # Nothing)
      BY <2>1, <2>6, <3>1, <3>3 DEF Serve, hvars, AttestTypeOK
    <3>4. QED
      BY <3>2, <3>3
  <2>7. ASSUME NEW h \in Host, Lost(h)
        PROVE  AttestTypeOK'
    BY <2>1, <2>2, <2>7, EndsType DEF Lost, AttestTypeOK
  <2>8. ASSUME NEW r \in Reader, ThreadDies(r)
        PROVE  AttestTypeOK'
    <3>1. CASE client[r] # Nothing
      <4>1. client[r] \in Host /\ Ends(client[r], "lost")
        BY <2>8, <3>1 DEF ThreadDies, AttestTypeOK
      <4>2. QED
        BY <2>1, <2>2, <2>8, <4>1, EndsType DEF ThreadDies, AttestTypeOK
    <3>2. CASE client[r] = Nothing
      BY <2>1, <2>2, <2>8, <3>2 DEF ThreadDies, hvars, AttestTypeOK
    <3>3. QED
      BY <3>1, <3>2
  <2>9. ASSUME NEW h \in Host, ReplaceTPM(h)
         PROVE  AttestTypeOK'
    BY <2>1, <2>2, <2>9 DEF ReplaceTPM, AttestTypeOK
  <2>10. CASE Tick \/ SetBack
    <3>1. faults' \in 0..MaxFault
      BY <2>2, <2>10 DEF Tick, SetBack
    <3>2. age' \in [Host -> -1..MaxAge + 1]
      BY <2>10, AttestAssumption DEF Tick, SetBack, AttestTypeOK
    <3>3. QED
      BY <2>1, <2>10, <3>1, <3>2 DEF Tick, SetBack, AttestTypeOK
  <2>11. QED
    BY <1>2, <2>3, <2>4, <2>5, <2>6, <2>7, <2>8, <2>9, <2>10
       DEF AttestNext, HostStep
<1>3. QED
  BY <1>1, <1>2

-----------------------------------------------------------------------------

LEMMA EndsExchange ==
    ASSUME AttestInv, NEW h \in Host, NEW code, Ends(h, code),
           \A q \in Reader : client'[q] # Nothing =>
               rpc'[q] = rpc[q] /\ rtpm'[q] = rtpm[q],
           \A q \in Reader : rpc'[q] = "seal" => rprofile'[q] \in Profile
    PROVE  ExchangeOK'
<1> USE DEF AttestInv, AttestTypeOK
<1>1. ASSUME NEW q \in Reader, client'[q] # Nothing
      PROVE  client[q] # h /\ client'[q] = client[q] /\ client[q] \in Host
  BY <1>1 DEF Ends
<1>2. ASSUME NEW q \in Reader
      PROVE  ThreadOK(q)'
  <2>1. CASE client'[q] # Nothing
    <3>1. /\ hpc'[client[q]] = hpc[client[q]] /\ ticket'[client[q]] = ticket[client[q]]
      BY <1>1, <2>1 DEF Ends
    <3>2. QED
      BY <1>1, <2>1, <3>1 DEF ExchangeOK, ThreadOK
  <2>2. CASE client'[q] = Nothing
    BY <2>2 DEF ThreadOK
  <2>3. QED
    BY <2>1, <2>2
<1>3. ASSUME NEW q \in Reader, NEW r \in Reader, client'[q] = client'[r],
             client'[r] # Nothing
      PROVE  q = r
  BY <1>1, <1>3 DEF ExchangeOK
<1>4. ASSUME NEW g \in Host, hpc'[g] = "wait"
      PROVE  quoted'[g] = ticket'[g]
  BY <1>4 DEF Ends, ExchangeOK
<1>5. QED
  BY <1>2, <1>3, <1>4 DEF ExchangeOK

LEMMA ExchangeStep ==
    ASSUME AttestInv, [AttestNext]_attestvars
    PROVE  ExchangeOK'
<1> USE DEF AttestInv, AttestTypeOK
<1>1. CASE UNCHANGED attestvars
  BY <1>1 DEF attestvars, hvars, allvars, rvars, ExchangeOK, ThreadOK
<1>2. CASE Enrolling \/ Tick \/ SetBack \/ \E h \in Host : ReplaceTPM(h)
  BY <1>2 DEF Enrolling, Write, Tick, SetBack, ReplaceTPM, hvars, allvars, rvars,
              ExchangeOK, ThreadOK
<1>3. ASSUME NEW h \in Host, Initiate(h) \/ Quote(h)
      PROVE  ExchangeOK'
  <2>1. \A r \in Reader : client[r] # h
    BY <1>3, AttestAssumption DEF Initiate, Quote, ExchangeOK, ThreadOK
  <2>2. \A g \in Host \ {h} :
          hpc'[g] = hpc[g] /\ ticket'[g] = ticket[g] /\ quoted'[g] = quoted[g]
    BY <1>3 DEF Initiate, Quote
  <2>3. UNCHANGED <<allvars, client>> /\ hpc'[h] # "wait"
    BY <1>3 DEF Initiate, Quote
  <2>4. QED
    BY <2>1, <2>2, <2>3 DEF allvars, rvars, ExchangeOK, ThreadOK
<1>4. ASSUME NEW h \in Host, NEW r \in Reader, Complete(h, r)
      PROVE  ExchangeOK'
  <2>1. CASE \E code \in {"400", "401"} : Ends(h, code) /\ UNCHANGED rvars
    BY <2>1, EndsExchange DEF rvars, ExchangeOK, ThreadOK
  <2>2. CASE /\ Verified(h) /\ ticket[h] \in TPM
             /\ ReadStart(r, ticket[h])
             /\ client' = [client EXCEPT ![r] = h]
             /\ hpc' = [hpc EXCEPT ![h] = "wait"]
             /\ UNCHANGED <<ticket, quoted>>
    <3>1. \A q \in Reader : client[q] # h
      BY <1>4, AttestAssumption DEF Complete, ExchangeOK, ThreadOK
    <3>2. rpc'[r] = "isdir" /\ rtpm'[r] = ticket[h] /\ rprofile' = rprofile
      BY <2>2 DEF ReadStart, ReaderGoto, SharedInv, ReaderTypeOK
    <3>3. \A q \in Reader \ {r} : rpc'[q] = rpc[q] /\ rtpm'[q] = rtpm[q]
      BY <2>2, OtherThreads DEF Read, SharedInv
    <3>4. \A q \in Reader : ThreadOK(q)'
      BY <2>2, <3>1, <3>2, <3>3 DEF ExchangeOK, ThreadOK
    <3>5. \A q, p \in Reader : client'[q] = client'[p] /\ client'[p] # Nothing => q = p
      BY <2>2, <3>1 DEF ExchangeOK
    <3>6. \A g \in Host : hpc'[g] = "wait" => quoted'[g] = ticket'[g]
      BY <2>2 DEF ExchangeOK, Verified
    <3>7. QED
      BY <3>4, <3>5, <3>6 DEF ExchangeOK
  <2>3. QED
    BY <1>4, <2>1, <2>2 DEF Complete
<1>5. ASSUME NEW r \in Reader, Serve(r) \/ ThreadDies(r)
      PROVE  ExchangeOK'
  <2>1. Read(r)
    BY <1>5 DEF Serve, ThreadDies, Read
  <2>2. \A q \in Reader : rpc'[q] = "seal" => rprofile'[q] \in Profile
    BY <2>1, OtherThreads, ReadOwn DEF SharedInv, ExchangeOK, ThreadOK
  <2>3. CASE rpc'[r] = "idle" /\ client[r] # Nothing
    <3>1. PICK code : Ends(client[r], code)
      BY <1>5, <2>3 DEF Serve, ThreadDies
    <3>2. client'[r] = Nothing
      BY <3>1 DEF Ends
    <3>3. QED
      BY <2>1, <2>2, <2>3, <3>1, <3>2, EndsExchange, OtherThreads DEF SharedInv
  <2>4. CASE ~(rpc'[r] = "idle" /\ client[r] # Nothing)
    <3>1. UNCHANGED <<hvars, client>>
      BY <1>5, <2>4 DEF Serve, ThreadDies, ReadDies, ReaderEnds, ReaderGoto,
                        SharedInv, ReaderTypeOK
    <3>2. rpc[r] # "idle"
      BY <1>5 DEF Serve, ThreadDies, ReadDies, ReadIsDir, ReadProfile, ReadSeal, ReadDone
    <3>3. \A q \in Reader : ThreadOK(q)'
      BY <2>1, <2>2, <2>4, <3>1, <3>2, OtherThreads, ReadOwn
         DEF SharedInv, ExchangeOK, ThreadOK, hvars
    <3>4. QED
      BY <3>1, <3>3 DEF ExchangeOK, hvars
  <2>5. QED
    BY <2>3, <2>4
<1>6. ASSUME NEW h \in Host, Lost(h)
      PROVE  ExchangeOK'
  BY <1>6, EndsExchange DEF Lost, allvars, rvars, ExchangeOK, ThreadOK
<1>7. QED
  BY <1>1, <1>2, <1>3, <1>4, <1>5, <1>6 DEF AttestNext, HostStep

\* What a ticket names, a quote is of and a thread works on stay the same, in all
\* that can go wrong.
THEOREM ExchangeCorrect ==
    ASSUME AddProfile \subseteq Profile
    PROVE  AttestSafetySpec => []AttestInv
<1>1. AttestInit => AttestInv
  <2> SUFFICES ASSUME AttestInit
               PROVE  AttestInv
    OBVIOUS
  <2>1. SharedInv
    BY SharedInitInv DEF AttestInit
  <2>2. 0 \in -1..MaxAge + 1 /\ 0 \in 0..MaxFault
    BY AttestAssumption
  <2>3. AttestTypeOK
    BY <2>2 DEF AttestInit, AttestTypeOK, AnyTPM
  <2>4. ExchangeOK
    BY DEF AttestInit, SharedInit, ReaderInit, ExchangeOK, ThreadOK
  <2>5. QED
    BY <2>1, <2>3, <2>4 DEF AttestInv
<1>2. AttestInv /\ [AttestNext]_attestvars => AttestInv'
  BY ExchangeIsShared, SharedStep, AttestTypeStep, ExchangeStep DEF AttestInv
<1>3. QED
  BY <1>1, <1>2, PTL DEF AttestSafetySpec

-----------------------------------------------------------------------------
(* Whose exchange goes as it should is served *)

Deserves(h) ==
    /\ hpc[h] # "sleep" /\ tpm[h] \in TPM /\ Enrolled(tpm[h])
    /\ ticket[h] = tpm[h] /\ (hpc[h] = "quote" => quoted[h] = tpm[h])
    /\ hpc[h] # "wait" => age[h] \in 0..MaxAge
    /\ \A r \in Reader : client[r] = h =>
          stable[r] /\ (rpc[r] = "seal" => rprofile[r] = Lookup(tpm[h], "profile"))

EntitledOK ==
    \A h \in Host : (hpc[h] = "sleep" => age[h] = 0) /\ (entitled[h] => Deserves(h))

\* A thread that goes on does not take the enrollment for another.
LEMMA ReadStable ==
    ASSUME ReaderTypeOK, NEW r \in Reader, Read(r), rpc[r] # "idle", rpc'[r] # "idle"
    PROVE  stable'[r] = stable[r]
BY DEF ReaderTypeOK, Read, ReadStart, ReadIsDir, ReadProfile, ReadSeal, ReadDone,
       ReadDies, ReaderAnswer, ReaderEnds, ReaderGoto

LEMMA SameEnrollment ==
    ASSUME UNCHANGED vars, NEW t \in TPM
    PROVE  Lookup(t, "profile")' = Lookup(t, "profile")
BY DEF vars, Lookup, Exists

LEMMA Remembered ==
    ASSUME Remember, NEW h \in Host, entitled'[h]
    PROVE  /\ hpc[h] = "sleep" \/ (entitled[h] /\ tpm'[h] = tpm[h])
           /\ hpc'[h] # "sleep" /\ tpm[h] \in TPM /\ Enrolled(tpm[h])'
           /\ db'[tpm[h]]["enrolled"].file = db[tpm[h]]["enrolled"].file
           /\ hpc'[h] # "wait" => age'[h] \in age[h]..MaxAge
BY Zenon DEF Remember

\* What a step does to a host that it does not serve.
LEMMA NotServed ==
    ASSUME AttestInv, AttestNext, NEW h \in Host,
           ~Initiate(h), ~Quote(h), ~\E r \in Reader : Complete(h, r),
           hpc'[h] # "sleep" \/ hpc[h] = "sleep"
    PROVE  /\ hpc'[h] = hpc[h] /\ ticket'[h] = ticket[h] /\ quoted'[h] = quoted[h]
           /\ \A q \in Reader : client'[q] = h <=> client[q] = h
<1> USE DEF AttestInv, AttestTypeOK
<1>1. CASE Enrolling \/ Tick \/ SetBack \/ \E g \in Host : ReplaceTPM(g)
  BY <1>1 DEF Enrolling, Tick, SetBack, ReplaceTPM, hvars
<1>2. ASSUME NEW g \in Host \ {h}, NEW code, Ends(g, code)
      PROVE  /\ hpc'[h] = hpc[h] /\ ticket'[h] = ticket[h] /\ quoted'[h] = quoted[h]
             /\ \A q \in Reader : client'[q] = h <=> client[q] = h
  BY <1>2, AttestAssumption DEF Ends
<1>3. ASSUME NEW code, Ends(h, code), hpc[h] # "sleep"
      PROVE  FALSE
  BY <1>3 DEF Ends
<1>4. ASSUME NEW r \in Reader, client[r] = h
      PROVE  hpc[h] = "wait"
  BY <1>4, AttestAssumption DEF ExchangeOK, ThreadOK
<1>5. ASSUME NEW g \in Host \ {h}, Initiate(g) \/ Quote(g)
      PROVE  /\ hpc'[h] = hpc[h] /\ ticket'[h] = ticket[h] /\ quoted'[h] = quoted[h]
             /\ client' = client
  BY <1>5 DEF Initiate, Quote
<1>6. ASSUME NEW g \in Host \ {h}, NEW r \in Reader, Complete(g, r)
      PROVE  /\ hpc'[h] = hpc[h] /\ ticket'[h] = ticket[h] /\ quoted'[h] = quoted[h]
             /\ \A q \in Reader : client'[q] = h <=> client[q] = h
  <2>1. client[r] # h
    BY <1>4, <1>6, AttestAssumption DEF Complete, ExchangeOK, ThreadOK
  <2>2. QED
    BY <1>2, <1>6, <2>1 DEF Complete
<1>7. ASSUME NEW r \in Reader, Serve(r) \/ ThreadDies(r)
      PROVE  /\ hpc'[h] = hpc[h] /\ ticket'[h] = ticket[h] /\ quoted'[h] = quoted[h]
             /\ \A q \in Reader : client'[q] = h <=> client[q] = h
  <2>1. CASE UNCHANGED <<hvars, client>>
    BY <2>1 DEF hvars
  <2>2. CASE ~UNCHANGED <<hvars, client>>
    <3>1. PICK code : client[r] # Nothing /\ Ends(client[r], code)
      BY <1>7, <2>2 DEF Serve, ThreadDies
    <3>2. client[r] # h
      BY <1>3, <1>4, <3>1
    <3>3. QED
      BY <1>2, <3>1, <3>2
  <2>3. QED
    BY <2>1, <2>2
<1>8. ASSUME NEW g \in Host, Lost(g)
      PROVE  /\ hpc'[h] = hpc[h] /\ ticket'[h] = ticket[h] /\ quoted'[h] = quoted[h]
             /\ \A q \in Reader : client'[q] = h <=> client[q] = h
  <2>1. g # h
    BY <1>3, <1>8 DEF Lost, Ends
  <2>2. QED
    BY <1>2, <1>8, <2>1 DEF Lost
<1>9. QED
  BY <1>1, <1>5, <1>6, <1>7, <1>8 DEF AttestNext, HostStep

\* What a step does to the thread that works for a host, and goes on.
LEMMA ThreadGoesOn ==
    ASSUME AttestInv, AttestNext, NEW h \in Host, NEW r \in Reader, NEW t \in TPM,
           client[r] = h, client'[r] = h, rtpm[r] = t, stable[r],
           Enrolled(t), Enrolled(t)',
           db'[t]["enrolled"].file = db[t]["enrolled"].file,
           rpc[r] = "seal" => rprofile[r] = Lookup(t, "profile")
    PROVE  /\ stable'[r]
           /\ rpc'[r] = "seal" => rprofile'[r] = Lookup(t, "profile")'
<1> USE DEF AttestInv
<1>1. rpc[r] # "idle"
  BY AttestAssumption DEF ExchangeOK, ThreadOK
<1>2. rpc'[r] # "idle"
  BY ExchangeStep, AttestAssumption DEF ExchangeOK, ThreadOK
<1>3. Lookup(t, "profile")' = Lookup(t, "profile")
  BY DEF Enrolled, Lookup
<1>4. ASSUME NEW q \in Reader, Read(q)
      PROVE  /\ stable'[r]
             /\ rpc'[r] = "seal" => rprofile'[r] = Lookup(t, "profile")'
  <2>1. CASE q = r
    BY <1>1, <1>2, <1>3, <1>4, <2>1, ReadStable, ReadOwn DEF SharedInv
  <2>2. CASE q # r
    BY <1>3, <1>4, <2>2, OtherThreads DEF SharedInv
  <2>3. QED
    BY <2>1, <2>2
<1>5. CASE Enrolling
  <2>1. stable'[r] /\ rpc' = rpc /\ rprofile' = rprofile
    BY <1>5 DEF Enrolling, Write
  <2>2. QED
    BY <1>3, <2>1
<1>6. CASE UNCHANGED rvars
  BY <1>3, <1>6 DEF rvars
<1>7. ASSUME NEW q \in Reader, Serve(q) \/ ThreadDies(q)
      PROVE  Read(q)
  BY <1>7 DEF Serve, ThreadDies, Read
<1>8. ASSUME NEW g \in Host, HostStep(g) \/ Lost(g) \/ ReplaceTPM(g)
      PROVE  UNCHANGED rvars \/ \E q \in Reader : Read(q)
  BY <1>8 DEF HostStep, Initiate, Quote, Complete, Lost, ReplaceTPM, allvars, Read
<1>9. QED
  BY <1>4, <1>5, <1>6, <1>7, <1>8 DEF AttestNext, Tick, SetBack, allvars

LEMMA EntitledStep ==
    ASSUME AttestInv, EntitledOK, [AttestNext]_attestvars
    PROVE  EntitledOK'
<1> USE DEF AttestInv, AttestTypeOK
<1>1. CASE UNCHANGED attestvars
  <2>1. \A t \in TPM : Lookup(t, "profile")' = Lookup(t, "profile")
    BY <1>1, SameEnrollment DEF attestvars, allvars
  <2>2. \A t \in TPM : Enrolled(t)' <=> Enrolled(t)
    BY <1>1, EnrolledStays DEF attestvars, allvars
  <2>3. QED
    BY <1>1, <2>1, <2>2 DEF attestvars, allvars, rvars, hvars, EntitledOK, Deserves
<1>2. ASSUME AttestNext, NEW h \in Host, hpc'[h] = "sleep"
      PROVE  age'[h] = 0
  <2>1. ASSUME NEW g \in Host, NEW code, Ends(g, code)
        PROVE  age'[h] = 0
    BY <1>2, <2>1 DEF Ends, EntitledOK
  <2>2. CASE Enrolling \/ \E g \in Host : Initiate(g) \/ Quote(g) \/ ReplaceTPM(g)
    BY <1>2, <2>2 DEF Enrolling, Initiate, Quote, ReplaceTPM, hvars, EntitledOK
  <2>3. CASE Tick \/ SetBack
    BY <1>2, <2>3 DEF Tick, SetBack, Live, EntitledOK
  <2>4. ASSUME NEW g \in Host, NEW r \in Reader, Complete(g, r)
        PROVE  age'[h] = 0
    BY <1>2, <2>1, <2>4 DEF Complete, EntitledOK
  <2>5. ASSUME NEW r \in Reader, Serve(r) \/ ThreadDies(r)
        PROVE  age'[h] = 0
    BY <1>2, <2>1, <2>5 DEF Serve, ThreadDies, hvars, EntitledOK
  <2>6. QED
    BY <1>2, <2>1, <2>2, <2>3, <2>4, <2>5 DEF AttestNext, HostStep, Lost
<1>3. ASSUME AttestNext, NEW h \in Host, entitled'[h]
      PROVE  Deserves(h)'
  <2>1. /\ hpc[h] = "sleep" \/ (entitled[h] /\ tpm'[h] = tpm[h])
        /\ hpc'[h] # "sleep" /\ tpm[h] \in TPM /\ Enrolled(tpm[h])'
        /\ db'[tpm[h]]["enrolled"].file = db[tpm[h]]["enrolled"].file
        /\ hpc'[h] # "wait" => age'[h] \in age[h]..MaxAge
    BY <1>3, Remembered DEF AttestNext
  <2>2. hpc[h] = "sleep" => age[h] = 0
    BY DEF EntitledOK
  <2>3. \A r \in Reader : client[r] = h => hpc[h] = "wait"
    BY AttestAssumption DEF ExchangeOK, ThreadOK
  <2>4. hpc[h] # "sleep" => Deserves(h)
    BY <2>1 DEF EntitledOK
  <2>5. CASE Initiate(h)
    <3>1. /\ hpc[h] = "sleep" /\ hpc'[h] = "initial" /\ ticket'[h] = tpm[h]
          /\ UNCHANGED <<tpm, client>>
      BY <2>5 DEF Initiate
    <3>2. age'[h] \in 0..MaxAge
      BY <2>1, <2>2, <3>1
    <3>3. QED
      BY <2>1, <2>3, <3>1, <3>2 DEF Deserves
  <2>6. CASE Quote(h)
    <3>1. /\ hpc[h] = "initial" /\ hpc'[h] = "quote" /\ quoted'[h] = tpm[h]
          /\ UNCHANGED <<tpm, ticket, age, client>>
      BY <2>6 DEF Quote
    <3>2. QED
      BY <2>1, <2>3, <2>4, <3>1 DEF Deserves
  <2>7. ASSUME NEW r \in Reader, Complete(h, r)
        PROVE  Deserves(h)'
    <3>1. hpc[h] = "quote" /\ UNCHANGED vars
      BY <2>7 DEF Complete
    <3>2. /\ ReadStart(r, ticket[h]) /\ client' = [client EXCEPT ![r] = h]
          /\ hpc'[h] = "wait" /\ UNCHANGED <<tpm, ticket, quoted>>
      BY <2>1, <2>7 DEF Complete, Ends
    <3>3. ticket[h] = tpm[h] /\ Enrolled(tpm[h])
      BY <2>4, <3>1 DEF Deserves
    <3>4. stable'[r] /\ rpc'[r] = "isdir"
      BY <3>2, <3>3 DEF ReadStart, ReaderGoto, SharedInv, ReaderTypeOK
    <3>5. \A q \in Reader : client'[q] = h => q = r
      BY <2>3, <3>1, <3>2
    <3>6. QED
      BY <2>1, <3>2, <3>3, <3>4, <3>5 DEF Deserves
  <2>8. CASE ~Initiate(h) /\ ~Quote(h) /\ ~\E r \in Reader : Complete(h, r)
    <3>1. /\ hpc'[h] = hpc[h] /\ ticket'[h] = ticket[h] /\ quoted'[h] = quoted[h]
          /\ \A q \in Reader : client'[q] = h <=> client[q] = h
      BY <1>3, <2>1, <2>8, NotServed
    <3>2. Deserves(h) /\ tpm'[h] = tpm[h]
      BY <2>1, <2>4, <3>1
    <3>3. PICK t \in TPM : t = tpm[h]
      BY <2>1
    <3>4. Enrolled(t)' /\ Enrolled(t) /\ tpm'[h] = t
      BY <2>1, <3>2, <3>3 DEF Enrolled, Exists, Deserves
    <3>5. ASSUME NEW r \in Reader, client'[r] = h
          PROVE  /\ stable'[r]
                 /\ rpc'[r] = "seal" => rprofile'[r] = Lookup(t, "profile")'
      <4>1. client[r] = h /\ rtpm[r] = t
        BY <3>1, <3>2, <3>3, <3>5, AttestAssumption DEF Deserves, ExchangeOK, ThreadOK
      <4>2. stable[r] /\ (rpc[r] = "seal" => rprofile[r] = Lookup(t, "profile"))
        BY <3>2, <3>3, <4>1 DEF Deserves
      <4>3. QED
        BY <1>3, <2>1, <3>3, <3>4, <3>5, <4>1, <4>2, ThreadGoesOn
    <3>6. hpc'[h] # "wait" => age'[h] \in 0..MaxAge
      <4>1. hpc'[h] # "wait" => age[h] \in 0..MaxAge /\ age'[h] \in age[h]..MaxAge
        BY <2>1, <3>1, <3>2 DEF Deserves
      <4>2. QED
        BY <4>1, AttestAssumption
    <3>7. Lookup(t, "profile")' = Lookup(tpm[h], "profile")'
      BY <3>4 DEF Lookup, Exists
    <3>8. /\ hpc'[h] # "sleep" /\ tpm'[h] \in TPM /\ Enrolled(tpm[h])'
          /\ ticket'[h] = tpm'[h] /\ (hpc'[h] = "quote" => quoted'[h] = tpm'[h])
      BY <2>1, <3>1, <3>2, <3>3 DEF Deserves
    <3>9. QED
      BY <3>5, <3>6, <3>7, <3>8 DEF Deserves
  <2>9. QED
    BY <2>5, <2>6, <2>7, <2>8
<1>4. QED
  BY <1>1, <1>2, <1>3 DEF EntitledOK

LEMMA EntitledEnds ==
    ASSUME AttestInv, EntitledOK, [AttestNext]_attestvars, NEW h \in Host,
           entitled[h], hpc'[h] = "sleep", faults' = faults
    PROVE  held'[h] = <<tpm[h], Lookup(tpm[h], "profile")>>
<1> USE DEF AttestInv, AttestTypeOK
<1>1. Deserves(h) /\ hpc[h] # "sleep"
  BY DEF EntitledOK, Deserves
<1>2. AttestNext
  BY <1>1 DEF attestvars, hvars
<1>3. ~Fault(1)
  BY DEF Fault
<1>4. ASSUME NEW g \in Host, NEW code, Ends(g, code)
      PROVE  g = h
  BY <1>1, <1>4 DEF Ends
<1>5. ASSUME NEW g \in Host, NEW r \in Reader, Complete(g, r)
      PROVE  FALSE
  <2>1. g = h /\ hpc[h] = "quote" /\ (~Verified(h) \/ ticket[h] \notin TPM)
    BY <1>1, <1>4, <1>5 DEF Complete
  <2>2. InTime(h)
    BY <1>1, <2>1, AttestAssumption DEF Deserves, InTime
  <2>3. QED
    BY <1>1, <2>1, <2>2 DEF Deserves, Verified
<1>6. ASSUME NEW r \in Reader, Serve(r)
      PROVE  held'[h] = <<tpm[h], Lookup(tpm[h], "profile")>>
  <2>1. rpc'[r] = "idle" /\ client[r] # Nothing
    BY <1>1, <1>6 DEF Serve, hvars
  <2>2. client[r] = h /\ Ends(h, ranswer'[r])
    BY <1>4, <1>6, <2>1 DEF Serve
  <2>3. rpc[r] # "idle"
    BY <1>6 DEF Serve, ReadIsDir, ReadProfile, ReadSeal, ReadDone
  <2>4. ranswer'[r] \notin {"401", "500"}
    BY <1>1, <2>2, <2>3, ExchangeIsShared, StableNotRefused DEF Deserves, Refused
  <2>5. ranswer'[r] # "tool"
    BY <1>3, <1>6 DEF Serve
  <2>6. ReadDone(r)
    BY <1>6, <2>1, <2>4, <2>5 DEF Serve, ReadIsDir, ReadProfile, ReadSeal,
       ReaderAnswer, ReaderGoto, SharedInv, ReaderTypeOK
  <2>7. ranswer'[r] = "200" /\ rpc[r] = "seal"
    BY <2>6 DEF ReadDone, ReaderAnswer, SharedInv, ReaderTypeOK
  <2>8. Thread(h) = r /\ rprofile[r] = Lookup(tpm[h], "profile") /\ ticket[h] = tpm[h]
    BY <1>1, <2>2, <2>7, ThreadIs DEF Deserves
  <2>9. QED
    BY <2>2, <2>7, <2>8 DEF Ends
<1>7. CASE Enrolling \/ Tick \/ SetBack
           \/ \E g \in Host : Initiate(g) \/ Quote(g) \/ ReplaceTPM(g)
  BY <1>1, <1>7 DEF Enrolling, Tick, SetBack, Initiate, Quote, ReplaceTPM, hvars
<1>8. QED
  BY <1>2, <1>3, <1>5, <1>6, <1>7 DEF AttestNext, HostStep, Lost, ThreadDies

\* A host whose own exchange goes as it should is served, and with its own profile,
\* whatever happens to the other hosts, threads and enrollments.
THEOREM ExchangeServesEntitled ==
    ASSUME AddProfile \subseteq Profile
    PROVE  AttestSafetySpec => EntitledIsServed
<1>1. AttestInit => EntitledOK
  BY DEF AttestInit, EntitledOK
<1>2. AttestInv /\ EntitledOK /\ [AttestNext]_attestvars => EntitledOK'
  BY EntitledStep
<1>3. AttestInv /\ EntitledOK /\ [AttestNext]_attestvars =>
        [\A h \in Host :
            entitled[h] /\ hpc'[h] = "sleep" /\ faults' = faults =>
                held'[h] = <<tpm[h], Lookup(tpm[h], "profile")>>]_attestvars
  BY EntitledEnds
<1>4. AttestSafetySpec => []AttestInv
  BY ExchangeCorrect
<1>5. QED
  BY <1>1, <1>2, <1>3, <1>4, PTL DEF AttestSafetySpec, EntitledIsServed

-----------------------------------------------------------------------------
(* The promise *)

(* The enrollment, as the Attestation Service can read it *)

LEMMA OneReadable ==
    ASSUME NEW u \in TPM,
           \A t \in TPM \ {u} : Lookup(t, "profile")' = Lookup(t, "profile"),
           \/ Lookup(u, "profile")' = Lookup(u, "profile")
           \/ Lookup(u, "profile")' = "absent"
           \/ Lookup(u, "profile") = "absent"
    PROVE  [Promise!Database!Next]_readable
<1>1. \A t \in TPM \ {u} : readable'[t] = readable[t]
  BY DEF readable
<1>2. readable' = [readable EXCEPT ![u] = readable'[u]]
  BY <1>1 DEF readable
<1>3. readable'[u] \in Profile \cup {Unenrolled}
  BY DEF readable
<1>4. "absent" \notin Profile
  BY EnrollAssumption
<1>5. CASE Lookup(u, "profile")' = Lookup(u, "profile")
  BY <1>1, <1>5 DEF readable
<1>6. CASE Lookup(u, "profile")' = "absent"
  <2>1. readable'[u] = Unenrolled
    BY <1>4, <1>6 DEF readable
  <2>2. QED
    BY <1>2, <2>1 DEF Promise!Database!Next, Promise!Database!Unenroll
<1>7. CASE Lookup(u, "profile") = "absent"
  <2>1. readable[u] = Unenrolled
    BY <1>4, <1>7 DEF readable
  <2>2. CASE readable'[u] = Unenrolled
    BY <1>2, <2>2 DEF Promise!Database!Next, Promise!Database!Unenroll
  <2>3. CASE readable'[u] \in Profile
    BY <1>2, <2>1, <2>3 DEF Promise!Database!Next, Promise!Database!Enroll
  <2>4. QED
    BY <1>3, <2>2, <2>3
<1>8. QED
  BY <1>5, <1>6, <1>7

LEMMA SameReadable ==
    ASSUME \A t \in TPM : Lookup(t, "profile")' = Lookup(t, "profile")
    PROVE  readable' = readable
BY DEF readable

LEMMA LookupReleased ==
    ASSUME TypeOK, NEW v \in Worker, NEW t \in TPM,
           db'[t]["enrolled"] = Released(v)[t]["enrolled"]
    PROVE  Lookup(t, "profile")' = Lookup(t, "profile")
<1>1. "enrolled" \in Place /\ "profile" \in File
  BY DEF Place, File
<1>2. Exists(t, "enrolled")' <=> Exists(t, "enrolled")
  BY <1>1, ReleasedExists, EnrollAssumption DEF Exists
<1>3. ASSUME Exists(t, "enrolled")
      PROVE  db'[t]["enrolled"].file["profile"].val = db[t]["enrolled"].file["profile"].val
  <2> DEFINE d == db[t]["enrolled"]
  <2>1. d \in Dir
    BY <1>1, <1>3 DEF TypeOK, Exists
  <2>2. d.file["profile"] \in FileState
    BY <1>1, <2>1 DEF Dir
  <2>3. db'[t]["enrolled"] =
          [file |-> [f \in File |-> [d.file[f] EXCEPT !.fds = @ \ {v}]],
           rm |-> d.rm \ {v}]
    BY <1>1, <1>3 DEF Released
  <2>4. db'[t]["enrolled"].file["profile"] = [d.file["profile"] EXCEPT !.fds = @ \ {v}]
    BY <1>1, <2>3
  <2>5. QED
    BY <2>2, <2>4 DEF FileState
<1>4. QED
  BY <1>2, <1>3 DEF Lookup

LEMMA SameFile ==
    ASSUME NEW t \in TPM, db'[t]["enrolled"] = db[t]["enrolled"]
    PROVE  Lookup(t, "profile")' = Lookup(t, "profile")
BY DEF Lookup, Exists

LEMMA NoFileYet ==
    ASSUME NEW t \in TPM, ~Exists(t, "enrolled")
    PROVE  Lookup(t, "profile") = "absent"
BY DEF Lookup

\* An add makes a profile readable when it renames its staging directory.
LEMMA AddReadable ==
    ASSUME TypeOK, ExclusiveInv, NEW v \in Worker, NEW u \in TPM, Add(v, u)
    PROVE  [Promise!Database!Next]_readable
<1> USE DEF TypeOK
<1>1. req[v].tpms = {u} /\ Staged(v, u)
  BY DEF Add, AddCheck, AddMkdir, MoveCheck, MoveOpen, MoveWrite, AddRename,
         ExclusiveInv, Sound
<1>2. ASSUME NEW t \in TPM \ {u}
      PROVE  Lookup(t, "profile")' = Lookup(t, "profile")
  <2>1. db'[t] = db[t]
    BY <1>1, <1>2 DEF Add, AddCheck, AddMkdir, MoveCheck, MoveOpen, MoveWrite, AddRename
  <2>2. QED
    BY <2>1, SameFile
<1>3. CASE AddCheck(v, u) \/ \E f \in File : MoveCheck(v, u, f)
  <2>1. db' = db
    BY <1>3 DEF AddCheck, MoveCheck
  <2>2. QED
    BY <2>1, SameFile, SameReadable
<1>4. CASE AddMkdir(v, u) \/ MoveOpen(v, u)
  <2>1. db'[u]["enrolled"] = db[u]["enrolled"]
    BY <1>4 DEF AddMkdir, MoveOpen, Place
  <2>2. QED
    BY <1>2, <2>1, OneReadable, SameFile
<1>5. CASE MoveWrite(v, u) \/ AddRename(v, u)
  <2>1. ~Exists(u, "enrolled")
    BY <1>1, <1>5 DEF MoveWrite, AddRename, Staged, Moving
  <2>2. QED
    BY <1>2, <2>1, NoFileYet, OneReadable
<1>6. QED
  BY <1>3, <1>4, <1>5 DEF Add

\* A delete makes it unreadable when it unlinks the file.
LEMMA UnlinkReadable ==
    ASSUME TypeOK, ExclusiveInv, NEW v \in Worker,
           NEW e \in File \cup {"nested"}, RmUnlink(v, e)
    PROVE  [Promise!Database!Next]_readable
<1>1. PICK u \in TPM : at[v][2] = u
  BY DEF RmUnlink, ExclusiveInv, DeletesOwn, TypeOK, Request
<1>2. ASSUME NEW t \in TPM \ {u}
      PROVE  Lookup(t, "profile")' = Lookup(t, "profile")
  <2>1. ~(Exists(t, "enrolled") /\ v \in db[t]["enrolled"].rm)
    BY <1>1, <1>2 DEF ExclusiveInv, Sound, HandlesHeld, Place
  <2>2. db'[t]["enrolled"] = db[t]["enrolled"]
    BY <2>1 DEF RmUnlink, Place
  <2>3. QED
    BY <2>2, SameFile
<1>3. CASE Exists(u, "enrolled") /\ v \in db[u]["enrolled"].rm /\ e # "nested"
  <2> DEFINE d == db[u]["enrolled"]
  <2>1. d \in Dir /\ "profile" \in File
    BY <1>3 DEF TypeOK, Exists, Place, File
  <2>2. db'[u]["enrolled"] = [d EXCEPT !.file[e] = NoFile]
    BY <1>3 DEF RmUnlink, Place
  <2>3. db'[u]["enrolled"].file["profile"].val \in {"absent", d.file["profile"].val}
    BY <2>1, <2>2 DEF Dir, NoFile
  <2>4. db'[u]["enrolled"] # NoDir
    <3>1. NoFile \in FileState
      BY DEF NoFile, FileState, Value
    <3>2. db'[u]["enrolled"] \in Dir
      BY <1>3, <2>1, <2>2, <3>1 DEF Dir
    <3>3. QED
      BY <3>2, EnrollAssumption
  <2>5. Lookup(u, "profile")' \in {"absent", Lookup(u, "profile")}
    BY <1>3, <2>3, <2>4 DEF Lookup, Exists
  <2>6. QED
    BY <1>2, <2>5, OneReadable
<1>4. CASE ~(Exists(u, "enrolled") /\ v \in db[u]["enrolled"].rm /\ e # "nested")
  <2>1. db'[u]["enrolled"] = db[u]["enrolled"]
    BY <1>4 DEF RmUnlink, Place
  <2>2. QED
    BY <1>2, <2>1, OneReadable, SameFile
<1>5. QED
  BY <1>3, <1>4

LEMMA RmDirReadable ==
    ASSUME TypeOK, ExclusiveInv, NEW v \in Worker, RmDir(v)
    PROVE  [Promise!Database!Next]_readable
<1> DEFINE c == Released(v)
<1>1. PICK p \in Place, u \in TPM : at[v][1] = p /\ at[v][2] = u
  BY DEF RmDir, ExclusiveInv, DeletesOwn, TypeOK, Request, Place
<1>2. db' = c \/ db' = [c EXCEPT ![u][p] = NoDir]
  BY <1>1 DEF RmDir
<1>3. c \in [TPM -> [Place -> Dir \cup {NoDir}]] /\ "enrolled" \in Place
  BY ReleasedType DEF Place
<1> HIDE DEF c
<1>4. ASSUME NEW t \in TPM, t # u \/ p # "enrolled" \/ db' = c
      PROVE  Lookup(t, "profile")' = Lookup(t, "profile")
  <2>1. db'[t]["enrolled"] = c[t]["enrolled"]
    BY <1>2, <1>3, <1>4
  <2>2. QED
    BY <2>1, LookupReleased DEF c
<1>5. CASE p # "enrolled" \/ db' = c
  BY <1>4, <1>5, SameReadable
<1>6. CASE p = "enrolled" /\ db' = [c EXCEPT ![u][p] = NoDir]
  <2>1. db'[u]["enrolled"] = NoDir
    BY <1>3, <1>6
  <2>2. Lookup(u, "profile")' = "absent"
    BY <2>1 DEF Lookup, Exists
  <2>3. QED
    BY <1>4, <2>2, OneReadable
<1>7. QED
  BY <1>2, <1>5, <1>6

LEMMA StepReadable ==
    ASSUME TypeOK, ExclusiveInv, NEW v \in Worker, Step(v)
    PROVE  [Promise!Database!Next]_readable
<1>1. CASE Start(v) \/ Glob(v) \/ \E m \in Target : RmGone(v, m)
  <2>1. db' = db
    BY <1>1 DEF Start, AddStart, QdrStart, BadRequest, Janitor, Accept, Glob, RmGone
  <2>2. QED
    BY <2>1, SameFile, SameReadable
<1>2. ASSUME NEW m \in Target, RmOpen(v, m)
      PROVE  [Promise!Database!Next]_readable
  <2>1. ASSUME NEW t \in TPM
        PROVE  Lookup(t, "profile")' = Lookup(t, "profile")
    <3>1. CASE m = <<"enrolled", t>>
      <4> DEFINE d == db[t]["enrolled"]
      <4>1. Exists(t, "enrolled") /\ db' = [db EXCEPT ![t]["enrolled"].rm = @ \cup {v}]
        BY <1>2, <3>1 DEF RmOpen
      <4>2. d \in Dir
        BY <4>1 DEF TypeOK, Exists, Place
      <4>3. db'[t]["enrolled"] = [d EXCEPT !.rm = @ \cup {v}]
        BY <4>1 DEF TypeOK, Place
      <4>4. db'[t]["enrolled"] \in Dir /\ db'[t]["enrolled"].file = d.file
        BY <4>2, <4>3 DEF Dir
      <4>5. QED
        BY <4>1, <4>4, EnrollAssumption DEF Lookup, Exists
    <3>2. CASE m # <<"enrolled", t>>
      <4>1. PICK p \in Place, u \in TPM : m = <<p, u>>
        BY DEF Target
      <4>2. db' = [db EXCEPT ![u][p].rm = @ \cup {v}]
        BY <1>2, <4>1 DEF RmOpen
      <4>3. db'[t]["enrolled"] = db[t]["enrolled"]
        BY <3>2, <4>1, <4>2 DEF TypeOK, Place
      <4>4. QED
        BY <4>3, SameFile
    <3>3. QED
      BY <3>1, <3>2
  <2>2. QED
    BY <2>1, SameReadable
<1>3. CASE Crash(v)
  BY <1>3, LookupReleased, SameReadable DEF Crash
<1>4. QED
  BY <1>1, <1>2, <1>3, AddReadable, UnlinkReadable, RmDirReadable DEF Step, Qdr

-----------------------------------------------------------------------------
(* What a host asks for, and what has been found for it *)

LEMMA FoundOf ==
    ASSUME ExchangeOK, NEW h \in Host, NEW r \in Reader, client[r] = h
    PROVE  found[h] = IF rpc[r] = "seal" THEN rprofile[r] ELSE Nothing
<1>1. \A q \in Reader : client[q] = h => q = r
  BY AttestAssumption DEF ExchangeOK
<1>2. QED
  BY <1>1, ThreadIs DEF found

LEMMA FoundOfNext ==
    ASSUME ExchangeOK', NEW h \in Host, NEW r \in Reader, client'[r] = h
    PROVE  found'[h] = IF rpc'[r] = "seal" THEN rprofile'[r] ELSE Nothing
<1>1. \A q \in Reader : client'[q] = h => q = r
  BY AttestAssumption DEF ExchangeOK
<1>2. Thread(h)' = r
  BY <1>1 DEF Thread
<1>3. QED
  BY <1>1, <1>2 DEF found

LEMMA FoundSame ==
    ASSUME ExchangeOK, ExchangeOK', NEW h \in Host,
           \A r \in Reader : client'[r] = h <=> client[r] = h,
           \A r \in Reader : client[r] = h =>
               (rpc'[r] = "seal" <=> rpc[r] = "seal") /\ rprofile'[r] = rprofile[r]
    PROVE  found'[h] = found[h]
<1>1. CASE \E r \in Reader : client[r] = h
  BY <1>1, FoundOf, FoundOfNext
<1>2. CASE ~\E r \in Reader : client[r] = h
  BY <1>2 DEF found
<1>3. QED
  BY <1>1, <1>2

LEMMA AsksFor ==
    ASSUME AttestTypeOK, ExchangeOK, NEW h \in Host, hpc[h] # "sleep"
    PROVE  asking[h] = ticket[h] /\ asking[h] # Nothing
BY AttestAssumption DEF AttestTypeOK, ExchangeOK, asking

LEMMA SameDatabase ==
    ASSUME UNCHANGED vars
    PROVE  readable' = readable
BY SameFile, SameReadable DEF vars

\* However an exchange ends, it is an answer to the host, and to it alone.
LEMMA EndsAnswers ==
    ASSUME AttestInv, ExchangeOK', NEW h \in Host, NEW code, Ends(h, code),
           hpc[h] # "sleep", UNCHANGED vars,
           \A q \in Reader : client[q] # h /\ client[q] # Nothing =>
               (rpc'[q] = "seal" <=> rpc[q] = "seal") /\ rprofile'[q] = rprofile[q]
    PROVE  Promise!Answer(h, held'[h])
<1> USE DEF AttestInv
<1>1. asking' = [asking EXCEPT ![h] = Nothing]
  <2>1. asking'[h] = Nothing
    BY DEF asking, Ends, AttestTypeOK
  <2>2. \A g \in Host \ {h} : asking'[g] = asking[g]
    BY DEF asking, Ends, AttestTypeOK
  <2>3. QED
    BY <2>1, <2>2 DEF asking
<1>2. found' = [found EXCEPT ![h] = Nothing]
  <2>1. found'[h] = Nothing
    BY AttestAssumption DEF found, Ends, AttestTypeOK
  <2>2. ASSUME NEW g \in Host \ {h}
        PROVE  found'[g] = found[g]
    <3>1. \A q \in Reader : client'[q] = g <=> client[q] = g
      BY AttestAssumption DEF Ends, AttestTypeOK
    <3>2. \A q \in Reader : client[q] = g =>
            (rpc'[q] = "seal" <=> rpc[q] = "seal") /\ rprofile'[q] = rprofile[q]
      BY AttestAssumption
    <3>3. QED
      BY <3>1, <3>2, FoundSame
  <2>3. QED
    BY <2>1, <2>2 DEF found
<1>3. held' = [held EXCEPT ![h] = held'[h]]
  BY DEF Ends, AttestTypeOK
<1>4. QED
  BY <1>1, <1>2, <1>3, AsksFor, SameDatabase DEF Promise!Answer

LEMMA EndsFail ==
    ASSUME AttestInv, NEW h \in Host, NEW code, Ends(h, code),
           code \notin {"200", "401"}, Promise!Answer(h, held'[h])
    PROVE  Promise!Next
<1>1. held'[h] = held[h]
  BY DEF AttestInv, AttestTypeOK, Ends
<1>2. QED
  BY <1>1 DEF Promise!Next, Promise!Fail

LEMMA EndsTurnAway ==
    ASSUME AttestInv, NEW h \in Host, Ends(h, "401"), hpc[h] # "sleep",
           ticket[h] \in TPM => Lookup(ticket[h], "profile") = "absent",
           Promise!Answer(h, held'[h])
    PROVE  Promise!Next
<1>1. held'[h] = <<asking[h], Unenrolled>>
  BY AsksFor DEF AttestInv, AttestTypeOK, Ends
<1>2. asking[h] \in TPM => readable[asking[h]] = Unenrolled
  BY AsksFor, EnrollAssumption DEF AttestInv, readable
<1>3. QED
  BY <1>1, <1>2 DEF Promise!Next, Promise!TurnAway

-----------------------------------------------------------------------------

LEMMA ServeKeeps ==
    ASSUME AttestInv, ExchangeOK', NEW r \in Reader, Serve(r)
    PROVE  [Promise!Next]_(Promise!promised)
<1> USE DEF AttestInv
<1>1. Read(r) /\ UNCHANGED vars /\ rpc[r] # "idle"
  BY DEF Serve, Read, ReadIsDir, ReadProfile, ReadSeal, ReadDone
<1>2. readable' = readable
  BY <1>1, SameDatabase
<1>3. \A q \in Reader \ {r} : rpc'[q] = rpc[q] /\ rprofile'[q] = rprofile[q]
  BY <1>1, OtherThreads DEF SharedInv
<1>4. CASE client[r] = Nothing
  <2>1. UNCHANGED <<hvars, client>>
    BY <1>4 DEF Serve
  <2>2. \A h \in Host : found'[h] = found[h]
    BY <1>3, <1>4, <2>1, FoundSame, AttestAssumption
  <2>3. UNCHANGED <<asking, found, held>>
    BY <2>1, <2>2 DEF asking, found, hvars
  <2>4. QED
    BY <1>2, <2>3 DEF Promise!promised
<1>5. ASSUME NEW h \in Host, client[r] = h
      PROVE  [Promise!Next]_(Promise!promised)
  <2>1. hpc[h] = "wait" /\ rtpm[r] = ticket[h] /\ ticket[h] \in TPM
    BY <1>1, <1>5, AttestAssumption DEF ExchangeOK, ThreadOK, SharedInv, ReaderTypeOK
  <2>2. asking[h] = ticket[h] /\ asking[h] # Nothing
    BY <2>1, AsksFor
  <2>3. CASE rpc'[r] = "idle"
    <3>1. Ends(h, ranswer'[r])
      BY <1>5, <2>3, AttestAssumption DEF Serve
    <3>2. Promise!Answer(h, held'[h])
      BY <1>1, <1>3, <1>5, <2>1, <3>1, EndsAnswers
    <3>3. CASE ReadIsDir(r)
      <4>1. ranswer'[r] = "401" /\ Lookup(ticket[h], "profile") = "absent"
        BY <2>1, <2>3, <3>3 DEF ReadIsDir, ReaderAnswer, ReaderGoto, Lookup,
                                SharedInv, ReaderTypeOK
      <4>2. QED
        BY <2>1, <3>1, <3>2, <4>1, EndsTurnAway
    <3>4. CASE ReadProfile(r) \/ ReadSeal(r)
      <4>1. ranswer'[r] \in {"500", "tool"}
        BY <2>3, <3>4 DEF ReadProfile, ReadSeal, ReaderAnswer, ReaderGoto,
                          SharedInv, ReaderTypeOK
      <4>2. QED
        BY <3>1, <3>2, <4>1, EndsFail
    <3>5. CASE ReadDone(r)
      <4>1. ranswer'[r] = "200" /\ rpc[r] = "seal"
        BY <3>5 DEF ReadDone, ReaderAnswer, SharedInv, ReaderTypeOK
      <4>2. found[h] = rprofile[r] /\ Thread(h) = r /\ rprofile[r] \in Profile
        BY <1>5, <4>1, FoundOf, ThreadIs DEF ExchangeOK, ThreadOK
      <4>3. held'[h] = <<asking[h], found[h]>>
        BY <2>2, <3>1, <4>1, <4>2 DEF Ends, AttestTypeOK
      <4>4. found[h] # Nothing
        BY <4>2, AttestAssumption
      <4>5. QED
        BY <3>2, <4>3, <4>4 DEF Promise!Next, Promise!Serve
    <3>6. QED
      BY <3>3, <3>4, <3>5 DEF Serve
  <2>4. CASE rpc'[r] # "idle"
    <3>1. UNCHANGED <<hvars, client>>
      BY <2>4 DEF Serve
    <3>2. \A g \in Host \ {h} : found'[g] = found[g]
      BY <1>3, <1>5, <3>1, FoundSame
    <3>3. UNCHANGED <<asking, held>>
      BY <3>1 DEF asking, hvars
    <3>4. CASE rpc'[r] = "seal" /\ rpc[r] # "seal"
      <4>1. /\ rpc[r] = "profile" /\ rprofile'[r] = Lookup(ticket[h], "profile")
            /\ rprofile'[r] \in Profile
        BY <1>1, <2>1, <3>4, ReadOwn DEF SharedInv
      <4>2. found[h] = Nothing /\ found'[h] = rprofile'[r]
        BY <1>5, <3>1, <3>4, FoundOf, FoundOfNext
      <4>3. readable[asking[h]] = rprofile'[r] /\ rprofile'[r] # Unenrolled
        BY <2>1, <2>2, <4>1, AttestAssumption DEF readable
      <4>4. found' = [found EXCEPT ![h] = readable[asking[h]]]
        BY <3>2, <4>2, <4>3 DEF found
      <4>5. Promise!Look(h)
        BY <1>2, <2>1, <2>2, <3>3, <4>2, <4>3, <4>4 DEF Promise!Look
      <4>6. QED
        BY <4>5 DEF Promise!Next
    <3>5. CASE ~(rpc'[r] = "seal" /\ rpc[r] # "seal")
      <4>1. rpc[r] = "seal" => rpc'[r] = "seal"
        BY <2>4 DEF Serve, ReadIsDir, ReadProfile, ReadSeal, ReadDone, ReaderAnswer,
                    ReaderEnds, ReaderGoto, SharedInv, ReaderTypeOK
      <4>2. rpc[r] = "seal" => rprofile'[r] = rprofile[r]
        BY <1>1, <2>4, <4>1, ReadOwn DEF SharedInv
      <4>3. found'[h] = found[h]
        BY <1>5, <3>1, <3>5, <4>1, <4>2, FoundOf, FoundOfNext
      <4>4. found' = found
        BY <3>2, <4>3 DEF found
      <4>5. QED
        BY <1>2, <3>3, <4>4 DEF Promise!promised
    <3>6. QED
      BY <3>4, <3>5
  <2>5. QED
    BY <2>3, <2>4
<1>6. QED
  BY <1>4, <1>5 DEF AttestTypeOK

LEMMA ExchangeKeeps ==
    ASSUME AttestInv, ExchangeOK', [AttestNext]_attestvars
    PROVE  [Promise!Next]_(Promise!promised)
<1> USE DEF AttestInv
<1>1. CASE UNCHANGED attestvars
  <2>1. readable' = readable
    BY <1>1, SameDatabase DEF attestvars, allvars
  <2>2. UNCHANGED <<asking, found, held>>
    BY <1>1 DEF attestvars, allvars, rvars, hvars, asking, found, Thread
  <2>3. QED
    BY <2>1, <2>2 DEF Promise!promised
<1>2. CASE Enrolling
  <2>1. UNCHANGED <<asking, found, held>>
    BY <1>2 DEF Enrolling, Write, hvars, asking, found, Thread
  <2>2. [Promise!Database!Next]_readable
    BY <1>2, StepReadable DEF Enrolling, Write, Next, SharedInv
  <2>3. QED
    BY <2>1, <2>2 DEF Promise!Next, Promise!Change, Promise!promised
<1>3. CASE \/ Tick \/ SetBack
           \/ \E h \in Host : Quote(h) \/ ReplaceTPM(h)
  <2>1. UNCHANGED <<allvars, ticket, client, held>>
    BY <1>3 DEF Tick, SetBack, Quote, ReplaceTPM
  <2>2. readable' = readable
    BY <2>1, SameDatabase DEF allvars
  <2>3. found' = found /\ held' = held
    BY <2>1 DEF allvars, rvars, found, Thread
  <2>4. \A h \in Host : asking'[h] = asking[h]
    BY <1>3, <2>1 DEF Tick, SetBack, Quote, ReplaceTPM, asking, AttestTypeOK
  <2>5. asking' = asking
    BY <2>4 DEF asking
  <2>6. QED
    BY <2>2, <2>3, <2>5 DEF Promise!promised
<1>4. ASSUME NEW h \in Host, Initiate(h)
      PROVE  Promise!Next
  <2>1. UNCHANGED <<allvars, client, held>> /\ hpc[h] = "sleep"
    BY <1>4 DEF Initiate
  <2>2. readable' = readable
    BY <2>1, SameDatabase DEF allvars
  <2>3. found' = found
    BY <2>1 DEF allvars, rvars, found, Thread
  <2>4. asking[h] = Nothing /\ asking'[h] = tpm[h] /\ tpm[h] \in AnyTPM
    BY <1>4 DEF Initiate, asking, AttestTypeOK
  <2>5. \A g \in Host \ {h} : asking'[g] = asking[g]
    BY <1>4 DEF Initiate, asking, AttestTypeOK
  <2>6. asking' = [asking EXCEPT ![h] = tpm[h]]
    BY <2>4, <2>5 DEF asking
  <2>7. Promise!Ask(h)
    BY <2>1, <2>2, <2>3, <2>4, <2>6 DEF Promise!Ask
  <2>8. QED
    BY <2>7 DEF Promise!Next
<1>5. ASSUME NEW h \in Host, NEW r \in Reader, Complete(h, r)
      PROVE  [Promise!Next]_(Promise!promised)
  <2>1. hpc[h] = "quote" /\ UNCHANGED vars
    BY <1>5 DEF Complete
  <2>2. CASE \E code \in {"400", "401"} : Ends(h, code) /\ UNCHANGED rvars
    <3>1. PICK code \in {"400", "401"} :
              Ends(h, code) /\ (code = "401" => ticket[h] \notin TPM)
      BY <1>5, <2>2 DEF Complete, Ends, AttestTypeOK, ReadStart
    <3>2. Promise!Answer(h, held'[h])
      BY <2>1, <2>2, <3>1, EndsAnswers DEF rvars
    <3>3. QED
      BY <2>1, <3>1, <3>2, EndsFail, EndsTurnAway
  <2>3. CASE /\ Verified(h) /\ ticket[h] \in TPM
             /\ ReadStart(r, ticket[h])
             /\ client' = [client EXCEPT ![r] = h]
             /\ hpc' = [hpc EXCEPT ![h] = "wait"]
             /\ UNCHANGED <<tpm, ticket, quoted, held>>
    <3>1. \A q \in Reader : client[q] # h
      BY <2>1, AttestAssumption DEF ExchangeOK, ThreadOK
    <3>2. client[r] = Nothing
      BY <2>3 DEF ReadStart, ExchangeOK, ThreadOK
    <3>3. rpc'[r] = "isdir" /\ rprofile' = rprofile
          /\ \A q \in Reader \ {r} : rpc'[q] = rpc[q]
      BY <2>3 DEF ReadStart, ReaderGoto, SharedInv, ReaderTypeOK
    <3>4. found'[h] = Nothing /\ found[h] = Nothing
      <4>1. client'[r] = h
        BY <2>3 DEF AttestTypeOK
      <4>2. QED
        BY <3>1, <3>3, <4>1, FoundOfNext DEF found
    <3>5. ASSUME NEW g \in Host \ {h}
          PROVE  found'[g] = found[g]
      <4>1. \A q \in Reader : client'[q] = g <=> client[q] = g
        BY <2>3, <3>2, AttestAssumption DEF AttestTypeOK
      <4>2. \A q \in Reader : client[q] = g => q # r
        BY <3>2, AttestAssumption
      <4>3. QED
        BY <3>3, <4>1, <4>2, FoundSame
    <3>6. found' = found
      BY <3>4, <3>5 DEF found
    <3>7. \A g \in Host : asking'[g] = asking[g]
      BY <2>1, <2>3 DEF Verified, asking, AttestTypeOK
    <3>8. asking' = asking
      BY <3>7 DEF asking
    <3>9. QED
      BY <2>1, <2>3, <3>6, <3>8, SameDatabase DEF Promise!promised
  <2>4. QED
    BY <1>5, <2>2, <2>3 DEF Complete
<1>6. ASSUME NEW h \in Host, Lost(h)
      PROVE  Promise!Next
  <2>1. hpc[h] # "sleep" /\ Ends(h, "lost") /\ UNCHANGED allvars
    BY <1>6 DEF Lost
  <2>2. Promise!Answer(h, held'[h])
    BY <2>1, EndsAnswers DEF allvars, rvars
  <2>3. QED
    BY <2>1, <2>2, EndsFail
<1>7. ASSUME NEW r \in Reader, ThreadDies(r)
      PROVE  [Promise!Next]_(Promise!promised)
  <2>1. Read(r) /\ UNCHANGED vars /\ rpc[r] # "idle"
    BY <1>7 DEF ThreadDies, Read, ReadDies
  <2>2. \A q \in Reader \ {r} : rpc'[q] = rpc[q] /\ rprofile'[q] = rprofile[q]
    BY <2>1, OtherThreads DEF SharedInv
  <2>3. CASE client[r] = Nothing
    <3>1. UNCHANGED <<hvars, client>>
      BY <1>7, <2>3 DEF ThreadDies
    <3>2. \A h \in Host : found'[h] = found[h]
      BY <2>2, <2>3, <3>1, FoundSame, AttestAssumption
    <3>3. UNCHANGED <<asking, found, held>>
      BY <3>1, <3>2 DEF asking, found, hvars
    <3>4. QED
      BY <2>1, <3>3, SameDatabase DEF Promise!promised
  <2>4. ASSUME NEW h \in Host, client[r] = h
        PROVE  Promise!Next
    <3>1. Ends(h, "lost")
      BY <1>7, <2>4, AttestAssumption DEF ThreadDies
    <3>2. hpc[h] # "sleep"
      BY <2>4, AttestAssumption DEF ExchangeOK, ThreadOK
    <3>3. Promise!Answer(h, held'[h])
      BY <2>1, <2>2, <2>4, <3>1, <3>2, EndsAnswers
    <3>4. QED
      BY <3>1, <3>3, EndsFail
  <2>5. QED
    BY <2>3, <2>4 DEF AttestTypeOK
<1>8. ASSUME NEW r \in Reader, Serve(r)
      PROVE  [Promise!Next]_(Promise!promised)
  BY <1>8, ServeKeeps
<1>9. QED
  BY <1>1, <1>2, <1>3, <1>4, <1>5, <1>6, <1>7, <1>8 DEF AttestNext, HostStep

\* The promise holds for any number of hosts, threads and workers: a host gets a
\* bundle of no profile but one its own TPM was enrolled with while it asked, and
\* is not turned away as unknown while its TPM was enrolled throughout.
THEOREM ExchangeKeepsPromise ==
    ASSUME AddProfile \subseteq Profile
    PROVE  AttestSafetySpec => KeepsPromise
<1>1. AttestInit => Promise!Init
  <2> SUFFICES ASSUME AttestInit
               PROVE  Promise!Init
    OBVIOUS
  <2>1. \A t \in TPM : Lookup(t, "profile") \notin Profile
    BY EnrollAssumption DEF AttestInit, SharedInit, Init, Lookup, Exists, Place
  <2>2. Promise!Database!Init
    BY <2>1 DEF Promise!Database!Init, readable
  <2>3. asking = [h \in Host |-> Nothing] /\ held = [h \in Host |-> Nothing]
    BY DEF AttestInit, asking
  <2>4. found = [h \in Host |-> Nothing]
    BY DEF AttestInit, SharedInit, ReaderInit, found
  <2>5. QED
    BY <2>2, <2>3, <2>4 DEF Promise!Init
<1>2. AttestInv /\ AttestInv' /\ [AttestNext]_attestvars
        => [Promise!Next]_(Promise!promised)
  BY ExchangeKeeps DEF AttestInv
<1>3. AttestSafetySpec => []AttestInv
  BY ExchangeCorrect
<1>4. QED
  BY <1>1, <1>2, <1>3, PTL DEF AttestSafetySpec, KeepsPromise, Promise!Spec

-----------------------------------------------------------------------------
(* The answer to a host: the safety half of EventuallyHeld *)

\* A host that waits for the service has a thread of it that works, on the TPM of
\* its ticket, for it alone.
WaiterHasThread ==
    \A h \in Host : hpc[h] = "wait" =>
        \E r \in Reader :
            /\ client[r] = h /\ rpc[r] # "idle" /\ rtpm[r] = ticket[h]
            /\ \A q \in Reader \ {r} : client[q] # h

\* How many steps of its own a thread has at most: one for each of its two look-ups,
\* one for each asset, and one for the answer.
ThreadLeft(r) ==
    CASE rpc[r] = "idle" -> 0
      [] rpc[r] = "seal" -> 1 + rleft[r]
      [] rpc[r] = "profile" -> 2 + Assets
      [] rpc[r] = "isdir" -> 3 + Assets

\* Each step of a thread brings it nearer to its answer, and nothing that others do
\* sets it back.
ThreadsGetOn ==
    [][\A r \in Reader :
          /\ Serve(r) => ThreadLeft(r)' < ThreadLeft(r)
          /\ rpc[r] # "idle" => ThreadLeft(r)' <= ThreadLeft(r)]_attestvars

\* What is kept of it by each step.
WaiterOK == \A h \in Host : hpc[h] = "wait" => \E r \in Reader : client[r] = h

LEMMA EndsWaiters ==
    ASSUME WaiterOK, AttestTypeOK, NEW h \in Host, NEW code, Ends(h, code)
    PROVE  WaiterOK'
<1> SUFFICES ASSUME NEW g \in Host, hpc'[g] = "wait"
             PROVE  \E r \in Reader : client'[r] = g
  BY DEF WaiterOK
<1>1. g # h /\ hpc[g] = "wait"
  BY DEF Ends, AttestTypeOK
<1>2. PICK r \in Reader : client[r] = g
  BY <1>1 DEF WaiterOK
<1>3. client'[r] = g
  BY <1>1, <1>2 DEF Ends
<1>4. QED
  BY <1>3

LEMMA WaiterStep ==
    ASSUME AttestInv, WaiterOK, [AttestNext]_attestvars
    PROVE  WaiterOK'
<1> USE DEF AttestInv
<1>1. CASE UNCHANGED <<hpc, client>>
  BY <1>1 DEF WaiterOK
<1>2. ASSUME NEW h \in Host, Initiate(h) \/ Quote(h)
      PROVE  WaiterOK'
  <2>1. client' = client /\ \A g \in Host : hpc'[g] = "wait" => hpc[g] = "wait"
    BY <1>2 DEF Initiate, Quote, AttestTypeOK
  <2>2. QED
    BY <2>1 DEF WaiterOK
<1>3. ASSUME NEW h \in Host, NEW r \in Reader, Complete(h, r)
      PROVE  WaiterOK'
  <2>1. CASE \E code \in {"400", "401"} : Ends(h, code)
    BY <2>1, EndsWaiters
  <2>2. CASE client' = [client EXCEPT ![r] = h] /\ hpc' = [hpc EXCEPT ![h] = "wait"]
    <3>1. client[r] = Nothing
      BY <1>3 DEF Complete, ExchangeOK, ThreadOK
    <3>2. client'[r] = h /\ \A q \in Reader \ {r} : client'[q] = client[q]
      BY <2>2 DEF AttestTypeOK
    <3>3. ASSUME NEW g \in Host \ {h}, hpc'[g] = "wait"
          PROVE  \E q \in Reader : client'[q] = g
      <4>1. PICK q \in Reader : client[q] = g
        BY <2>2, <3>3 DEF WaiterOK, AttestTypeOK
      <4>2. q # r
        BY <3>1, <4>1, AttestAssumption
      <4>3. QED
        BY <3>2, <4>1, <4>2
    <3>4. QED
      BY <3>2, <3>3 DEF WaiterOK
  <2>3. QED
    BY <1>3, <2>1, <2>2 DEF Complete
<1>4. ASSUME NEW r \in Reader, Serve(r) \/ ThreadDies(r)
      PROVE  WaiterOK'
  <2>1. \/ UNCHANGED <<hpc, client>>
        \/ client[r] # Nothing /\ \E code : Ends(client[r], code)
    BY <1>4 DEF Serve, ThreadDies, hvars
  <2>2. client[r] # Nothing => client[r] \in Host
    BY DEF AttestTypeOK
  <2>3. QED
    BY <1>1, <2>1, <2>2, EndsWaiters
<1>5. ASSUME NEW h \in Host, Lost(h)
      PROVE  WaiterOK'
  BY <1>5, EndsWaiters DEF Lost
<1>6. CASE \/ Enrolling \/ Tick \/ SetBack \/ UNCHANGED attestvars
           \/ \E h \in Host : ReplaceTPM(h)
  BY <1>1, <1>6 DEF Enrolling, Tick, SetBack, ReplaceTPM, attestvars, hvars
<1>7. QED
  BY <1>2, <1>3, <1>4, <1>5, <1>6 DEF AttestNext, HostStep

\* However threads, hosts and tools die, and whatever is enrolled meanwhile, no host
\* waits for an answer that nobody is about to give.
THEOREM NoHostIsForgotten ==
    ASSUME AddProfile \subseteq Profile
    PROVE  AttestSafetySpec => []WaiterHasThread
<1>1. AttestInit => WaiterOK
  BY DEF AttestInit, WaiterOK
<1>2. AttestInv /\ WaiterOK => WaiterHasThread
  <2> SUFFICES ASSUME AttestInv, WaiterOK, NEW h \in Host, hpc[h] = "wait"
               PROVE  \E r \in Reader :
                         /\ client[r] = h /\ rpc[r] # "idle" /\ rtpm[r] = ticket[h]
                         /\ \A q \in Reader \ {r} : client[q] # h
    BY DEF WaiterHasThread
  <2>1. PICK r \in Reader : client[r] = h
    BY DEF WaiterOK
  <2>2. QED
    BY <2>1, AttestAssumption DEF AttestInv, ExchangeOK, ThreadOK
<1>3. QED
  BY <1>1, <1>2, WaiterStep, ExchangeCorrect, PTL DEF AttestSafetySpec

\* A thread answers after at most Assets + 3 steps of its own.
THEOREM ThreadsAnswer ==
    ASSUME AddProfile \subseteq Profile
    PROVE  AttestSafetySpec => ThreadsGetOn
<1> DEFINE GetsOn(r) == /\ Serve(r) => ThreadLeft(r)' < ThreadLeft(r)
                        /\ rpc[r] # "idle" => ThreadLeft(r)' <= ThreadLeft(r)
<1>1. ASSUME ReaderTypeOK, NEW r \in Reader
      PROVE  /\ ThreadLeft(r) \in Nat
             /\ rpc[r] # "idle" => ThreadLeft(r) > 0
  BY <1>1, AssetsAssumption DEF ReaderTypeOK, RPC, ThreadLeft
<1>2. ASSUME ReaderTypeOK, NEW r \in Reader, Read(r), rpc[r] # "idle"
      PROVE  ThreadLeft(r)' < ThreadLeft(r) /\ ThreadLeft(r)' <= ThreadLeft(r)
  <2>1. CASE rpc'[r] = "idle"
    <3>1. ThreadLeft(r)' = 0
      BY <2>1 DEF ThreadLeft
    <3>2. QED
      BY <1>1, <1>2, <3>1
  <2>2. CASE rpc[r] = "isdir" /\ rpc'[r] = "profile"
    BY <2>2, AssetsAssumption DEF ThreadLeft
  <2>3. CASE rpc[r] = "profile" /\ rpc'[r] = "seal" /\ rleft'[r] \in 0..Assets
    BY <2>3, AssetsAssumption DEF ThreadLeft
  <2>4. CASE rpc[r] = "seal" /\ rpc'[r] = "seal" /\ rleft'[r] = rleft[r] - 1
    <3>1. rleft[r] \in Int
      BY <1>2, AssetsAssumption DEF ReaderTypeOK
    <3>2. QED
      BY <2>4, <3>1 DEF ThreadLeft
  <2>5. QED
    BY <1>2, <2>1, <2>2, <2>3, <2>4
       DEF ReaderTypeOK, Read, ReadStart, ReadIsDir, ReadProfile, ReadSeal, ReadDone,
           ReadDies, ReaderAnswer, ReaderEnds, ReaderGoto
<1>3. ASSUME ReaderTypeOK, [SharedNext]_allvars, NEW r \in Reader, rpc[r] # "idle"
      PROVE  ThreadLeft(r)' <= ThreadLeft(r)
  <2>1. CASE Read(r)
    BY <1>1, <1>2, <1>3, <2>1
  <2>2. CASE rpc'[r] = rpc[r] /\ rleft'[r] = rleft[r]
    <3>1. ThreadLeft(r)' = ThreadLeft(r)
      BY <2>2 DEF ThreadLeft
    <3>2. QED
      BY <1>1, <1>3, <3>1
  <2>3. ASSUME NEW q \in Reader, q # r, Read(q)
        PROVE  rpc'[r] = rpc[r] /\ rleft'[r] = rleft[r]
    BY <1>3, <2>3 DEF ReaderTypeOK, Read, ReadStart, ReadIsDir, ReadProfile, ReadSeal,
                      ReadDone, ReadDies, ReaderAnswer, ReaderEnds, ReaderGoto
  <2>4. QED
    BY <1>3, <2>1, <2>2, <2>3 DEF SharedNext, Write, allvars, rvars
<1>4. AttestInv /\ [AttestNext]_attestvars => [\A r \in Reader : GetsOn(r)]_attestvars
  <2> SUFFICES ASSUME AttestInv, [AttestNext]_attestvars, NEW r \in Reader
               PROVE  GetsOn(r)
    OBVIOUS
  <2>1. ReaderTypeOK
    BY DEF AttestInv, SharedInv
  <2>2. ASSUME Serve(r) PROVE Read(r) /\ rpc[r] # "idle"
    BY <2>2 DEF Serve, Read, ReadIsDir, ReadProfile, ReadSeal, ReadDone
  <2>3. QED
    BY <1>2, <1>3, <2>1, <2>2, ExchangeIsShared
<1>5. QED
  BY <1>4, ExchangeCorrect, PTL DEF AttestSafetySpec, ThreadsGetOn

=============================================================================
