----------------------------- MODULE AttestSpec -----------------------------
(***************************************************************************)
(* What the two services together promise a host that attests: the bundle  *)
(* it gets was made from the profile its TPM was enrolled with at a moment  *)
(* between its asking and the answer, and it is told that it is unknown    *)
(* only if there was a moment at which it was not enrolled.                *)
(***************************************************************************)
CONSTANTS
    TPM, Profile, Unenrolled,   \* those of EnrollSpec
    Host,
    AnyTPM,     \* the TPMs that hosts have; some, nobody ever enrolls
    Nothing

VARIABLES
    enrolled,   \* the map that the Enrollment Service keeps
    asks,       \* asks[h]: the TPM that host h is asking for, or Nothing
    looked,     \* looked[h]: the profile that was looked up for it, or Nothing
    held        \* held[h]: the last answer: a TPM, and its profile or Unenrolled

promised == <<enrolled, asks, looked, held>>

Database == INSTANCE EnrollSpec WITH
    TPM <- TPM, Profile <- Profile, Unenrolled <- Unenrolled, enrolled <- enrolled

Init ==
    /\ Database!Init
    /\ asks = [h \in Host |-> Nothing]
    /\ looked = [h \in Host |-> Nothing]
    /\ held = [h \in Host |-> Nothing]

Change == Database!Next /\ UNCHANGED <<asks, looked, held>>

Ask(h) ==
    /\ asks[h] = Nothing
    /\ \E t \in AnyTPM : asks' = [asks EXCEPT ![h] = t]
    /\ UNCHANGED <<enrolled, looked, held>>

Look(h) ==
    /\ asks[h] \in TPM /\ looked[h] = Nothing
    /\ enrolled[asks[h]] # Unenrolled
    /\ looked' = [looked EXCEPT ![h] = enrolled[asks[h]]]
    /\ UNCHANGED <<enrolled, asks, held>>

Answer(h, a) ==
    /\ asks[h] # Nothing
    /\ held' = [held EXCEPT ![h] = a]
    /\ asks' = [asks EXCEPT ![h] = Nothing]
    /\ looked' = [looked EXCEPT ![h] = Nothing]
    /\ UNCHANGED enrolled

Serve(h) == looked[h] # Nothing /\ Answer(h, <<asks[h], looked[h]>>)

TurnAway(h) ==
    /\ asks[h] \in TPM => enrolled[asks[h]] = Unenrolled
    /\ Answer(h, <<asks[h], Unenrolled>>)

\* Whatever goes wrong, the host keeps what it has.
Fail(h) == Answer(h, held[h])

Next ==
    \/ Change
    \/ \E h \in Host : Ask(h) \/ Look(h) \/ Serve(h) \/ TurnAway(h) \/ Fail(h)

Spec == Init /\ [][Next]_promised

=============================================================================
