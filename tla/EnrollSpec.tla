----------------------------- MODULE EnrollSpec -----------------------------
(***************************************************************************)
(* What the Enrollment Service promises of its database: a map from TPMs   *)
(* to enrollment profiles, in which a TPM's profile appears and disappears *)
(* whole, and never changes in place.                                      *)
(***************************************************************************)
CONSTANTS TPM, Profile, Unenrolled

VARIABLE enrolled   \* enrolled[t]: the profile of TPM t, or Unenrolled

Init == enrolled = [t \in TPM |-> Unenrolled]

Enroll(t, p) ==
    /\ enrolled[t] = Unenrolled
    /\ enrolled' = [enrolled EXCEPT ![t] = p]

Unenroll(t) == enrolled' = [enrolled EXCEPT ![t] = Unenrolled]

Next == \E t \in TPM : Unenroll(t) \/ \E p \in Profile : Enroll(t, p)

Spec == Init /\ [][Next]_enrolled

=============================================================================
