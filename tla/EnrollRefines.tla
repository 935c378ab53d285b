--------------------------- MODULE EnrollRefines ----------------------------
(***************************************************************************)
(* The directory tree implements the map that EnrollSpec promises, as long *)
(* as no two requests for one TPM overlap: a TPM's enrollment is there from *)
(* the 'mv' that answers its add to the first file a delete unlinks.       *)
(***************************************************************************)
EXTENDS EnrollDB

CONSTANT Unenrolled

ASSUME UnenrolledAssumption == Unenrolled \notin Profile

enrolled ==
    [t \in TPM |-> IF Exists(t, "enrolled") /\ t \notin torn
                   THEN db[t]["enrolled"].file["profile"].val
                   ELSE Unenrolled]

Abstract == INSTANCE EnrollSpec WITH
    TPM <- TPM, Profile <- Profile, Unenrolled <- Unenrolled, enrolled <- enrolled

\* Every step of the workers, their deaths included, is a step of the abstract
\* database or leaves it unchanged.
ImplementsMap == Abstract!Spec

=============================================================================
