----------------------------- MODULE MCEnrollDB -----------------------------
EXTENDS EnrollRefines, TLC

\* Workers, TPMs and profiles are interchangeable.
Symmetry == Permutations(Worker) \cup Permutations(TPM) \cup Permutations(Profile)

=============================================================================
