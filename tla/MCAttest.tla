------------------------------ MODULE MCAttest ------------------------------
EXTENDS Attest, TLC

\* Workers, readers and profiles are interchangeable.
Symmetry ==
    Permutations(Worker) \cup Permutations(Reader) \cup Permutations(Profile)

=============================================================================
