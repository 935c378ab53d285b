--------------------------- MODULE MCOrchestrator ---------------------------
EXTENDS Orchestrator, TLC

\* The runs that main-test.py makes ('-a -c', '-c -e', '-e'), and the other ways
\* to use the options, but '-c -u', which is '-c' and then '-u'.
MCFlags == {{"create", "assume"}, {"create", "enroll"}, {"enroll"},
            {"unenroll"}, {"unenroll", "assume"}, {"delete"},
            {"delete", "unenroll"}, {}}

MCKillable == Label \ {"idle"}

\* Hosts, and the hashes of TPMs, are interchangeable.
Symmetry == Permutations(Host) \cup Permutations(Hash)

=============================================================================
