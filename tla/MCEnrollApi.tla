---------------------------- MODULE MCEnrollApi -----------------------------
EXTENDS EnrollApi

=============================================================================
