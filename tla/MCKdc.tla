------------------------------- MODULE MCKdc -------------------------------
\* Kdc on the small instance of Kdc.cfg.
EXTENDS Kdc

=============================================================================
