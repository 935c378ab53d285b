---------------------------- MODULE MCWatchLoop ----------------------------
EXTENDS WatchLoop

=============================================================================
