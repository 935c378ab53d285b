----------------------------- MODULE MCBringup -----------------------------
\* Bringup on the small instance of Bringup.cfg.
EXTENDS Bringup

\* A service that all attesters depend on, and an attester, which may crash while its
\* launcher is blocked on it.
MCMayCrash == {<<"attestsvc", "webapi">>, <<"alicia", "attester">>}

=============================================================================
