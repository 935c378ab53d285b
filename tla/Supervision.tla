----------------------------- MODULE Supervision -----------------------------
(***************************************************************************)
(* What the launcher of a container promises those that wait for it: it is  *)
(* past its services in their order, past each one when what the service is *)
(* blocked on is met, past no more of them once it has seen that one has    *)
(* dropped, and it announces the workload when it is past all of them, or   *)
(* has seen that one has dropped.                                          *)
(***************************************************************************)
EXTENDS Naturals

VARIABLES
    service,     \* the services, by their places in the order
    met,         \* those that wait for nothing, or for what is there
    past,        \* those that it has started, and waits for no more
    dropped,     \* it has seen that one has ended which should not
    announced    \* workload.running is there

promised == <<service, past, dropped, announced>>

Init == past = {} /\ ~dropped /\ ~announced

\* It looks for drops when it has passed one, at once or a little later.
Pass(s) ==
    /\ ~dropped /\ s \in met \ past
    /\ \A r \in service : r < s => r \in past
    /\ past' = past \cup {s}

SeeDrop == dropped' /\ UNCHANGED past

\* The sign of the workload stays, and is given for a reason.
SignIsEarned ==
    /\ announced => announced'
    /\ announced' => announced \/ past' = service \/ dropped'

\* The container is taken down.
Remove == past' = {} /\ ~dropped' /\ ~announced'

Next ==
    /\ UNCHANGED service
    /\ \/ /\ (\E s \in service : Pass(s)) \/ SeeDrop \/ UNCHANGED <<past, dropped>>
          /\ SignIsEarned
       \/ Remove

Spec == Init /\ [][Next]_promised

=============================================================================
