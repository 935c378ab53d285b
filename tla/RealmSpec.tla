----------------------------- MODULE RealmSpec -----------------------------
(***************************************************************************)
(* What the KDC service promises those that manage its principals: nothing  *)
(* is done before the realm is open, and it is open for good; a task does   *)
(* its operation on a principal at one moment, at most once, and only where *)
(* it applies; and it is sure only when it has done it on every one it is   *)
(* about.  A task that has failed on one may go on to others, but is never  *)
(* sure; tasks may be lost, and what they did stays.                        *)
(***************************************************************************)
CONSTANTS Principal, Virtual, Caller

VARIABLES
    open,      \* the realm is set up
    princs,    \* its principals
    task       \* task[c]: what is being done for caller c, or has been

promised == <<open, princs, task>>

NoTask == [state |-> "none", op |-> "get", names |-> {}, did |-> {}]

Init == ~open /\ princs = {} /\ task = [c \in Caller |-> NoTask]

Open == open' /\ UNCHANGED <<princs, task>>

\* A "get" that names nothing is about the principals that there are.
Begin(c, op, asked) ==
    /\ open /\ task[c].state = "none"
    /\ task' = [task EXCEPT ![c] =
                  [state |-> "open", op |-> op, did |-> {},
                   names |-> IF op = "get" /\ asked = {} THEN princs ELSE asked]]
    /\ UNCHANGED <<open, princs>>

\* An operation applies to a principal, and comes to what it comes to.
Does(op, p) ==
    \/ op = "add" /\ p \notin princs /\ princs' = princs \cup {p}
    \/ op = "del" /\ p \in princs /\ princs' = princs \ {p}
    \/ op = "get" /\ p \in princs /\ UNCHANGED princs
    \/ op = "ext_keytab" /\ p \in princs \cup Virtual /\ UNCHANGED princs

Work(c, p) ==
    /\ task[c].state \in {"open", "failed"}
    /\ p \in task[c].names \ task[c].did
    /\ Does(task[c].op, p)
    /\ task' = [task EXCEPT ![c].did = @ \cup {p}]
    /\ UNCHANGED open

Fail(c) ==
    /\ task[c].state = "open"
    /\ task' = [task EXCEPT ![c].state = "failed"]
    /\ UNCHANGED <<open, princs>>

BeSure(c) ==
    /\ task[c].state = "open" /\ task[c].did = task[c].names
    /\ task[c].names # {} \/ task[c].op = "get"
    /\ task' = [task EXCEPT ![c].state = "sure"]
    /\ UNCHANGED <<open, princs>>

\* Answered, refused, given up, or swept away by the end of the container.
Lose(S) ==
    /\ task' = [c \in Caller |-> IF c \in S THEN NoTask ELSE task[c]]
    /\ UNCHANGED <<open, princs>>

Next ==
    \/ Open
    \/ \E c \in Caller :
          \/ \E op \in {"add", "del", "get", "ext_keytab"}, asked \in SUBSET Principal :
                Begin(c, op, asked)
          \/ \E p \in Principal : Work(c, p)
          \/ Fail(c)
          \/ BeSure(c)
    \/ \E S \in SUBSET Caller : Lose(S)

Spec == Init /\ [][Next]_promised

=============================================================================
