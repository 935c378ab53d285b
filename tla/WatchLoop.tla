----------------------------- MODULE WatchLoop -----------------------------
(***************************************************************************)
(* What a launcher does once its services are started, and who asks it      *)
(* (launcher.py's main loop, healthcheck.py, vm_cmd.py).  In each round it  *)
(* looks for a request to check its services' health, then for a command    *)
(* injected into its virtual machine, and does each before it goes on.      *)
(*                                                                          *)
(* healthcheck.py asks through a request and a report file; docker runs it  *)
(* time and again and kills it when it is slow, and users run it as well.   *)
(* vm_cmd.py asks from the host side of a directory that it shares with the *)
(* guest; one runs at a time, and its user may interrupt it anywhere.       *)
(***************************************************************************)
EXTENDS Naturals, FiniteSets

CONSTANTS
    Client,      \* the processes of healthcheck.py that can run at one time
    MaxRound,    \* bound: the checks that are asked for
    MaxCmd       \* bound: the commands that are injected

ASSUME WatchAssumption == IsFiniteSet(Client) /\ {MaxRound, MaxCmd} \subseteq Nat

VARIABLES
    lpc,       \* the launcher: where it is
    round,     \* the number of checks it has begun
    cur,       \* the command that it has loaded
    request,   \* do_healthcheck exists
    report,    \* the round that the file healthcheck is of, 0 if it is not there
    cpc,       \* cpc[c]: where client c is
    asked,     \* asked[c]: the round when c left its request
    got,       \* got[c]: the round of the report that c read
    met,       \* history: met[c], another client has run beside c
    alone,     \* history: no client was killed, or met another one
    do_cmd,    \* the command in the file do_cmd, 0 if it is not there
    result,    \* the command whose result is in cmd, 0 if the file is not there
    whole,     \* that result has been written to its end
    vpc, mine, \* vm_cmd: where it is, and its command (they are numbered)
    failed,    \* history: a command could not be started
    killed     \* history: a vm_cmd was interrupted

health == <<request, report, cpc, asked, got, met, alone>>
vmcmd == <<do_cmd, result, whole, vpc, mine, failed, killed>>
watchvars == <<lpc, round, cur, health, vmcmd>>

WatchInit ==
    /\ lpc = "starting" /\ round = 0 /\ cur = 0
    /\ request = FALSE /\ report = 0
    /\ cpc = [c \in Client |-> "idle"]
    /\ asked = [c \in Client |-> 0]
    /\ got = [c \in Client |-> 0]
    /\ met = [c \in Client |-> FALSE]
    /\ alone = TRUE
    /\ do_cmd = 0 /\ result = 0 /\ whole = FALSE
    /\ vpc = "idle" /\ mine = 0
    /\ failed = FALSE /\ killed = FALSE

LGoto(label) == lpc' = label

-----------------------------------------------------------------------------
(* The launcher: the services' health *)

\* Mutant: requests from before the loop are cleaned up.
StartedClean ==
    /\ lpc = "starting"
    /\ LGoto("health")
    /\ request' = FALSE
    /\ UNCHANGED <<round, cur, report, cpc, asked, got, met, alone, vmcmd>>

\* It answers nobody until the services have been started.
Started ==
    /\ lpc = "starting"
    /\ LGoto("health")
    /\ UNCHANGED <<round, cur, health, vmcmd>>

NoRequest ==
    /\ lpc = "health" /\ ~request
    /\ LGoto("command")
    /\ UNCHANGED <<round, cur, health, vmcmd>>

\* A request is removed before the services' healthchecks are run.
Check ==
    /\ lpc = "health" /\ request
    /\ request' = FALSE
    /\ round' = round + 1
    /\ LGoto("checking")
    /\ UNCHANGED <<cur, report, cpc, asked, got, met, alone, vmcmd>>

\* The report is renamed into place, whole.
Report ==
    /\ lpc = "checking"
    /\ report' = round
    /\ LGoto("command")
    /\ UNCHANGED <<round, cur, request, cpc, asked, got, met, alone, vmcmd>>

-----------------------------------------------------------------------------
(* The launcher: an injected command *)

NoCommand ==
    /\ lpc = "command" /\ do_cmd = 0
    /\ LGoto("health")
    /\ UNCHANGED <<round, cur, health, vmcmd>>

Load ==
    /\ lpc = "command" /\ do_cmd # 0
    /\ cur' = do_cmd
    /\ LGoto("loaded")
    /\ UNCHANGED <<round, health, vmcmd>>

\* This may remove a younger command than the one that was loaded.
Remove ==
    /\ lpc = "loaded"
    /\ do_cmd' = 0
    /\ LGoto("running")
    /\ UNCHANGED <<round, cur, health, result, whole, vpc, mine, failed, killed>>

\* The command ends, if it does: the launcher waits for it without a timeout.
\* The result file is created, or truncated, before it is written.
CommandEnds ==
    /\ lpc = "running"
    /\ result' = cur /\ whole' = FALSE
    /\ LGoto("dump")
    /\ UNCHANGED <<round, cur, health, do_cmd, vpc, mine, failed, killed>>

\* There is no such program: the exception goes to a file that nobody reads.
CommandFails ==
    /\ lpc = "running"
    /\ failed' = TRUE
    /\ LGoto("health") /\ cur' = 0
    /\ UNCHANGED <<round, health, do_cmd, result, whole, vpc, mine, killed>>

\* Mutant: the request is removed once more, when its result is there.
DumpRemove ==
    /\ lpc = "dump"
    /\ whole' = (result = cur)
    /\ do_cmd' = 0
    /\ LGoto("health") /\ cur' = 0
    /\ UNCHANGED <<round, health, result, vpc, mine, failed, killed>>

\* It writes to the file that it has opened, which may be removed by now.
Dump ==
    /\ lpc = "dump"
    /\ whole' = (result = cur)
    /\ LGoto("health") /\ cur' = 0
    /\ UNCHANGED <<round, health, do_cmd, result, vpc, mine, failed, killed>>

\* The loop is left when a service has dropped, which it looks for before this, or
\* by an exception in a health check: nobody is answered any more.
Leave ==
    /\ lpc \in {"starting", "health", "checking"}
    /\ LGoto("left")
    /\ UNCHANGED <<round, cur, health, vmcmd>>

LoopStep ==
    \/ NoRequest \/ Check \/ Report
    \/ NoCommand \/ Load \/ Remove \/ Dump

-----------------------------------------------------------------------------
(* healthcheck.py *)

CGoto(c, label) == cpc' = [cpc EXCEPT ![c] = label]

Others(c) == {d \in Client \ {c} : cpc[d] # "idle"}
Meets(c) ==
    /\ met' = [d \in Client |-> IF d = c THEN Others(c) # {}
                               ELSE met[d] \/ d \in Others(c)]
    /\ alone' = (alone /\ Others(c) = {})

\* Each check is one that a client has asked for: the bound is on those.
MayBegin ==
    Cardinality({c \in Client : cpc[c] = "ask"}) + (IF request THEN 1 ELSE 0)
      + round < MaxRound

\* Mutant: an old report is left where it is.
BeginStale(c) ==
    /\ cpc[c] = "idle" /\ MayBegin
    /\ CGoto(c, "ask")
    /\ Meets(c)
    /\ got' = [got EXCEPT ![c] = 0]
    /\ UNCHANGED <<lpc, round, cur, request, report, asked, vmcmd>>

\* An old report is removed, if there is one.
Begin(c) ==
    /\ cpc[c] = "idle" /\ MayBegin
    /\ report' = 0
    /\ CGoto(c, "ask")
    /\ Meets(c)
    /\ got' = [got EXCEPT ![c] = 0]
    /\ UNCHANGED <<lpc, round, cur, request, asked, vmcmd>>

Ask(c) ==
    /\ cpc[c] = "ask"
    /\ request' = TRUE
    /\ asked' = [asked EXCEPT ![c] = round]
    /\ CGoto(c, "wait")
    /\ UNCHANGED <<lpc, round, cur, report, got, met, alone, vmcmd>>

Poll(c) ==
    /\ cpc[c] = "wait" /\ report # 0
    /\ CGoto(c, "read")
    /\ UNCHANGED <<lpc, round, cur, request, report, asked, got, met, alone, vmcmd>>

\* open() finds the report that poll saw, a newer one, or none: the exception
\* makes the container unhealthy.
Read(c) ==
    /\ cpc[c] = "read"
    /\ got' = [got EXCEPT ![c] = report]
    /\ CGoto(c, IF report = 0 THEN "failed" ELSE "told")
    /\ UNCHANGED <<lpc, round, cur, request, report, asked, met, alone, vmcmd>>

Exit(c) ==
    /\ cpc[c] \in {"told", "failed"}
    /\ CGoto(c, "idle")
    /\ UNCHANGED <<lpc, round, cur, request, report, asked, got, met, alone, vmcmd>>

\* docker's timeout; the files stay as they are.
Killed(c) ==
    /\ cpc[c] \notin {"idle", "told", "failed"}
    /\ CGoto(c, "idle")
    /\ alone' = FALSE
    /\ UNCHANGED <<lpc, round, cur, request, report, asked, got, met, vmcmd>>

ClientStep(c) == Ask(c) \/ Poll(c) \/ Read(c) \/ Exit(c)

-----------------------------------------------------------------------------
(* vm_cmd.py *)

\* Mutant: the result of an earlier command is left where it is.
VmBeginStale ==
    /\ vpc = "idle" /\ mine < MaxCmd
    /\ mine' = mine + 1
    /\ vpc' = "submit"
    /\ UNCHANGED <<lpc, round, cur, health, do_cmd, result, whole, failed, killed>>

\* The result of an earlier command is removed.
VmBegin ==
    /\ vpc = "idle" /\ mine < MaxCmd
    /\ mine' = mine + 1
    /\ result' = 0 /\ whole' = FALSE
    /\ vpc' = "submit"
    /\ UNCHANGED <<lpc, round, cur, health, do_cmd, failed, killed>>

\* The command is renamed into place, over one that was never fetched.
VmSubmit ==
    /\ vpc = "submit"
    /\ do_cmd' = mine
    /\ vpc' = "wait"
    /\ UNCHANGED <<lpc, round, cur, health, result, whole, mine, failed, killed>>

VmPoll ==
    /\ vpc = "wait" /\ result # 0
    /\ vpc' = "read"
    /\ UNCHANGED <<lpc, round, cur, health, do_cmd, result, whole, mine, failed, killed>>

\* A result that is not whole does not parse.
VmRead ==
    /\ vpc = "read"
    /\ vpc' = IF whole THEN "told" ELSE "torn"
    /\ UNCHANGED <<lpc, round, cur, health, do_cmd, result, whole, mine, failed, killed>>

VmExit ==
    /\ vpc \in {"told", "torn"}
    /\ vpc' = "idle"
    /\ UNCHANGED <<lpc, round, cur, health, do_cmd, result, whole, mine, failed, killed>>

VmKilled ==
    /\ vpc \in {"submit", "wait", "read"}
    /\ vpc' = "idle" /\ killed' = TRUE
    /\ UNCHANGED <<lpc, round, cur, health, do_cmd, result, whole, mine, failed>>

VmStep == VmSubmit \/ VmPoll \/ VmRead \/ VmExit

-----------------------------------------------------------------------------

WatchNext ==
    \/ Started \/ LoopStep \/ CommandEnds \/ CommandFails \/ Leave
    \/ \E c \in Client : Begin(c) \/ ClientStep(c) \/ Killed(c)
    \/ VmBegin \/ VmStep \/ VmKilled

\* The launcher and its askers run.  Nothing is assumed of a command, which may
\* never end, nor of the services' start; they need not ever drop.
WatchSpec ==
    /\ WatchInit /\ [][WatchNext]_watchvars
    /\ WF_watchvars(LoopStep)
    /\ \A c \in Client : WF_watchvars(ClientStep(c))
    /\ WF_watchvars(VmStep)

-----------------------------------------------------------------------------

WatchTypeOK ==
    /\ lpc \in {"starting", "health", "checking", "command", "loaded",
                "running", "dump", "left"}
    /\ {request, alone, whole, failed, killed} \subseteq BOOLEAN
    /\ met \in [Client -> BOOLEAN]
    /\ {report, round} \subseteq 0..MaxRound
    /\ cpc \in [Client -> {"idle", "ask", "wait", "read", "told", "failed"}]
    /\ {asked, got} \subseteq [Client -> 0..MaxRound]
    /\ {do_cmd, result, cur, mine} \subseteq 0..MaxCmd
    /\ vpc \in {"idle", "submit", "wait", "read", "told", "torn"}

\* A health client that nobody kills, and that is not run beside another one, is
\* told of a check that began after it asked, and never finds the report gone:
\* not after a command that held the launcher up, either.
AloneIsTold ==
    alone => \A c \in Client :
        /\ cpc[c] # "failed"
        /\ cpc[c] = "told" => got[c] > asked[c]

\* As long as no vm_cmd has been interrupted, the result that one finds, whole or
\* not, is of its own command.
OwnResult == ~killed /\ vpc \in {"read", "told", "torn"} => result = mine

\* No command runs for ever.
CommandsEnd == []<>(lpc # "running")

\* Whatever earlier clients left behind, and whatever commands are injected: once
\* the launcher is in its loop, a health client that waits comes to an end, unless
\* another one is run beside it, which may remove its report, or the loop is left.
ClientsEnd ==
    CommandsEnd =>
        \A c \in Client :
            (lpc # "starting" /\ cpc[c] = "wait") ~> (cpc[c] # "wait" \/ met[c] \/ lpc = "left")

\* Whatever interrupted commands left behind, and whatever health is asked for:
\* a vm_cmd that waits comes to an end as long as every command could be started,
\* even when the launcher removes its request unread, unless the loop is left.
VmCmdEnds ==
    CommandsEnd =>
        ((lpc # "starting" /\ vpc = "wait") ~> (vpc # "wait" \/ failed \/ lpc = "left"))

=============================================================================
