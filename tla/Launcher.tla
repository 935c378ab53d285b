------------------------------ MODULE Launcher ------------------------------
(***************************************************************************)
(* The supervisor of every container and VM (hcp/python/hcp/tool/          *)
(* launcher.py): it starts the services of its configuration in the order  *)
(* of their priorities, blocking on those that ask for it, announces the    *)
(* workload, waits for a service to drop, and tears the others down.  The   *)
(* services are processes of their own, that end and make the files others  *)
(* block on whenever they like.                                            *)
(***************************************************************************)
EXTENDS Naturals, Sequences

CONSTANTS
    Configs      \* the configurations to run, see Config

\* A service stanza: what starting it blocks on, and whether it may end.
Stanza == [block : {"no", "exit", "file"}, will_exit : BOOLEAN]

\* Stanzas by priority; the places of the 'foreground' and the 'result_from'
\* services, or 0.
Config(c) ==
    /\ c.stanza \in Seq(Stanza) /\ Len(c.stanza) > 0
    /\ {c.foreground, c.result} \subseteq 0..Len(c.stanza)

ASSUME LauncherAssumption == \A c \in Configs : Config(c)

VARIABLES
    conf,       \* the configuration
    proc,       \* proc[s]: service s's process
    made,       \* made[s]: the file that s's stanza blocks on exists
    termed,     \* the services that were sent SIGTERM
    pc,         \* where the launcher is
    at,         \* the service that it starts, or tears down
    exiting,    \* Nexus.exiting
    code,       \* Nexus._returncode
    announced   \* /tmp/workload.running exists

launcher == <<pc, at, exiting, code, announced>>
lvars == <<conf, proc, made, termed, launcher>>

Service == DOMAIN conf.stanza
Outcome == {"ok", "failed", "term"}
Exited(s) == proc[s] \in Outcome
Dropped(s) == Exited(s) /\ ~conf.stanza[s].will_exit

\* The services that the Nexus holds: the one that blocks is not among them.
Added == {s \in Service : proc[s] # "none" /\ ~(pc = "block" /\ s = at)}

LauncherInit ==
    /\ conf \in Configs
    /\ proc = [s \in Service |-> "none"]
    /\ made \in [Service -> BOOLEAN]     \* a restarted container keeps files
    /\ termed = {}
    /\ pc = "start" /\ at = 1
    /\ exiting = FALSE /\ code = "none"
    /\ announced = FALSE

-----------------------------------------------------------------------------
(* The launcher *)

\* Mutant: only a service that fails counts.
IsExitingFailed(S) ==
    /\ exiting' = (exiting \/ \E s \in S : Dropped(s) /\ proc[s] # "ok")
    /\ code' = IF ~exiting /\ conf.result \in S /\ Dropped(conf.result)
               THEN proc[conf.result] ELSE code

\* Nexus.is_exiting, which stops looking once it is.
IsExiting(S) ==
    /\ exiting' = (exiting \/ \E s \in S : Dropped(s))
    /\ code' = IF ~exiting /\ conf.result \in S /\ Dropped(conf.result)
               THEN proc[conf.result] ELSE code

\* Service.exec, up to the loop it may block in.
Exec ==
    /\ pc = "start"
    /\ proc' = [proc EXCEPT ![at] = "running"]
    /\ pc' = IF conf.stanza[at].block = "no" THEN "added" ELSE "block"
    /\ UNCHANGED <<conf, made, termed, at, exiting, code, announced>>

\* Its Popen raises, as when there is no such program: nobody catches that, and
\* the services that were started are left to themselves.
ExecRaises ==
    /\ pc = "start"
    /\ pc' = "crashed"
    /\ UNCHANGED <<conf, proc, made, termed, at, exiting, code, announced>>

\* Mutant: only a block on a file blocks.
BlockFileOnly ==
    /\ pc = "block"
    /\ \/ Exited(at)
       \/ conf.stanza[at].block = "file" => made[at]
    /\ pc' = "added"
    /\ UNCHANGED <<conf, proc, made, termed, at, exiting, code, announced>>

\* The loop ends when the process does, or when the file is there.
Block ==
    /\ pc = "block"
    /\ \/ Exited(at)
       \/ conf.stanza[at].block = "file" /\ made[at]
    /\ pc' = "added"
    /\ UNCHANGED <<conf, proc, made, termed, at, exiting, code, announced>>

AddService ==
    /\ pc = "added"
    /\ IsExiting(Added)
    /\ IF ~exiting' /\ at < Len(conf.stanza)
       THEN pc' = "start" /\ at' = at + 1
       ELSE pc' = "announce" /\ UNCHANGED at
    /\ UNCHANGED <<conf, proc, made, termed, announced>>

\* Whether or not the services are all there.
Announce ==
    /\ pc = "announce"
    /\ announced' = TRUE
    /\ pc' = "wait"
    /\ UNCHANGED <<conf, proc, made, termed, at, exiting, code>>

Teardown == pc' = "teardown" /\ at' = 1

\* A pass of the main loop, without a foreground service.
Watch ==
    /\ pc = "wait" /\ conf.foreground = 0
    /\ IsExiting(Added)
    /\ IF exiting' THEN Teardown ELSE UNCHANGED <<pc, at>>
    /\ UNCHANGED <<conf, proc, made, termed, announced>>

\* With one: its end is all that is waited for.
Foreground ==
    /\ pc = "wait" /\ conf.foreground # 0
    /\ conf.foreground \in Added => Exited(conf.foreground)
    /\ Teardown
    /\ UNCHANGED <<conf, proc, made, termed, exiting, code, announced>>

\* The wait for it times out.  The handler names an exception that launcher.py
\* never imported: a NameError ends the launcher.
ForegroundTimeout ==
    /\ pc = "wait" /\ conf.foreground \in Added
    /\ ~Exited(conf.foreground)
    /\ pc' = "crashed"
    /\ UNCHANGED <<conf, proc, made, termed, at, exiting, code, announced>>

\* Service.teardown: SIGTERM, to a service that still runs ...
Terminate ==
    /\ pc = "teardown" /\ at \in Added /\ at \notin termed
    /\ proc[at] = "running"
    /\ termed' = termed \cup {at}
    /\ UNCHANGED <<conf, proc, made, launcher>>

\* Mutant: its result is not noted.
TornDownQuietly ==
    /\ pc = "teardown" /\ at \in Added /\ Exited(at)
    /\ at' = at + 1
    /\ UNCHANGED <<conf, proc, made, termed, pc, exiting, code, announced>>

\* ... and a wait for its end, however long that takes.
TornDown ==
    /\ pc = "teardown" /\ at \in Added /\ Exited(at)
    /\ code' = IF at = conf.result THEN proc[at] ELSE code
    /\ at' = at + 1
    /\ UNCHANGED <<conf, proc, made, termed, pc, exiting, announced>>

End ==
    /\ pc = "teardown" /\ at \notin Added
    /\ pc' = "ended"
    /\ UNCHANGED <<conf, proc, made, termed, at, exiting, code, announced>>

LauncherStep ==
    \/ Exec \/ ExecRaises \/ Block \/ AddService \/ Announce
    \/ Watch \/ Foreground \/ ForegroundTimeout
    \/ Terminate \/ TornDown \/ End

-----------------------------------------------------------------------------
(* The services *)

Exits(s) ==
    /\ proc[s] = "running"
    /\ proc' = [proc EXCEPT ![s] = IF s \in termed THEN "term" ELSE "ok"]
    /\ UNCHANGED <<conf, made, termed, launcher>>

Fails(s) ==
    /\ proc[s] = "running"
    /\ proc' = [proc EXCEPT ![s] = "failed"]
    /\ UNCHANGED <<conf, made, termed, launcher>>

\* The file that a stanza names can come from the service or from elsewhere.
Makes(s) ==
    /\ ~made[s]
    /\ made' = [made EXCEPT ![s] = TRUE]
    /\ UNCHANGED <<conf, proc, termed, launcher>>

LauncherNext ==
    LauncherStep \/ \E s \in Service : Exits(s) \/ Fails(s) \/ Makes(s)

\* The launcher runs; a service that is sent SIGTERM ends, as the default action
\* of that signal has it.  Nothing else is assumed of the services.
LauncherSpec ==
    /\ LauncherInit /\ [][LauncherNext]_lvars
    /\ WF_lvars(LauncherStep)
    /\ WF_lvars(\E s \in termed : Exits(s))

\* What a stanza blocks on, if anything, has happened.
Met == {s \in Service : \/ conf.stanza[s].block = "no" \/ Exited(s)
                        \/ conf.stanza[s].block = "file" /\ made[s]}

\* What others may rely on: a service that the launcher blocks on is not yet past.
Supervised == INSTANCE Supervision WITH
    service <- Service, met <- Met, past <- Added, dropped <- exiting

-----------------------------------------------------------------------------

\* What a service blocks on has happened, and is over, before the next one runs:
\* 'setup' services have ended, and files are there, unless their maker is not.
StartsInOrder ==
    \A s, r \in Service : r < s /\ proc[s] # "none" =>
        /\ conf.stanza[r].block = "exit" => Exited(r)
        /\ conf.stanza[r].block = "file" => Exited(r) \/ made[r]

\* Whatever was started before it went down, the launcher leaves no service
\* running, and its result is that of the 'result_from' service, if that was
\* started: not what another one made of it, nor a success by default.
EndsAsConfigured ==
    pc = "ended" =>
        /\ \A s \in Service : proc[s] # "running"
        /\ conf.result # 0 => code = proc[conf.result]

\* Once all is started, a service that drops brings the others down.
DroppedEndsLauncher ==
    \A s \in 1..3 :
        (pc \notin {"start", "block", "added", "crashed"} /\ conf.foreground = 0
            /\ s \in Service /\ Dropped(s))
          ~> pc = "ended"

=============================================================================
