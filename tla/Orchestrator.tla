---------------------------- MODULE Orchestrator ----------------------------
(***************************************************************************)
(* The orchestrator tool (hcp/python/hcp/tool/orchestrator.py): runs of a   *)
(* command that creates, deletes, enrolls and unenrolls the TPMs of fleet   *)
(* hosts, one host after the other, through the API of EnrollApi, which it   *)
(* never asks to retry.  The tool keeps nothing but the TPMs' directories,  *)
(* and can be killed between any two steps.                                *)
(***************************************************************************)
EXTENDS EnrollApi, FiniteSets

CONSTANTS
    Host,        \* the fleet hosts
    NoHost,
    NoHash,      \* no ek.pub, or one whose hash was not computed
    Flags,       \* the sets of command-line flags that runs are started with
    Killable     \* the program points at which the tool can be killed

Flag == {"create", "delete", "enroll", "unenroll", "assume"}

ASSUME OrchestratorAssumption ==
    /\ Retries = 0
    /\ NoHash \notin Hash \cup {EmptyHash}
    /\ NoHost \notin Host
    /\ Flags \subseteq
          {F \in SUBSET Flag : /\ ~({"create", "delete"} \subseteq F)
                               /\ ~({"enroll", "unenroll"} \subseteq F)}

\* A TPM's directory: "gutted" and "hollow" are what a delete that was killed
\* leaves, with or without the ek.pub file.
TpmDir == {"none", "whole", "gutted", "hollow"}
HasEkpub == {"whole", "gutted"}
\* 'temp' is tpm-temp next to it: missing, being filled, or ready to be moved;
\* 'inner' tells that a tpm-temp was moved into the directory instead.
Disk == [tpm : TpmDir, ek : Hash \cup {NoHash}, inner : BOOLEAN,
         temp : {"none", "partial", "ready"}, tempek : Hash \cup {NoHash}]

Label == {"idle", "init", "exist", "query", "create", "setup", "move",
          "delete", "rmtree", "enroll", "adding", "unenroll", "deleting"}

VARIABLES
    disk,       \* disk[h]: the directories of host h
    pc,         \* where the tool is; "idle" between runs
    stage,      \* how many of a host's stages the tool has entered
    flags,      \* the flags of the run
    queue,      \* the hosts still to be visited
    host,       \* the host whose FleetHost is being worked on
    exists,     \* fh.exists
    belief,     \* fh.enrolled
    ekpubhash,  \* fh.ekpubhash, NoHash while the attribute is not set
    outcome,    \* how the last run ended
    unused,     \* the hashes that no TPM has had yet
    clean,      \* history: nothing outside the tool has failed in this run; and
                \* when it began no request was late, no directory half made
    before      \* history: the hash that each host of the run had at its start

tool == <<disk, pc, stage, flags, queue, host, exists, belief, ekpubhash,
          outcome, unused, clean, before>>
ovars == <<api, tool>>

NoDisk == [tpm |-> "none", ek |-> NoHash, inner |-> FALSE,
           temp |-> "none", tempek |-> NoHash]

OrchestratorInit ==
    /\ ApiInit
    /\ disk = [h \in Host |-> NoDisk]
    /\ pc = "idle" /\ stage = 0 /\ flags = {} /\ queue = {} /\ host = NoHost
    /\ exists = FALSE /\ belief = FALSE /\ ekpubhash = NoHash
    /\ outcome = "none"
    /\ unused = Hash
    /\ clean = FALSE
    /\ before = <<>>

-----------------------------------------------------------------------------
(* Control: runs, hosts, and the stages of a host *)

Stages == <<"create", "delete", "enroll", "unenroll">>

\* The next stage the flags ask for, or the next host, or the end of the run.
Proceed ==
    LET later == {k \in stage + 1 .. 4 : Stages[k] \in flags}
        first == CHOOSE k \in later : \A j \in later : k <= j
    IN \/ /\ later # {}
          /\ stage' = first /\ pc' = Stages[first]
          /\ UNCHANGED <<queue, host, outcome>>
       \/ /\ later = {} /\ queue # {}
          /\ stage' = 0 /\ pc' = "init"
          /\ host' \in queue /\ queue' = queue \ {host'}
          /\ UNCHANGED outcome
       \/ /\ later = {} /\ queue = {}
          /\ stage' = 0 /\ pc' = "idle" /\ host' = NoHost
          /\ outcome' = "ok"
          /\ UNCHANGED queue

\* What ends the run for all the hosts that are left: a kill, or an exception,
\* which nobody catches.
Stop(how) ==
    /\ stage' = 0 /\ pc' = "idle" /\ host' = NoHost /\ queue' = {}
    /\ outcome' = how

Goto(label) == pc' = label /\ UNCHANGED <<stage, queue, host, outcome>>

Run(F, hosts) ==
    /\ pc = "idle" /\ hosts # {}
    /\ host' \in hosts /\ queue' = hosts \ {host'}
    /\ pc' = "init" /\ stage' = 0
    /\ flags' = F
    /\ outcome' = "none"
    /\ clean' = (/\ late = EmptyBag
                 /\ \A h \in hosts : /\ disk[h].tpm \in {"none", "whole"}
                                     /\ disk[h].temp = "none")
    /\ before' = [h \in hosts |-> disk[h].ek]
    /\ UNCHANGED <<api, disk, exists, belief, ekpubhash, unused>>

-----------------------------------------------------------------------------
(* FleetHost *)

\* __init__
New ==
    /\ pc = "init"
    /\ exists' = (disk[host].tpm \in HasEkpub)
    /\ belief' = FALSE
    /\ ekpubhash' = NoHash
    /\ IF exists' THEN Goto("exist") ELSE Proceed
    /\ UNCHANGED <<api, disk, flags, unused, clean, before>>

\* post_exist: an assumption in place of a query; or the hash of ek.pub, and a
\* query for it.
PostExist ==
    /\ pc = "exist"
    /\ \/ /\ "assume" \in flags
          /\ belief' = ("unenroll" \in flags)
          /\ Proceed
          /\ UNCHANGED <<api, ekpubhash>>
       \/ /\ "assume" \notin flags /\ disk[host].tpm \in HasEkpub
          /\ ekpubhash' = disk[host].ek
          /\ BeginCall("query", disk[host].ek)
          /\ Goto("query")
          /\ UNCHANGED belief
       \/ /\ "assume" \notin flags /\ disk[host].tpm \notin HasEkpub
          /\ Stop("raised")
          /\ UNCHANGED <<api, belief, ekpubhash>>
    /\ UNCHANGED <<disk, flags, exists, unused, clean, before>>

\* Mutant: any answer to the query counts as an enrollment.
QueriedAny ==
    /\ pc = "query" /\ call = NoCall
    /\ \/ /\ result = "true"
          /\ belief' = TRUE
          /\ Proceed
       \/ /\ result # "true"
          /\ Stop("raised")
          /\ UNCHANGED belief
    /\ UNCHANGED <<api, disk, flags, exists, ekpubhash, unused, clean, before>>

Queried ==
    /\ pc = "query" /\ call = NoCall
    /\ \/ /\ result = "true"
          /\ belief' = listed
          /\ Proceed
       \/ /\ result # "true"
          /\ Stop("raised")
          /\ UNCHANGED belief
    /\ UNCHANGED <<api, disk, flags, exists, ekpubhash, unused, clean, before>>

Create ==
    /\ pc = "create"
    /\ \/ exists /\ Proceed /\ UNCHANGED disk
       \/ /\ ~exists
          /\ disk' = [disk EXCEPT ![host].temp =
                         IF @ = "none" THEN "partial" ELSE @]
          /\ Goto("setup")
    /\ UNCHANGED <<api, flags, exists, belief, ekpubhash, unused, clean, before>>

\* swtpm_setup, swtpm and tpm2 fill tpm-temp; when one of them fails the tool
\* says so, and goes on.
Setup ==
    /\ pc = "setup"
    /\ \/ /\ \E h \in unused :
                /\ disk' = [disk EXCEPT ![host].temp = "ready",
                                        ![host].tempek = h]
                /\ unused' = unused \ {h}
          /\ Goto("move")
          /\ UNCHANGED clean
       \/ /\ clean' = FALSE
          /\ Proceed
          /\ UNCHANGED <<disk, unused>>
    /\ UNCHANGED <<api, flags, exists, belief, ekpubhash, before>>

\* shutil.move renames tpm-temp; or moves it into a directory that is there
\* already, unless that has a tpm-temp.
MoveTemp ==
    /\ pc = "move"
    /\ LET d == disk[host]
           moved == [d EXCEPT !.temp = "none", !.tempek = NoHash]
       IN \/ /\ d.tpm = "none"
             /\ disk' = [disk EXCEPT ![host] =
                            [moved EXCEPT !.tpm = "whole", !.ek = d.tempek]]
             /\ exists' = TRUE
             /\ Goto("exist")
          \/ /\ d.tpm # "none" /\ ~d.inner
             /\ disk' = [disk EXCEPT ![host] = [moved EXCEPT !.inner = TRUE]]
             /\ exists' = TRUE
             /\ Goto("exist")
          \/ /\ d.tpm # "none" /\ d.inner
             /\ Stop("raised")
             /\ UNCHANGED <<disk, exists>>
    /\ UNCHANGED <<api, flags, belief, ekpubhash, unused, clean, before>>

Delete ==
    /\ pc = "delete"
    /\ IF exists THEN Goto("rmtree") ELSE Proceed
    /\ UNCHANGED <<api, disk, flags, exists, belief, ekpubhash, unused, clean,
                   before>>

\* shutil.rmtree, in whatever order it finds the directory's entries.
RmTree ==
    /\ pc = "rmtree"
    /\ \/ /\ disk[host].tpm = "whole"
          /\ disk' = [disk EXCEPT ![host].tpm = "gutted"]
          /\ UNCHANGED <<exists, pc, stage, queue, host, outcome>>
       \/ /\ disk[host].tpm \in HasEkpub
          /\ disk' = [disk EXCEPT ![host].tpm = "hollow", ![host].ek = NoHash]
          /\ UNCHANGED <<exists, pc, stage, queue, host, outcome>>
       \/ /\ disk[host].tpm = "hollow"
          /\ disk' = [disk EXCEPT ![host].tpm = "none", ![host].inner = FALSE]
          /\ exists' = FALSE
          /\ Proceed
    /\ UNCHANGED <<api, flags, belief, ekpubhash, unused, clean, before>>

\* Mutant: a TPM that is enrolled is enrolled again.
EnrollAnyway ==
    /\ pc = "enroll"
    /\ \/ ~exists /\ Proceed /\ UNCHANGED api
       \/ /\ exists /\ disk[host].tpm \in HasEkpub
          /\ BeginCall("add", disk[host].ek)
          /\ Goto("adding")
       \/ /\ exists /\ disk[host].tpm \notin HasEkpub
          /\ Stop("raised")
          /\ UNCHANGED api
    /\ UNCHANGED <<disk, flags, exists, belief, ekpubhash, unused, clean, before>>

Enroll ==
    /\ pc = "enroll"
    /\ \/ /\ ~exists \/ belief
          /\ Proceed
          /\ UNCHANGED api
       \/ /\ exists /\ ~belief /\ disk[host].tpm \in HasEkpub
          /\ BeginCall("add", disk[host].ek)
          /\ Goto("adding")
       \/ /\ exists /\ ~belief /\ disk[host].tpm \notin HasEkpub
          /\ Stop("raised")
          /\ UNCHANGED api
    /\ UNCHANGED <<disk, flags, exists, belief, ekpubhash, unused, clean, before>>

Added ==
    /\ pc = "adding" /\ call = NoCall
    /\ \/ result = "true" /\ belief' = TRUE /\ Proceed
       \/ result # "true" /\ Stop("raised") /\ UNCHANGED belief
    /\ UNCHANGED <<api, disk, flags, exists, ekpubhash, unused, clean, before>>

\* Mutant: a hash that an assumption left unset ends the stage as if there was
\* nothing to unenroll.
UnenrollSkipped ==
    /\ pc = "unenroll"
    /\ \/ /\ ~exists \/ ekpubhash = NoHash
          /\ Proceed
          /\ UNCHANGED api
       \/ /\ exists /\ ekpubhash # NoHash
          /\ BeginCall("delete", ekpubhash)
          /\ Goto("deleting")
    /\ UNCHANGED <<disk, flags, exists, belief, ekpubhash, unused, clean, before>>

\* The call is made whatever fh.enrolled says, which is only printed; and needs
\* the hash that an assumption leaves unset.
Unenroll ==
    /\ pc = "unenroll"
    /\ \/ ~exists /\ Proceed /\ UNCHANGED api
       \/ /\ exists /\ ekpubhash # NoHash
          /\ BeginCall("delete", ekpubhash)
          /\ Goto("deleting")
       \/ /\ exists /\ ekpubhash = NoHash
          /\ Stop("raised")
          /\ UNCHANGED api
    /\ UNCHANGED <<disk, flags, exists, belief, ekpubhash, unused, clean, before>>

Deleted ==
    /\ pc = "deleting" /\ call = NoCall
    /\ \/ result = "true" /\ belief' = FALSE /\ Proceed
       \/ result # "true" /\ Stop("raised") /\ UNCHANGED belief
    /\ UNCHANGED <<api, disk, flags, exists, ekpubhash, unused, clean, before>>

-----------------------------------------------------------------------------

\* A step of the connection or of the service, while the tool waits for its
\* call, or of a request it is not waiting for any more.
OrchestratorExchange ==
    /\ Exchange
    /\ clean' = (clean /\ (Receive \/ (Serve /\ response' = StatusOf(sent))))
    /\ UNCHANGED <<disk, pc, stage, flags, queue, host, exists, belief,
                   ekpubhash, outcome, unused, before>>

\* The tool is killed; its request is lost, or may still be served.
Kill ==
    /\ pc \in Killable
    /\ Stop("killed")
    /\ call' = NoCall /\ sent' = NoCall /\ response' = "none"
    /\ result' = "raised"
    /\ \/ UNCHANGED late
       \/ /\ sent # NoCall /\ BagCardinality(late) < MaxLate
          /\ late' = late (+) SetToBag({sent})
    /\ UNCHANGED <<enrolled, listed, done, disk, flags, exists, belief,
                   ekpubhash, unused, clean, before>>

ToolStep ==
    \/ New \/ PostExist \/ Queried
    \/ Create \/ Setup \/ MoveTemp \/ Delete \/ RmTree
    \/ Enroll \/ Added \/ Unenroll \/ Deleted

OrchestratorNext ==
    \/ \E F \in Flags, hosts \in SUBSET Host : Run(F, hosts)
    \/ ToolStep \/ OrchestratorExchange \/ Kill

OrchestratorSpec == OrchestratorInit /\ [][OrchestratorNext]_ovars

-----------------------------------------------------------------------------

OrchestratorTypeOK ==
    /\ ApiTypeOK
    /\ disk \in [Host -> Disk]
    /\ pc \in Label /\ stage \in 0..4
    /\ flags \in SUBSET Flag
    /\ queue \in SUBSET Host /\ host \in Host \cup {NoHost}
    /\ exists \in BOOLEAN /\ belief \in BOOLEAN /\ clean \in BOOLEAN
    /\ ekpubhash \in Hash \cup {NoHash}
    /\ outcome \in {"none", "ok", "raised", "killed"}
    /\ unused \in SUBSET Hash

Ends(how) == pc # "idle" /\ pc' = "idle" /\ outcome' = how

\* fh.enrolled is read once and kept while the stages change what it is about.
\* While nothing has failed, it agrees with the service whenever it is used.
BeliefHolds ==
    clean /\ exists /\ ekpubhash # NoHash
          /\ pc \in {"create", "delete", "enroll", "unenroll"}
        => (belief <=> ekpubhash \in enrolled)

\* Whatever earlier runs were killed or failed, as long as they left no half made
\* directory and no late request: a run with '-c -e' in which nothing fails ends
\* well, with each host's TPM in place and enrolled; a '409' never stops it.
CleanRunEnrolls ==
    [][clean /\ {"create", "enroll"} \subseteq flags /\ "assume" \notin flags
         => /\ ~Ends("raised")
            /\ Ends("ok") => \A h \in DOMAIN before :
                               /\ disk'[h].tpm = "whole"
                               /\ disk'[h].ek \in enrolled']_ovars

\* A run with '-u' that ends well, and that is not also asked to delete TPMs,
\* leaves none of its hosts enrolled.
RunUnenrolls ==
    [][clean /\ "unenroll" \in flags /\ "delete" \notin flags /\ Ends("ok")
         => \A h \in DOMAIN before : before[h] \notin enrolled']_ovars

=============================================================================
