------------------------------ MODULE EnrollDB ------------------------------
(***************************************************************************)
(* The enrollment database: the directory tree under /backend/db, and the  *)
(* webapi (uwsgi) workers that change it on behalf of the Enrollment       *)
(* Service's API (hcp/python/hcp/backend/enrollsvc.py, driven by           *)
(* hcp/python/hcp/flask/enrollsvc.py).                                     *)
(*                                                                         *)
(* No lock protects the tree: every system call that reads or changes a    *)
(* directory is a step of its own, so that workers, and the deaths of      *)
(* workers, interleave between any two of them.  For each TPM three        *)
(* directories can exist, where <hash> is the TPM's ekpubhash:             *)
(*     "tmp"        .../<hash>.tmp         where an add stages its files   *)
(*     "enrolled"   .../<hash>             the enrollment itself           *)
(*     "nested"     .../<hash>/<hash>.tmp  what 'mv' makes of a staging    *)
(*                                         directory when <hash> exists    *)
(***************************************************************************)
EXTENDS Naturals, FiniteSets

CONSTANTS
    TPM,         \* TPMs, each standing for the hash of its public EK
    Worker,      \* the threads of the uwsgi processes that serve requests
    Profile,     \* the enrollment profiles (JSON texts) an add can carry
    AddProfile,  \* what clients send: profiles, or NoProfile
    NoProfile,   \* an add without the optional 'profile' form field
    NoDir        \* "there is no such directory"

File == {"ek.pub", "ekpubhash", "profile"}
Place == {"tmp", "enrolled", "nested"}

\* The content of a file: "ek" stands for the bytes every request for the TPM
\* agrees on, "partial" for a file that is open and not fully written.
Value == Profile \cup {"absent", "partial", "ek"}

\* 'fds' and 'rm' are the workers that hold the file open for writing, or are
\* emptying the directory: both follow the inode when a path is renamed.
FileState == [val : Value, fds : SUBSET Worker]
Dir == [file : [File -> FileState], rm : SUBSET Worker]

ASSUME EnrollAssumption ==
    /\ NoDir \notin Dir
    /\ Profile \cap {"absent", "partial", "ek"} = {}
    /\ NoProfile \notin Value
    /\ AddProfile \subseteq Profile \cup {NoProfile}

Target == Place \X TPM
NoTarget == <<>>

\* 'prefix' tells a search by hash prefix from one by the full 64 characters.
Request == [op : {"add", "query", "delete", "reenroll"},
            tpms : SUBSET TPM, prefix : BOOLEAN,
            profile : Profile \cup {NoProfile}]
NoRequest == [op |-> "query", tpms |-> {}, prefix |-> FALSE,
              profile |-> NoProfile]

PC == {"idle", "check", "mkdir", "pick", "open", "write", "rename",
       "glob", "rmopen", "rm"}
Code == {"none", "200", "201", "400", "404", "409", "500"}

VARIABLES
    db,       \* db[t][p]: the directory at place p of TPM t, or NoDir
    pc,       \* pc[w]: where worker w is in its handler
    req,      \* req[w]: the request it serves
    todo,     \* todo[w]: files still to move, or directory entries to unlink
    cur,      \* cur[w]: the file shutil.move is busy with
    at,       \* at[w]: the directory 'rm -rf' is busy with
    targets,  \* targets[w]: glob matches still to delete
    reply,    \* reply[w]: the status of w's last response
    entries,  \* entries[w]: what w's last answer to a query lists
    torn,     \* history: TPMs whose enrollment a delete has begun to empty
    killed,   \* history: TPMs for which a worker died in the middle of an add
    seen      \* history: seen[w], during w's add its TPM was enrolled, or a
              \* delete took the staging directory away

vars == <<db, pc, req, todo, cur, at, targets, reply, entries, torn, killed,
          seen>>

-----------------------------------------------------------------------------

NoFile == [val |-> "absent", fds |-> {}]
EmptyDir == [file |-> [f \in File |-> NoFile], rm |-> {}]

Exists(t, p) == db[t][p] # NoDir
Present(d) == {f \in File : d # NoDir /\ d.file[f].val # "absent"}

\* Mutant: the front-end writes the profile without looking whether it was sent.
FilesOfUnchecked(r) == {f \in File : r.op = "add"}

\* The files the front-end writes to its temporary directory for an add.
FilesOf(r) == IF r.profile = NoProfile THEN File \ {"profile"} ELSE File
ContentOf(r, f) == IF f = "profile" THEN r.profile ELSE "ek"

\* db, once worker w has closed every file and directory it held open.
Released(w) ==
    [t \in TPM |-> [p \in Place |->
        IF Exists(t, p)
        THEN [file |-> [f \in File |->
                          [db[t][p].file[f] EXCEPT !.fds = @ \ {w}]],
              rm |-> db[t][p].rm \ {w}]
        ELSE NoDir]]

\* Worker w responds, and is free for the next request.
Respond(w, code, es) ==
    /\ pc' = [pc EXCEPT ![w] = "idle"]
    /\ req' = [req EXCEPT ![w] = NoRequest]
    /\ todo' = [todo EXCEPT ![w] = {}]
    /\ cur' = [cur EXCEPT ![w] = "none"]
    /\ at' = [at EXCEPT ![w] = NoTarget]
    /\ targets' = [targets EXCEPT ![w] = {}]
    /\ reply' = [reply EXCEPT ![w] = code]
    /\ entries' = [entries EXCEPT ![w] = es]

Goto(w, label) == pc' = [pc EXCEPT ![w] = label]

-----------------------------------------------------------------------------

Init ==
    /\ db = [t \in TPM |-> [p \in Place |-> NoDir]]
    /\ pc = [w \in Worker |-> "idle"]
    /\ req = [w \in Worker |-> NoRequest]
    /\ todo = [w \in Worker |-> {}]
    /\ cur = [w \in Worker |-> "none"]
    /\ at = [w \in Worker |-> NoTarget]
    /\ targets = [w \in Worker |-> {}]
    /\ reply = [w \in Worker |-> "none"]
    /\ entries = [w \in Worker |-> {}]
    /\ torn = {}
    /\ killed = {}
    /\ seen = [w \in Worker |-> FALSE]

Accept(w, r, label) ==
    /\ pc[w] = "idle"
    /\ Goto(w, label)
    /\ req' = [req EXCEPT ![w] = r]
    /\ reply' = [reply EXCEPT ![w] = "none"]
    /\ entries' = [entries EXCEPT ![w] = {}]
    /\ UNCHANGED <<db, cur, at, targets, torn>>

\* POST /v1/add: the front-end fills a private temporary directory, hashes the
\* public key to find the TPM, and calls the backend.
AddStart(w, t, p) ==
    /\ Accept(w, [op |-> "add", tpms |-> {t}, prefix |-> FALSE,
                  profile |-> p], "check")
    /\ todo' = [todo EXCEPT ![w] = FilesOf(req'[w])]

\* GET /v1/query, POST /v1/delete, POST /v1/reenroll.
QdrStart(w, op, S, isPrefix) ==
    /\ op \in {"query", "delete", "reenroll"}
    /\ isPrefix \/ Cardinality(S) = 1
    /\ Accept(w, [op |-> op, tpms |-> S, prefix |-> isPrefix,
                  profile |-> NoProfile], "glob")
    /\ UNCHANGED todo

\* A request that lacks its mandatory parameter is refused by the front-end.
BadRequest(w) ==
    /\ pc[w] = "idle"
    /\ Respond(w, "400", {})
    /\ UNCHANGED <<db, torn>>

\* GET /v1/janitor: the front-end evaluates two names it never bound before it
\* can call the backend, so that the handler dies of a NameError.
Janitor(w) ==
    /\ pc[w] = "idle"
    /\ Respond(w, "500", {})
    /\ UNCHANGED <<db, torn>>

-----------------------------------------------------------------------------
(* backend my_add *)

AddCheck(w, t) ==
    /\ pc[w] = "check" /\ req[w].tpms = {t}
    /\ \/ /\ Exists(t, "enrolled")
          /\ Respond(w, "409", {})
       \/ /\ ~Exists(t, "enrolled")
          /\ Goto(w, "mkdir")
          /\ UNCHANGED <<req, todo, cur, at, targets, reply, entries>>
    /\ UNCHANGED <<db, torn>>

AddMkdir(w, t) ==
    /\ pc[w] = "mkdir" /\ req[w].tpms = {t}
    /\ db' = IF Exists(t, "tmp") THEN db
             ELSE [db EXCEPT ![t]["tmp"] = EmptyDir]
    /\ Goto(w, "pick")
    /\ UNCHANGED <<req, todo, cur, at, targets, reply, entries, torn>>

\* Mutant: a move whose destination has the file already is skipped.
MoveCheckSkip(w, t, f) ==
    /\ pc[w] = "pick" /\ req[w].tpms = {t} /\ f \in todo[w]
    /\ \/ /\ Exists(t, "tmp") /\ f \notin Present(db[t]["tmp"])
          /\ cur' = [cur EXCEPT ![w] = f]
          /\ Goto(w, "open")
          /\ UNCHANGED <<req, todo, at, targets, reply, entries>>
       \/ /\ ~Exists(t, "tmp") \/ f \in Present(db[t]["tmp"])
          /\ todo' = [todo EXCEPT ![w] = @ \ {f}]
          /\ Goto(w, IF todo'[w] = {} THEN "rename" ELSE "pick")
          /\ UNCHANGED <<req, cur, at, targets, reply, entries>>
    /\ UNCHANGED <<db, torn>>

\* shutil.move, its tests: the destination must be a directory that has no
\* file of that name.  Otherwise it raises, and the handler answers 500.
MoveCheck(w, t, f) ==
    /\ pc[w] = "pick" /\ req[w].tpms = {t} /\ f \in todo[w]
    /\ \/ /\ Exists(t, "tmp") /\ f \notin Present(db[t]["tmp"])
          /\ cur' = [cur EXCEPT ![w] = f]
          /\ Goto(w, "open")
          /\ UNCHANGED <<req, todo, at, targets, reply, entries>>
       \/ /\ ~Exists(t, "tmp") \/ f \in Present(db[t]["tmp"])
          /\ Respond(w, "500", {})
    /\ UNCHANGED <<db, torn>>

\* shutil.move across filesystems copies: open(dst, 'wb') creates or truncates.
MoveOpen(w, t) ==
    /\ pc[w] = "open" /\ req[w].tpms = {t}
    /\ \/ /\ Exists(t, "tmp")
          /\ db' = [db EXCEPT ![t]["tmp"].file[cur[w]] =
                       [val |-> "partial", fds |-> @.fds \cup {w}]]
          /\ Goto(w, "write")
          /\ UNCHANGED <<req, todo, cur, at, targets, reply, entries>>
       \/ /\ ~Exists(t, "tmp")
          /\ Respond(w, "500", {})
          /\ UNCHANGED db
    /\ UNCHANGED torn

\* The content reaches the file that was opened, wherever its directory is by
\* now, or nobody if it has been unlinked.  Then shutil.move copies the mode and
\* the times to the file that has the path by now, and raises if none does.
MoveWrite(w, t) ==
    /\ pc[w] = "write" /\ req[w].tpms = {t}
    /\ LET f == cur[w] IN
       /\ db' = [db EXCEPT ![t] = [p \in Place |->
                    IF Exists(t, p) /\ w \in db[t][p].file[f].fds
                    THEN [db[t][p] EXCEPT !.file[f] =
                            [val |-> ContentOf(req[w], f),
                             fds |-> @.fds \ {w}]]
                    ELSE db[t][p]]]
       /\ \/ /\ f \in Present(db'[t]["tmp"])
             /\ todo' = [todo EXCEPT ![w] = @ \ {f}]
             /\ cur' = [cur EXCEPT ![w] = "none"]
             /\ Goto(w, IF todo'[w] = {} THEN "rename" ELSE "pick")
             /\ UNCHANGED <<req, at, targets, reply, entries>>
          \/ /\ f \notin Present(db'[t]["tmp"])
             /\ Respond(w, "500", {})
    /\ UNCHANGED torn

\* Mutant: the final 'mv' is missing.
AddRenameMissing(w, t) ==
    /\ pc[w] = "rename" /\ req[w].tpms = {t}
    /\ Respond(w, "201", {})
    /\ UNCHANGED <<db, torn>>

\* 'mv <hash>.tmp <hash>', whose failures are ignored: a rename, or a move INTO
\* an existing <hash>, which fails when that holds a <hash>.tmp with files.
AddRename(w, t) ==
    /\ pc[w] = "rename" /\ req[w].tpms = {t}
    /\ LET dest == IF Exists(t, "enrolled") THEN "nested" ELSE "enrolled"
           fails == \/ ~Exists(t, "tmp")
                    \/ Exists(t, dest) /\ Present(db[t][dest]) # {}
       IN db' = IF fails THEN db
                ELSE [db EXCEPT ![t]["tmp"] = NoDir,
                                ![t][dest] = db[t]["tmp"]]
    /\ Respond(w, "201", {})
    /\ UNCHANGED torn

-----------------------------------------------------------------------------
(* backend my_qdr *)

\* Mutant: a search by prefix misses the staging directories.
MatchesEnrolled(r) ==
    {m \in Target : m[2] \in r.tpms /\ Exists(m[2], m[1]) /\ m[1] = "enrolled"}

\* A search by the full hash matches <hash> only; one by prefix ends in '*' and
\* matches the <hash>.tmp next to it as well.
Matches(r) ==
    {m \in Target : /\ m[2] \in r.tpms /\ Exists(m[2], m[1])
                    /\ m[1] = "enrolled" \/ (r.prefix /\ m[1] = "tmp")}

Glob(w) ==
    /\ pc[w] = "glob"
    /\ LET found == Matches(req[w])
           op == req[w].op
       IN \/ /\ op = "delete" /\ found # {}
             /\ Goto(w, "rmopen")
             /\ targets' = [targets EXCEPT ![w] = found]
             /\ UNCHANGED <<req, todo, cur, at, reply, entries>>
          \/ /\ op # "delete" \/ found = {}
             /\ Respond(w, IF op = "query" \/ found # {} THEN "200" ELSE "404",
                        IF op = "query" THEN found ELSE {})
    /\ UNCHANGED <<db, torn>>

\* rm -rf opens a match, and reads its entries.
RmOpen(w, m) ==
    /\ pc[w] = "rmopen" /\ m \in targets[w]
    /\ LET p == m[1]  t == m[2] IN
       /\ Exists(t, p)
       /\ db' = [db EXCEPT ![t][p].rm = @ \cup {w}]
       /\ todo' = [todo EXCEPT ![w] = Present(db[t][p]) \cup
                     {n \in {"nested"} : p = "enrolled" /\ Exists(t, n)}]
    /\ at' = [at EXCEPT ![w] = m]
    /\ targets' = [targets EXCEPT ![w] = @ \ {m}]
    /\ Goto(w, "rm")
    /\ UNCHANGED <<req, cur, reply, entries, torn>>

\* It unlinks each entry it read from the directory it opened, wherever that is
\* by now ...
RmUnlink(w, e) ==
    /\ pc[w] = "rm" /\ e \in todo[w]
    /\ LET here(t, p) == Exists(t, p) /\ w \in db[t][p].rm IN
       /\ db' = [t \in TPM |-> [p \in Place |->
                    IF e = "nested" /\ p = "nested" /\ here(t, "enrolled")
                    THEN NoDir
                    ELSE IF e # "nested" /\ here(t, p)
                    THEN [db[t][p] EXCEPT !.file[e] = NoFile]
                    ELSE db[t][p]]]
       /\ torn' = torn \cup {t \in TPM : here(t, "enrolled")}
    /\ todo' = [todo EXCEPT ![w] = @ \ {e}]
    /\ UNCHANGED <<pc, req, cur, at, targets, reply, entries>>

\* ... and removes the directory that has the match's path, if it is empty.
RmDir(w) ==
    /\ pc[w] = "rm" /\ todo[w] = {}
    /\ LET p == at[w][1]  t == at[w][2]
           closed == Released(w)
           empty == /\ Present(db[t][p]) = {}
                    /\ ~(p = "enrolled" /\ Exists(t, "nested"))
       IN \/ /\ Exists(t, p) /\ ~empty
             /\ db' = closed
             /\ Respond(w, "500", {})
             /\ UNCHANGED torn
          \/ /\ Exists(t, p) => empty
             /\ db' = [closed EXCEPT ![t][p] = NoDir]
             /\ torn' = IF p = "enrolled" THEN torn \ {t} ELSE torn
             /\ IF targets[w] = {} THEN Respond(w, "200", {})
                ELSE /\ Goto(w, "rmopen")
                     /\ at' = [at EXCEPT ![w] = NoTarget]
                     /\ UNCHANGED <<req, todo, cur, targets, reply, entries>>

\* A match that is gone before rm gets to it is no error.
RmGone(w, m) ==
    /\ pc[w] = "rmopen" /\ m \in targets[w] /\ ~Exists(m[2], m[1])
    /\ IF targets[w] = {m} THEN Respond(w, "200", {})
       ELSE /\ targets' = [targets EXCEPT ![w] = @ \ {m}]
            /\ UNCHANGED <<pc, req, todo, cur, at, reply, entries>>
    /\ UNCHANGED <<db, torn>>

-----------------------------------------------------------------------------

\* uwsgi's harakiri timer, or the container's end, kills a worker between any
\* two system calls: its files are closed as they are, and nothing cleans up.
Crash(w) ==
    /\ pc[w] # "idle"
    /\ db' = Released(w)
    /\ Respond(w, "none", {})
    /\ UNCHANGED torn

Add(w, t) ==
    \/ AddCheck(w, t) \/ AddMkdir(w, t)
    \/ \E f \in File : MoveCheck(w, t, f)
    \/ MoveOpen(w, t) \/ MoveWrite(w, t) \/ AddRename(w, t)

Qdr(w) ==
    \/ Glob(w) \/ RmDir(w)
    \/ \E m \in Target : RmOpen(w, m) \/ RmGone(w, m)
    \/ \E e \in File \cup {"nested"} : RmUnlink(w, e)

Start(w) ==
    \/ \E t \in TPM, p \in AddProfile : AddStart(w, t, p)
    \/ \E op \in {"query", "delete", "reenroll"}, S \in SUBSET TPM,
          isPrefix \in BOOLEAN : QdrStart(w, op, S, isPrefix)
    \/ BadRequest(w) \/ Janitor(w)

Step(w) == Start(w) \/ (\E t \in TPM : Add(w, t)) \/ Qdr(w) \/ Crash(w)

\* What the history variables record of a step of worker v.
Taken(v, t) ==
    /\ pc[v] = "rm" /\ at[v] = <<"tmp", t>>
    /\ Exists(t, "tmp") /\ db'[t]["tmp"] = NoDir
Record(v) ==
    /\ killed' = IF pc[v] # "idle" /\ pc'[v] = "idle" /\ reply'[v] = "none"
                 THEN killed \cup req[v].tpms ELSE killed
    /\ seen' = [w \in Worker |->
                  /\ pc[w] # "idle"
                  /\ \/ seen[w]
                     \/ \E t \in req[w].tpms :
                           db'[t]["enrolled"] # NoDir \/ Taken(v, t)]

Next == \E w \in Worker : Step(w) /\ Record(w)

Spec == Init /\ [][Next]_vars

\* The deployment the orchestrator tool makes: one client, that waits for each
\* answer, so that no two requests for one TPM are ever served at once.
Exclusive ==
    \A v, w \in Worker : v # w => req[v].tpms \cap req[w].tpms = {}
ExclusiveSpec == Init /\ [][Next /\ Exclusive']_vars

-----------------------------------------------------------------------------

TypeOK ==
    /\ db \in [TPM -> [Place -> Dir \cup {NoDir}]]
    /\ pc \in [Worker -> PC]
    /\ req \in [Worker -> Request]
    /\ todo \in [Worker -> SUBSET (File \cup {"nested"})]
    /\ cur \in [Worker -> File \cup {"none"}]
    /\ at \in [Worker -> Target \cup {NoTarget}]
    /\ targets \in [Worker -> SUBSET Target]
    /\ reply \in [Worker -> Code]
    /\ entries \in [Worker -> SUBSET Target]
    /\ torn \in SUBSET TPM
    /\ killed \in SUBSET TPM
    /\ seen \in [Worker -> BOOLEAN]

-----------------------------------------------------------------------------
(* Under any interleaving, with deaths of workers. *)

Answers(w, op, code) ==
    pc[w] # "idle" /\ req[w].op = op /\ pc'[w] = "idle" /\ reply'[w] = code

\* my_add ignores what mkdir and mv return, and answers 201 all the same.  Still
\* no 201 comes out of thin air, however adds and deletes interleave: while the
\* add ran its TPM was enrolled, or a delete took what it had staged.
NoPhantomAdd ==
    [][\A w \in Worker : Answers(w, "add", "201") => seen'[w]]_vars

-----------------------------------------------------------------------------
(* When requests for one TPM do not overlap (ExclusiveSpec), with deaths. *)

Whole(d) ==
    /\ d.file["ek.pub"].val = "ek"
    /\ d.file["ekpubhash"].val = "ek"
    /\ d.file["profile"].val \in Profile

\* What the staging directory is for: whatever a killed worker leaves behind,
\* an enrollment that exists has all its files, each fully written, unless a
\* delete has begun to empty it.
EnrolledWhole ==
    \A t \in TPM \ torn :
        Exists(t, "enrolled") => Whole(db[t]["enrolled"])

\* An enrollment appears only in the step that answers 201, with the profile
\* that the request carried, never one that a killed add had left staged.
InstalledAsRequested ==
    [][\A t \in TPM :
          ~Exists(t, "enrolled") /\ db'[t]["enrolled"] # NoDir =>
              \E w \in Worker :
                  /\ req[w].tpms = {t} /\ Answers(w, "add", "201")
                  /\ db'[t]["enrolled"].file["profile"].val = req[w].profile]_vars

\* A delete that answers 200 leaves no enrollment of what it matched, and a
\* delete by prefix no staging directory that an earlier add left either.
DeletedIsGone ==
    [][\A w \in Worker : Answers(w, "delete", "200") =>
          \A t \in req[w].tpms :
              /\ db'[t]["enrolled"] = NoDir
              /\ req[w].prefix => db'[t]["tmp"] = NoDir]_vars

\* An add cleans up after itself: a staging directory nobody is working on is
\* what a killed worker left.
StagedOnlyByKilled ==
    \A t \in TPM \ killed :
        Exists(t, "tmp") => \E w \in Worker : req[w].tpms = {t}

-----------------------------------------------------------------------------
(* Why the properties above hold: what an exclusive client makes inductive. *)

Moving == {"pick", "open", "write", "rename"}

\* Open files and directories belong to the worker that serves the TPM: a file
\* is open in the staging directory only, by the move that is writing it.
HandlesHeld(t) ==
    \A p \in Place : Exists(t, p) =>
        /\ \A f \in File : \A w \in db[t][p].file[f].fds :
              t \in req[w].tpms /\ pc[w] = "write" /\ cur[w] = f /\ p = "tmp"
        /\ \A w \in db[t][p].rm : pc[w] = "rm" /\ at[w] = <<p, t>>

\* A delete only works on what its own search matched.
DeletesOwn(w) ==
    /\ pc[w] \in {"glob", "rmopen", "rm"} => req[w].op # "add"
    /\ \A m \in targets[w] :
          m[1] \in {"tmp", "enrolled"} /\ m[2] \in req[w].tpms
    /\ pc[w] = "rm" =>
          at[w][1] \in {"tmp", "enrolled"} /\ at[w][2] \in req[w].tpms

\* An add that found no enrollment still sees none, and has moved its own files,
\* whole, to a staging directory nobody else fills.
Staged(w, t) ==
    /\ pc[w] = "mkdir" \/ pc[w] \in Moving => ~Exists(t, "enrolled")
    /\ pc[w] \in Moving =>
          /\ Exists(t, "tmp")
          /\ \A f \in FilesOf(req[w]) \ todo[w] :
                db[t]["tmp"].file[f].val = ContentOf(req[w], f)
          /\ pc[w] = "rename" => todo[w] = {}
          /\ pc[w] = "write" => w \in db[t]["tmp"].file[cur[w]].fds
          /\ t \notin killed => \A f \in todo[w] :
                \/ db[t]["tmp"].file[f].val = "absent"
                \/ pc[w] = "write" /\ f = cur[w]

\* What holds of one TPM.
Sound(t) ==
    /\ HandlesHeld(t)
    /\ \A w \in Worker : req[w].tpms = {t} => Staged(w, t)
    /\ ~Exists(t, "nested")
    /\ t \in torn => Exists(t, "enrolled")
    /\ t \notin torn /\ Exists(t, "enrolled") => Whole(db[t]["enrolled"])
    /\ t \notin killed /\ Exists(t, "tmp") =>
          \E w \in Worker : req[w].tpms = {t} /\ pc[w] \in Moving

\* The inductive invariant of ExclusiveSpec.
ExclusiveInv ==
    /\ Exclusive
    /\ \A w \in Worker : DeletesOwn(w)
    /\ \A t \in TPM : Sound(t)

=============================================================================
