--------------------------- MODULE EnrollDBProofs ---------------------------
(***************************************************************************)
(* Theorems about the enrollment database, for any TPMs, workers and       *)
(* profiles.                                                               *)
(***************************************************************************)
EXTENDS EnrollDB, TLAPS

USE EnrollAssumption

-----------------------------------------------------------------------------
(* Type correctness *)

\* A directory of the right type stays so when one of its files changes.
LEMMA SetFileType ==
    ASSUME NEW d \in Dir, NEW f \in File, NEW s \in FileState
    PROVE  [d EXCEPT !.file[f] = s] \in Dir
BY DEF Dir

\* The tree with one directory replaced, or removed, is a tree.
LEMMA SetDirType ==
    ASSUME NEW c \in [TPM -> [Place -> Dir \cup {NoDir}]],
           NEW t \in TPM, NEW p \in Place, NEW d \in Dir \cup {NoDir}
    PROVE  [c EXCEPT ![t][p] = d] \in [TPM -> [Place -> Dir \cup {NoDir}]]
OBVIOUS

LEMMA ReleasedType ==
    ASSUME TypeOK, NEW w \in Worker
    PROVE  Released(w) \in [TPM -> [Place -> Dir \cup {NoDir}]]
<1> SUFFICES ASSUME NEW t \in TPM, NEW p \in Place, Exists(t, p)
             PROVE  Released(w)[t][p] \in Dir
  BY DEF Released
<1>1. db[t][p] \in Dir
  BY DEF TypeOK, Exists
<1>2. \A f \in File : [db[t][p].file[f] EXCEPT !.fds = @ \ {w}] \in FileState
  BY <1>1 DEF Dir, FileState
<1>3. QED
  BY <1>1, <1>2 DEF Released, Dir

\* What Respond writes has the right type, whatever the request was.
LEMMA RespondType ==
    ASSUME TypeOK, NEW w \in Worker, NEW code \in Code,
           NEW es \in SUBSET Target, Respond(w, code, es)
    PROVE  /\ pc' \in [Worker -> PC]
           /\ req' \in [Worker -> Request]
           /\ todo' \in [Worker -> SUBSET (File \cup {"nested"})]
           /\ cur' \in [Worker -> File \cup {"none"}]
           /\ at' \in [Worker -> Target \cup {NoTarget}]
           /\ targets' \in [Worker -> SUBSET Target]
           /\ reply' \in [Worker -> Code]
           /\ entries' \in [Worker -> SUBSET Target]
<1>1. NoRequest \in Request
  BY DEF NoRequest, Request
<1>2. QED
  BY <1>1 DEF TypeOK, Respond, PC

AddPC == {"check", "mkdir", "pick", "open", "write", "rename"}

\* How a worker's program counter constrains the rest of its job.
JobOf(w) ==
    /\ pc[w] = "idle" => req[w] = NoRequest
    /\ pc[w] \in AddPC =>
          /\ req[w].op = "add"
          /\ \E t \in TPM : req[w].tpms = {t}
          /\ req[w].profile \in AddProfile
          /\ todo[w] \subseteq FilesOf(req[w])
    /\ pc[w] \in {"check", "mkdir"} => todo[w] = FilesOf(req[w])
    /\ pc[w] \in {"open", "write"} => cur[w] \in todo[w]
    /\ pc[w] = "rm" => at[w] \in Target
JobOK == \A w \in Worker : JobOf(w)

\* The file a move is busy with, and its content.
LEMMA CurrentFile ==
    ASSUME TypeOK, JobOK, NEW w \in Worker, pc[w] \in {"open", "write"}
    PROVE  /\ cur[w] \in File
           /\ cur[w] \in todo[w]
           /\ ContentOf(req[w], cur[w]) \in Value
<1>1. JobOf(w)
  BY DEF JobOK
<1>2. /\ cur[w] \in todo[w]
      /\ todo[w] \subseteq FilesOf(req[w])
      /\ req[w].profile \in AddProfile
  BY <1>1 DEF JobOf, AddPC
<1>3. cur[w] \in File
  BY <1>2 DEF FilesOf
<1>4. ASSUME cur[w] = "profile"
      PROVE  ContentOf(req[w], cur[w]) \in Value
  <2>1. req[w].profile # NoProfile
    BY <1>2, <1>4 DEF FilesOf
  <2>2. QED
    BY <1>2, <1>4, <2>1 DEF ContentOf, Value
<1>5. ASSUME cur[w] # "profile"
      PROVE  ContentOf(req[w], cur[w]) \in Value
  BY <1>5 DEF ContentOf, Value
<1>6. QED
  BY <1>2, <1>3, <1>4, <1>5

LEMMA CurrentTarget ==
    ASSUME JobOK, NEW w \in Worker, pc[w] = "rm"
    PROVE  at[w] \in Target /\ at[w][1] \in Place /\ at[w][2] \in TPM
BY DEF JobOK, JobOf, Target

\* The types of everything an action of the code determines.
CodeType ==
    /\ db \in [TPM -> [Place -> Dir \cup {NoDir}]]
    /\ pc \in [Worker -> PC]
    /\ req \in [Worker -> Request]
    /\ todo \in [Worker -> SUBSET (File \cup {"nested"})]
    /\ cur \in [Worker -> File \cup {"none"}]
    /\ at \in [Worker -> Target \cup {NoTarget}]
    /\ targets \in [Worker -> SUBSET Target]
    /\ reply \in [Worker -> Code]
    /\ entries \in [Worker -> SUBSET Target]
    /\ torn \in SUBSET TPM

LEMMA StartType ==
    ASSUME TypeOK, NEW w \in Worker, Start(w)
    PROVE  CodeType'
<1>1. ASSUME NEW t \in TPM, NEW p \in AddProfile, AddStart(w, t, p)
      PROVE  CodeType'
  <2> DEFINE r == [op |-> "add", tpms |-> {t}, prefix |-> FALSE, profile |-> p]
  <2>1. r \in Request
    BY DEF Request
  <2>2. req' \in [Worker -> Request] /\ req'[w] = r
    BY <1>1, <2>1 DEF AddStart, Accept, TypeOK
  <2>3. todo' \in [Worker -> SUBSET (File \cup {"nested"})]
    BY <1>1, <2>2 DEF AddStart, TypeOK, FilesOf
  <2>4. QED
    BY <1>1, <2>2, <2>3 DEF AddStart, Accept, Goto, TypeOK, CodeType, PC, Code
<1>2. ASSUME NEW op \in {"query", "delete", "reenroll"}, NEW S \in SUBSET TPM,
             NEW isPrefix \in BOOLEAN, QdrStart(w, op, S, isPrefix)
      PROVE  CodeType'
  <2> DEFINE r == [op |-> op, tpms |-> S, prefix |-> isPrefix,
                   profile |-> NoProfile]
  <2>1. r \in Request
    BY DEF Request
  <2>2. QED
    BY <1>2, <2>1 DEF QdrStart, Accept, Goto, TypeOK, CodeType, PC, Code
<1>3. ASSUME BadRequest(w) \/ Janitor(w)
      PROVE  CodeType'
  <2>1. PICK code \in Code : Respond(w, code, {})
    BY <1>3 DEF BadRequest, Janitor, Code
  <2>2. QED
    BY <1>3, <2>1, RespondType DEF BadRequest, Janitor, TypeOK, CodeType
<1>4. QED
  BY <1>1, <1>2, <1>3 DEF Start

LEMMA AddType ==
    ASSUME TypeOK, JobOK, NEW w \in Worker, NEW t \in TPM, Add(w, t)
    PROVE  CodeType'
<1> USE DEF TypeOK, CodeType, Goto, PC
<1>1. CASE AddCheck(w, t)
  <2>1. CASE Respond(w, "409", {})
    BY <1>1, <2>1, RespondType DEF AddCheck, Code
  <2>2. CASE ~Respond(w, "409", {})
    BY <1>1, <2>2 DEF AddCheck
  <2>3. QED
    BY <2>1, <2>2
<1>2. CASE AddMkdir(w, t)
  <2>1. EmptyDir \in Dir
    BY DEF EmptyDir, NoFile, Dir, FileState, Value
  <2>2. db' \in [TPM -> [Place -> Dir \cup {NoDir}]]
    BY <1>2, <2>1, SetDirType DEF AddMkdir, Place
  <2>3. QED
    BY <1>2, <2>2 DEF AddMkdir
<1>3. CASE \E f \in File : MoveCheck(w, t, f)
  <2>1. CASE Respond(w, "500", {})
    BY <1>3, <2>1, RespondType DEF MoveCheck, Code
  <2>2. CASE ~Respond(w, "500", {})
    BY <1>3, <2>2 DEF MoveCheck
  <2>3. QED
    BY <2>1, <2>2
<1>4. CASE MoveOpen(w, t)
  <2>1. CASE Respond(w, "500", {}) /\ UNCHANGED db
    BY <1>4, <2>1, RespondType DEF MoveOpen, Code
  <2>2. CASE ~(Respond(w, "500", {}) /\ UNCHANGED db)
    <3> DEFINE d == db[t]["tmp"]
               s == [val |-> "partial", fds |-> d.file[cur[w]].fds \cup {w}]
    <3>1. d \in Dir /\ cur[w] \in File
      BY <1>4, <2>2, CurrentFile DEF MoveOpen, Exists, Place
    <3>2. s \in FileState
      BY <3>1 DEF Dir, FileState, Value
    <3>3. db' = [db EXCEPT ![t]["tmp"] = [d EXCEPT !.file[cur[w]] = s]]
      BY <1>4, <2>2 DEF MoveOpen
    <3>4. db' \in [TPM -> [Place -> Dir \cup {NoDir}]]
      BY <3>1, <3>2, <3>3, SetFileType, SetDirType DEF Place
    <3>5. QED
      BY <1>4, <2>2, <3>4 DEF MoveOpen
  <2>3. QED
    BY <2>1, <2>2
<1>5. CASE MoveWrite(w, t)
  <2> DEFINE f == cur[w]
  <2>1. f \in File /\ ContentOf(req[w], f) \in Value
    BY <1>5, CurrentFile DEF MoveWrite
  <2>2. ASSUME NEW p \in Place, Exists(t, p)
        PROVE  [db[t][p] EXCEPT !.file[f] =
                  [val |-> ContentOf(req[w], f), fds |-> @.fds \ {w}]] \in Dir
    <3> DEFINE s == [val |-> ContentOf(req[w], f),
                     fds |-> db[t][p].file[f].fds \ {w}]
    <3>1. db[t][p] \in Dir
      BY <2>2 DEF Exists
    <3>2. s \in FileState
      BY <2>1, <3>1 DEF Dir, FileState
    <3>3. QED
      BY <2>1, <3>1, <3>2, SetFileType
  <2>3. db' \in [TPM -> [Place -> Dir \cup {NoDir}]]
    BY <1>5, <2>2 DEF MoveWrite
  <2>4. CASE Respond(w, "500", {})
    BY <1>5, <2>3, <2>4, RespondType DEF MoveWrite, Code
  <2>5. CASE ~Respond(w, "500", {})
    <3>1. /\ todo' = [todo EXCEPT ![w] = @ \ {f}]
          /\ cur' = [cur EXCEPT ![w] = "none"]
          /\ pc' = [pc EXCEPT ![w] = IF todo'[w] = {} THEN "rename" ELSE "pick"]
          /\ UNCHANGED <<req, at, targets, reply, entries, torn>>
      BY <1>5, <2>5 DEF MoveWrite
    <3>2. QED
      BY <2>3, <3>1
  <2>6. QED
    BY <2>4, <2>5
<1>6. CASE AddRename(w, t)
  <2>1. db' \in [TPM -> [Place -> Dir \cup {NoDir}]]
    BY <1>6 DEF AddRename, Place
  <2>2. QED
    BY <1>6, <2>1, RespondType DEF AddRename, Code
<1>7. QED
  BY <1>1, <1>2, <1>3, <1>4, <1>5, <1>6 DEF Add

LEMMA QdrType ==
    ASSUME TypeOK, JobOK, NEW w \in Worker, Qdr(w)
    PROVE  CodeType'
<1> USE DEF TypeOK, CodeType, Goto, PC
<1>1. CASE Glob(w)
  <2>1. Matches(req[w]) \in SUBSET Target
    BY DEF Matches
  <2>2. CASE pc'[w] = "idle"
    <3>1. PICK code \in Code, es \in SUBSET Target : Respond(w, code, es)
      BY <1>1, <2>1, <2>2 DEF Glob, Code
    <3>2. QED
      BY <1>1, <3>1, RespondType DEF Glob
  <2>3. CASE pc'[w] # "idle"
    BY <1>1, <2>1, <2>3 DEF Glob, Respond
  <2>4. QED
    BY <2>2, <2>3
<1>2. CASE RmDir(w)
  <2>1. at[w] \in Target /\ at[w][1] \in Place /\ at[w][2] \in TPM
    BY <1>2, CurrentTarget DEF RmDir
  <2> DEFINE c == Released(w)
             removed == [c EXCEPT ![at[w][2]][at[w][1]] = NoDir]
  <2>a. /\ c \in [TPM -> [Place -> Dir \cup {NoDir}]]
        /\ removed \in [TPM -> [Place -> Dir \cup {NoDir}]]
    <3> HIDE DEF c
    <3>1. c \in [TPM -> [Place -> Dir \cup {NoDir}]]
      BY ReleasedType DEF c
    <3>2. QED
      BY <2>1, <3>1, SetDirType
  <2>b. db' = c \/ db' = removed
    BY <1>2 DEF RmDir
  <2>2. db' \in [TPM -> [Place -> Dir \cup {NoDir}]]
    BY <2>a, <2>b
  <2>3. torn' \in SUBSET TPM
    BY <1>2, <2>1 DEF RmDir
  <2>4. CASE \E code \in Code : Respond(w, code, {})
    BY <2>2, <2>3, <2>4, RespondType
  <2>5. CASE ~\E code \in Code : Respond(w, code, {})
    BY <1>2, <2>2, <2>3, <2>5 DEF RmDir, Code
  <2>6. QED
    BY <2>4, <2>5
<1>3. ASSUME NEW m \in Target, RmOpen(w, m)
      PROVE  CodeType'
  <2> DEFINE p == m[1]
             t == m[2]
             d == [db[t][p] EXCEPT !.rm = @ \cup {w}]
  <2>1. p \in Place /\ t \in TPM
    BY DEF Target
  <2>2. db[t][p] \in Dir
    BY <1>3, <2>1 DEF RmOpen, Exists
  <2>3. d \in Dir
    BY <2>2 DEF Dir
  <2>4. db' = [db EXCEPT ![t][p] = d]
    BY <1>3 DEF RmOpen
  <2>5. db' \in [TPM -> [Place -> Dir \cup {NoDir}]]
    BY <2>1, <2>3, <2>4, SetDirType
  <2>6. todo' \in [Worker -> SUBSET (File \cup {"nested"})]
    BY <1>3 DEF RmOpen, Present
  <2>7. QED
    BY <1>3, <2>5, <2>6 DEF RmOpen
<1>4. ASSUME NEW m \in Target, RmGone(w, m)
      PROVE  CodeType'
  <2>1. CASE Respond(w, "200", {})
    BY <1>4, <2>1, RespondType DEF RmGone, Code
  <2>2. CASE ~Respond(w, "200", {})
    BY <1>4, <2>2 DEF RmGone
  <2>3. QED
    BY <2>1, <2>2
<1>5. ASSUME NEW e \in File \cup {"nested"}, RmUnlink(w, e)
      PROVE  CodeType'
  <2>1. NoFile \in FileState
    BY DEF NoFile, FileState, Value
  <2>2. ASSUME NEW t \in TPM, NEW p \in Place, Exists(t, p), e # "nested"
        PROVE  [db[t][p] EXCEPT !.file[e] = NoFile] \in Dir
    BY <1>5, <2>1, <2>2, SetFileType DEF Exists
  <2>3. db' \in [TPM -> [Place -> Dir \cup {NoDir}]]
    BY <1>5, <2>2 DEF RmUnlink
  <2>4. QED
    BY <1>5, <2>3 DEF RmUnlink
<1>6. QED
  BY <1>1, <1>2, <1>3, <1>4, <1>5 DEF Qdr

LEMMA CrashType ==
    ASSUME TypeOK, NEW w \in Worker, Crash(w)
    PROVE  CodeType'
BY ReleasedType, RespondType DEF Crash, CodeType, Code, TypeOK

LEMMA StepType ==
    ASSUME TypeOK, JobOK, NEW w \in Worker, Step(w), Record(w)
    PROVE  TypeOK'
<1>1. CodeType'
  BY StartType, AddType, QdrType, CrashType DEF Step
<1>2. killed' \in SUBSET TPM
  BY DEF Record, TypeOK, Request
<1>3. seen' \in [Worker -> BOOLEAN]
  BY DEF Record
<1>4. QED
  BY <1>1, <1>2, <1>3 DEF TypeOK, CodeType

-----------------------------------------------------------------------------
(* The jobs of the workers *)

\* A step of one worker changes nobody else's job.
LEMMA OthersKeep ==
    ASSUME TypeOK, NEW w \in Worker, Step(w), NEW v \in Worker, v # w
    PROVE  /\ pc'[v] = pc[v] /\ req'[v] = req[v] /\ todo'[v] = todo[v]
           /\ cur'[v] = cur[v] /\ at'[v] = at[v] /\ targets'[v] = targets[v]
<1> USE DEF TypeOK, Goto, Respond
<1>1. CASE Start(w)
  BY <1>1 DEF Start, AddStart, QdrStart, BadRequest, Janitor, Accept
<1>2. ASSUME NEW t \in TPM, Add(w, t)
      PROVE  /\ pc'[v] = pc[v] /\ req'[v] = req[v] /\ todo'[v] = todo[v]
             /\ cur'[v] = cur[v] /\ at'[v] = at[v] /\ targets'[v] = targets[v]
  <2>1. CASE AddCheck(w, t) \/ AddMkdir(w, t) \/ AddRename(w, t)
    BY <2>1 DEF AddCheck, AddMkdir, AddRename
  <2>2. CASE \E f \in File : MoveCheck(w, t, f)
    BY <2>2 DEF MoveCheck
  <2>3. CASE MoveOpen(w, t) \/ MoveWrite(w, t)
    BY <2>3 DEF MoveOpen, MoveWrite
  <2>4. QED
    BY <1>2, <2>1, <2>2, <2>3 DEF Add
<1>3. CASE Qdr(w)
  <2>1. CASE Glob(w) \/ RmDir(w)
    BY <2>1 DEF Glob, RmDir
  <2>2. CASE \E m \in Target : RmOpen(w, m) \/ RmGone(w, m)
    BY <2>2 DEF RmOpen, RmGone
  <2>3. CASE \E e \in File \cup {"nested"} : RmUnlink(w, e)
    BY <2>3 DEF RmUnlink
  <2>4. QED
    BY <1>3, <2>1, <2>2, <2>3 DEF Qdr
<1>4. CASE Crash(w)
  BY <1>4 DEF Crash
<1>5. QED
  BY <1>1, <1>2, <1>3, <1>4 DEF Step

LEMMA IdleJob ==
    ASSUME TypeOK, NEW w \in Worker, NEW code, NEW es, Respond(w, code, es)
    PROVE  JobOf(w)'
BY DEF TypeOK, Respond, JobOf, AddPC

LEMMA JobStep ==
    ASSUME TypeOK, JobOK, NEW w \in Worker, Step(w)
    PROVE  JobOK'
<1>1. ASSUME NEW v \in Worker, v # w
      PROVE  JobOf(v)'
  <2>1. JobOf(v)
    BY DEF JobOK
  <2>2. QED
    BY <1>1, <2>1, OthersKeep DEF JobOf, FilesOf
<1>2. JobOf(w)
  BY DEF JobOK
<1>3. ASSUME Start(w)
      PROVE  JobOf(w)'
  <2>1. ASSUME NEW t \in TPM, NEW p \in AddProfile, AddStart(w, t, p)
        PROVE  JobOf(w)'
    <3>1. /\ pc'[w] = "check"
          /\ req'[w] = [op |-> "add", tpms |-> {t}, prefix |-> FALSE,
                        profile |-> p]
          /\ todo'[w] = FilesOf(req'[w])
      BY <2>1 DEF AddStart, Accept, Goto, TypeOK
    <3>2. QED
      BY <3>1 DEF JobOf, FilesOf
  <2>2. ASSUME NEW op, NEW S, NEW isPrefix, QdrStart(w, op, S, isPrefix)
        PROVE  JobOf(w)'
    BY <2>2 DEF QdrStart, Accept, Goto, TypeOK, JobOf, AddPC
  <2>3. CASE BadRequest(w) \/ Janitor(w)
    BY <2>3, IdleJob DEF BadRequest, Janitor
  <2>4. QED
    BY <1>3, <2>1, <2>2, <2>3 DEF Start
<1>4. ASSUME NEW t \in TPM, Add(w, t)
      PROVE  JobOf(w)'
  <2>1. CASE AddCheck(w, t)
    BY <2>1, <1>2, IdleJob DEF AddCheck, Goto, TypeOK, JobOf, AddPC, FilesOf
  <2>2. CASE AddMkdir(w, t)
    BY <2>2, <1>2 DEF AddMkdir, Goto, TypeOK, JobOf, AddPC, FilesOf
  <2>3. ASSUME NEW f \in File, MoveCheck(w, t, f)
        PROVE  JobOf(w)'
    BY <2>3, <1>2, IdleJob DEF MoveCheck, Goto, TypeOK, JobOf, AddPC, FilesOf
  <2>4. CASE MoveOpen(w, t)
    BY <2>4, <1>2, IdleJob DEF MoveOpen, Goto, TypeOK, JobOf, AddPC, FilesOf
  <2>5. CASE MoveWrite(w, t)
    <3>1. CASE Respond(w, "500", {})
      BY <3>1, IdleJob
    <3>2. CASE ~Respond(w, "500", {})
      <4>1. /\ req'[w] = req[w] /\ todo'[w] \subseteq todo[w]
            /\ pc'[w] \in {"rename", "pick"} /\ pc[w] = "write"
        BY <2>5, <3>2 DEF MoveWrite, Goto, TypeOK
      <4>2. QED
        BY <1>2, <4>1 DEF JobOf, AddPC, FilesOf
    <3>3. QED
      BY <3>1, <3>2
  <2>6. CASE AddRename(w, t)
    BY <2>6, IdleJob DEF AddRename
  <2>7. QED
    BY <1>4, <2>1, <2>2, <2>3, <2>4, <2>5, <2>6 DEF Add
<1>5. ASSUME Qdr(w)
      PROVE  JobOf(w)'
  <2>1. CASE Glob(w)
    BY <2>1, IdleJob DEF Glob, Goto, TypeOK, JobOf, AddPC
  <2>2. ASSUME NEW m \in Target, RmOpen(w, m)
        PROVE  JobOf(w)'
    BY <2>2 DEF RmOpen, Goto, TypeOK, JobOf, AddPC
  <2>3. ASSUME NEW m \in Target, RmGone(w, m)
        PROVE  JobOf(w)'
    BY <2>3, IdleJob DEF RmGone, TypeOK, JobOf, AddPC
  <2>4. ASSUME NEW e \in File \cup {"nested"}, RmUnlink(w, e)
        PROVE  JobOf(w)'
    BY <2>4, <1>2 DEF RmUnlink, TypeOK, JobOf, AddPC
  <2>5. CASE RmDir(w)
    BY <2>5, IdleJob DEF RmDir, Goto, TypeOK, JobOf, AddPC
  <2>6. QED
    BY <1>5, <2>1, <2>2, <2>3, <2>4, <2>5 DEF Qdr
<1>6. ASSUME Crash(w)
      PROVE  JobOf(w)'
  BY <1>6, IdleJob DEF Crash
<1>7. JobOf(w)'
  BY <1>3, <1>4, <1>5, <1>6 DEF Step
<1>8. QED
  BY <1>1, <1>7 DEF JobOK

-----------------------------------------------------------------------------

LEMMA InitTypeOK == Init => TypeOK /\ JobOK
BY DEF Init, TypeOK, JobOK, JobOf, NoRequest, Request, PC, Code, AddPC

\* The tree, the jobs and the answers are always of their types, whatever
\* requests arrive, however they interleave and wherever a worker dies; and a
\* worker's program counter always agrees with the request it serves.
THEOREM TypeCorrect == Spec => [](TypeOK /\ JobOK)
<1>1. TypeOK /\ JobOK /\ [Next]_vars => (TypeOK /\ JobOK)'
  <2> SUFFICES ASSUME TypeOK, JobOK, [Next]_vars
               PROVE  (TypeOK /\ JobOK)'
    OBVIOUS
  <2>1. CASE Next
    BY <2>1, StepType, JobStep DEF Next
  <2>2. CASE UNCHANGED vars
    BY <2>2 DEF vars, TypeOK, JobOK, JobOf, FilesOf
  <2>3. QED
    BY <2>1, <2>2
<1>2. QED
  BY <1>1, InitTypeOK, PTL DEF Spec

-----------------------------------------------------------------------------
(* No 201 out of thin air *)

\* An add that has made its staging directory still has it, unless the history
\* variable knows why not.
StagedOrSeen ==
    \A w \in Worker, t \in TPM :
        /\ pc[w] \in {"pick", "open", "write", "rename"}
        /\ req[w].tpms = {t}
        /\ ~seen[w]
        => Exists(t, "tmp")

\* Closing files and directories removes no directory, and makes none.
LEMMA ReleasedExists ==
    ASSUME TypeOK, NEW w \in Worker, NEW t \in TPM, NEW p \in Place
    PROVE  /\ Exists(t, p) => Released(w)[t][p] \in Dir
           /\ ~Exists(t, p) => Released(w)[t][p] = NoDir
<1>1. Released(w)[t][p] \in Dir \cup {NoDir}
  BY ReleasedType
<1>2. CASE Exists(t, p)
  <2>1. Released(w)[t][p].rm = db[t][p].rm \ {w}
    BY <1>2 DEF Released
  <2>2. db[t][p] \in Dir
    BY <1>2 DEF TypeOK, Exists
  <2>3. \A f \in File : [db[t][p].file[f] EXCEPT !.fds = @ \ {w}] \in FileState
    BY <2>2 DEF Dir, FileState
  <2>4. QED
    BY <1>2, <2>2, <2>3 DEF Released, Dir
<1>3. CASE ~Exists(t, p)
  BY <1>3 DEF Released
<1>4. QED
  BY <1>2, <1>3

\* Unlinking entries of a directory does not remove it, but for "nested".
LEMMA UnlinkKeeps ==
    ASSUME TypeOK, NEW w \in Worker, NEW e \in File \cup {"nested"},
           RmUnlink(w, e), NEW t \in TPM, NEW p \in {"tmp", "enrolled"}
    PROVE  Exists(t, p) <=> db'[t][p] # NoDir
<1>1. NoFile \in FileState
  BY DEF NoFile, FileState, Value
<1>2. CASE Exists(t, p) /\ w \in db[t][p].rm /\ e # "nested"
  <2>1. db[t][p] \in Dir
    BY <1>2 DEF Exists, TypeOK, Place
  <2>2. [db[t][p] EXCEPT !.file[e] = NoFile] \in Dir
    BY <1>1, <1>2, <2>1, SetFileType
  <2>3. db'[t][p] = [db[t][p] EXCEPT !.file[e] = NoFile]
    BY <1>2 DEF RmUnlink, Place
  <2>4. QED
    BY <1>2, <2>2, <2>3
<1>3. CASE ~(Exists(t, p) /\ w \in db[t][p].rm /\ e # "nested")
  <2>1. db'[t][p] = db[t][p]
    BY <1>3 DEF RmUnlink, Place
  <2>2. QED
    BY <2>1 DEF Exists
<1>4. QED
  BY <1>2, <1>3

\* A staging directory only goes away because it, or another, became the
\* enrollment, or because a delete removed it.
LEMMA StagingVanishes ==
    ASSUME TypeOK, JobOK, NEW v \in Worker, Step(v), NEW t \in TPM,
           Exists(t, "tmp"), db'[t]["tmp"] = NoDir
    PROVE  db'[t]["enrolled"] # NoDir \/ Taken(v, t)
<1> USE DEF Exists
<1>1. CASE Start(v) \/ Glob(v) \/ \E m \in Target : RmGone(v, m)
  BY <1>1 DEF Start, AddStart, QdrStart, BadRequest, Janitor, Accept, Glob, RmGone
<1>2. ASSUME NEW u \in TPM, Add(v, u)
      PROVE  db'[t]["enrolled"] # NoDir
  <2>1. CASE AddCheck(v, u) \/ \E f \in File : MoveCheck(v, u, f)
    BY <2>1 DEF AddCheck, MoveCheck
  <2>2. CASE AddMkdir(v, u)
    BY <2>2 DEF AddMkdir, TypeOK, Place
  <2>3. CASE MoveOpen(v, u)
    <3> DEFINE d == db[u]["tmp"]
               s == [val |-> "partial", fds |-> d.file[cur[v]].fds \cup {v}]
    <3>1. d \in Dir \cup {NoDir} /\ cur[v] \in File
      BY <2>3, CurrentFile DEF MoveOpen, Place, TypeOK
    <3>2. d \in Dir => s \in FileState
      BY <3>1 DEF Dir, FileState, Value, TypeOK
    <3>3. d \in Dir => [d EXCEPT !.file[cur[v]] = s] \in Dir
      BY <3>1, <3>2, SetFileType
    <3>4. \/ UNCHANGED db
          \/ d \in Dir /\ db' = [db EXCEPT ![u]["tmp"] = [d EXCEPT !.file[cur[v]] = s]]
      BY <2>3, <3>1 DEF MoveOpen
    <3>5. QED
      BY <3>3, <3>4 DEF TypeOK, Place
  <2>4. CASE MoveWrite(v, u)
    <3> DEFINE f == cur[v]
               d == db[t]["tmp"]
               s == [val |-> ContentOf(req[v], f), fds |-> d.file[f].fds \ {v}]
    <3>1. f \in File /\ ContentOf(req[v], f) \in Value
      BY <2>4, CurrentFile DEF MoveWrite
    <3>2. d \in Dir
      BY DEF TypeOK, Place
    <3>3. s \in FileState
      BY <3>1, <3>2 DEF Dir, FileState
    <3>4. [d EXCEPT !.file[f] = s] \in Dir
      BY <3>1, <3>2, <3>3, SetFileType
    <3>5. db'[t]["tmp"] \in {d, [d EXCEPT !.file[f] = s]}
      BY <2>4 DEF MoveWrite, TypeOK, Place
    <3>6. QED
      BY <3>2, <3>4, <3>5
  <2>5. CASE AddRename(v, u)
    BY <2>5 DEF AddRename, TypeOK, Place
  <2>6. QED
    BY <1>2, <2>1, <2>2, <2>3, <2>4, <2>5 DEF Add
<1>3. ASSUME NEW m \in Target, RmOpen(v, m)
      PROVE  FALSE
  <2> DEFINE d == [db[m[2]][m[1]] EXCEPT !.rm = @ \cup {v}]
  <2>1. m[1] \in Place /\ m[2] \in TPM
    BY DEF Target
  <2>2. db[m[2]][m[1]] \in Dir
    BY <1>3, <2>1 DEF RmOpen, TypeOK
  <2>3. d \in Dir
    BY <2>2 DEF Dir
  <2>4. db' = [db EXCEPT ![m[2]][m[1]] = d]
    BY <1>3 DEF RmOpen
  <2>5. db'[t]["tmp"] \in {d, db[t]["tmp"]}
    <3> HIDE DEF d
    <3>1. QED
      BY <2>1, <2>4 DEF TypeOK, Place
  <2>6. QED
    BY <2>3, <2>5
<1>4. ASSUME NEW e \in File \cup {"nested"}, RmUnlink(v, e)
      PROVE  FALSE
  BY <1>4, UnlinkKeeps
<1>5. ASSUME RmDir(v)
      PROVE  Taken(v, t)
  <2>1. at[v] \in Target /\ at[v][1] \in Place /\ at[v][2] \in TPM
    BY <1>5, CurrentTarget DEF RmDir
  <2>2. Released(v)[t]["tmp"] \in Dir
    BY ReleasedExists DEF Place
  <2>3. /\ pc[v] = "rm"
        /\ \/ db' = Released(v)
           \/ db' = [Released(v) EXCEPT ![at[v][2]][at[v][1]] = NoDir]
    BY <1>5 DEF RmDir
  <2>4. at[v][1] = "tmp" /\ at[v][2] = t
    <3> DEFINE c == Released(v)
    <3>1. c \in [TPM -> [Place -> Dir \cup {NoDir}]] /\ c[t]["tmp"] # NoDir
      BY <2>2, ReleasedType
    <3>2. db' = c \/ db' = [c EXCEPT ![at[v][2]][at[v][1]] = NoDir]
      BY <2>3
    <3> HIDE DEF c
    <3>3. QED
      BY <2>1, <3>1, <3>2 DEF Place
  <2>5. QED
    BY <2>1, <2>3, <2>4 DEF Taken, Target
<1>6. ASSUME Crash(v)
      PROVE  FALSE
  BY <1>6, ReleasedExists DEF Crash, Place
<1>7. QED
  BY <1>1, <1>2, <1>3, <1>4, <1>5, <1>6 DEF Step, Qdr

\* A worker gets to move files only by making the staging directory.
LEMMA MovingAfterMkdir ==
    ASSUME TypeOK, JobOK, NEW w \in Worker, Step(w), pc'[w] \in Moving
    PROVE  /\ req'[w] = req[w]
           /\ pc[w] # "idle"
           /\ \/ pc[w] \in Moving
              \/ \E t \in TPM : AddMkdir(w, t)
<1> USE DEF TypeOK, Moving, Goto, Respond
<1>1. CASE Start(w)
  BY <1>1 DEF Start, AddStart, QdrStart, BadRequest, Janitor, Accept
<1>2. ASSUME NEW t \in TPM, Add(w, t)
      PROVE  /\ req'[w] = req[w]
             /\ pc[w] # "idle"
             /\ \/ pc[w] \in Moving
                \/ \E u \in TPM : AddMkdir(w, u)
  <2>1. CASE AddCheck(w, t) \/ AddMkdir(w, t) \/ AddRename(w, t)
    BY <2>1 DEF AddCheck, AddMkdir, AddRename
  <2>2. CASE \E f \in File : MoveCheck(w, t, f)
    BY <2>2 DEF MoveCheck
  <2>3. CASE MoveOpen(w, t) \/ MoveWrite(w, t)
    BY <2>3 DEF MoveOpen, MoveWrite
  <2>4. QED
    BY <1>2, <2>1, <2>2, <2>3 DEF Add
<1>3. CASE Qdr(w)
  <2>1. CASE Glob(w) \/ RmDir(w)
    BY <2>1 DEF Glob, RmDir
  <2>2. CASE \E m \in Target : RmOpen(w, m) \/ RmGone(w, m)
    BY <2>2 DEF RmOpen, RmGone
  <2>3. CASE \E e \in File \cup {"nested"} : RmUnlink(w, e)
    BY <2>3 DEF RmUnlink
  <2>4. QED
    BY <1>3, <2>1, <2>2, <2>3 DEF Qdr
<1>4. CASE Crash(w)
  BY <1>4 DEF Crash
<1>5. QED
  BY <1>1, <1>2, <1>3, <1>4 DEF Step

LEMMA StagedOrSeenStep ==
    ASSUME TypeOK, JobOK, StagedOrSeen, NEW v \in Worker, Step(v), Record(v)
    PROVE  StagedOrSeen'
<1> SUFFICES ASSUME NEW w \in Worker, NEW t \in TPM,
                    pc'[w] \in Moving, req'[w].tpms = {t}, ~seen'[w]
             PROVE  db'[t]["tmp"] # NoDir
  BY DEF StagedOrSeen, Moving, Exists
<1>1. req'[w] = req[w] /\ pc[w] # "idle"
  <2>1. CASE w = v
    BY <2>1, MovingAfterMkdir
  <2>2. CASE w # v
    BY <2>2, OthersKeep DEF Moving
  <2>3. QED
    BY <2>1, <2>2
<1>2. ~seen[w] /\ db'[t]["enrolled"] = NoDir /\ ~Taken(v, t)
  BY <1>1 DEF Record
<1>3. CASE pc[w] \in Moving
  <2>1. Exists(t, "tmp")
    BY <1>1, <1>2, <1>3 DEF StagedOrSeen, Moving
  <2>2. QED
    BY <1>2, <2>1, StagingVanishes
<1>4. CASE pc[w] \notin Moving
  <2>1. PICK u \in TPM : AddMkdir(w, u)
    <3>1. CASE w = v
      BY <1>4, <3>1, MovingAfterMkdir
    <3>2. CASE w # v
      BY <1>4, <3>2, OthersKeep
    <3>3. QED
      BY <3>1, <3>2
  <2>2. u = t
    BY <1>1, <2>1 DEF AddMkdir
  <2>3. EmptyDir # NoDir
    BY DEF EmptyDir, NoFile, Dir, FileState, Value
  <2>4. QED
    BY <2>1, <2>2, <2>3 DEF AddMkdir, TypeOK, Place, Exists
<1>5. QED
  BY <1>3, <1>4

\* An add only ever answers 201 after the rename, and its TPM is enrolled then,
\* or was seen to be.
LEMMA NoPhantomStep ==
    ASSUME TypeOK, JobOK, StagedOrSeen, NEW v \in Worker, Step(v), Record(v),
           NEW w \in Worker, Answers(w, "add", "201")
    PROVE  seen'[w]
<1>1. w = v
  BY OthersKeep DEF Answers
<1>2. PICK t \in TPM : AddRename(w, t)
  <2> USE <1>1 DEF Answers, TypeOK, Goto, Respond
  <2>1. CASE Start(w) \/ Crash(w)
    BY <2>1 DEF Start, AddStart, QdrStart, BadRequest, Janitor, Accept, Crash
  <2>2. CASE Qdr(w)
    <3>1. CASE Glob(w) \/ RmDir(w)
      BY <3>1 DEF Glob, RmDir
    <3>2. CASE \E m \in Target : RmOpen(w, m) \/ RmGone(w, m)
      BY <3>2 DEF RmOpen, RmGone
    <3>3. CASE \E e \in File \cup {"nested"} : RmUnlink(w, e)
      BY <3>3 DEF RmUnlink
    <3>4. QED
      BY <2>2, <3>1, <3>2, <3>3 DEF Qdr
  <2>3. ASSUME NEW t \in TPM, Add(w, t)
        PROVE  AddRename(w, t)
    BY <2>3 DEF Add, AddCheck, AddMkdir, MoveCheck, MoveOpen, MoveWrite
  <2>4. QED
    BY <2>1, <2>2, <2>3 DEF Step
<1>3. pc[w] = "rename" /\ req[w].tpms = {t}
  BY <1>2 DEF AddRename
<1>4. ASSUME ~seen[w]
      PROVE  db'[t]["enrolled"] # NoDir
  <2>1. Exists(t, "tmp")
    BY <1>3, <1>4 DEF StagedOrSeen
  <2>2. CASE Exists(t, "enrolled")
    BY <1>2, <2>1, <2>2 DEF AddRename, TypeOK, Place, Exists
  <2>3. CASE ~Exists(t, "enrolled")
    BY <1>2, <2>1, <2>3 DEF AddRename, TypeOK, Place, Exists
  <2>4. QED
    BY <2>2, <2>3
<1>5. QED
  BY <1>1, <1>3, <1>4 DEF Record

\* Whatever adds, deletes and deaths of workers interleave with it, an add that
\* answers 201 saw its TPM enrolled, or lost what it had staged to a delete.
THEOREM NoPhantom == Spec => NoPhantomAdd
<1> DEFINE Inv == TypeOK /\ JobOK /\ StagedOrSeen
<1>1. Init => Inv
  BY InitTypeOK DEF Init, StagedOrSeen
<1>2. Inv /\ [Next]_vars => Inv'
  <2> SUFFICES ASSUME Inv, [Next]_vars
               PROVE  Inv'
    OBVIOUS
  <2>1. CASE Next
    BY <2>1, StepType, JobStep, StagedOrSeenStep DEF Next
  <2>2. CASE UNCHANGED vars
    BY <2>2 DEF vars, TypeOK, JobOK, JobOf, FilesOf, StagedOrSeen, Exists
  <2>3. QED
    BY <2>1, <2>2
<1>3. Inv /\ [Next]_vars =>
        [\A w \in Worker : Answers(w, "add", "201") => seen'[w]]_vars
  BY NoPhantomStep DEF Next
<1>4. QED
  BY <1>1, <1>2, <1>3, PTL DEF Spec, NoPhantomAdd

-----------------------------------------------------------------------------
(* What the staging directory buys: with one request at a time for each TPM, *)
(* whatever dies in the middle of it, an enrollment is always whole.          *)

\* Released(w) is the identity on a directory that w holds nothing of.
LEMMA ReleasedSame ==
    ASSUME TypeOK, NEW w \in Worker, NEW t \in TPM, NEW p \in Place,
           Exists(t, p), w \notin db[t][p].rm,
           \A f \in File : w \notin db[t][p].file[f].fds
    PROVE  Released(w)[t][p] = db[t][p]
<1> DEFINE d == db[t][p]
           g == [f \in File |-> [d.file[f] EXCEPT !.fds = @ \ {w}]]
<1>1. d \in Dir
  BY DEF TypeOK, Exists
<1>2. ASSUME NEW f \in File
      PROVE  g[f] = d.file[f]
  <2>1. d.file[f] \in FileState /\ d.file[f].fds \ {w} = d.file[f].fds
    BY <1>1 DEF Dir
  <2>2. QED
    BY <2>1 DEF FileState
<1>3. g = d.file
  BY <1>1, <1>2 DEF Dir
<1>4. d.rm \ {w} = d.rm
  OBVIOUS
<1>5. [file |-> g, rm |-> d.rm \ {w}] = d
  BY <1>1, <1>3, <1>4 DEF Dir
<1>6. QED
  BY <1>5 DEF Released

\* The tree of a TPM after w lets go, if w held nothing of that TPM.
LEMMA ReleasedOther ==
    ASSUME TypeOK, NEW w \in Worker, NEW t \in TPM, HandlesHeld(t),
           pc[w] = "rm" => at[w][2] # t,
           pc[w] = "write" => t \notin req[w].tpms
    PROVE  Released(w)[t] = db[t]
<1>1. ASSUME NEW p \in Place
      PROVE  Released(w)[t][p] = db[t][p]
  <2>1. CASE Exists(t, p)
    BY <2>1, ReleasedSame DEF HandlesHeld
  <2>2. CASE ~Exists(t, p)
    BY <2>2 DEF Released, Exists
  <2>3. QED
    BY <2>1, <2>2
<1>2. Released(w)[t] \in [Place -> Dir \cup {NoDir}]
      /\ db[t] \in [Place -> Dir \cup {NoDir}]
  BY ReleasedType DEF TypeOK
<1>3. QED
  BY <1>1, <1>2

\* Isolation: a step made for one TPM leaves the directories of every other TPM
\* as they were.
LEMMA Frame ==
    ASSUME TypeOK, JobOK, NEW v \in Worker, Step(v), DeletesOwn(v),
           NEW t \in TPM, t \notin req[v].tpms, HandlesHeld(t)
    PROVE  db'[t] = db[t] /\ (t \in torn' <=> t \in torn)
<1>1. CASE Start(v) \/ Glob(v) \/ \E m \in Target : RmGone(v, m)
  BY <1>1 DEF Start, AddStart, QdrStart, BadRequest, Janitor, Accept, Glob, RmGone
<1>2. ASSUME NEW u \in TPM, Add(v, u)
      PROVE  db'[t] = db[t] /\ torn' = torn
  <2>1. u # t /\ torn' = torn
    BY <1>2 DEF Add, AddCheck, AddMkdir, MoveCheck, MoveOpen, MoveWrite, AddRename
  <2>2. CASE AddCheck(v, u) \/ \E f \in File : MoveCheck(v, u, f)
    BY <2>1, <2>2 DEF AddCheck, MoveCheck
  <2>3. CASE AddMkdir(v, u) \/ MoveOpen(v, u) \/ MoveWrite(v, u)
    BY <2>1, <2>3 DEF AddMkdir, MoveOpen, MoveWrite, TypeOK
  <2>4. CASE AddRename(v, u)
    BY <2>1, <2>4 DEF AddRename, TypeOK
  <2>5. QED
    BY <1>2, <2>1, <2>2, <2>3, <2>4 DEF Add
<1>3. ASSUME NEW m \in Target, RmOpen(v, m)
      PROVE  db'[t] = db[t] /\ torn' = torn
  BY <1>3 DEF RmOpen, DeletesOwn, TypeOK
<1>4. ASSUME NEW e \in File \cup {"nested"}, RmUnlink(v, e)
      PROVE  db'[t] = db[t] /\ (t \in torn' <=> t \in torn)
  <2>1. \A p \in Place : ~(Exists(t, p) /\ v \in db[t][p].rm)
    BY <1>4 DEF RmUnlink, HandlesHeld, DeletesOwn
  <2>2. db'[t] = [p \in Place |-> db[t][p]]
    BY <1>4, <2>1 DEF RmUnlink, Place
  <2>3. QED
    BY <1>4, <2>1, <2>2 DEF RmUnlink, TypeOK, Place
<1>5. CASE RmDir(v)
  <2>1. Released(v)[t] = db[t]
    BY <1>5, ReleasedOther DEF RmDir, DeletesOwn
  <2>2. at[v][2] # t
    BY <1>5 DEF RmDir, DeletesOwn
  <2> DEFINE c == Released(v)
  <2>3. /\ db' = c \/ db' = [c EXCEPT ![at[v][2]][at[v][1]] = NoDir]
        /\ torn' = torn \/ torn' = torn \ {at[v][2]}
    BY <1>5 DEF RmDir
  <2>4. c \in [TPM -> [Place -> Dir \cup {NoDir}]] /\ c[t] = db[t]
    BY <2>1, ReleasedType
  <2> HIDE DEF c
  <2>5. QED
    BY <2>2, <2>3, <2>4
<1>6. CASE Crash(v)
  <2>1. pc[v] = "rm" => at[v][2] # t
    BY DEF DeletesOwn
  <2>2. QED
    BY <1>6, <2>1, ReleasedOther DEF Crash
<1>7. QED
  BY <1>1, <1>2, <1>3, <1>4, <1>5, <1>6 DEF Step, Qdr

\* Only the check for an enrollment leads to the staging directory's mkdir.
LEMMA MkdirAfterCheck ==
    ASSUME TypeOK, JobOK, NEW w \in Worker, Step(w), pc'[w] = "mkdir"
    PROVE  req'[w] = req[w]
<1> USE DEF TypeOK, Goto, Respond
<1>1. CASE Start(w) \/ Crash(w)
  BY <1>1 DEF Start, AddStart, QdrStart, BadRequest, Janitor, Accept, Crash
<1>2. ASSUME NEW t \in TPM, Add(w, t)
      PROVE  req'[w] = req[w]
  BY <1>2 DEF Add, AddCheck, AddMkdir, MoveCheck, MoveOpen, MoveWrite, AddRename
<1>3. CASE Glob(w) \/ RmDir(w)
  BY <1>3 DEF Glob, RmDir
<1>4. CASE \E m \in Target : RmOpen(w, m) \/ RmGone(w, m)
  BY <1>4 DEF RmOpen, RmGone
<1>5. CASE \E e \in File \cup {"nested"} : RmUnlink(w, e)
  BY <1>5 DEF RmUnlink
<1>6. QED
  BY <1>1, <1>2, <1>3, <1>4, <1>5 DEF Step, Qdr

\* Hence every TPM that the step is not made for keeps what holds of it.
LEMMA SoundOther ==
    ASSUME TypeOK, JobOK, ExclusiveInv, NEW v \in Worker, Step(v), Record(v),
           NEW t \in TPM, t \notin req[v].tpms
    PROVE  Sound(t)'
<1>1. db'[t] = db[t] /\ (t \in torn' <=> t \in torn)
  BY Frame DEF ExclusiveInv, Sound
<1>2. t \in killed' <=> t \in killed
  BY DEF Record
<1>3. Sound(t)
  BY DEF ExclusiveInv
<1>4. \A w \in Worker : w # v => /\ pc'[w] = pc[w] /\ req'[w] = req[w]
                                 /\ cur'[w] = cur[w] /\ at'[w] = at[w]
                                 /\ todo'[w] = todo[w]
  BY OthersKeep
<1>5. HandlesHeld(t)'
  <2> SUFFICES ASSUME NEW p \in Place, Exists(t, p)
               PROVE  /\ \A f \in File : \A w \in db[t][p].file[f].fds :
                           /\ t \in req'[w].tpms /\ pc'[w] = "write"
                           /\ cur'[w] = f /\ p = "tmp"
                      /\ \A w \in db[t][p].rm : pc'[w] = "rm" /\ at'[w] = <<p, t>>
    BY <1>1 DEF HandlesHeld, Exists
  <2>1. db[t][p] \in Dir
    BY DEF TypeOK, Exists
  <2>2. ASSUME NEW f \in File, NEW w \in db[t][p].file[f].fds
        PROVE  w \in Worker /\ w # v
    BY <1>3, <2>1 DEF Sound, HandlesHeld, Dir, FileState
  <2>3. ASSUME NEW w \in db[t][p].rm
        PROVE  w \in Worker /\ w # v
    BY <1>3, <2>1 DEF Sound, HandlesHeld, Dir, ExclusiveInv, DeletesOwn
  <2>4. QED
    BY <1>3, <1>4, <2>2, <2>3 DEF Sound, HandlesHeld
<1>6. ASSUME NEW w \in Worker, req'[w].tpms = {t}
      PROVE  Staged(w, t)'
  <2>1. CASE w = v
    <3>1. pc'[w] # "mkdir" /\ pc'[w] \notin Moving
      BY <1>6, <2>1, MkdirAfterCheck, MovingAfterMkdir
    <3>2. QED
      BY <3>1 DEF Staged
  <2>2. CASE w # v
    <3>1. Staged(w, t)
      BY <1>3, <1>4, <1>6, <2>2 DEF Sound
    <3>2. QED
      BY <1>1, <1>2, <1>4, <2>2, <3>1 DEF Staged, Exists, ContentOf
  <2>3. QED
    BY <2>1, <2>2
<1>7. t \notin killed' /\ db'[t]["tmp"] # NoDir =>
          \E w \in Worker : req'[w].tpms = {t} /\ pc'[w] \in Moving
  BY <1>1, <1>2, <1>3, <1>4 DEF Sound, Exists
<1>8. /\ ~(db'[t]["nested"] # NoDir)
      /\ t \in torn' => db'[t]["enrolled"] # NoDir
      /\ t \notin torn' /\ db'[t]["enrolled"] # NoDir => Whole(db'[t]["enrolled"])
  BY <1>1, <1>3 DEF Sound, Exists
<1>9. QED
  BY <1>5, <1>6, <1>7, <1>8 DEF Sound, Exists, Whole

-----------------------------------------------------------------------------
(* The TPMs a step is made for *)

\* Nobody but v serves a TPM that v serves, now or after v's step.
Owner(v, t) ==
    /\ \A w \in Worker : w # v => t \notin req[w].tpms /\ t \notin req'[w].tpms
    /\ \A p \in Place : Exists(t, p) =>
          /\ \A f \in File :
                /\ db[t][p].file[f].fds \subseteq {v}
                /\ v \in db[t][p].file[f].fds =>
                      pc[v] = "write" /\ cur[v] = f /\ p = "tmp"
          /\ db[t][p].rm \subseteq {v}
          /\ v \in db[t][p].rm => pc[v] = "rm" /\ at[v] = <<p, t>>

LEMMA OwnerStep ==
    ASSUME TypeOK, ExclusiveInv, NEW v \in Worker, Step(v),
           NEW t \in TPM, t \in req[v].tpms
    PROVE  Owner(v, t)
<1>1. \A w \in Worker : w # v => t \notin req[w].tpms /\ req'[w] = req[w]
  BY OthersKeep DEF ExclusiveInv, Exclusive
<1>2. HandlesHeld(t)
  BY DEF ExclusiveInv, Sound
<1>3. ASSUME NEW p \in Place, Exists(t, p)
      PROVE  /\ \A f \in File :
                   /\ db[t][p].file[f].fds \subseteq {v}
                   /\ v \in db[t][p].file[f].fds =>
                         pc[v] = "write" /\ cur[v] = f /\ p = "tmp"
             /\ db[t][p].rm \subseteq {v}
             /\ v \in db[t][p].rm => pc[v] = "rm" /\ at[v] = <<p, t>>
  <2>1. db[t][p] \in Dir
    BY <1>3 DEF TypeOK, Exists
  <2>2. ASSUME NEW f \in File, NEW w \in db[t][p].file[f].fds
        PROVE  w = v /\ pc[w] = "write" /\ cur[w] = f /\ p = "tmp"
    BY <1>1, <1>2, <1>3, <2>1 DEF HandlesHeld, Dir, FileState
  <2>3. ASSUME NEW w \in db[t][p].rm
        PROVE  w = v /\ pc[w] = "rm" /\ at[w] = <<p, t>>
    BY <1>1, <1>2, <1>3, <2>1 DEF HandlesHeld, Dir, ExclusiveInv, DeletesOwn
  <2>4. QED
    BY <2>2, <2>3
<1>4. QED
  BY <1>1, <1>3 DEF Owner

\* A step that ends a request, or is not an add's, has to leave no staging
\* directory but one a killed worker left.
LEMMA NoStagingLeft ==
    ASSUME TypeOK, JobOK, ExclusiveInv, NEW v \in Worker, Step(v),
           NEW t \in TPM, t \in req[v].tpms, pc[v] \notin Moving,
           Exists(t, "tmp")
    PROVE  t \in killed
<1>1. SUFFICES ASSUME t \notin killed
               PROVE  FALSE
  OBVIOUS
<1>2. PICK w \in Worker : req[w].tpms = {t} /\ pc[w] \in Moving
  BY <1>1 DEF ExclusiveInv, Sound
<1>3. w = v
  BY <1>2 DEF ExclusiveInv, Exclusive
<1>4. QED
  BY <1>2, <1>3

\* The history of deaths only grows.
LEMMA KilledGrows ==
    ASSUME NEW v \in Worker, Record(v)
    PROVE  killed \subseteq killed'
BY DEF Record

\* When the tree is unchanged and v holds nothing of it.
LEMMA SoundSameTree ==
    ASSUME TypeOK, ExclusiveInv, NEW v \in Worker, Record(v),
           NEW t \in TPM, t \in req[v].tpms, Owner(v, t),
           db' = db, torn' = torn,
           pc[v] \notin {"write", "rm"},
           req'[v].tpms = {t} => Staged(v, t)',
           Exists(t, "tmp") => \/ t \in killed'
                               \/ req'[v].tpms = {t} /\ pc'[v] \in Moving
    PROVE  Sound(t)'
<1>1. Sound(t)
  BY DEF ExclusiveInv
<1>2. HandlesHeld(t)'
  BY DEF HandlesHeld, Owner, Exists
<1>3. \A w \in Worker : req'[w].tpms = {t} => Staged(w, t)'
  BY DEF Owner
<1>4. QED
  BY <1>1, <1>2, <1>3 DEF Sound, Exists, Whole

LEMMA SoundCheck ==
    ASSUME TypeOK, JobOK, ExclusiveInv, NEW v \in Worker, Step(v), Record(v),
           NEW t \in TPM, AddCheck(v, t)
    PROVE  Sound(t)'
<1>1. t \in req[v].tpms /\ pc[v] = "check" /\ db' = db /\ torn' = torn
  BY DEF AddCheck
<1>2. Exists(t, "tmp") => t \in killed'
  BY <1>1, NoStagingLeft, KilledGrows DEF Moving
<1>3. req'[v].tpms = {t} => Staged(v, t)'
  BY DEF AddCheck, Respond, NoRequest, TypeOK, Staged, Moving, Goto, Exists
<1>4. QED
  BY <1>1, <1>2, <1>3, OwnerStep, SoundSameTree

LEMMA SoundMoveCheck ==
    ASSUME TypeOK, JobOK, ExclusiveInv, NEW v \in Worker, Step(v), Record(v),
           NEW t \in TPM, NEW f \in File, MoveCheck(v, t, f)
    PROVE  Sound(t)'
<1>1. /\ t \in req[v].tpms /\ req[v].tpms = {t} /\ pc[v] = "pick"
      /\ f \in todo[v] /\ db' = db /\ torn' = torn
  BY DEF MoveCheck
<1>2. Staged(v, t)
  BY <1>1 DEF ExclusiveInv, Sound
<1>3. CASE Respond(v, "500", {})
  <2>1. f \in Present(db[t]["tmp"])
    BY <1>1, <1>2, <1>3 DEF MoveCheck, Staged, Moving, Goto, Respond, TypeOK
  <2>2. t \in killed
    BY <1>1, <1>2, <2>1 DEF Staged, Moving, Present
  <2>3. req'[v].tpms # {t}
    BY <1>3 DEF Respond, NoRequest, TypeOK
  <2>4. QED
    BY <1>1, <2>2, <2>3, OwnerStep, SoundSameTree, KilledGrows
<1>4. CASE ~Respond(v, "500", {})
  <2>1. /\ pc'[v] = "open" /\ req' = req /\ todo' = todo /\ cur'[v] = f
    BY <1>4 DEF MoveCheck, Goto, TypeOK
  <2>2. Staged(v, t)'
    BY <1>1, <1>2, <2>1, KilledGrows DEF Staged, Moving, Exists, ContentOf
  <2>3. QED
    BY <1>1, <2>1, <2>2, OwnerStep, SoundSameTree DEF Moving
<1>5. QED
  BY <1>3, <1>4

\* From here on every place of the TPM is looked at in turn: this is what has to
\* be shown of a changed tree.
LEMMA SoundNewTree ==
    ASSUME NEW v \in Worker, NEW t \in TPM, Owner(v, t),
           \A p \in Place : db'[t][p] # NoDir =>
              /\ \A f \in File : \A w \in db'[t][p].file[f].fds :
                    /\ t \in req'[w].tpms /\ pc'[w] = "write"
                    /\ cur'[w] = f /\ p = "tmp"
              /\ \A w \in db'[t][p].rm : pc'[w] = "rm" /\ at'[w] = <<p, t>>,
           req'[v].tpms = {t} => Staged(v, t)',
           db'[t]["nested"] = NoDir,
           t \in torn' => db'[t]["enrolled"] # NoDir,
           t \notin torn' /\ db'[t]["enrolled"] # NoDir
              => Whole(db'[t]["enrolled"]),
           db'[t]["tmp"] # NoDir => \/ t \in killed'
                                    \/ req'[v].tpms = {t} /\ pc'[v] \in Moving
    PROVE  Sound(t)'
<1>1. HandlesHeld(t)'
  BY DEF HandlesHeld, Exists
<1>2. \A w \in Worker : req'[w].tpms = {t} => Staged(w, t)'
  BY DEF Owner
<1>3. QED
  BY <1>1, <1>2 DEF Sound, Exists, Whole

LEMMA SoundMkdir ==
    ASSUME TypeOK, JobOK, ExclusiveInv, NEW v \in Worker, Step(v), Record(v),
           NEW t \in TPM, AddMkdir(v, t)
    PROVE  Sound(t)'
<1>1. /\ req[v].tpms = {t} /\ t \in req[v].tpms /\ pc[v] = "mkdir"
      /\ pc'[v] = "pick" /\ req' = req /\ todo' = todo /\ torn' = torn
  BY DEF AddMkdir, Goto, TypeOK
<1>2. Owner(v, t) /\ Sound(t) /\ Staged(v, t)
  BY <1>1, OwnerStep DEF ExclusiveInv, Sound
<1>3. todo[v] = FilesOf(req[v])
  BY <1>1 DEF JobOK, JobOf
<1>4. CASE Exists(t, "tmp")
  <2>1. db' = db /\ t \in killed
    BY <1>1, <1>4, NoStagingLeft DEF AddMkdir, Moving
  <2>2. Staged(v, t)'
    BY <1>1, <1>2, <1>3, <1>4, <2>1, KilledGrows DEF Staged, Moving, Exists
  <2>3. QED
    BY <1>1, <1>2, <2>1, <2>2, SoundSameTree, KilledGrows
<1>5. CASE ~Exists(t, "tmp")
  <2>1. EmptyDir \in Dir
    BY DEF EmptyDir, NoFile, Dir, FileState, Value
  <2>2. db'[t] = [db[t] EXCEPT !["tmp"] = EmptyDir]
    BY <1>5 DEF AddMkdir, TypeOK
  <2>3. /\ db'[t]["tmp"] = EmptyDir
        /\ db'[t]["enrolled"] = db[t]["enrolled"]
        /\ db'[t]["nested"] = db[t]["nested"]
    BY <2>2 DEF TypeOK, Place
  <2>4. ~Exists(t, "enrolled") /\ ~Exists(t, "nested") /\ t \notin torn
    BY <1>1, <1>2 DEF Sound, Staged
  <2>5. Staged(v, t)'
    <3>1. EmptyDir # NoDir
      BY <2>1, EnrollAssumption
    <3>2. \A f \in todo[v] : EmptyDir.file[f].val = "absent"
      BY <1>3 DEF EmptyDir, NoFile, FilesOf
    <3> QED
      BY <1>1, <1>3, <2>3, <2>4, <3>1, <3>2 DEF Staged, Moving, Exists
  <2>6. \A p \in Place : db'[t][p] # NoDir => db'[t][p] = EmptyDir
    BY <2>3, <2>4 DEF Exists, Place
  <2>7. QED
    BY <1>1, <1>2, <2>3, <2>4, <2>5, <2>6, SoundNewTree
       DEF EmptyDir, NoFile, Exists, Moving
<1>6. QED
  BY <1>4, <1>5

LEMMA SoundMoveOpen ==
    ASSUME TypeOK, JobOK, ExclusiveInv, NEW v \in Worker, Step(v), Record(v),
           NEW t \in TPM, MoveOpen(v, t)
    PROVE  Sound(t)'
<1> DEFINE d == db[t]["tmp"]
           f == cur[v]
           s == [val |-> "partial", fds |-> d.file[f].fds \cup {v}]
           e == [d EXCEPT !.file[f] = s]
<1>1. /\ req[v].tpms = {t} /\ t \in req[v].tpms /\ pc[v] = "open"
      /\ f \in File /\ f \in todo[v]
  BY CurrentFile DEF MoveOpen
<1>2. Owner(v, t) /\ Sound(t) /\ Staged(v, t)
  BY <1>1, OwnerStep DEF ExclusiveInv, Sound
<1>3. Exists(t, "tmp") /\ ~Exists(t, "enrolled")
  BY <1>1, <1>2 DEF Staged, Moving
<1>4. /\ db' = [db EXCEPT ![t]["tmp"] = e]
      /\ pc'[v] = "write" /\ req' = req /\ todo' = todo /\ cur' = cur
      /\ torn' = torn
  BY <1>3 DEF MoveOpen, Goto, TypeOK
<1>5. d \in Dir
  BY <1>3 DEF Exists, TypeOK, Place
<1>6. d.file[f].fds = {} /\ d.rm = {} /\ \A g \in File : d.file[g].fds = {}
  BY <1>1, <1>2, <1>3 DEF Owner, Place
<1>7. s = [val |-> "partial", fds |-> {v}] /\ s \in FileState
  BY <1>6 DEF FileState, Value
<1>8. e \in Dir
  BY <1>1, <1>5, <1>7, SetFileType
<1>9. /\ e.rm = {} /\ e.file[f] = s
      /\ \A g \in File \ {f} : e.file[g] = d.file[g]
  BY <1>1, <1>5, <1>6 DEF Dir
<1> HIDE DEF e, s
<1>10. /\ db'[t]["tmp"] = e
       /\ db'[t]["enrolled"] = db[t]["enrolled"]
       /\ db'[t]["nested"] = db[t]["nested"]
  BY <1>4 DEF TypeOK, Place
<1>11. Staged(v, t)'
  <2>1. \A g \in FilesOf(req[v]) \ todo[v] : g \in File \ {f}
    BY <1>1 DEF FilesOf
  <2>2. \A g \in todo[v] : g \in File
    BY <1>1 DEF JobOK, JobOf, AddPC, FilesOf
  <2>3. \A g \in FilesOf(req[v]) \ todo[v] : e.file[g].val = ContentOf(req[v], g)
    BY <1>1, <1>2, <1>9, <2>1 DEF Staged, Moving
  <2>4. t \notin killed => \A g \in todo[v] : g = f \/ e.file[g].val = "absent"
    BY <1>1, <1>2, <1>9, <2>2 DEF Staged, Moving
  <2>5. e # NoDir /\ v \in e.file[f].fds
    BY <1>7, <1>8, <1>9, EnrollAssumption
  <2>6. QED
    BY <1>3, <1>4, <1>10, <2>3, <2>4, <2>5, KilledGrows
       DEF Staged, Moving, Exists, ContentOf, FilesOf
<1>12. ~Exists(t, "nested") /\ t \notin torn
  BY <1>2, <1>3 DEF Sound
<1>13. /\ \A g \in File : \A w \in e.file[g].fds : w = v /\ g = f
       /\ \A w \in e.rm : FALSE
  BY <1>6, <1>7, <1>9
<1>14. \A p \in Place : db'[t][p] # NoDir => p = "tmp" /\ db'[t][p] = e
  BY <1>3, <1>10, <1>12 DEF Exists, Place
<1>15. QED
  BY <1>1, <1>2, <1>3, <1>4, <1>10, <1>11, <1>12, <1>13, <1>14, SoundNewTree
     DEF Moving, Exists

LEMMA SoundMoveWrite ==
    ASSUME TypeOK, JobOK, ExclusiveInv, NEW v \in Worker, Step(v), Record(v),
           NEW t \in TPM, MoveWrite(v, t)
    PROVE  Sound(t)'
<1> DEFINE d == db[t]["tmp"]
           f == cur[v]
           s == [val |-> ContentOf(req[v], f), fds |-> d.file[f].fds \ {v}]
           e == [d EXCEPT !.file[f] = s]
<1>1. /\ req[v].tpms = {t} /\ t \in req[v].tpms /\ pc[v] = "write"
      /\ f \in File /\ f \in todo[v] /\ ContentOf(req[v], f) \in Value
  BY CurrentFile DEF MoveWrite
<1>2. Owner(v, t) /\ Sound(t) /\ Staged(v, t)
  BY <1>1, OwnerStep DEF ExclusiveInv, Sound
<1>3. Exists(t, "tmp") /\ ~Exists(t, "enrolled") /\ ~Exists(t, "nested")
      /\ t \notin torn /\ v \in d.file[f].fds
  BY <1>1, <1>2 DEF Staged, Moving, Sound
<1>5. d \in Dir
  BY <1>3 DEF Exists, TypeOK, Place
<1>6. /\ d.file[f].fds = {v} /\ d.rm = {}
      /\ \A g \in File \ {f} : d.file[g].fds = {}
  BY <1>1, <1>2, <1>3 DEF Owner, Place
<1>7. s = [val |-> ContentOf(req[v], f), fds |-> {}] /\ s \in FileState
  BY <1>1, <1>6 DEF FileState
<1>8. e \in Dir
  BY <1>1, <1>5, <1>7, SetFileType
<1>9. /\ e.rm = {} /\ e.file[f] = s
      /\ \A g \in File \ {f} : e.file[g] = d.file[g]
  BY <1>1, <1>5, <1>6 DEF Dir
<1>10. /\ db'[t]["tmp"] = e
       /\ db'[t]["enrolled"] = NoDir
       /\ db'[t]["nested"] = NoDir
  BY <1>3 DEF MoveWrite, TypeOK, Place, Exists
<1>4. /\ pc'[v] = (IF todo'[v] = {} THEN "rename" ELSE "pick")
      /\ todo'[v] = todo[v] \ {f} /\ req' = req /\ torn' = torn
  <2>1. ContentOf(req[v], f) # "absent"
    <3>1. f = "profile" => req[v].profile \in Profile
      BY <1>1, EnrollAssumption DEF JobOK, JobOf, AddPC, FilesOf
    <3>2. QED
      BY <1>1, <3>1, EnrollAssumption DEF ContentOf
  <2>2. e # NoDir
    BY <1>8, EnrollAssumption
  <2>3. f \in Present(db'[t]["tmp"])
    <3>1. e.file[f].val = ContentOf(req[v], f)
      BY <1>7, <1>9
    <3> HIDE DEF e
    <3>2. QED
      BY <1>1, <1>10, <2>1, <2>2, <3>1 DEF Present
  <2>4. /\ todo' = [todo EXCEPT ![v] = @ \ {f}]
        /\ pc' = [pc EXCEPT ![v] = IF todo'[v] = {} THEN "rename" ELSE "pick"]
        /\ UNCHANGED <<req, torn>>
    BY <2>3 DEF MoveWrite, Goto
  <2>5. QED
    BY <2>4 DEF TypeOK
<1> HIDE DEF e, s
<1>11. Staged(v, t)'
  <2>1. pc'[v] \in {"rename", "pick"} /\ (pc'[v] = "rename" => todo'[v] = {})
    BY <1>4
  <2>2. \A g \in FilesOf(req[v]) \ todo'[v] : e.file[g].val = ContentOf(req[v], g)
    <3>1. \A g \in FilesOf(req[v]) : g \in File
      BY DEF FilesOf
    <3>2. \A g \in FilesOf(req[v]) \ todo[v] : d.file[g].val = ContentOf(req[v], g)
      BY <1>1, <1>2 DEF Staged, Moving
    <3>3. e.file[f].val = ContentOf(req[v], f)
      BY <1>7, <1>9
    <3> QED
      BY <1>4, <1>9, <3>1, <3>2, <3>3
  <2>3. t \notin killed => \A g \in todo'[v] : e.file[g].val = "absent"
    <3>1. \A g \in todo'[v] : g \in File \ {f} /\ g \in todo[v]
      BY <1>1, <1>4 DEF JobOK, JobOf, AddPC, FilesOf
    <3> QED
      BY <1>1, <1>2, <1>9, <3>1 DEF Staged, Moving
  <2>4. e # NoDir
    BY <1>8, EnrollAssumption
  <2> QED
    BY <1>4, <1>10, <2>1, <2>2, <2>3, <2>4, KilledGrows
       DEF Staged, Moving, Exists, ContentOf, FilesOf
<1>12. /\ \A g \in File : e.file[g].fds = {}
       /\ e.rm = {}
  BY <1>6, <1>7, <1>9
<1>13. \A p \in Place : db'[t][p] # NoDir => db'[t][p] = e
  BY <1>10 DEF Place
<1>14. req'[v].tpms = {t} /\ pc'[v] \in Moving
  BY <1>1, <1>4 DEF Moving
<1>15. QED
  BY <1>2, <1>3, <1>4, <1>10, <1>11, <1>12, <1>13, <1>14, SoundNewTree

\* The content of an add that sends all its files is an enrollment that is whole.
LEMMA SoundRename ==
    ASSUME TypeOK, JobOK, ExclusiveInv, AddProfile \subseteq Profile,
           NEW v \in Worker, Step(v), Record(v), NEW t \in TPM, AddRename(v, t)
    PROVE  /\ Sound(t)'
           /\ db'[t]["enrolled"].file["profile"].val = req[v].profile
<1> DEFINE d == db[t]["tmp"]
<1>1. /\ req[v].tpms = {t} /\ t \in req[v].tpms /\ pc[v] = "rename"
      /\ req[v].profile \in Profile /\ torn' = torn
  BY DEF AddRename, JobOK, JobOf, AddPC
<1>2. Owner(v, t) /\ Sound(t) /\ Staged(v, t)
  BY <1>1, OwnerStep DEF ExclusiveInv, Sound
<1>3. Exists(t, "tmp") /\ ~Exists(t, "enrolled") /\ ~Exists(t, "nested")
      /\ t \notin torn /\ todo[v] = {}
  BY <1>1, <1>2 DEF Staged, Moving, Sound
<1>4. \A f \in File : d.file[f].val = ContentOf(req[v], f)
  BY <1>1, <1>2, <1>3, EnrollAssumption DEF Staged, Moving, FilesOf, Value
<1>5. Whole(d)
  BY <1>1, <1>4 DEF Whole, ContentOf, File
<1>6. db' = [db EXCEPT ![t]["tmp"] = NoDir, ![t]["enrolled"] = d]
  BY <1>3 DEF AddRename
<1>7. /\ db'[t]["tmp"] = NoDir
      /\ db'[t]["enrolled"] = d
      /\ db'[t]["nested"] = NoDir
  BY <1>3, <1>6 DEF TypeOK, Place, Exists
<1>8. /\ \A f \in File : d.file[f].fds = {}
      /\ d.rm = {}
  BY <1>1, <1>2, <1>3 DEF Owner, Place
<1>9. req'[v] = NoRequest
  BY DEF AddRename, Respond, TypeOK
<1>10. \A p \in Place : db'[t][p] # NoDir => db'[t][p] = d
  BY <1>7 DEF Place
<1>11. Sound(t)'
  BY <1>1, <1>2, <1>3, <1>5, <1>7, <1>8, <1>9, <1>10, SoundNewTree
     DEF NoRequest, Exists
<1>12. QED
  BY <1>4, <1>7, <1>11 DEF ContentOf, File

\* Letting go of a directory changes nothing of what it holds.
LEMMA ReleasedContent ==
    ASSUME TypeOK, NEW v \in Worker, NEW t \in TPM, NEW p \in Place,
           Exists(t, p), Owner(v, t)
    PROVE  /\ Released(v)[t][p].rm = {}
           /\ \A f \in File : /\ Released(v)[t][p].file[f].fds = {}
                              /\ Released(v)[t][p].file[f].val
                                    = db[t][p].file[f].val
<1>1. db[t][p] \in Dir
  BY DEF TypeOK, Exists
<1>2. Released(v)[t][p] =
        [file |-> [f \in File |-> [db[t][p].file[f] EXCEPT !.fds = @ \ {v}]],
         rm |-> db[t][p].rm \ {v}]
  BY DEF Released
<1>3. ASSUME NEW f \in File
      PROVE  /\ Released(v)[t][p].file[f].fds = db[t][p].file[f].fds \ {v}
             /\ Released(v)[t][p].file[f].val = db[t][p].file[f].val
  <2>1. db[t][p].file[f] \in FileState
    BY <1>1 DEF Dir
  <2>2. QED
    BY <1>2, <2>1 DEF FileState
<1>4. QED
  BY <1>2, <1>3 DEF Owner

LEMMA SoundCrash ==
    ASSUME TypeOK, JobOK, ExclusiveInv, NEW v \in Worker, Step(v), Record(v),
           NEW t \in TPM, t \in req[v].tpms, Crash(v)
    PROVE  Sound(t)'
<1>1. /\ t \in killed' /\ req'[v] = NoRequest /\ torn' = torn
      /\ db' = Released(v)
  BY DEF Crash, Respond, Record, TypeOK
<1>2. Owner(v, t) /\ Sound(t)
  BY OwnerStep DEF ExclusiveInv
<1>3. \A p \in Place : (db'[t][p] # NoDir <=> Exists(t, p))
  BY <1>1, ReleasedExists, EnrollAssumption
<1>4. \A p \in Place : db'[t][p] # NoDir =>
         /\ db'[t][p].rm = {}
         /\ \A f \in File : /\ db'[t][p].file[f].fds = {}
                            /\ db'[t][p].file[f].val = db[t][p].file[f].val
  BY <1>1, <1>2, <1>3, ReleasedContent
<1>5. t \notin torn' /\ db'[t]["enrolled"] # NoDir => Whole(db'[t]["enrolled"])
  BY <1>1, <1>2, <1>3, <1>4 DEF Whole, Sound, Place, File
<1>6. db'[t]["nested"] = NoDir /\ (t \in torn' => db'[t]["enrolled"] # NoDir)
  BY <1>1, <1>2, <1>3 DEF Sound, Place
<1>7. req'[v].tpms # {t}
  BY <1>1 DEF NoRequest
<1>8. QED
  BY <1>1, <1>2, <1>4, <1>5, <1>6, <1>7, SoundNewTree

\* What a step of a search or a delete has to show of the tree.
LEMMA SoundQdr ==
    ASSUME TypeOK, JobOK, ExclusiveInv, NEW v \in Worker, Step(v), Record(v),
           NEW t \in TPM, t \in req[v].tpms,
           pc[v] \in {"glob", "rmopen", "rm"},
           pc'[v] \in {"idle", "rmopen", "rm"},
           \A p \in Place : db'[t][p] # NoDir =>
              /\ Exists(t, p)
              /\ \A f \in File : db'[t][p].file[f].fds = {}
              /\ db'[t][p].rm \subseteq {v}
              /\ v \in db'[t][p].rm => pc'[v] = "rm" /\ at'[v] = <<p, t>>,
           t \in torn' => db'[t]["enrolled"] # NoDir,
           t \notin torn' /\ db'[t]["enrolled"] # NoDir
              => Whole(db'[t]["enrolled"])
    PROVE  Sound(t)'
<1>1. Owner(v, t) /\ Sound(t)
  BY OwnerStep DEF ExclusiveInv
<1>2. Staged(v, t)'
  BY DEF Staged, Moving
<1>3. db'[t]["nested"] = NoDir
  BY <1>1 DEF Sound, Place
<1>4. db'[t]["tmp"] # NoDir => t \in killed'
  BY NoStagingLeft, KilledGrows DEF Place, Moving
<1>5. QED
  BY <1>1, <1>2, <1>3, <1>4, SoundNewTree

\* A worker that is searching or deleting has no file open.
LEMMA QdrHolds ==
    ASSUME NEW v \in Worker, NEW t \in TPM, Owner(v, t),
           pc[v] \in {"glob", "rmopen", "rm"},
           NEW p \in Place, Exists(t, p)
    PROVE  /\ \A f \in File : db[t][p].file[f].fds = {}
           /\ db[t][p].rm \subseteq {v}
           /\ v \in db[t][p].rm => pc[v] = "rm" /\ at[v] = <<p, t>>
BY DEF Owner

LEMMA SoundSearch ==
    ASSUME TypeOK, JobOK, ExclusiveInv, NEW v \in Worker, Step(v), Record(v),
           NEW t \in TPM, t \in req[v].tpms,
           Glob(v) \/ \E m \in Target : RmGone(v, m)
    PROVE  Sound(t)'
<1>1. /\ pc[v] \in {"glob", "rmopen"} /\ pc'[v] \in {"idle", "rmopen"}
      /\ db' = db /\ torn' = torn
  BY DEF Glob, RmGone, Respond, Goto, TypeOK
<1>2. Owner(v, t) /\ Sound(t)
  BY OwnerStep DEF ExclusiveInv
<1>3. \A p \in Place : db'[t][p] # NoDir =>
         /\ Exists(t, p)
         /\ \A f \in File : db'[t][p].file[f].fds = {}
         /\ db'[t][p].rm \subseteq {v}
         /\ v \in db'[t][p].rm => pc'[v] = "rm" /\ at'[v] = <<p, t>>
  BY <1>1, <1>2, QdrHolds DEF Exists
<1>4. QED
  BY <1>1, <1>2, <1>3, SoundQdr DEF Sound, Exists

LEMMA SoundRmOpen ==
    ASSUME TypeOK, JobOK, ExclusiveInv, NEW v \in Worker, Step(v), Record(v),
           NEW t \in TPM, t \in req[v].tpms, NEW m \in Target, RmOpen(v, m)
    PROVE  Sound(t)'
<1> DEFINE p == m[1]
           u == m[2]
           d == db[u][p]
           e == [d EXCEPT !.rm = @ \cup {v}]
<1>1. /\ pc[v] = "rmopen" /\ pc'[v] = "rm" /\ at'[v] = m /\ torn' = torn
      /\ p \in Place /\ u \in TPM /\ m = <<p, u>> /\ Exists(u, p)
  BY DEF RmOpen, Goto, TypeOK, Target
<1>2. Owner(v, t) /\ Sound(t)
  BY OwnerStep DEF ExclusiveInv
<1>3. d \in Dir
  BY <1>1 DEF Exists, TypeOK
<1>4. db' = [db EXCEPT ![u][p] = e]
  BY DEF RmOpen
<1>5. e.file = d.file /\ e.rm = d.rm \cup {v}
  BY <1>3 DEF Dir
<1>6. ASSUME NEW q \in Place
      PROVE  /\ db'[t][q] = IF t = u /\ q = p THEN e ELSE db[t][q]
             /\ db'[t][q] # NoDir => Exists(t, q)
  <2> HIDE DEF e, p, u
  <2> QED
    BY <1>1, <1>4 DEF TypeOK, Exists
<1> HIDE DEF e
<1>7. e # NoDir
  BY <1>3, EnrollAssumption DEF e, Dir
<1>8. ASSUME NEW q \in Place, db'[t][q] # NoDir
      PROVE  /\ Exists(t, q)
             /\ \A f \in File : db'[t][q].file[f].fds = {}
             /\ db'[t][q].rm \subseteq {v}
             /\ v \in db'[t][q].rm => pc'[v] = "rm" /\ at'[v] = <<q, t>>
  BY <1>1, <1>2, <1>5, <1>6, <1>8, QdrHolds
<1>9. \A q \in {"enrolled"} :
         /\ db'[t][q] # NoDir <=> Exists(t, q)
         /\ Exists(t, q) => db'[t][q].file = db[t][q].file
  BY <1>1, <1>5, <1>6, <1>7 DEF Exists, Place
<1>10. /\ t \in torn' => db'[t]["enrolled"] # NoDir
       /\ t \notin torn' /\ db'[t]["enrolled"] # NoDir
             => Whole(db'[t]["enrolled"])
  BY <1>1, <1>2, <1>9 DEF Sound, Whole
<1>11. QED
  BY <1>1, <1>8, <1>10, SoundQdr

LEMMA SoundRmUnlink ==
    ASSUME TypeOK, JobOK, ExclusiveInv, NEW v \in Worker, Step(v), Record(v),
           NEW t \in TPM, t \in req[v].tpms, NEW e \in File \cup {"nested"},
           RmUnlink(v, e)
    PROVE  Sound(t)'
<1> DEFINE here(q) == Exists(t, q) /\ v \in db[t][q].rm
<1>1. pc[v] = "rm" /\ pc' = pc /\ at' = at
  BY DEF RmUnlink
<1>2. Owner(v, t) /\ Sound(t)
  BY OwnerStep DEF ExclusiveInv
<1>3. ~Exists(t, "nested")
  BY <1>2 DEF Sound
<1>4. \A q \in Place :
         db'[t][q] = IF e = "nested" /\ q = "nested" /\ here("enrolled")
                     THEN NoDir
                     ELSE IF e # "nested" /\ here(q)
                     THEN [db[t][q] EXCEPT !.file[e] = NoFile]
                     ELSE db[t][q]
  BY DEF RmUnlink
<1>5. ASSUME NEW q \in Place, e # "nested", here(q)
      PROVE  /\ db'[t][q].rm = db[t][q].rm
             /\ \A f \in File : \/ db'[t][q].file[f] = db[t][q].file[f]
                                \/ db'[t][q].file[f] = NoFile
  <2>1. db[t][q] \in Dir /\ e \in File
    BY <1>5 DEF TypeOK, Exists
  <2>2. db'[t][q] = [db[t][q] EXCEPT !.file[e] = NoFile]
    BY <1>4, <1>5
  <2>3. QED
    BY <2>1, <2>2 DEF Dir
<1>6. ASSUME NEW q \in Place, ~(e # "nested" /\ here(q))
      PROVE  db'[t][q] = db[t][q]
  BY <1>3, <1>4, <1>6 DEF Exists
<1>7. ASSUME NEW q \in Place, db'[t][q] # NoDir
      PROVE  /\ Exists(t, q)
             /\ \A f \in File : db'[t][q].file[f].fds = {}
             /\ db'[t][q].rm \subseteq {v}
             /\ v \in db'[t][q].rm => pc'[v] = "rm" /\ at'[v] = <<q, t>>
  <2>1. CASE e # "nested" /\ here(q)
    BY <1>1, <1>2, <1>5, <2>1, QdrHolds DEF NoFile
  <2>2. CASE ~(e # "nested" /\ here(q))
    BY <1>1, <1>2, <1>6, <1>7, <2>2, QdrHolds DEF Exists
  <2>3. QED
    BY <2>1, <2>2
<1>8. t \in torn' <=> t \in torn \/ here("enrolled")
  BY DEF RmUnlink
<1>9. Exists(t, "enrolled") <=> db'[t]["enrolled"] # NoDir
  BY UnlinkKeeps
<1>10. t \in torn' => db'[t]["enrolled"] # NoDir
  BY <1>2, <1>8, <1>9 DEF Sound
<1>11. t \notin torn' /\ db'[t]["enrolled"] # NoDir
         => Whole(db'[t]["enrolled"])
  BY <1>2, <1>6, <1>8, <1>9 DEF Sound, Place
<1>12. QED
  BY <1>1, <1>7, <1>10, <1>11, SoundQdr

LEMMA SoundRmDir ==
    ASSUME TypeOK, JobOK, ExclusiveInv, NEW v \in Worker, Step(v), Record(v),
           NEW t \in TPM, t \in req[v].tpms, RmDir(v)
    PROVE  Sound(t)'
<1> DEFINE c == Released(v)
           p == at[v][1]
           u == at[v][2]
<1>1. pc[v] = "rm" /\ pc'[v] \in {"idle", "rmopen"}
  BY DEF RmDir, Respond, Goto, TypeOK
<1>2. Owner(v, t) /\ Sound(t) /\ p \in Place /\ u \in TPM
  BY <1>1, OwnerStep, CurrentTarget DEF ExclusiveInv
<1>3. \/ db' = c /\ torn' = torn
      \/ /\ db' = [c EXCEPT ![u][p] = NoDir]
         /\ torn' = IF p = "enrolled" THEN torn \ {u} ELSE torn
  BY DEF RmDir
<1>4. /\ c \in [TPM -> [Place -> Dir \cup {NoDir}]]
      /\ \A q \in Place : c[t][q] # NoDir <=> Exists(t, q)
  BY ReleasedType, ReleasedExists, EnrollAssumption
<1>5. \A q \in Place : Exists(t, q) =>
         /\ c[t][q].rm = {}
         /\ \A f \in File : /\ c[t][q].file[f].fds = {}
                            /\ c[t][q].file[f].val = db[t][q].file[f].val
  BY <1>2, ReleasedContent
<1> HIDE DEF c, p, u
<1>6. ASSUME NEW q \in Place
      PROVE  \/ db'[t][q] = c[t][q]
             \/ db'[t][q] = NoDir /\ t = u /\ q = p
  BY <1>2, <1>3, <1>4
<1>7. ASSUME NEW q \in Place, db'[t][q] # NoDir
      PROVE  /\ Exists(t, q)
             /\ \A f \in File : db'[t][q].file[f].fds = {}
             /\ db'[t][q].rm \subseteq {v}
             /\ v \in db'[t][q].rm => pc'[v] = "rm" /\ at'[v] = <<q, t>>
  BY <1>4, <1>5, <1>6, <1>7
<1>8. t \in torn' => t \in torn /\ db'[t]["enrolled"] # NoDir
  BY <1>2, <1>3, <1>4 DEF Sound, Place
<1>9. ASSUME t \notin torn', db'[t]["enrolled"] # NoDir
      PROVE  Whole(db'[t]["enrolled"])
  <2>1. t \notin torn /\ Exists(t, "enrolled") /\ db'[t]["enrolled"] = c[t]["enrolled"]
    BY <1>2, <1>3, <1>4, <1>6, <1>9 DEF Place
  <2>2. Whole(db[t]["enrolled"])
    BY <1>2, <2>1 DEF Sound
  <2>3. QED
    BY <1>5, <2>1, <2>2 DEF Whole, Place, File
<1>10. QED
  BY <1>1, <1>7, <1>8, <1>9, SoundQdr

-----------------------------------------------------------------------------
(* The step, and the theorems *)

LEMMA DeletesOwnStep ==
    ASSUME TypeOK, JobOK, NEW v \in Worker, DeletesOwn(v), Step(v)
    PROVE  DeletesOwn(v)'
<1> USE DEF TypeOK, Goto, DeletesOwn
<1>1. ASSUME NEW code, NEW es, Respond(v, code, es)
      PROVE  DeletesOwn(v)'
  BY <1>1 DEF Respond
<1>2. CASE Start(v)
  <2>1. JobOf(v)
    BY DEF JobOK
  <2>2. pc[v] = "idle" => targets[v] = {}
    BY <2>1 DEF JobOf, NoRequest
  <2>3. ASSUME NEW t \in TPM, NEW p \in AddProfile, AddStart(v, t, p)
        PROVE  DeletesOwn(v)'
    BY <2>2, <2>3 DEF AddStart, Accept
  <2>4. ASSUME NEW op, NEW S, NEW b, QdrStart(v, op, S, b)
        PROVE  DeletesOwn(v)'
    BY <2>2, <2>4 DEF QdrStart, Accept
  <2>5. QED
    BY <1>1, <1>2, <2>3, <2>4 DEF Start, BadRequest, Janitor
<1>3. CASE Crash(v)
  BY <1>1, <1>3 DEF Crash
<1>4. ASSUME NEW t \in TPM, Add(v, t)
      PROVE  DeletesOwn(v)'
  <2>1. CASE AddCheck(v, t)
    BY <1>1, <2>1 DEF AddCheck
  <2>2. ASSUME NEW f \in File, MoveCheck(v, t, f)
        PROVE  DeletesOwn(v)'
    BY <1>1, <2>2 DEF MoveCheck
  <2>3. CASE MoveOpen(v, t)
    BY <1>1, <2>3 DEF MoveOpen
  <2>4. CASE AddMkdir(v, t) \/ MoveWrite(v, t)
    BY <1>1, <2>4 DEF AddMkdir, MoveWrite
  <2>5. CASE AddRename(v, t)
    BY <1>1, <2>5 DEF AddRename
  <2>6. QED
    BY <1>4, <2>1, <2>2, <2>3, <2>4, <2>5 DEF Add
<1>5. CASE Glob(v)
  <2>1. \A m \in Matches(req[v]) :
           m[1] \in {"tmp", "enrolled"} /\ m[2] \in req[v].tpms
    BY DEF Matches
  <2>2. QED
    BY <1>1, <1>5, <2>1 DEF Glob
<1>6. CASE RmDir(v)
  BY <1>1, <1>6 DEF RmDir
<1>7. ASSUME NEW m \in Target, RmOpen(v, m)
      PROVE  DeletesOwn(v)'
  BY <1>7 DEF RmOpen
<1>8. ASSUME NEW m \in Target, RmGone(v, m)
      PROVE  DeletesOwn(v)'
  BY <1>1, <1>8 DEF RmGone
<1>9. ASSUME NEW e \in File \cup {"nested"}, RmUnlink(v, e)
      PROVE  DeletesOwn(v)'
  BY <1>9 DEF RmUnlink
<1>10. QED
  BY <1>2, <1>3, <1>4, <1>5, <1>6, <1>7, <1>8, <1>9 DEF Step, Qdr

LEMMA SoundStep ==
    ASSUME TypeOK, JobOK, ExclusiveInv, AddProfile \subseteq Profile,
           NEW v \in Worker, Step(v), Record(v), NEW t \in TPM
    PROVE  Sound(t)'
<1>1. CASE t \notin req[v].tpms
  BY <1>1, SoundOther
<1>2. CASE t \in req[v].tpms
  <2>1. ~Start(v)
    BY <1>2 DEF JobOK, JobOf, NoRequest, Start, AddStart, QdrStart, Accept,
                BadRequest, Janitor
  <2>2. ASSUME NEW u \in TPM, Add(v, u)
        PROVE  Sound(t)'
    <3>1. t = u
      BY <1>2, <2>2 DEF Add, AddCheck, AddMkdir, MoveCheck, MoveOpen, MoveWrite,
                        AddRename
    <3>2. QED
      BY <2>2, <3>1, SoundCheck, SoundMkdir, SoundMoveCheck, SoundMoveOpen,
         SoundMoveWrite, SoundRename DEF Add
  <2>3. ASSUME Qdr(v)
        PROVE  Sound(t)'
    BY <1>2, <2>3, SoundSearch, SoundRmOpen, SoundRmUnlink, SoundRmDir DEF Qdr
  <2>4. QED
    BY <1>2, <2>1, <2>2, <2>3, SoundCrash DEF Step
<1>3. QED
  BY <1>1, <1>2

LEMMA ExclusiveInvStep ==
    ASSUME TypeOK, JobOK, ExclusiveInv, AddProfile \subseteq Profile,
           [Next /\ Exclusive']_vars
    PROVE  ExclusiveInv'
<1>1. CASE Next /\ Exclusive'
  <2>1. PICK v \in Worker : Step(v) /\ Record(v)
    BY <1>1 DEF Next
  <2>2. ASSUME NEW w \in Worker
        PROVE  DeletesOwn(w)'
    <3>1. CASE w = v
      BY <2>1, <3>1, DeletesOwnStep DEF ExclusiveInv
    <3>2. CASE w # v
      BY <2>1, <3>2, OthersKeep DEF ExclusiveInv, DeletesOwn
    <3>3. QED
      BY <3>1, <3>2
  <2>3. QED
    BY <1>1, <2>1, <2>2, SoundStep DEF ExclusiveInv
<1>2. CASE UNCHANGED vars
  BY <1>2 DEF vars, ExclusiveInv, Exclusive, DeletesOwn, Sound, HandlesHeld,
              Staged, Exists, Whole
<1>3. QED
  BY <1>1, <1>2

LEMMA ExclusiveInvInit == Init => ExclusiveInv
<1> SUFFICES ASSUME Init PROVE ExclusiveInv
  OBVIOUS
<1>1. /\ \A w \in Worker : /\ pc[w] = "idle" /\ targets[w] = {}
                           /\ req[w].tpms = {}
      /\ \A t \in TPM, p \in Place : ~Exists(t, p)
      /\ torn = {}
  BY DEF Init, NoRequest, Exists
<1>2. Exclusive /\ \A w \in Worker : DeletesOwn(w)
  BY <1>1 DEF Exclusive, DeletesOwn
<1>3. ASSUME NEW t \in TPM
      PROVE  Sound(t)
  BY <1>1 DEF Sound, HandlesHeld, Place
<1>4. QED
  BY <1>2, <1>3 DEF ExclusiveInv

\* With one request at a time for each TPM, and all of them sending a profile,
\* what holds of the directories of each TPM is inductive: handles belong to the
\* request that is served, and a staging directory is filled by one add.
THEOREM ExclusiveCorrect ==
    ASSUME AddProfile \subseteq Profile
    PROVE  ExclusiveSpec => [](TypeOK /\ JobOK /\ ExclusiveInv)
<1>1. Init => TypeOK /\ JobOK /\ ExclusiveInv
  BY InitTypeOK, ExclusiveInvInit
<1>2. TypeOK /\ JobOK /\ ExclusiveInv /\ [Next /\ Exclusive']_vars
        => (TypeOK /\ JobOK /\ ExclusiveInv)'
  <2> SUFFICES ASSUME TypeOK, JobOK, ExclusiveInv, [Next /\ Exclusive']_vars
               PROVE  (TypeOK /\ JobOK /\ ExclusiveInv)'
    OBVIOUS
  <2>1. TypeOK' /\ JobOK'
    <3>1. CASE Next
      BY <3>1, StepType, JobStep DEF Next
    <3>2. CASE UNCHANGED vars
      BY <3>2 DEF vars, TypeOK, JobOK, JobOf, FilesOf
    <3>3. QED
      BY <3>1, <3>2
  <2>2. ExclusiveInv'
    BY ExclusiveInvStep
  <2>3. QED
    BY <2>1, <2>2
<1>3. QED
  BY <1>1, <1>2, PTL DEF ExclusiveSpec

\* An enrollment is whole unless a delete has begun to empty it: the point of
\* filling a staging directory and renaming it.
THEOREM EnrolledIsWhole ==
    ASSUME AddProfile \subseteq Profile
    PROVE  ExclusiveSpec => []EnrolledWhole
<1>1. ExclusiveInv => EnrolledWhole
  BY DEF ExclusiveInv, Sound, EnrolledWhole
<1>2. QED
  BY <1>1, ExclusiveCorrect, PTL

\* A staging directory nobody works on is what a killed worker left.
THEOREM StagingIsUsed ==
    ASSUME AddProfile \subseteq Profile
    PROVE  ExclusiveSpec => []StagedOnlyByKilled
<1>1. ExclusiveInv => StagedOnlyByKilled
  BY DEF ExclusiveInv, Sound, StagedOnlyByKilled
<1>2. QED
  BY <1>1, ExclusiveCorrect, PTL

-----------------------------------------------------------------------------
(* What requests leave *)

\* A staging directory comes from a mkdir, an enrollment from a mv, and each for
\* the TPM of the request.
LEMMA PlaceAppears ==
    ASSUME TypeOK, JobOK, ExclusiveInv, NEW v \in Worker, Step(v),
           NEW t \in TPM, NEW p \in {"tmp", "enrolled"},
           ~Exists(t, p), db'[t][p] # NoDir
    PROVE  \/ p = "tmp" /\ AddMkdir(v, t)
           \/ p = "enrolled" /\ AddRename(v, t)
<1>1. p \in Place /\ db[t][p] = NoDir
  BY DEF Place, Exists
<1>2. ~(Start(v) \/ Glob(v) \/ \E m \in Target : RmGone(v, m))
  BY <1>1 DEF Start, AddStart, QdrStart, BadRequest, Janitor, Accept, Glob, RmGone
<1>3. ~Crash(v)
  BY <1>1, ReleasedExists DEF Crash, Exists
<1>4. ~RmDir(v)
  <2> DEFINE c == Released(v)
  <2>1. c[t][p] = NoDir /\ c \in [TPM -> [Place -> Dir \cup {NoDir}]]
    BY <1>1, ReleasedExists, ReleasedType DEF Exists
  <2>2. RmDir(v) => \/ db' = c
                    \/ \E u \in TPM, q \in Place : db' = [c EXCEPT ![u][q] = NoDir]
    BY CurrentTarget DEF RmDir
  <2> HIDE DEF c
  <2>3. QED
    BY <1>1, <2>1, <2>2
<1>5. ASSUME NEW m \in Target, RmOpen(v, m)
      PROVE  FALSE
  BY <1>1, <1>5 DEF RmOpen, Target, TypeOK, Exists
<1>6. ASSUME NEW e \in File \cup {"nested"}, RmUnlink(v, e)
      PROVE  FALSE
  BY <1>1, <1>6, UnlinkKeeps
<1>7. PICK u \in TPM : Add(v, u)
  BY <1>2, <1>3, <1>4, <1>5, <1>6 DEF Step, Qdr
<1>8. u = t
  <2>1. req[v].tpms = {u}
    BY <1>7 DEF Add, AddCheck, AddMkdir, MoveCheck, MoveOpen, MoveWrite, AddRename
  <2>2. t \in req[v].tpms
    BY <1>1, Frame DEF ExclusiveInv, Sound
  <2>3. QED
    BY <2>1, <2>2
<1>9. ~AddCheck(v, t) /\ ~MoveWrite(v, t) /\ ~(\E f \in File : MoveCheck(v, t, f))
  <2>1. AddCheck(v, t) \/ (\E f \in File : MoveCheck(v, t, f)) => db' = db
    BY DEF AddCheck, MoveCheck
  <2>2. MoveWrite(v, t) => db'[t][p] = db[t][p]
    BY <1>1 DEF MoveWrite, TypeOK, Exists
  <2>3. QED
    BY <1>1, <2>1, <2>2
<1>10. ~MoveOpen(v, t)
  BY <1>1 DEF MoveOpen, TypeOK, Place, Exists
<1>11. AddMkdir(v, t) => p = "tmp"
  BY <1>1 DEF AddMkdir, TypeOK, Place
<1>12. AddRename(v, t) => p = "enrolled"
  BY <1>1 DEF AddRename, TypeOK, Place, Exists
<1>13. QED
  BY <1>7, <1>8, <1>9, <1>10, <1>11, <1>12 DEF Add

\* An enrollment appears only in the step that answers 201, with the profile
\* that the request carried, never one that a killed add had left staged.
THEOREM InstallsWhatWasAsked ==
    ASSUME AddProfile \subseteq Profile
    PROVE  ExclusiveSpec => InstalledAsRequested
<1> DEFINE Inv == TypeOK /\ JobOK /\ ExclusiveInv
           Installed(t) ==
             \E w \in Worker :
                /\ req[w].tpms = {t} /\ Answers(w, "add", "201")
                /\ db'[t]["enrolled"].file["profile"].val = req[w].profile
<1>1. ASSUME Inv, Next, NEW t \in TPM,
             ~Exists(t, "enrolled"), db'[t]["enrolled"] # NoDir
      PROVE  Installed(t)
  <2>1. PICK v \in Worker : Step(v) /\ Record(v)
    BY <1>1 DEF Next
  <2>2. AddRename(v, t)
    BY <1>1, <2>1, PlaceAppears
  <2>3. req[v].tpms = {t} /\ Answers(v, "add", "201")
    BY <1>1, <2>2 DEF AddRename, Respond, Answers, TypeOK, JobOK, JobOf, AddPC
  <2>4. db'[t]["enrolled"].file["profile"].val = req[v].profile
    BY <1>1, <2>1, <2>2, SoundRename
  <2>5. QED
    BY <2>3, <2>4
<1>2. Inv /\ [Next /\ Exclusive']_vars =>
        [\A t \in TPM : ~Exists(t, "enrolled") /\ db'[t]["enrolled"] # NoDir
            => Installed(t)]_vars
  BY <1>1
<1>3. ExclusiveSpec => []Inv
  BY ExclusiveCorrect
<1>4. QED
  BY <1>2, <1>3, PTL DEF ExclusiveSpec, InstalledAsRequested

\* What a delete is asked to remove: the enrollment, and by prefix also the
\* staging directory.
Doomed(w) ==
    {m \in {"enrolled", "tmp"} \X TPM :
        m[2] \in req[w].tpms /\ (m[1] = "enrolled" \/ req[w].prefix)}

\* A delete has all of it that exists still before it.
BeforeIt(w) ==
    req[w].op = "delete" /\ pc[w] \in {"rmopen", "rm"} =>
        \A m \in Doomed(w) :
            Exists(m[2], m[1]) => m \in targets[w] \/ (pc[w] = "rm" /\ at[w] = m)

\* Nothing of it comes back while the delete works.
LEMMA NothingComesBack ==
    ASSUME TypeOK, JobOK, ExclusiveInv, NEW v \in Worker, Step(v),
           NEW w \in Worker, pc[w] \in {"glob", "rmopen", "rm"},
           NEW m \in Doomed(w), db'[m[2]][m[1]] # NoDir
    PROVE  Exists(m[2], m[1])
<1>1. m[2] \in TPM /\ m[1] \in {"tmp", "enrolled"} /\ m[2] \in req[w].tpms
  BY DEF Doomed
<1>2. SUFFICES ASSUME ~Exists(m[2], m[1])
               PROVE  FALSE
  OBVIOUS
<1>3. AddMkdir(v, m[2]) \/ AddRename(v, m[2])
  BY <1>1, <1>2, PlaceAppears
<1>4. m[2] \in req[v].tpms /\ pc[v] \in {"mkdir", "rename"}
  BY <1>3 DEF AddMkdir, AddRename
<1>5. QED
  BY <1>1, <1>4 DEF ExclusiveInv, Exclusive

LEMMA BeforeItStep ==
    ASSUME TypeOK, JobOK, ExclusiveInv, NEW v \in Worker, Step(v),
           NEW w \in Worker, BeforeIt(w)
    PROVE  BeforeIt(w)'
<1> USE DEF TypeOK
<1> SUFFICES ASSUME req'[w].op = "delete", pc'[w] \in {"rmopen", "rm"},
                    NEW m \in Doomed(w)', db'[m[2]][m[1]] # NoDir
             PROVE  m \in targets'[w] \/ (pc'[w] = "rm" /\ at'[w] = m)
  BY DEF BeforeIt, Exists
<1>1. CASE w # v
  <2>1. /\ pc'[w] = pc[w] /\ req'[w] = req[w]
        /\ at'[w] = at[w] /\ targets'[w] = targets[w]
    BY <1>1, OthersKeep
  <2>2. m \in Doomed(w)
    BY <2>1 DEF Doomed
  <2>3. Exists(m[2], m[1])
    BY <2>1, <2>2, NothingComesBack
  <2>4. QED
    BY <2>1, <2>2, <2>3 DEF BeforeIt
<1>2. CASE w = v
  <2>1. Glob(v) \/ RmDir(v) \/ (\E n \in Target : RmOpen(v, n) \/ RmGone(v, n))
        \/ \E e \in File \cup {"nested"} : RmUnlink(v, e)
    <3>1. ~Start(v) /\ ~Crash(v)
      BY <1>2 DEF Start, AddStart, QdrStart, BadRequest, Janitor, Accept, Crash,
                  Respond, Goto
    <3>2. ASSUME NEW u \in TPM, Add(v, u)
          PROVE  FALSE
      BY <1>2, <3>2 DEF Add, AddCheck, AddMkdir, MoveCheck, MoveOpen, MoveWrite,
                        AddRename, Respond, Goto
    <3>3. QED
      BY <3>1, <3>2 DEF Step, Qdr
  <2>2. req'[v] = req[v] /\ pc[v] \in {"glob", "rmopen", "rm"}
    BY <1>2, <2>1 DEF Glob, RmDir, RmOpen, RmGone, RmUnlink, Respond, Goto
  <2>3. m \in Doomed(v)
    BY <1>2, <2>2 DEF Doomed
  <2>4. Exists(m[2], m[1]) /\ m \in Target /\ m = <<m[1], m[2]>>
    <3>1. Exists(m[2], m[1])
      BY <1>2, <2>2, <2>3, NothingComesBack
    <3>2. m \in Target /\ m = <<m[1], m[2]>>
      BY <2>3 DEF Doomed, Target, Place
    <3>3. QED
      BY <3>1, <3>2
  <2>5. CASE Glob(v)
    <3>1. m \in Matches(req[v])
      BY <2>3, <2>4 DEF Doomed, Matches
    <3>2. QED
      BY <1>2, <2>5, <3>1 DEF Glob, Respond
  <2>6. ASSUME NEW n \in Target, RmOpen(v, n)
        PROVE  m \in targets'[v] \/ (pc'[v] = "rm" /\ at'[v] = m)
    BY <1>2, <2>2, <2>3, <2>4, <2>6 DEF RmOpen, Goto, BeforeIt
  <2>7. ASSUME NEW n \in Target, RmGone(v, n)
        PROVE  m \in targets'[v]
    BY <1>2, <2>2, <2>3, <2>4, <2>7 DEF RmGone, Respond, BeforeIt
  <2>8. ASSUME NEW e \in File \cup {"nested"}, RmUnlink(v, e)
        PROVE  m \in targets'[v] \/ (pc'[v] = "rm" /\ at'[v] = m)
    BY <1>2, <2>2, <2>3, <2>4, <2>8 DEF RmUnlink, BeforeIt
  <2>9. CASE RmDir(v)
    <3>1. at[v] # m
      <4>1. SUFFICES ASSUME at[v] = m PROVE FALSE
        OBVIOUS
      <4>2. db' = [Released(v) EXCEPT ![m[2]][m[1]] = NoDir]
        BY <1>2, <2>9, <4>1 DEF RmDir, Respond
      <4>3. m[2] \in TPM /\ m[1] \in Place
        BY <2>4 DEF Target
      <4>4. QED
        BY <4>2, <4>3, ReleasedType
    <3>2. m \in targets[v] /\ targets' = targets
      BY <1>2, <2>2, <2>3, <2>4, <2>9, <3>1 DEF RmDir, Respond, BeforeIt
    <3>3. QED
      BY <1>2, <3>2
  <2>10. QED
    BY <1>2, <2>1, <2>5, <2>6, <2>7, <2>8, <2>9
<1>3. QED
  BY <1>1, <1>2

\* The two ways in which a delete comes to answer 200.
LEMMA LastOfDelete ==
    ASSUME TypeOK, JobOK, NEW v \in Worker, Step(v), Answers(v, "delete", "200")
    PROVE  \/ RmDir(v) /\ targets[v] = {} /\ (Exists(at[v][2], at[v][1]) =>
                              db' = [Released(v) EXCEPT ![at[v][2]][at[v][1]] = NoDir])
           \/ \E m \in Target : RmGone(v, m) /\ targets[v] = {m}
<1> USE DEF TypeOK, Answers, Goto
<1>1. ~Start(v) /\ ~Crash(v)
  BY DEF Start, AddStart, QdrStart, BadRequest, Janitor, Accept, Crash, Respond
<1>2. ASSUME NEW u \in TPM, Add(v, u)
      PROVE  FALSE
  <2>1. pc[v] \in AddPC
    BY <1>2 DEF Add, AddCheck, AddMkdir, MoveCheck, MoveOpen, MoveWrite, AddRename,
                AddPC
  <2>2. QED
    BY <2>1 DEF JobOK, JobOf
<1>3. ~Glob(v)
  BY DEF Glob, Respond
<1>4. ASSUME NEW m \in Target, RmOpen(v, m)
      PROVE  FALSE
  BY <1>4 DEF RmOpen
<1>5. ASSUME NEW e \in File \cup {"nested"}, RmUnlink(v, e)
      PROVE  FALSE
  BY <1>5 DEF RmUnlink
<1>6. ASSUME NEW m \in Target, RmGone(v, m)
      PROVE  targets[v] = {m}
  BY <1>6 DEF RmGone
<1>7. CASE RmDir(v)
  <2>1. ~Respond(v, "500", {})
    BY DEF Respond
  <2>2. targets[v] = {}
    BY <1>7, <2>1 DEF RmDir
  <2>3. QED
    BY <1>7, <2>1, <2>2 DEF RmDir
<1>8. QED
  BY <1>1, <1>2, <1>3, <1>4, <1>5, <1>6, <1>7 DEF Step, Qdr

\* A delete that answers 200 leaves nothing of what it was asked to remove.
THEOREM DeletesForGood ==
    ASSUME AddProfile \subseteq Profile
    PROVE  ExclusiveSpec => DeletedIsGone
<1> DEFINE Inv == TypeOK /\ JobOK /\ ExclusiveInv
           Before == \A w \in Worker : BeforeIt(w)
           Gone(w) == \A t \in req[w].tpms :
                          /\ db'[t]["enrolled"] = NoDir
                          /\ req[w].prefix => db'[t]["tmp"] = NoDir
<1>1. Init => Before
  BY DEF Init, BeforeIt, NoRequest
<1>2. Inv /\ Before /\ [Next /\ Exclusive']_vars => Before'
  <2>1. Inv /\ Before /\ Next => Before'
    BY BeforeItStep DEF Next
  <2>2. Before /\ UNCHANGED vars => Before'
    BY DEF vars, BeforeIt, Doomed, Exists
  <2>3. QED
    BY <2>1, <2>2
<1>3. ASSUME Inv, Before, Next, NEW w \in Worker, Answers(w, "delete", "200")
      PROVE  Gone(w)
  <2>1. PICK v \in Worker : Step(v)
    BY <1>3 DEF Next
  <2>2. w = v
    BY <1>3, <2>1, OthersKeep DEF Answers
  <2>3. ASSUME NEW m \in Doomed(w), db'[m[2]][m[1]] # NoDir
        PROVE  FALSE
    <3>1. pc[w] \in {"rmopen", "rm"}
      BY <1>3, <2>1, <2>2, LastOfDelete DEF RmDir, RmGone
    <3>2. m = <<m[1], m[2]>> /\ m[1] \in Place /\ m[2] \in TPM
      BY <2>3 DEF Doomed, Place
    <3>3. Exists(m[2], m[1])
      BY <1>3, <2>1, <2>3, <3>1, NothingComesBack
    <3>4. m \in targets[w] \/ (pc[w] = "rm" /\ at[w] = m)
      BY <1>3, <2>3, <3>1, <3>3 DEF BeforeIt, Answers
    <3>5. CASE RmDir(v) /\ targets[v] = {}
      <4>1. at[v] = m
        BY <2>2, <3>4, <3>5
      <4>2. db' = [Released(v) EXCEPT ![m[2]][m[1]] = NoDir]
        BY <1>3, <2>1, <2>2, <3>3, <3>5, <4>1, LastOfDelete DEF RmDir, RmGone
      <4>3. QED
        BY <1>3, <2>3, <3>2, <4>2, ReleasedType
    <3>6. CASE \E n \in Target : RmGone(v, n) /\ targets[v] = {n}
      BY <2>2, <3>3, <3>4, <3>6 DEF RmGone
    <3>7. QED
      BY <1>3, <2>1, <2>2, <3>5, <3>6, LastOfDelete
  <2>4. ASSUME NEW t \in req[w].tpms
        PROVE  /\ db'[t]["enrolled"] = NoDir
               /\ req[w].prefix => db'[t]["tmp"] = NoDir
    <3>1. t \in TPM
      BY <1>3 DEF TypeOK, Request
    <3>2. <<"enrolled", t>> \in Doomed(w)
          /\ (req[w].prefix => <<"tmp", t>> \in Doomed(w))
      BY <3>1 DEF Doomed
    <3>3. QED
      BY <2>3, <3>2
  <2>5. QED
    BY <2>4
<1>4. Inv /\ Before /\ [Next /\ Exclusive']_vars =>
        [\A w \in Worker : Answers(w, "delete", "200") => Gone(w)]_vars
  BY <1>3
<1>5. ExclusiveSpec => []Inv
  BY ExclusiveCorrect
<1>6. QED
  BY <1>1, <1>2, <1>4, <1>5, PTL DEF ExclusiveSpec, DeletedIsGone

=============================================================================
