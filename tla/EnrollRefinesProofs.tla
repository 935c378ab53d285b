------------------------ MODULE EnrollRefinesProofs -------------------------
(***************************************************************************)
(* The directory tree implements the map of EnrollSpec: a step of a worker  *)
(* changes the entry of one TPM at most, and only the 'mv' of an add, the   *)
(* first unlink of a delete, and the removal of what that left, change one. *)
(***************************************************************************)
EXTENDS EnrollRefines, EnrollDBProofs

\* What the map sees of a TPM's directory.
SameEntry(t) ==
    /\ Exists(t, "enrolled")' <=> Exists(t, "enrolled")
    /\ t \in torn' <=> t \in torn
    /\ Exists(t, "enrolled") =>
          db'[t]["enrolled"].file["profile"].val = db[t]["enrolled"].file["profile"].val

LEMMA SameEntryKeeps ==
    ASSUME NEW t \in TPM, SameEntry(t)
    PROVE  enrolled'[t] = enrolled[t]
BY DEF SameEntry, enrolled

LEMMA SameDirectory ==
    ASSUME NEW t \in TPM, db'[t]["enrolled"] = db[t]["enrolled"],
           t \in torn' <=> t \in torn
    PROVE  SameEntry(t)
BY DEF SameEntry, Exists

LEMMA SameMap ==
    ASSUME \A t \in TPM : SameEntry(t)
    PROVE  enrolled' = enrolled
<1>1. \A t \in TPM : enrolled'[t] = enrolled[t]
  BY SameEntryKeeps
<1>2. QED
  BY <1>1 DEF enrolled

\* A step that changes the entry of one TPM at most, to what it takes a delete
\* or an add for.
LEMMA OneEntry ==
    ASSUME NEW u \in TPM, \A t \in TPM : t # u => SameEntry(t),
           \/ SameEntry(u)
           \/ enrolled'[u] = Unenrolled
           \/ enrolled[u] = Unenrolled /\ enrolled'[u] \in Profile
    PROVE  [Abstract!Next]_enrolled
<1>1. \A t \in TPM : t # u => enrolled'[t] = enrolled[t]
  BY SameEntryKeeps
<1>2. enrolled' = [enrolled EXCEPT ![u] = enrolled'[u]]
  <2> DEFINE m == [enrolled EXCEPT ![u] = enrolled'[u]]
  <2>1. DOMAIN enrolled' = TPM /\ DOMAIN m = TPM /\ DOMAIN enrolled = TPM
    BY DEF enrolled
  <2>2. \A t \in TPM : enrolled'[t] = m[t]
    BY <1>1, <2>1
  <2>3. enrolled' = [t \in TPM |-> enrolled'[t]] /\ m = [t \in TPM |-> m[t]]
    BY DEF enrolled
  <2>4. QED
    BY <2>2, <2>3
<1>3. CASE SameEntry(u)
  BY <1>3, SameMap
<1>4. CASE enrolled'[u] = Unenrolled
  BY <1>2, <1>4 DEF Abstract!Next, Abstract!Unenroll
<1>5. CASE enrolled[u] = Unenrolled /\ enrolled'[u] \in Profile
  BY <1>2, <1>5 DEF Abstract!Next, Abstract!Enroll
<1>6. QED
  BY <1>3, <1>4, <1>5

-----------------------------------------------------------------------------

LEMMA ReleasedKeeps ==
    ASSUME TypeOK, NEW v \in Worker, NEW t \in TPM,
           db'[t]["enrolled"] = Released(v)[t]["enrolled"],
           t \in torn' <=> t \in torn
    PROVE  SameEntry(t)
<1>1. "enrolled" \in Place /\ "profile" \in File
  BY DEF Place, File
<1>2. Exists(t, "enrolled")' <=> Exists(t, "enrolled")
  BY <1>1, ReleasedExists, EnrollAssumption DEF Exists
<1>3. ASSUME Exists(t, "enrolled")
      PROVE  db'[t]["enrolled"].file["profile"].val = db[t]["enrolled"].file["profile"].val
  <2> DEFINE d == db[t]["enrolled"]
  <2>1. d.file["profile"] \in FileState
    <3>1. d \in Dir
      BY <1>1, <1>3 DEF TypeOK, Exists
    <3>2. QED
      BY <1>1, <3>1 DEF Dir
  <2>2. db'[t]["enrolled"] =
          [file |-> [f \in File |-> [d.file[f] EXCEPT !.fds = @ \ {v}]],
           rm |-> d.rm \ {v}]
    BY <1>1, <1>3 DEF Released
  <2>3. db'[t]["enrolled"].file["profile"] = [d.file["profile"] EXCEPT !.fds = @ \ {v}]
    BY <1>1, <2>2
  <2>4. QED
    BY <2>1, <2>3 DEF FileState
<1>4. QED
  BY <1>2, <1>3 DEF SameEntry

\* An add changes the map when it renames its staging directory, and only then.
LEMMA AddMaps ==
    ASSUME TypeOK, JobOK, ExclusiveInv, ExclusiveInv', NEW v \in Worker,
           NEW u \in TPM, Add(v, u)
    PROVE  [Abstract!Next]_enrolled
<1> USE DEF TypeOK
<1>1. req[v].tpms = {u} /\ torn' = torn
  BY DEF Add, AddCheck, AddMkdir, MoveCheck, MoveOpen, MoveWrite, AddRename
<1>2. Sound(u) /\ Sound(u)' /\ Staged(v, u)
  BY <1>1 DEF ExclusiveInv, Sound
<1>3. ASSUME NEW t \in TPM, t # u
      PROVE  SameEntry(t)
  <2>1. db'[t] = db[t]
    BY <1>1, <1>3 DEF Add, AddCheck, AddMkdir, MoveCheck, MoveOpen, MoveWrite, AddRename
  <2>2. QED
    BY <1>1, <2>1, SameDirectory
<1>4. CASE AddCheck(v, u) \/ \E f \in File : MoveCheck(v, u, f)
  BY <1>1, <1>3, <1>4, OneEntry, SameDirectory DEF AddCheck, MoveCheck
<1>5. CASE AddMkdir(v, u) \/ MoveOpen(v, u)
  <2>1. db'[u]["enrolled"] = db[u]["enrolled"]
    BY <1>5 DEF AddMkdir, MoveOpen, Place
  <2>2. QED
    BY <1>1, <1>3, <2>1, OneEntry, SameDirectory
<1>6. CASE MoveWrite(v, u)
  <2>1. ~Exists(u, "enrolled")
    BY <1>2, <1>6 DEF MoveWrite, Staged, Moving
  <2>2. db'[u]["enrolled"] = db[u]["enrolled"]
    BY <1>6, <2>1 DEF MoveWrite, Place
  <2>3. QED
    BY <1>1, <1>3, <2>2, OneEntry, SameDirectory
<1>7. CASE AddRename(v, u)
  <2>1. ~Exists(u, "enrolled")
    BY <1>2, <1>7 DEF AddRename, Staged, Moving
  <2>2. u \notin torn'
    BY <1>1, <1>2, <2>1 DEF Sound
  <2>3. enrolled[u] = Unenrolled
    BY <2>1 DEF enrolled
  <2>4. CASE Exists(u, "enrolled")'
    <3>1. Whole(db[u]["enrolled"])'
      BY <1>2, <2>2, <2>4 DEF Sound
    <3>2. enrolled'[u] \in Profile
      BY <2>2, <2>4, <3>1 DEF Whole, enrolled
    <3>3. QED
      BY <1>3, <2>3, <3>2, OneEntry
  <2>5. CASE ~Exists(u, "enrolled")'
    <3>1. enrolled'[u] = Unenrolled
      BY <2>5 DEF enrolled
    <3>2. QED
      BY <1>3, <3>1, OneEntry
  <2>6. QED
    BY <2>4, <2>5
<1>8. QED
  BY <1>4, <1>5, <1>6, <1>7 DEF Add

\* A delete takes the entry it works on out of the map.
LEMMA UnlinkMaps ==
    ASSUME TypeOK, ExclusiveInv, NEW v \in Worker,
           NEW e \in File \cup {"nested"}, RmUnlink(v, e)
    PROVE  [Abstract!Next]_enrolled
<1>1. PICK u \in TPM : at[v][2] = u
  BY DEF RmUnlink, ExclusiveInv, DeletesOwn, TypeOK, Request
<1>2. ASSUME NEW t \in TPM, ~(Exists(t, "enrolled") /\ v \in db[t]["enrolled"].rm)
      PROVE  SameEntry(t)
  <2>1. db'[t]["enrolled"] = db[t]["enrolled"]
    BY <1>2 DEF RmUnlink, Place
  <2>2. t \in torn' <=> t \in torn
    BY <1>2 DEF RmUnlink
  <2>3. QED
    BY <2>1, <2>2, SameDirectory
<1>3. ASSUME NEW t \in TPM, t # u
      PROVE  SameEntry(t)
  <2>1. ~(Exists(t, "enrolled") /\ v \in db[t]["enrolled"].rm)
    BY <1>1, <1>3 DEF ExclusiveInv, Sound, HandlesHeld, Place
  <2>2. QED
    BY <1>2, <2>1
<1>4. CASE Exists(u, "enrolled") /\ v \in db[u]["enrolled"].rm
  <2>1. u \in torn'
    BY <1>4 DEF RmUnlink
  <2>2. enrolled'[u] = Unenrolled
    BY <2>1 DEF enrolled
  <2>3. QED
    BY <1>3, <2>2, OneEntry
<1>5. CASE ~(Exists(u, "enrolled") /\ v \in db[u]["enrolled"].rm)
  BY <1>2, <1>3, <1>5, OneEntry
<1>6. QED
  BY <1>4, <1>5

LEMMA RmDirMaps ==
    ASSUME TypeOK, ExclusiveInv, NEW v \in Worker, RmDir(v)
    PROVE  [Abstract!Next]_enrolled
<1> DEFINE c == Released(v)
<1>1. PICK p \in Place, u \in TPM : at[v][1] = p /\ at[v][2] = u
  BY DEF RmDir, ExclusiveInv, DeletesOwn, TypeOK, Request, Place
<1>2. \/ db' = c /\ torn' = torn
      \/ /\ db' = [c EXCEPT ![u][p] = NoDir]
         /\ torn' = IF p = "enrolled" THEN torn \ {u} ELSE torn
  BY <1>1 DEF RmDir
<1>3. c \in [TPM -> [Place -> Dir \cup {NoDir}]] /\ "enrolled" \in Place
  BY ReleasedType DEF Place
<1> HIDE DEF c
<1>4. ASSUME NEW t \in TPM, t # u \/ p # "enrolled" \/ (db' = c /\ torn' = torn)
      PROVE  SameEntry(t)
  <2>1. CASE db' = c /\ torn' = torn
    BY <2>1, ReleasedKeeps DEF c
  <2>2. CASE db' = [c EXCEPT ![u][p] = NoDir] /\ t # u
    <3>1. db'[t]["enrolled"] = c[t]["enrolled"]
      BY <1>3, <2>2
    <3>2. t \in torn' <=> t \in torn
      BY <1>2, <2>2
    <3>3. QED
      BY <3>1, <3>2, ReleasedKeeps DEF c
  <2>3. CASE db' = [c EXCEPT ![u][p] = NoDir] /\ p # "enrolled"
    <3>1. db'[t]["enrolled"] = c[t]["enrolled"]
      BY <1>3, <2>3
    <3>2. torn' = torn
      BY <1>2, <2>3
    <3>3. QED
      BY <3>1, <3>2, ReleasedKeeps DEF c
  <2>4. QED
    BY <1>2, <1>4, <2>1, <2>2, <2>3
<1>5. CASE p # "enrolled" \/ (db' = c /\ torn' = torn)
  BY <1>4, <1>5, OneEntry
<1>6. CASE p = "enrolled" /\ db' = [c EXCEPT ![u][p] = NoDir]
  <2>1. db'[u]["enrolled"] = NoDir
    BY <1>2, <1>3, <1>6
  <2>2. enrolled'[u] = Unenrolled
    BY <2>1 DEF enrolled, Exists
  <2>3. QED
    BY <1>4, <2>2, OneEntry
<1>7. QED
  BY <1>2, <1>5, <1>6

LEMMA StepMaps ==
    ASSUME TypeOK, JobOK, ExclusiveInv, ExclusiveInv', NEW v \in Worker, Step(v)
    PROVE  [Abstract!Next]_enrolled
<1>1. CASE Start(v) \/ Glob(v) \/ \E m \in Target : RmGone(v, m)
  <2>1. db' = db /\ torn' = torn
    BY <1>1 DEF Start, AddStart, QdrStart, BadRequest, Janitor, Accept, Glob, RmGone
  <2>2. QED
    BY <2>1, SameDirectory, SameMap
<1>2. ASSUME NEW m \in Target, RmOpen(v, m)
      PROVE  [Abstract!Next]_enrolled
  <2>1. torn' = torn
    BY <1>2 DEF RmOpen
  <2>2. ASSUME NEW t \in TPM
        PROVE  SameEntry(t)
    <3>1. CASE m = <<"enrolled", t>>
      <4> DEFINE d == db[t]["enrolled"]
      <4>1. Exists(t, "enrolled") /\ db' = [db EXCEPT ![t]["enrolled"].rm = @ \cup {v}]
        BY <1>2, <3>1 DEF RmOpen
      <4>2. d \in Dir
        BY <4>1 DEF TypeOK, Exists, Place
      <4>3. db'[t]["enrolled"] = [d EXCEPT !.rm = @ \cup {v}]
        BY <4>1 DEF TypeOK, Place
      <4>4. db'[t]["enrolled"] \in Dir /\ db'[t]["enrolled"].file = d.file
        BY <4>2, <4>3 DEF Dir
      <4>5. QED
        BY <2>1, <4>1, <4>4, EnrollAssumption DEF SameEntry, Exists
    <3>2. CASE m # <<"enrolled", t>>
      <4>1. PICK p \in Place, u \in TPM : m = <<p, u>>
        BY DEF Target
      <4>2. db' = [db EXCEPT ![u][p].rm = @ \cup {v}]
        BY <1>2, <4>1 DEF RmOpen
      <4>3. db'[t]["enrolled"] = db[t]["enrolled"]
        BY <3>2, <4>1, <4>2 DEF TypeOK, Place
      <4>4. QED
        BY <2>1, <4>3, SameDirectory
    <3>3. QED
      BY <3>1, <3>2
  <2>3. QED
    BY <2>2, SameMap
<1>3. CASE Crash(v)
  <2>1. \A t \in TPM : SameEntry(t)
    BY <1>3, ReleasedKeeps DEF Crash
  <2>2. QED
    BY <2>1, SameMap
<1>4. QED
  BY <1>1, <1>2, <1>3, AddMaps, UnlinkMaps, RmDirMaps DEF Step, Qdr

\* What the staging directory and the final rename buy, in one statement: to
\* whoever looks, the tree of files is a map from TPMs to profiles whose entries
\* come and go in one step, wherever the workers that change it are killed.
THEOREM TreeImplementsMap ==
    ASSUME AddProfile \subseteq Profile
    PROVE  ExclusiveSpec => ImplementsMap
<1>1. Init => Abstract!Init
  BY DEF Init, Abstract!Init, enrolled, Exists, Place
<1>2. TypeOK /\ JobOK /\ ExclusiveInv /\ ExclusiveInv' /\ [Next /\ Exclusive']_vars
        => [Abstract!Next]_enrolled
  <2> SUFFICES ASSUME TypeOK, JobOK, ExclusiveInv, ExclusiveInv',
                      [Next /\ Exclusive']_vars
               PROVE  [Abstract!Next]_enrolled
    OBVIOUS
  <2>1. CASE Next
    BY <2>1, StepMaps DEF Next
  <2>2. CASE UNCHANGED vars
    BY <2>2, SameDirectory, SameMap DEF vars
  <2>3. QED
    BY <2>1, <2>2
<1>3. ExclusiveSpec => [](TypeOK /\ JobOK /\ ExclusiveInv)
  BY ExclusiveCorrect
<1>4. QED
  BY <1>1, <1>2, <1>3, PTL DEF ExclusiveSpec, ImplementsMap, Abstract!Spec

=============================================================================
