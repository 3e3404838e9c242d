-------------------------- MODULE SourceSyncProofs --------------------------
(***************************************************************************)
(* Proofs about SourceSync, for any number of runs, sources, files and     *)
(* edits and for any set of faults.                                        *)
(***************************************************************************)
EXTENDS SourceSync, TLAPS

\* Whatever ends a run leaves its variables well typed.
LEMMA AbortType ==
  ASSUME RunsOK, NEW d \in Daemon, Abort(d)
  PROVE  RunsOK'
<1> USE DEF Abort, EndOfJob, Goto, RunsOK
<1>1. pc' \in [Daemon -> Control]
  BY DEF Control
<1>2. want' \in [Daemon -> {None} \cup Source]
  OBVIOUS
<1>3. read' \in [Daemon -> Content]
  BY DEF Content
<1> QED
  BY <1>1, <1>2, <1>3

\* Tables and run variables keep their types.
THEOREM TypeCorrect == Spec => []TypeOK
<1>1. Init => TypeOK
  <2> SUFFICES ASSUME Init PROVE TypeOK
    OBVIOUS
  <2>1. disk \in [File -> Content]
    BY ConstantsAssumption DEF Init, Content
  <2>2. edits \in 0 .. MaxEdits
    BY ConstantsAssumption DEF Init
  <2>3. TablesOK
    BY <2>1, <2>2 DEF Init, TablesOK, Content
  <2>4. RunsOK
    BY DEF Init, RunsOK, Control, Content
  <2> QED
    BY <2>3, <2>4 DEF TypeOK
<1>2. TypeOK /\ [Next]_vars => TypeOK'
  <2> SUFFICES ASSUME TypeOK, [Next]_vars PROVE TypeOK'
    OBVIOUS
  <2> USE ConstantsAssumption DEF TypeOK, TablesOK, RunsOK, Control, Content,
          Artifact, vars, diskVars, dbVars, jobVars, backendVars, planVars, fileVars, Goto, At
  <2>1. CASE World
    <3>1. ASSUME NEW f \in File, NEW v \in Contents \cup {None}, Edit(f, v)
          PROVE TypeOK'
      <4>1. disk' \in [File -> Content]
        BY <3>1 DEF Edit
      <4>2. edits' \in 0 .. MaxEdits
        BY <3>1 DEF Edit
      <4> QED
        BY <3>1, <4>1, <4>2 DEF Edit
    <3>2. ASSUME NEW s \in Source, UpsertSource(s) PROVE TypeOK'
      BY <3>2 DEF UpsertSource
    <3>3. ASSUME NEW s \in Source, DeleteSource(s) PROVE TypeOK'
      BY <3>3 DEF DeleteSource
    <3> QED
      BY <2>1, <3>1, <3>2, <3>3 DEF World
  <2>2. ASSUME NEW d \in Daemon, Schedule(d) PROVE TypeOK'
    <3>1. ASSUME NEW w \in Source \cup {None}, NEW b \in BOOLEAN, RunOnce(d, w, b)
          PROVE TypeOK'
      BY <3>1 DEF RunOnce
    <3>2. ASSUME NEW S \in SUBSET Source, RunScheduled(d, S) PROVE TypeOK'
      BY <3>2 DEF RunScheduled, IsFirst
    <3> QED
      BY <2>2, <3>1, <3>2 DEF Schedule
  <2>3. ASSUME NEW d \in Daemon, Step(d) PROVE TypeOK'
    <3>1. CASE ProcessSpool(d)
      BY <3>1 DEF ProcessSpool, Reindexed
    <3>2. CASE ListSources(d)
      <4>1. CASE want[d] = None
        BY <3>2, <4>1 DEF ListSources
      <4>2. CASE want[d] # None /\ want[d] \in sources
        BY <3>2, <4>2 DEF ListSources
      <4>3. CASE want[d] # None /\ want[d] \notin sources
        BY <3>2, <4>3, AbortType DEF ListSources
      <4> QED
        BY <4>1, <4>2, <4>3
    <3>3. CASE EndOfRun(d)
      <4>1. CASE due[d] = {}
        BY <3>3, <4>1, AbortType DEF EndOfRun
      <4>2. CASE due[d] # {}
        BY <3>3, <4>2 DEF EndOfRun, IsFirst
      <4> QED
        BY <4>1, <4>2
    <3>4. ASSUME NEW s \in Source, StartJob(d, s) PROVE TypeOK'
      BY <3>4 DEF StartJob
    <3>5. ASSUME NEW s \in Source, ScanSource(d, s) PROVE TypeOK'
      BY <3>5 DEF ScanSource, FilesOf
    <3>6. ASSUME NEW s \in Source, FinishJob(d, s) PROVE TypeOK'
      BY <3>6 DEF FinishJob, EndOfJob
    <3>7. ASSUME NEW f \in File, FileStep(d, f) PROVE TypeOK'
      <4>1. CASE ReadFile(d, f)
        <5>1. CASE Cached(d, f) \/ disk[f] \subseteq seen[d]
          BY <4>1, <5>1 DEF ReadFile, Skip
        <5>2. CASE ~(Cached(d, f) \/ disk[f] \subseteq seen[d])
          BY <4>1, <5>2 DEF ReadFile, Prepare
        <5> QED
          BY <5>1, <5>2
      <4>2. CASE ReadThrows(d, f)
        BY <4>2 DEF ReadThrows, Throw
      <4>3. ASSUME NEW c \in Chunk, Promote(d, f, c) PROVE TypeOK'
        BY <4>3 DEF Promote, Store
      <4>4. CASE RecordFile(d, f)
        BY <4>4 DEF RecordFile
      <4> QED
        BY <3>7, <4>1, <4>2, <4>3, <4>4 DEF FileStep
    <3>8. CASE EndOfFiles(d)
      BY <3>8 DEF EndOfFiles
    <3>9. CASE InsertRefresh(d)
      BY <3>9 DEF InsertRefresh
    <3>10. CASE RefreshIndex(d)
      BY <3>10 DEF RefreshIndex, Reindexed
    <3>11. CASE AddError(d)
      BY <3>11 DEF AddError
    <3>12. CASE FailJob(d)
      BY <3>12, AbortType DEF FailJob
    <3> QED
      BY <2>3, <3>1, <3>2, <3>3, <3>4, <3>5, <3>6, <3>7, <3>8, <3>9, <3>10,
         <3>11, <3>12 DEF Step
  <2>4. ASSUME NEW d \in Daemon, FaultStep(d) PROVE TypeOK'
    <3>1. CASE SpoolThrows(d)
      BY <3>1, AbortType DEF SpoolThrows, Reindexed
    <3>2. CASE DatabaseThrows(d)
      <4>1. CASE Throw(d) /\ UNCHANGED fileVars
        BY <3>2, <4>1 DEF DatabaseThrows, Throw
      <4>2. CASE Abort(d)
        BY <3>2, <4>2, AbortType DEF DatabaseThrows
      <4> QED
        BY <3>2, <4>1, <4>2 DEF DatabaseThrows
    <3>3. CASE Crash(d)
      BY <3>3, AbortType DEF Crash
    <3>4. CASE RefreshThrows(d)
      BY <3>4 DEF RefreshThrows, Reindexed, Throw
    <3>5. ASSUME NEW s \in Source, ScanThrows(d, s) PROVE TypeOK'
      BY <3>5 DEF ScanThrows, Throw
    <3>6. ASSUME NEW f \in File, NEW c \in Chunk, PromoteThrows(d, f, c)
          PROVE TypeOK'
      <4>1. CASE UNCHANGED backendVars
        BY <3>6, <4>1 DEF PromoteThrows, Throw
      <4>2. CASE Store(d, f, c)
        BY <3>6, <4>2 DEF PromoteThrows, Throw, Store
      <4> QED
        BY <3>6, <4>1, <4>2 DEF PromoteThrows
    <3> QED
      BY <2>4, <3>1, <3>2, <3>3, <3>4, <3>5, <3>6 DEF FaultStep
  <2>5. CASE UNCHANGED vars
    BY <2>5
  <2> QED
    BY <2>1, <2>2, <2>3, <2>4, <2>5 DEF Next
<1> QED
  BY <1>1, <1>2, PTL DEF Spec

-----------------------------------------------------------------------------
(***************************************************************************)
(* What a job has seen is stored.                                          *)
(***************************************************************************)

\* The variables of run e that JobOK is about keep their values.
Same(e) ==
  /\ pc'[e] = pc[e] /\ cands'[e] = cands[e] /\ seen'[e] = seen[e]
  /\ body'[e] = body[e] /\ read'[e] = read[e] /\ promoted'[e] = promoted[e]

\* A run that does not move keeps its knowledge, whatever is stored meanwhile.
LEMMA StandStill ==
  ASSUME JobInv, stored \subseteq stored', NEW e \in Daemon, Same(e)
  PROVE  JobOK(e)'
BY DEF JobInv, JobOK, Same, StoredChunks, FilesOf

LEMMA StoredGrows ==
  ASSUME stored \subseteq stored', NEW s \in Source
  PROVE  /\ FilesOf(s)' = FilesOf(s)
         /\ StoredChunks(s) \subseteq StoredChunks(s)'
BY DEF StoredChunks, FilesOf

LEMMA OneMoves ==
  ASSUME JobInv, stored \subseteq stored', NEW d \in Daemon, JobOK(d)',
         \A e \in Daemon : e # d => Same(e)
  PROVE  JobInv'
<1> SUFFICES ASSUME NEW e \in Daemon PROVE JobOK(e)'
  BY DEF JobInv
<1>1. CASE e = d
  BY <1>1
<1>2. CASE e # d
  BY <1>2, StandStill
<1> QED
  BY <1>1, <1>2

LEMMA AbortKeeps ==
  ASSUME TypeOK, JobInv, stored \subseteq stored', NEW d \in Daemon, Abort(d)
  PROVE  JobInv'
<1> USE DEF TypeOK, RunsOK, Abort, EndOfJob, Goto
<1>1. JobOK(d)'
  BY DEF JobOK
<1>2. \A e \in Daemon : e # d => Same(e)
  BY DEF Same
<1> QED
  BY <1>1, <1>2, OneMoves

\* A step to a place where a job has no current file.
LEMMA MoveKeeps ==
  ASSUME TypeOK, JobInv, stored \subseteq stored', NEW d \in Daemon,
         NEW label \in Control, Goto(d, label), UNCHANGED fileVars,
         label \notin {"file", "promote", "record"},
         label \in {"idle", "spool", "list", "job", "scan"}
           => pc[d] \in {"idle", "spool", "list", "job", "scan"},
         label \notin {"error", "fail"}
           => pc[d] \notin {"promote", "error", "fail"}
  PROVE  JobInv'
<1> USE DEF TypeOK, RunsOK, Goto, fileVars
<1>1. JobOK(d)'
  BY DEF JobInv, JobOK
<1>2. \A e \in Daemon : e # d => Same(e)
  BY DEF Same
<1> QED
  BY <1>1, <1>2, OneMoves

THEOREM JobsCorrect == Spec => []JobInv
<1>1. Init => JobInv
  BY DEF Init, JobInv, JobOK
<1>2. TypeOK /\ TypeOK' /\ JobInv /\ [Next]_vars => JobInv'
  <2> SUFFICES ASSUME TypeOK, TypeOK', JobInv, [Next]_vars PROVE JobInv'
    OBVIOUS
  <2> USE DEF At, AtSource, AtFile
  <2>1. CASE World
    <3>1. \A e \in Daemon : Same(e)
      BY <2>1 DEF World, Edit, UpsertSource, DeleteSource, Same, fileVars
    <3>2. stored \subseteq stored'
      BY <2>1 DEF World, Edit, UpsertSource, DeleteSource, backendVars
    <3> QED
      BY <3>1, <3>2, StandStill DEF JobInv
  <2>2. ASSUME NEW d \in Daemon, Schedule(d) PROVE JobInv'
    <3>1. /\ At(d, "idle") /\ Goto(d, "spool")
          /\ UNCHANGED stored /\ UNCHANGED fileVars
      BY <2>2 DEF Schedule, RunOnce, RunScheduled, backendVars
    <3> QED
      BY <3>1, MoveKeeps DEF Control
  <2>3. ASSUME NEW d \in Daemon, Step(d) PROVE JobInv'
    <3>1. CASE ProcessSpool(d)
      BY <3>1, MoveKeeps DEF ProcessSpool, Control
    <3>2. CASE ListSources(d)
      BY <3>2, MoveKeeps, AbortKeeps DEF ListSources, Control, backendVars
    <3>3. CASE EndOfRun(d)
      BY <3>3, MoveKeeps, AbortKeeps DEF EndOfRun, Control, backendVars
    <3>4. ASSUME NEW s \in Source, StartJob(d, s) PROVE JobInv'
      BY <3>4, MoveKeeps DEF StartJob, Control, backendVars
    <3>5. ASSUME NEW s \in Source, ScanSource(d, s) PROVE JobInv'
      <4> USE <3>5 DEF ScanSource, TypeOK, RunsOK, Goto, backendVars
      <4>1. JobOK(d)'
        <5>1. seen'[d] = {} /\ body'[d] = {} /\ promoted'[d] = {}
          BY DEF JobInv, JobOK
        <5>2. pc'[d] = "file" /\ cands'[d] \subseteq FilesOf(s)
          OBVIOUS
        <5> QED
          BY <5>1, <5>2 DEF JobOK, FilesOf
      <4>2. \A e \in Daemon : e # d => Same(e)
        BY DEF Same
      <4> QED
        BY <4>1, <4>2, OneMoves
    <3>6. ASSUME NEW s \in Source, FinishJob(d, s) PROVE JobInv'
      <4> USE <3>6 DEF FinishJob, EndOfJob, TypeOK, RunsOK, Goto, backendVars
      <4>1. JobOK(d)'
        BY DEF JobOK
      <4>2. \A e \in Daemon : e # d => Same(e)
        BY DEF Same
      <4> QED
        BY <4>1, <4>2, OneMoves
    <3>7. ASSUME NEW f \in File, ReadFile(d, f) PROVE JobInv'
      <4> USE <3>7 DEF ReadFile, Skip, Prepare, TypeOK, RunsOK, Goto, backendVars
      <4>1. body[d] = {} /\ \A a \in promoted[d] : a[2] \in seen[d]
        BY DEF JobInv, JobOK
      <4>2. PICK s \in Source : /\ cands[d] \subseteq FilesOf(s)
                               /\ seen[d] \ body[d] \subseteq StoredChunks(s)
        BY DEF JobInv, JobOK
      <4>3. ASSUME Skip(d, f) PROVE JobOK(d)'
        <5>1. /\ pc'[d] = "file" /\ body'[d] = {} /\ seen'[d] = seen[d]
              /\ cands'[d] \subseteq cands[d] /\ promoted'[d] = promoted[d]
          BY <4>1, <4>3
        <5>2. seen'[d] \ body'[d] \subseteq StoredChunks(s)'
          BY <4>1, <4>2, <5>1, StoredGrows
        <5>3. cands'[d] \subseteq FilesOf(s)'
          BY <4>2, <5>1, StoredGrows
        <5> HIDE <3>7 DEF ReadFile, Skip, Prepare, TypeOK, RunsOK, Goto
        <5> QED
          BY <4>1, <5>1, <5>2, <5>3 DEF JobOK
      <4>4. ASSUME Prepare(d, disk[f] \ seen[d], disk[f]) PROVE JobOK(d)'
        <5>1. /\ pc'[d] = "promote" /\ body'[d] = disk[f] \ seen[d]
              /\ seen'[d] = seen[d] \cup disk[f] /\ read'[d] = disk[f]
              /\ cands'[d] = cands[d] /\ promoted'[d] = promoted[d]
          BY <4>4
        <5>2. seen'[d] \ body'[d] \subseteq StoredChunks(s)'
          BY <4>1, <4>2, <5>1, StoredGrows
        <5>3. cands'[d] \subseteq FilesOf(s)'
          BY <4>2, <5>1, StoredGrows
        <5> HIDE <3>7 DEF ReadFile, Skip, Prepare, TypeOK, RunsOK, Goto
        <5> QED
          BY <4>1, <5>1, <5>2, <5>3 DEF JobOK
      <4>5. \A e \in Daemon : e # d => Same(e)
        BY DEF Same
      <4> QED
        BY <4>3, <4>4, <4>5, OneMoves
    <3>8. ASSUME NEW f \in File, ReadThrows(d, f) PROVE JobInv'
      BY <3>8, MoveKeeps DEF ReadThrows, Throw, Control, backendVars
    <3>9. ASSUME NEW f \in File, NEW c \in Chunk, Promote(d, f, c)
          PROVE JobInv'
      <4> USE <3>9 DEF Promote, Store, TypeOK, RunsOK, Goto
      <4>1. /\ pc'[d] = IF body[d] = {c} THEN "record" ELSE "promote"
            /\ body'[d] = body[d] \ {c} /\ seen'[d] = seen[d]
            /\ cands'[d] = cands[d] /\ read'[d] = read[d]
            /\ promoted'[d] = promoted[d] \cup {<<f, c>>}
        OBVIOUS
      <4>2. PICK s \in Source : /\ cands[d] \subseteq FilesOf(s)
                               /\ seen[d] \ body[d] \subseteq StoredChunks(s)
        BY DEF JobInv, JobOK
      <4>3. /\ c \in body[d] /\ body[d] \subseteq seen[d]
            /\ \A a \in promoted[d] : a[2] \in seen[d] \ body[d]
            /\ pc[d] = "promote" /\ f \in cands[d] /\ read[d] \subseteq seen[d]
        BY DEF JobInv, JobOK, IsFirst
      <4>4. c \in StoredChunks(s)'
        BY <4>2, <4>3 DEF StoredChunks, FilesOf
      <4>5. JobOK(d)'
        <5>1. seen'[d] \ body'[d] \subseteq StoredChunks(s)'
          BY <4>1, <4>2, <4>4, StoredGrows
        <5>2. cands'[d] \subseteq FilesOf(s)'
          BY <4>1, <4>2, StoredGrows
        <5>3. \A a \in promoted'[d] : a[2] \in seen'[d] \ body'[d]
          BY <4>1, <4>3
        <5> HIDE <3>9 DEF Promote, Store, TypeOK, RunsOK, Goto
        <5> QED
          BY <4>1, <4>3, <5>1, <5>2, <5>3 DEF JobOK
      <4>6. \A e \in Daemon : e # d => Same(e)
        BY DEF Same
      <4> QED
        BY <4>5, <4>6, OneMoves
    <3>10. ASSUME NEW f \in File, RecordFile(d, f) PROVE JobInv'
      <4> USE <3>10 DEF RecordFile, TypeOK, RunsOK, Goto, backendVars
      <4>1. PICK s \in Source : /\ cands[d] \subseteq FilesOf(s)
                               /\ seen[d] \ body[d] \subseteq StoredChunks(s)
        BY DEF JobInv, JobOK
      <4>2. /\ body[d] = {} /\ body'[d] = {} /\ pc'[d] = "file"
            /\ seen'[d] = seen[d] /\ promoted'[d] = promoted[d]
            /\ cands'[d] \subseteq cands[d]
            /\ \A a \in promoted[d] : a[2] \in seen[d] \ body[d]
        BY DEF JobInv, JobOK
      <4>3. /\ seen'[d] \ body'[d] \subseteq StoredChunks(s)'
            /\ cands'[d] \subseteq FilesOf(s)'
        BY <4>1, <4>2, StoredGrows
      <4>4. JobOK(d)'
        BY <4>2, <4>3 DEF JobOK
      <4>5. \A e \in Daemon : e # d => Same(e)
        BY DEF Same
      <4> QED
        BY <4>4, <4>5, OneMoves
    <3>11. CASE EndOfFiles(d)
      BY <3>11, MoveKeeps DEF EndOfFiles, Control, backendVars
    <3>12. CASE InsertRefresh(d)
      BY <3>12, MoveKeeps DEF InsertRefresh, Control, backendVars
    <3>13. CASE RefreshIndex(d)
      BY <3>13, MoveKeeps DEF RefreshIndex, Control
    <3>14. CASE AddError(d)
      BY <3>14, MoveKeeps DEF AddError, Control, backendVars
    <3>15. CASE FailJob(d)
      BY <3>15, AbortKeeps DEF FailJob, backendVars
    <3> QED
      BY <2>3, <3>1, <3>2, <3>3, <3>4, <3>5, <3>6, <3>7, <3>8, <3>9, <3>10,
         <3>11, <3>12, <3>13, <3>14, <3>15 DEF Step, FileStep
  <2>4. ASSUME NEW d \in Daemon, FaultStep(d) PROVE JobInv'
    <3>1. CASE SpoolThrows(d)
      BY <3>1, AbortKeeps DEF SpoolThrows
    <3>2. CASE DatabaseThrows(d)
      BY <3>2, AbortKeeps, MoveKeeps
         DEF DatabaseThrows, Throw, Control, backendVars
    <3>3. CASE Crash(d)
      BY <3>3, AbortKeeps DEF Crash, backendVars
    <3>4. CASE RefreshThrows(d)
      BY <3>4, MoveKeeps DEF RefreshThrows, Throw, Control
    <3>5. ASSUME NEW s \in Source, ScanThrows(d, s) PROVE JobInv'
      BY <3>5, MoveKeeps DEF ScanThrows, Throw, Control, backendVars
    <3>6. ASSUME NEW f \in File, NEW c \in Chunk, PromoteThrows(d, f, c)
          PROVE JobInv'
      BY <3>6, MoveKeeps DEF PromoteThrows, Store, Throw, Control, backendVars
    <3> QED
      BY <2>4, <3>1, <3>2, <3>3, <3>4, <3>5, <3>6 DEF FaultStep
  <2>5. CASE UNCHANGED vars
    BY <2>5, StandStill DEF JobInv, Same, vars, backendVars, fileVars
  <2> QED
    BY <2>1, <2>2, <2>3, <2>4, <2>5 DEF Next
<1> QED
  BY <1>1, <1>2, TypeCorrect, PTL DEF Spec

-----------------------------------------------------------------------------
(***************************************************************************)
(* What the tables say is true.                                            *)
(***************************************************************************)

\* Nothing is removed from the backend, and rows of files have one writer.
LEMMA TablesGrow ==
  ASSUME [Next]_vars
  PROVE  /\ stored \subseteq stored'
         /\ \/ UNCHANGED recorded
            \/ \E d \in Daemon, f \in File : RecordFile(d, f)
<1> USE DEF dbVars, backendVars, vars
<1>1. CASE World
  BY <1>1 DEF World, Edit, UpsertSource, DeleteSource
<1>2. ASSUME NEW d \in Daemon, Schedule(d)
      PROVE stored \subseteq stored' /\ UNCHANGED recorded
  BY <1>2 DEF Schedule, RunOnce, RunScheduled
<1>3. ASSUME NEW d \in Daemon, NEW f \in File, FileStep(d, f),
             ~RecordFile(d, f)
      PROVE stored \subseteq stored' /\ UNCHANGED recorded
  BY <1>3 DEF FileStep, ReadFile, ReadThrows, Promote, Store
<1>4. ASSUME NEW d \in Daemon, NEW f \in File, RecordFile(d, f)
      PROVE stored \subseteq stored'
  BY <1>4 DEF RecordFile
<1>5. ASSUME NEW d \in Daemon, Step(d), ~\E f \in File : FileStep(d, f)
      PROVE stored \subseteq stored' /\ UNCHANGED recorded
  BY <1>5 DEF Step, ProcessSpool, ListSources, EndOfRun, StartJob, ScanSource,
     FinishJob, EndOfFiles, InsertRefresh, RefreshIndex, AddError, FailJob
<1>6. ASSUME NEW d \in Daemon, FaultStep(d)
      PROVE stored \subseteq stored' /\ UNCHANGED recorded
  BY <1>6 DEF FaultStep, SpoolThrows, DatabaseThrows, Crash, RefreshThrows,
     ScanThrows, PromoteThrows, Store
<1>7. CASE UNCHANGED vars
  BY <1>7
<1> QED
  BY <1>1, <1>2, <1>3, <1>4, <1>5, <1>6, <1>7 DEF Next

\* A row of files names content that was read, and all of what was read had been
\* seen and stored when the row was written.
THEOREM RecordedCorrect == Spec => []RecordedIsStored
<1>1. Init => RecordedIsStored
  BY DEF Init, RecordedIsStored
<1>2. TypeOK /\ JobInv /\ RecordedIsStored /\ [Next]_vars => RecordedIsStored'
  <2> SUFFICES ASSUME TypeOK, JobInv, RecordedIsStored, [Next]_vars,
                      NEW g \in File, recorded'[g] # None
               PROVE recorded'[g] \subseteq StoredChunks(Owner[g])'
    BY DEF RecordedIsStored
  <2>1. StoredChunks(Owner[g]) \subseteq StoredChunks(Owner[g])'
    BY TablesGrow, StoredGrows, ConstantsAssumption
  <2>2. CASE UNCHANGED recorded
    BY <2>1, <2>2 DEF RecordedIsStored
  <2>3. ASSUME NEW d \in Daemon, NEW f \in File, RecordFile(d, f)
        PROVE recorded'[g] \subseteq StoredChunks(Owner[g])'
    <3>1. recorded'[f] = read[d] /\ (f # g => recorded'[g] = recorded[g])
      BY <2>3 DEF RecordFile, TypeOK, TablesOK
    <3>2. pc[d] = "record" /\ f \in cands[d]
      BY <2>3 DEF RecordFile, AtFile, At, IsFirst
    <3>3. read[d] \subseteq StoredChunks(Owner[f])
      BY <3>2 DEF JobInv, JobOK, FilesOf
    <3> QED
      BY <2>1, <3>1, <3>3 DEF RecordedIsStored
  <2> QED
    BY <2>2, <2>3, TablesGrow
<1> QED
  BY <1>1, <1>2, TypeCorrect, JobsCorrect, PTL DEF Spec

-----------------------------------------------------------------------------
(***************************************************************************)
(* What a job has done when it ends.                                       *)
(***************************************************************************)

\* What a job has promoted changes by a promote or is forgotten.
LEMMA PromotedChanges ==
  ASSUME TypeOK, [Next]_vars, NEW e \in Daemon
  PROVE  \/ promoted'[e] \in {{}, promoted[e]}
         \/ \E f \in File, c \in Chunk : Promote(e, f, c)
<1> USE DEF TypeOK, RunsOK, fileVars, vars, Abort, EndOfJob, Throw
<1>1. CASE World
  BY <1>1 DEF World, Edit, UpsertSource, DeleteSource
<1>2. ASSUME NEW d \in Daemon, Schedule(d)
      PROVE  promoted'[e] = promoted[e]
  BY <1>2 DEF Schedule, RunOnce, RunScheduled
<1>3. ASSUME NEW d \in Daemon, NEW f \in File, FileStep(d, f),
             ~\E c \in Chunk : Promote(d, f, c)
      PROVE  promoted'[e] = promoted[e]
  BY <1>3 DEF FileStep, ReadFile, ReadThrows, RecordFile
<1>4. ASSUME NEW d \in Daemon, NEW f \in File, NEW c \in Chunk,
             Promote(d, f, c), d # e
      PROVE  promoted'[e] = promoted[e]
  BY <1>4 DEF Promote
<1>5. ASSUME NEW d \in Daemon, Step(d), ~\E f \in File : FileStep(d, f)
      PROVE  promoted'[e] \in {{}, promoted[e]}
  BY <1>5 DEF Step, ProcessSpool, ListSources, EndOfRun, StartJob, ScanSource,
     FinishJob, EndOfFiles, InsertRefresh, RefreshIndex, AddError, FailJob
<1>6. ASSUME NEW d \in Daemon, FaultStep(d)
      PROVE  promoted'[e] \in {{}, promoted[e]}
  BY <1>6 DEF FaultStep, SpoolThrows, DatabaseThrows, Crash, RefreshThrows,
     ScanThrows, PromoteThrows
<1>7. CASE UNCHANGED vars
  BY <1>7
<1> QED
  BY <1>1, <1>2, <1>3, <1>4, <1>5, <1>6, <1>7 DEF Next, FileStep

\* A chunk that awaits its promote was not seen before the current file, so no
\* earlier promote of the job was of the same chunk.
THEOREM PromotesOnceCorrect == Spec => []JobPromotesOnce
<1>1. Init => JobPromotesOnce
  BY DEF Init, JobPromotesOnce
<1>2. TypeOK /\ JobInv /\ JobPromotesOnce /\ [Next]_vars => JobPromotesOnce'
  <2> SUFFICES ASSUME TypeOK, JobInv, JobPromotesOnce, [Next]_vars,
                      NEW d \in Daemon, NEW a \in promoted'[d],
                      NEW b \in promoted'[d], a[2] = b[2]
               PROVE a = b
    BY DEF JobPromotesOnce
  <2>1. CASE promoted'[d] \in {{}, promoted[d]}
    BY <2>1 DEF JobPromotesOnce
  <2>2. ASSUME NEW f \in File, NEW c \in Chunk, Promote(d, f, c) PROVE a = b
    <3>1. promoted'[d] = promoted[d] \cup {<<f, c>>}
      BY <2>2 DEF Promote, TypeOK, RunsOK
    <3>2. c \in body[d]
      BY <2>2 DEF Promote, IsFirst
    <3>3. \A p \in promoted[d] : p[2] # c
      BY <3>2 DEF JobInv, JobOK
    <3> QED
      BY <3>1, <3>3 DEF JobPromotesOnce
  <2> QED
    BY <2>1, <2>2, PromotedChanges
<1> QED
  BY <1>1, <1>2, TypeCorrect, JobsCorrect, PTL DEF Spec

\* A job reaches its completion by a refresh of its own or with nothing to
\* refresh, and stores nothing after it.
THEOREM CompletedJobCorrect == Spec => []CompletedJobRefreshed
<1>1. Init => CompletedJobRefreshed
  BY DEF Init, CompletedJobRefreshed, At
<1>2. TypeOK /\ CompletedJobRefreshed /\ [Next]_vars => CompletedJobRefreshed'
  <2> SUFFICES ASSUME TypeOK, CompletedJobRefreshed, [Next]_vars,
                      NEW e \in Daemon, pc'[e] = "finish"
               PROVE promoted'[e] \cap stale'[e] = {}
    BY DEF CompletedJobRefreshed, At
  <2> USE DEF TypeOK, TablesOK, RunsOK, CompletedJobRefreshed, At, AtSource,
          AtFile, Goto, vars, backendVars, fileVars
  <2>1. CASE World
    BY <2>1 DEF World, Edit, UpsertSource, DeleteSource
  <2>2. ASSUME NEW d \in Daemon, Schedule(d)
        PROVE promoted'[e] \cap stale'[e] = {}
    BY <2>2 DEF Schedule, RunOnce, RunScheduled
  <2>3. ASSUME NEW d \in Daemon, NEW f \in File, FileStep(d, f)
        PROVE promoted'[e] \cap stale'[e] = {}
    BY <2>3 DEF FileStep, ReadFile, Skip, Prepare, ReadThrows, Throw, Promote,
       Store, RecordFile
  <2>4. ASSUME NEW d \in Daemon, Step(d), ~\E f \in File : FileStep(d, f)
        PROVE promoted'[e] \cap stale'[e] = {}
    BY <2>4 DEF Step, ProcessSpool, ListSources, EndOfRun, StartJob,
       ScanSource, FinishJob, EndOfFiles, InsertRefresh, RefreshIndex,
       AddError, FailJob, Reindexed, Abort, EndOfJob
  <2>5. ASSUME NEW d \in Daemon, FaultStep(d)
        PROVE promoted'[e] \cap stale'[e] = {}
    BY <2>5 DEF FaultStep, SpoolThrows, DatabaseThrows, Crash, RefreshThrows,
       ScanThrows, PromoteThrows, Store, Reindexed, Throw, Abort, EndOfJob
  <2>6. CASE UNCHANGED vars
    BY <2>6
  <2> QED
    BY <2>1, <2>2, <2>3, <2>4, <2>5, <2>6 DEF Next
<1> QED
  BY <1>1, <1>2, TypeCorrect, PTL DEF Spec

\* A job whose status is about to be set to failed has its row in errors.
ErrorFirst == \A d \in Daemon : At(d, "fail") => errorRow[d]

\* The error row comes before the status, and the next job clears both.
THEOREM FailedJobCorrect == Spec => []FailedJobAudited
<1> DEFINE IInv == FailedJobAudited /\ ErrorFirst
<1>1. Init => IInv
  BY DEF Init, FailedJobAudited, ErrorFirst, At
<1>2. TypeOK /\ IInv /\ [Next]_vars => IInv'
  <2> SUFFICES ASSUME TypeOK, IInv, [Next]_vars, NEW e \in Daemon,
                      jobRow'[e] = "failed" \/ pc'[e] = "fail"
               PROVE errorRow'[e]
    BY DEF FailedJobAudited, ErrorFirst, At
  <2> USE DEF TypeOK, TablesOK, RunsOK, FailedJobAudited, ErrorFirst, At,
          AtSource, AtFile, Goto, vars, dbVars, jobVars
  <2>1. CASE World
    BY <2>1 DEF World, Edit, UpsertSource, DeleteSource
  <2>2. ASSUME NEW d \in Daemon, Schedule(d) PROVE errorRow'[e]
    BY <2>2 DEF Schedule, RunOnce, RunScheduled
  <2>3. ASSUME NEW d \in Daemon, NEW f \in File, FileStep(d, f)
        PROVE errorRow'[e]
    BY <2>3 DEF FileStep, ReadFile, Skip, Prepare, ReadThrows, Throw, Promote,
       RecordFile
  <2>4. ASSUME NEW d \in Daemon, Step(d), ~\E f \in File : FileStep(d, f)
        PROVE errorRow'[e]
    BY <2>4 DEF Step, ProcessSpool, ListSources, EndOfRun, StartJob,
       ScanSource, FinishJob, EndOfFiles, InsertRefresh, RefreshIndex,
       AddError, FailJob, Abort
  <2>5. ASSUME NEW d \in Daemon, FaultStep(d) PROVE errorRow'[e]
    BY <2>5 DEF FaultStep, SpoolThrows, DatabaseThrows, Crash, RefreshThrows,
       ScanThrows, PromoteThrows, Throw, Abort
  <2>6. CASE UNCHANGED vars
    BY <2>6
  <2> QED
    BY <2>1, <2>2, <2>3, <2>4, <2>5, <2>6 DEF Next
<1> QED
  BY <1>1, <1>2, TypeCorrect, PTL DEF Spec

\* A job that is running has a run that will close it.
RunningHasRun ==
  Fault \cap {"crash", "database"} = {}
    => \A d \in Daemon : jobRow[d] = "running"
         => pc[d] \notin {"idle", "spool", "list", "job"}

\* Every way out of a job other than a crash or an SQL error sets its status.
THEOREM JobsClosedCorrect == Spec => []JobsClosed
<1>1. Init => RunningHasRun
  BY DEF Init, RunningHasRun
<1>2. TypeOK /\ RunningHasRun /\ [Next]_vars => RunningHasRun'
  <2> SUFFICES ASSUME TypeOK, RunningHasRun, [Next]_vars, NEW e \in Daemon,
                      Fault \cap {"crash", "database"} = {},
                      jobRow'[e] = "running"
               PROVE pc'[e] \notin {"idle", "spool", "list", "job"}
    BY DEF RunningHasRun
  <2> USE DEF TypeOK, TablesOK, RunsOK, RunningHasRun, At, AtSource, AtFile,
          Goto, vars, dbVars, jobVars
  <2>1. CASE World
    BY <2>1 DEF World, Edit, UpsertSource, DeleteSource
  <2>2. ASSUME NEW d \in Daemon, Schedule(d)
        PROVE pc'[e] \notin {"idle", "spool", "list", "job"}
    BY <2>2 DEF Schedule, RunOnce, RunScheduled
  <2>3. ASSUME NEW d \in Daemon, NEW f \in File, FileStep(d, f)
        PROVE pc'[e] \notin {"idle", "spool", "list", "job"}
    BY <2>3 DEF FileStep, ReadFile, Skip, Prepare, ReadThrows, Throw, Promote,
       RecordFile
  <2>4. ASSUME NEW d \in Daemon, Step(d), ~\E f \in File : FileStep(d, f)
        PROVE pc'[e] \notin {"idle", "spool", "list", "job"}
    BY <2>4 DEF Step, ProcessSpool, ListSources, EndOfRun, StartJob,
       ScanSource, FinishJob, EndOfFiles, InsertRefresh, RefreshIndex,
       AddError, FailJob, Abort
  <2>5. ASSUME NEW d \in Daemon, FaultStep(d)
        PROVE pc'[e] \notin {"idle", "spool", "list", "job"}
    BY <2>5 DEF FaultStep, SpoolThrows, DatabaseThrows, Crash, RefreshThrows,
       ScanThrows, PromoteThrows, Throw, Abort
  <2>6. CASE UNCHANGED vars
    BY <2>6
  <2> QED
    BY <2>1, <2>2, <2>3, <2>4, <2>5, <2>6 DEF Next
<1>3. RunningHasRun => JobsClosed
  BY DEF RunningHasRun, JobsClosed, At
<1> QED
  BY <1>1, <1>2, <1>3, TypeCorrect, PTL DEF Spec
=============================================================================
