-------------------------- MODULE SpoolIngestProofs --------------------------
(***************************************************************************)
(* Proofs about SpoolIngest, for any number of daemons and records and for *)
(* any set of faults.                                                      *)
(***************************************************************************)
EXTENDS SpoolIngest, TLAPS

\* The directories, tables and control states keep their types.
THEOREM TypeCorrect == Spec => []TypeOK
<1>1. Init => TypeOK
  BY ConstantsAssumption DEF Init, TypeOK, Control
<1>2. TypeOK /\ [Next]_vars => TypeOK'
  <2> SUFFICES ASSUME TypeOK, [Next]_vars PROVE TypeOK'
    OBVIOUS
  <2> USE ConstantsAssumption DEF TypeOK, Control, vars, spoolVars, dbVars,
          backendVars, runVars, Goto
  <2>1. ASSUME NEW r \in Record, Capture(r) PROVE TypeOK'
    BY <2>1 DEF Capture
  <2>2. ASSUME NEW d \in Daemon, Construct(d) PROVE TypeOK'
    BY <2>2 DEF Construct
  <2>3. ASSUME NEW d \in Daemon, NEW r \in Record, RecordStep(d, r)
        PROVE TypeOK'
    <3>1. CASE CopyOpen(d, r)
      BY <3>1 DEF CopyOpen
    <3>2. CASE CopyClose(d, r)
      BY <3>2 DEF CopyClose
    <3>3. CASE ReadSpoolRecord(d, r)
      BY <3>3 DEF ReadSpoolRecord
    <3>4. CASE ReadThrows(d, r)
      BY <3>4 DEF ReadThrows, Abort
    <3>5. CASE LookupFile(d, r)
      BY <3>5 DEF LookupFile
    <3>6. CASE MarkDeduped(d, r)
      BY <3>6 DEF MarkDeduped
    <3>7. CASE Promote(d, r)
      BY <3>7 DEF Promote, Store
    <3>8. CASE RecordFile(d, r)
      BY <3>8 DEF RecordFile
    <3>9. CASE MarkProcessed(d, r)
      BY <3>9 DEF MarkProcessed
    <3>10. CASE AddError(d, r)
      BY <3>10 DEF AddError
    <3>11. CASE MarkFailed(d, r)
      BY <3>11 DEF MarkFailed
    <3>12. CASE Unlink(d, r)
      BY <3>12 DEF Unlink
    <3> QED
      BY <2>3, <3>1, <3>2, <3>3, <3>4, <3>5, <3>6, <3>7, <3>8, <3>9, <3>10,
         <3>11, <3>12 DEF RecordStep
  <2>4. ASSUME NEW d \in Daemon, Step(d) PROVE TypeOK'
    <3>1. CASE ListEmpty(d)
      BY <3>1 DEF ListEmpty
    <3>2. CASE ListPending(d)
      BY <3>2 DEF ListPending
    <3>3. CASE EndOfBatch(d)
      BY <3>3 DEF EndOfBatch
    <3>4. CASE InsertRefresh(d)
      BY <3>4 DEF InsertRefresh
    <3>5. CASE RefreshIndex(d)
      BY <3>5 DEF RefreshIndex, Reindexed
    <3>6. CASE FinishJob(d)
      BY <3>6 DEF FinishJob
    <3> QED
      BY <2>3, <2>4, <3>1, <3>2, <3>3, <3>4, <3>5, <3>6 DEF Step
  <2>5. ASSUME NEW d \in Daemon, FaultStep(d) PROVE TypeOK'
    <3>1. ASSUME NEW r \in Record, PromoteThrows(d, r) PROVE TypeOK'
      <4>1. CASE UNCHANGED backendVars
        BY <3>1, <4>1 DEF PromoteThrows
      <4>2. CASE Store(d, r)
        BY <3>1, <4>2 DEF PromoteThrows, Store
      <4> QED
        BY <3>1, <4>1, <4>2 DEF PromoteThrows
    <3>2. CASE RefreshThrows(d)
      BY <3>2 DEF RefreshThrows, Reindexed, Abort
    <3>3. CASE DatabaseThrows(d)
      BY <3>3 DEF DatabaseThrows, Abort
    <3>4. CASE Crash(d)
      BY <3>4 DEF Crash, Abort
    <3> QED
      BY <2>5, <3>1, <3>2, <3>3, <3>4 DEF FaultStep
  <2>6. CASE UNCHANGED vars
    BY <2>6
  <2> QED
    BY <2>1, <2>2, <2>4, <2>5, <2>6 DEF Next
<1> QED
  BY <1>1, <1>2, PTL DEF Spec

-----------------------------------------------------------------------------
\* A sorted batch has one first file.
LEMMA NextUnique ==
  ASSUME TypeOK, NEW d \in Daemon, NEW q \in Record, NEW r \in Record,
         IsNext(d, q), IsNext(d, r)
  PROVE  q = r
BY ConstantsAssumption DEF IsNext, TypeOK

\* A run relies on nothing that the steps of others can take away.
THEOREM RunInvCorrect == Spec => []RunInv
<1>1. Init => RunInv
  BY DEF Init, RunInv, IngestedIsStored, At, IsNext
<1>2. TypeOK /\ RunInv /\ [Next]_vars => RunInv'
  <2> SUFFICES ASSUME TypeOK, RunInv, [Next]_vars PROVE RunInv'
    OBVIOUS
  <2> USE DEF RunInv, IngestedIsStored, vars, spoolVars, dbVars, backendVars, runVars
  <2>1. ASSUME NEW r \in Record, Capture(r) PROVE RunInv'
    BY <2>1 DEF Capture, At, IsNext, TypeOK
  <2>2. ASSUME NEW d \in Daemon, Construct(d) PROVE RunInv'
    BY <2>2 DEF Construct, Goto, At, IsNext, TypeOK
  <2>3. ASSUME NEW d \in Daemon, NEW r \in Record, RecordStep(d, r)
        PROVE RunInv'
    <3> USE NextUnique DEF Goto, TypeOK, At, IsNext
    <3>1. CASE CopyOpen(d, r)
      BY <3>1 DEF CopyOpen
    <3>2. CASE CopyClose(d, r)
      BY <3>2 DEF CopyClose
    <3>3. CASE ReadSpoolRecord(d, r)
      BY <3>3 DEF ReadSpoolRecord
    <3>4. CASE ReadThrows(d, r)
      BY <3>4 DEF ReadThrows, Abort
    <3>5. CASE LookupFile(d, r)
      BY <3>5 DEF LookupFile
    <3>6. CASE MarkDeduped(d, r)
      BY <3>6 DEF MarkDeduped
    <3>7. CASE Promote(d, r)
      BY <3>7 DEF Promote, Store
    <3>8. CASE RecordFile(d, r)
      BY <3>8 DEF RecordFile
    <3>9. CASE MarkProcessed(d, r)
      BY <3>9 DEF MarkProcessed
    <3>10. CASE AddError(d, r)
      BY <3>10 DEF AddError
    <3>11. CASE MarkFailed(d, r)
      BY <3>11 DEF MarkFailed
    <3>12. CASE Unlink(d, r)
      BY <3>12 DEF Unlink
    <3> QED
      BY <2>3, <3>1, <3>2, <3>3, <3>4, <3>5, <3>6, <3>7, <3>8, <3>9, <3>10,
         <3>11, <3>12 DEF RecordStep
  <2>4. ASSUME NEW d \in Daemon, Step(d) PROVE RunInv'
    <3> USE DEF Goto, TypeOK, At, IsNext
    <3>1. CASE ListEmpty(d)
      BY <3>1 DEF ListEmpty
    <3>2. CASE ListPending(d)
      BY <3>2 DEF ListPending
    <3>3. CASE EndOfBatch(d)
      BY <3>3 DEF EndOfBatch
    <3>4. CASE InsertRefresh(d)
      BY <3>4 DEF InsertRefresh
    <3>5. CASE RefreshIndex(d)
      BY <3>5 DEF RefreshIndex, Reindexed
    <3>6. CASE FinishJob(d)
      BY <3>6 DEF FinishJob
    <3> QED
      BY <2>3, <2>4, <3>1, <3>2, <3>3, <3>4, <3>5, <3>6 DEF Step
  <2>5. ASSUME NEW d \in Daemon, FaultStep(d) PROVE RunInv'
    <3> USE DEF Goto, TypeOK, At, IsNext
    <3>1. ASSUME NEW r \in Record, PromoteThrows(d, r) PROVE RunInv'
      <4>1. CASE UNCHANGED backendVars
        BY <3>1, <4>1 DEF PromoteThrows
      <4>2. CASE Store(d, r)
        BY <3>1, <4>2 DEF PromoteThrows, Store
      <4> QED
        BY <3>1, <4>1, <4>2 DEF PromoteThrows
    <3>2. CASE RefreshThrows(d)
      BY <3>2 DEF RefreshThrows, Abort
    <3>3. CASE DatabaseThrows(d)
      BY <3>3 DEF DatabaseThrows, Abort
    <3>4. CASE Crash(d)
      BY <3>4 DEF Crash, Abort
    <3> QED
      BY <2>5, <3>1, <3>2, <3>3, <3>4 DEF FaultStep
  <2>6. CASE UNCHANGED vars
    BY <2>6 DEF At, IsNext
  <2> QED
    BY <2>1, <2>2, <2>4, <2>5, <2>6 DEF Next
<1> QED
  BY <1>1, <1>2, TypeCorrect, PTL DEF Spec

\* NoRecordLost: a captured record has a whole copy, in a terminal directory
\* if not in pending/, and in the legacy spool if its copy was interrupted.
THEOREM NothingLost == Spec => []NoRecordLost
<1>1. RunInv => NoRecordLost
  BY DEF RunInv, NoRecordLost
<1> QED
  BY <1>1, RunInvCorrect, PTL

\* IngestedIsStored: neither the files table nor processed/ is ever ahead of
\* the backend.
THEOREM NothingClaimedEarly == Spec => []IngestedIsStored
<1>1. RunInv => IngestedIsStored
  BY DEF RunInv
<1> QED
  BY <1>1, RunInvCorrect, PTL

-----------------------------------------------------------------------------
(***************************************************************************)
(* What a run has done when it ends, and what failed/ means.               *)
(***************************************************************************)

\* A run reaches its completion by a refresh of its own or with nothing to
\* refresh, and other runs only make less stale what it stored.
THEOREM RefreshedWhenCompleted == Spec => []CompletedRunRefreshed
<1>1. Init => CompletedRunRefreshed
  BY DEF Init, CompletedRunRefreshed
<1>2. TypeOK /\ CompletedRunRefreshed /\ [Next]_vars => CompletedRunRefreshed'
  <2> SUFFICES ASSUME TypeOK, CompletedRunRefreshed, [Next]_vars,
                      NEW e \in Daemon, pc'[e] = "finish"
               PROVE  stale'[e] \cap done'[e] = {}
    BY DEF CompletedRunRefreshed
  <2> USE DEF TypeOK, CompletedRunRefreshed, vars, backendVars, runVars, Goto, At
  <2>1. ASSUME NEW r \in Record, Capture(r) PROVE stale'[e] \cap done'[e] = {}
    BY <2>1 DEF Capture
  <2>2. ASSUME NEW d \in Daemon, Construct(d)
        PROVE  stale'[e] \cap done'[e] = {}
    BY <2>2 DEF Construct
  <2>3. ASSUME NEW d \in Daemon, NEW r \in Record, RecordStep(d, r)
        PROVE  stale'[e] \cap done'[e] = {}
    BY <2>3 DEF RecordStep, CopyOpen, CopyClose, ReadSpoolRecord, ReadThrows,
       Abort, LookupFile, MarkDeduped, Promote, Store, RecordFile,
       MarkProcessed, AddError, MarkFailed, Unlink
  <2>4. ASSUME NEW d \in Daemon, Step(d), ~\E r \in Record : RecordStep(d, r)
        PROVE  stale'[e] \cap done'[e] = {}
    BY <2>4 DEF Step, ListEmpty, ListPending, EndOfBatch, InsertRefresh,
       RefreshIndex, Reindexed, FinishJob
  <2>5. ASSUME NEW d \in Daemon, FaultStep(d)
        PROVE  stale'[e] \cap done'[e] = {}
    BY <2>5 DEF FaultStep, PromoteThrows, Store, RefreshThrows, Reindexed,
       DatabaseThrows, Crash, Abort
  <2>6. CASE UNCHANGED vars
    BY <2>6
  <2> QED
    BY <2>1, <2>2, <2>3, <2>4, <2>5, <2>6 DEF Next
<1> QED
  BY <1>1, <1>2, TypeCorrect, PTL DEF Spec

\* A run is in the catch of a record only after a call to the backend or a
\* statement has failed.
ErrorsHaveCause ==
  Fault \cap {"promote", "timeout", "database"} = {}
    => \A d \in Daemon : pc[d] \notin {"error", "fail"}

\* Runs that race for a record abort or skip it, and never move it to failed/.
THEOREM OnlyErrorsFail == Spec => []FailedNeedsError
<1> DEFINE IInv == FailedNeedsError /\ ErrorsHaveCause
<1>1. Init => IInv
  BY DEF Init, FailedNeedsError, ErrorsHaveCause
<1>2. TypeOK /\ IInv /\ [Next]_vars => IInv'
  <2> SUFFICES ASSUME TypeOK, IInv, [Next]_vars,
                      Fault \cap {"promote", "timeout", "database"} = {}
               PROVE  failed' = {} /\ \A e \in Daemon : pc'[e] \notin {"error", "fail"}
    BY DEF FailedNeedsError, ErrorsHaveCause
  <2> USE DEF TypeOK, FailedNeedsError, ErrorsHaveCause, vars, spoolVars,
          runVars, Goto, At
  <2>1. ASSUME NEW r \in Record, Capture(r) PROVE IInv'
    BY <2>1 DEF Capture
  <2>2. ASSUME NEW d \in Daemon, Construct(d) PROVE IInv'
    BY <2>2 DEF Construct
  <2>3. ASSUME NEW d \in Daemon, NEW r \in Record, RecordStep(d, r) PROVE IInv'
    BY <2>3 DEF RecordStep, CopyOpen, CopyClose, ReadSpoolRecord, ReadThrows,
       Abort, LookupFile, MarkDeduped, Promote, RecordFile, MarkProcessed,
       AddError, MarkFailed, Unlink
  <2>4. ASSUME NEW d \in Daemon, Step(d), ~\E r \in Record : RecordStep(d, r)
        PROVE  IInv'
    BY <2>4 DEF Step, ListEmpty, ListPending, EndOfBatch, InsertRefresh,
       RefreshIndex, FinishJob
  <2>5. ASSUME NEW d \in Daemon, FaultStep(d) PROVE IInv'
    BY <2>5 DEF FaultStep, PromoteThrows, RefreshThrows, DatabaseThrows, Crash,
       Abort
  <2>6. CASE UNCHANGED vars
    BY <2>6
  <2> QED
    BY <2>1, <2>2, <2>3, <2>4, <2>5, <2>6 DEF Next
<1> QED
  BY <1>1, <1>2, TypeCorrect, PTL DEF Spec

\* Without such faults a run that has to record what it promoted goes on to do so.
LEMMA RecordingStays ==
  ASSUME TypeOK, [Next]_vars, Fault \cap {"crash", "timeout", "database"} = {},
         NEW e \in Daemon, NEW r \in Record, At(e, "record", r), r \notin known'
  PROVE  At(e, "record", r)'
<1> USE DEF TypeOK, At, IsNext, Goto, vars, spoolVars, dbVars, backendVars, runVars
<1>1. ASSUME NEW q \in Record, Capture(q) PROVE At(e, "record", r)'
  BY <1>1 DEF Capture
<1>2. ASSUME NEW d \in Daemon, Construct(d) PROVE At(e, "record", r)'
  BY <1>2 DEF Construct
<1>3. ASSUME NEW d \in Daemon, NEW q \in Record, RecordStep(d, q) PROVE At(e, "record", r)'
  <2>1. CASE RecordFile(d, q)
    <3>1. CASE d = e
      BY <2>1, <3>1, NextUnique DEF RecordFile
    <3>2. CASE d # e
      BY <2>1, <3>2 DEF RecordFile
    <3> QED
      BY <3>1, <3>2
  <2>2. CASE CopyOpen(d, q) \/ CopyClose(d, q)
    BY <2>2 DEF CopyOpen, CopyClose
  <2>3. CASE ReadSpoolRecord(d, q) \/ ReadThrows(d, q) \/ LookupFile(d, q)
    BY <2>3 DEF ReadSpoolRecord, ReadThrows, Abort, LookupFile
  <2>4. CASE MarkDeduped(d, q) \/ Promote(d, q) \/ MarkProcessed(d, q)
    BY <2>4 DEF MarkDeduped, Promote, MarkProcessed
  <2>5. CASE AddError(d, q) \/ MarkFailed(d, q) \/ Unlink(d, q)
    BY <2>5 DEF AddError, MarkFailed, Unlink
  <2> QED
    BY <1>3, <2>1, <2>2, <2>3, <2>4, <2>5 DEF RecordStep
<1>4. ASSUME NEW d \in Daemon, Step(d), ~\E q \in Record : RecordStep(d, q)
      PROVE  At(e, "record", r)'
  BY <1>4 DEF Step, ListEmpty, ListPending, EndOfBatch, InsertRefresh, RefreshIndex, FinishJob
<1>5. ASSUME NEW d \in Daemon, FaultStep(d) PROVE At(e, "record", r)'
  BY <1>5 DEF FaultStep, PromoteThrows, RefreshThrows, DatabaseThrows, Crash, Abort
<1>6. CASE UNCHANGED vars
  BY <1>6
<1> QED
  BY <1>1, <1>2, <1>3, <1>4, <1>5, <1>6 DEF Next

\* However often an event is delivered, what is stored and not known is about to
\* be recorded.
THEOREM RecordedNext == Spec => []StoredIsRecorded
<1>1. Init => StoredIsRecorded
  BY DEF Init, StoredIsRecorded
<1>2. TypeOK /\ TypeOK' /\ StoredIsRecorded /\ [Next]_vars => StoredIsRecorded'
  <2> SUFFICES ASSUME TypeOK, TypeOK', StoredIsRecorded, [Next]_vars,
                      Fault \cap {"crash", "timeout", "database"} = {},
                      NEW r \in stored' \ known'
               PROVE  \E d \in Daemon : At(d, "record", r)'
    BY DEF StoredIsRecorded
  <2>0. r \in Record
    BY DEF TypeOK
  <2>1. known \subseteq known'
    BY DEF Next, Capture, Construct, Step, FaultStep, RecordStep, CopyOpen, CopyClose,
       ReadSpoolRecord, ReadThrows, LookupFile, MarkDeduped, Promote, RecordFile,
       MarkProcessed, AddError, MarkFailed, Unlink, ListEmpty, ListPending, EndOfBatch,
       InsertRefresh, RefreshIndex, FinishJob, PromoteThrows, RefreshThrows,
       DatabaseThrows, Crash, vars, dbVars
  <2>2. CASE r \in stored
    <3>1. PICK d \in Daemon : At(d, "record", r)
      BY <2>1, <2>2 DEF StoredIsRecorded
    <3> QED
      BY <2>0, <3>1, RecordingStays
  <2>3. CASE r \notin stored
    <3>1. \E d \in Daemon, q \in Record : Promote(d, q)
      BY <2>3 DEF Next, Capture, Construct, Step, FaultStep, RecordStep, CopyOpen,
         CopyClose, ReadSpoolRecord, ReadThrows, LookupFile, MarkDeduped, RecordFile,
         MarkProcessed, AddError, MarkFailed, Unlink, ListEmpty, ListPending, EndOfBatch,
         InsertRefresh, RefreshIndex, FinishJob, PromoteThrows, RefreshThrows,
         DatabaseThrows, Crash, vars, backendVars
    <3>2. PICK d \in Daemon, q \in Record : Promote(d, q)
      BY <3>1
    <3>3. q = r
      BY <2>3, <3>2 DEF Promote, Store
    <3> QED
      BY <3>2, <3>3 DEF Promote, Goto, At, IsNext, TypeOK
  <2> QED
    BY <2>2, <2>3
<1> QED
  BY <1>1, <1>2, TypeCorrect, PTL DEF Spec

-----------------------------------------------------------------------------
(***************************************************************************)
(* Refinement of SpoolContract.                                            *)
(***************************************************************************)

\* The actions that change the spool directories or what the backend holds.
LEMMA VisibleSteps ==
  ASSUME [Next]_vars
  PROVE  \/ UNCHANGED <<pending, processed, failed, stored>>
         \/ \E r \in Record : Capture(r)
         \/ \E d \in Daemon, r \in Record :
              \/ CopyOpen(d, r)
              \/ MarkDeduped(d, r) \/ MarkProcessed(d, r) \/ MarkFailed(d, r)
              \/ Unlink(d, r)
              \/ Promote(d, r) \/ PromoteThrows(d, r)
<1> USE DEF vars, spoolVars, dbVars, backendVars, runVars
<1>1. ASSUME NEW d \in Daemon, NEW r \in Record, RecordStep(d, r)
      PROVE  \/ UNCHANGED <<pending, processed, failed, stored>>
             \/ CopyOpen(d, r)
             \/ MarkDeduped(d, r) \/ MarkProcessed(d, r) \/ MarkFailed(d, r)
             \/ Unlink(d, r) \/ Promote(d, r)
  BY <1>1 DEF RecordStep, CopyClose, ReadSpoolRecord, ReadThrows, LookupFile,
              RecordFile, AddError
<1>2. ASSUME NEW d \in Daemon, Construct(d) \/ Step(d)
      PROVE  \/ UNCHANGED <<pending, processed, failed, stored>>
             \/ \E r \in Record : RecordStep(d, r)
  BY <1>2 DEF Construct, Step, ListEmpty, ListPending, EndOfBatch,
              InsertRefresh, RefreshIndex, FinishJob
<1>3. ASSUME NEW d \in Daemon, FaultStep(d)
      PROVE  \/ UNCHANGED <<pending, processed, failed, stored>>
             \/ \E r \in Record : PromoteThrows(d, r)
  BY <1>3 DEF FaultStep, RefreshThrows, DatabaseThrows, Crash
<1>4. CASE UNCHANGED vars
  BY <1>4
<1> QED
  BY <1>1, <1>2, <1>3, <1>4 DEF Next

\* Every step of the spool is a step of its contract, or invisible in it.
LEMMA ContractStep ==
  ASSUME TypeOK, RunInv, [Next]_vars
  PROVE  [Contract!ContractNext]_(Contract!contractVars)
<1> USE DEF Contract!ContractNext, Contract!contractVars, disposition
<1>1. CASE UNCHANGED <<pending, processed, failed, stored>>
  BY <1>1
<1>2. ASSUME NEW r \in Record,
             pending' = pending \cup {r},
             UNCHANGED <<processed, failed, stored>>
      PROVE  Contract!Deliver(r) \/ UNCHANGED Contract!contractVars
  <2>1. CASE disposition[r] = "unseen"
    BY <1>2, <2>1 DEF Contract!Deliver
  <2>2. CASE disposition[r] # "unseen"
    BY <1>2, <2>2
  <2> QED
    BY <2>1, <2>2
<1>3. ASSUME NEW r \in Record, r \in stored, r \in captured,
             processed' = processed \cup {r},
             UNCHANGED <<pending, failed, stored>>
      PROVE  Contract!Ingest(r) \/ UNCHANGED Contract!contractVars
  <2>1. CASE r \in processed
    BY <1>3, <2>1
  <2>2. CASE r \notin processed
    BY <1>3, <2>2 DEF Contract!Ingest, RunInv
  <2> QED
    BY <2>1, <2>2
<1>4. ASSUME NEW r \in Record, r \in captured,
             failed' = failed \cup {r},
             UNCHANGED <<pending, processed, stored>>
      PROVE  Contract!Reject(r) \/ UNCHANGED Contract!contractVars
  <2>1. CASE r \in processed \cup failed
    BY <1>4, <2>1
  <2>2. CASE r \notin processed \cup failed
    BY <1>4, <2>2 DEF Contract!Reject, RunInv
  <2> QED
    BY <2>1, <2>2
<1>5. ASSUME NEW r \in Record, r \in processed \cup failed,
             pending' = pending \ {r},
             UNCHANGED <<processed, failed, stored>>
      PROVE  UNCHANGED Contract!contractVars
  BY <1>5
<1>6. ASSUME NEW r \in Record, r \in captured,
             stored' = stored \cup {r},
             UNCHANGED <<pending, processed, failed>>
      PROVE  Contract!Accept(r)
  BY <1>6 DEF Contract!Accept, RunInv
<1>7. ASSUME NEW d \in Daemon, NEW r \in Record,
             At(d, "dedupe", r) \/ At(d, "mark", r) \/ At(d, "fail", r)
               \/ At(d, "unlink", r) \/ At(d, "promote", r)
      PROVE  r \in captured
  BY <1>7 DEF At, IsNext, RunInv
<1>8. ASSUME NEW r \in Record, Capture(r)
      PROVE  [Contract!ContractNext]_(Contract!contractVars)
  BY <1>2, <1>8 DEF Capture, backendVars
<1>9. ASSUME NEW d \in Daemon, NEW r \in Record,
             \/ CopyOpen(d, r)
             \/ MarkDeduped(d, r) \/ MarkProcessed(d, r) \/ MarkFailed(d, r)
             \/ Unlink(d, r)
             \/ Promote(d, r) \/ PromoteThrows(d, r)
      PROVE  [Contract!ContractNext]_(Contract!contractVars)
  <2>1. CASE CopyOpen(d, r)
    BY <1>2, <2>1 DEF CopyOpen, backendVars
  <2>2. CASE MarkDeduped(d, r)
    BY <1>3, <1>7, <2>2 DEF MarkDeduped, backendVars, RunInv, IngestedIsStored
  <2>3. CASE MarkProcessed(d, r)
    BY <1>3, <1>7, <2>3 DEF MarkProcessed, backendVars, RunInv
  <2>4. CASE MarkFailed(d, r)
    BY <1>4, <1>7, <2>4 DEF MarkFailed, backendVars
  <2>5. CASE Unlink(d, r)
    BY <1>5, <2>5 DEF Unlink, backendVars, RunInv
  <2>6. CASE Promote(d, r)
    BY <1>6, <1>7, <2>6 DEF Promote, Store, spoolVars
  <2>7. CASE PromoteThrows(d, r)
    <3>1. CASE UNCHANGED backendVars
      BY <1>1, <2>7, <3>1 DEF PromoteThrows, backendVars, spoolVars
    <3>2. CASE Store(d, r)
      BY <1>6, <1>7, <2>7, <3>2 DEF PromoteThrows, Store, spoolVars
    <3> QED
      BY <2>7, <3>1, <3>2 DEF PromoteThrows
  <2> QED
    BY <1>9, <2>1, <2>2, <2>3, <2>4, <2>5, <2>6, <2>7
<1> QED
  BY <1>1, <1>8, <1>9, VisibleSteps

\* ImplementsContract: for any number of runs and records and with every kind
\* of fault, the spool keeps what it promises to the hooks.
THEOREM SpoolRefinesContract == Spec => ImplementsContract
<1>1. Init => Contract!ContractInit
  BY DEF Init, Contract!ContractInit, disposition
<1>2. TypeOK /\ RunInv /\ [Next]_vars
        => [Contract!ContractNext]_(Contract!contractVars)
  BY ContractStep
<1> QED
  BY <1>1, <1>2, TypeCorrect, RunInvCorrect, PTL
     DEF Spec, ImplementsContract, Contract!ContractSpec
=============================================================================
