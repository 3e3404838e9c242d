---------------------------- MODULE SpoolIngest ----------------------------
(***************************************************************************)
(* The hook spool and the SyncDaemon runs that drain it.                   *)
(*                                                                         *)
(* The hooks write one JSON file per captured event into pending/.  Every  *)
(* cron or timer tick, CLI call and plugin command builds a SyncDaemon of  *)
(* its own over the same directories, the same sync.db and the same        *)
(* MemPalace backend, and no lock is taken.  A run copies the legacy       *)
(* spool, takes a snapshot of pending/, and promotes its records one by    *)
(* one.  A step of this module is one system call, SQL statement or        *)
(* backend call of one run: between two of them every other run, and       *)
(* every hook, may step.                                                   *)
(***************************************************************************)
EXTENDS Integers

CONSTANTS
  Daemon,     \* SyncDaemon instances that may be alive at the same time
  Record,     \* spool records, numbered in the order of their file names
  Invalid,    \* records whose envelope HookEnvelopeSchema rejects
  Legacy,     \* files left in the legacy spool's pending directory
  Fault       \* the kinds of fault this instance may meet

\* crash:    the process dies between two steps
\* promote:  the backend refuses a promote
\* timeout:  the backend applies a promote but the client sees an error
\* refresh:  the refresh call fails (the backend may have done it)
\* database: an SQL statement throws (sync.db is busy, or a job id is taken)
FaultKind == {"crash", "promote", "timeout", "refresh", "database"}

ASSUME ConstantsAssumption ==
  /\ Record \subseteq Nat
  /\ Legacy \subseteq Record
  /\ Invalid \subseteq Legacy     \* no hook writes an invalid envelope
  /\ Fault \subseteq FaultKind

VARIABLES
  pending, processed, failed,  \* the three spool directories
  torn,        \* files of pending whose copy has not been completed
  known,       \* records whose fingerprint is in the files table
  jobRow,      \* status of the last jobs row each daemon inserted
  errorRow,    \* does the errors table hold a row of that job?
  refreshRow,  \* status of the runtime_refresh row of that job
  stored,      \* records the backend holds
  stale,       \* records a daemon stored after the last refresh of the index
  captured,    \* history: records that were ever in pending
  pc, todo,    \* control state and files left of each daemon's batch
  done         \* records each daemon's run has ingested so far (promotedArtifactIds)

spoolVars == <<pending, processed, failed, torn, captured>>
dbVars == <<known, jobRow, errorRow, refreshRow>>
backendVars == <<stored, stale>>
runVars == <<pc, todo, done>>
vars == <<spoolVars, dbVars, backendVars, runVars>>

Control == {"idle", "migrate", "copying", "read", "lookup", "dedupe",
            "promote", "record", "mark", "error", "fail", "unlink",
            "refresh", "refreshing", "finish"}

\* Type invariant: the directories and tables hold records, and each run is
\* at one point of processSpool.
TypeOK ==
  /\ pending \subseteq Record /\ processed \subseteq Record
  /\ failed \subseteq Record /\ captured \subseteq Record
  /\ torn \subseteq pending
  /\ known \subseteq Record
  /\ jobRow \in [Daemon -> {"none", "running", "completed"}]
  /\ errorRow \in [Daemon -> BOOLEAN]
  /\ refreshRow \in [Daemon -> {"none", "running", "completed", "failed"}]
  /\ stored \subseteq Record
  /\ stale \in [Daemon -> SUBSET Record]
  /\ pc \in [Daemon -> Control]
  /\ todo \in [Daemon -> SUBSET Record]
  /\ done \in [Daemon -> SUBSET Record]

Init ==
  /\ pending = {} /\ processed = {} /\ failed = {} /\ torn = {}
  /\ captured = {}
  /\ known = {}
  /\ jobRow = [d \in Daemon |-> "none"]
  /\ errorRow = [d \in Daemon |-> FALSE]
  /\ refreshRow = [d \in Daemon |-> "none"]
  /\ stored = {}
  /\ stale = [d \in Daemon |-> {}]
  /\ pc = [d \in Daemon |-> "idle"]
  /\ todo = [d \in Daemon |-> {}]
  /\ done = [d \in Daemon |-> {}]

-----------------------------------------------------------------------------
(***************************************************************************)
(* Helpers.                                                                *)
(***************************************************************************)

Goto(d, label) == pc' = [pc EXCEPT ![d] = label]

\* r is the next file of d's sorted snapshot.
IsNext(d, r) == r \in todo[d] /\ \A q \in todo[d] : r <= q

At(d, label, r) == pc[d] = label /\ IsNext(d, r)

\* An exception that leaves processSpool: it is logged and thrown again, the
\* client is closed, and the jobs row stays as it is.
Abort(d) ==
  /\ Goto(d, "idle")
  /\ todo' = [todo EXCEPT ![d] = {}]
  /\ done' = [done EXCEPT ![d] = {}]

\* The backend performs one promote of r on behalf of d.
Store(d, r) ==
  /\ stored' = stored \cup {r}
  /\ stale' = [stale EXCEPT ![d] = @ \cup {r}]

-----------------------------------------------------------------------------
(***************************************************************************)
(* The hook.                                                               *)
(***************************************************************************)

\* A host event (or the same event again) is written to pending/ by a
\* temporary file and a rename; the file name is a function of the record.
Capture(r) ==
  /\ r \notin Invalid
  /\ pending' = pending \cup {r}
  /\ torn' = torn \ {r}
  /\ captured' = captured \cup {r}
  /\ UNCHANGED <<processed, failed, dbVars, backendVars, runVars>>

-----------------------------------------------------------------------------
(***************************************************************************)
(* Construction of a SyncDaemon: the legacy spool is copied, file by file, *)
(* when pending/ is found empty.                                           *)
(***************************************************************************)

Construct(d) ==
  /\ pc[d] = "idle"
  /\ Goto(d, "migrate")
  /\ todo' = [todo EXCEPT ![d] = IF pending = {} THEN Legacy ELSE {}]
  /\ UNCHANGED <<spoolVars, dbVars, backendVars, done>>

\* copyFileSync truncates the destination first ...
CopyOpen(d, r) ==
  /\ At(d, "migrate", r)
  /\ pending' = pending \cup {r}
  /\ torn' = torn \cup {r}
  /\ captured' = captured \cup {r}
  /\ Goto(d, "copying")
  /\ UNCHANGED <<processed, failed, dbVars, backendVars, todo, done>>

\* ... and the file is whole when the last of its writers has finished.
CopyClose(d, r) ==
  /\ At(d, "copying", r)
  /\ torn' = IF \E e \in Daemon \ {d} : At(e, "copying", r)
             THEN torn ELSE torn \ {r}
  /\ todo' = [todo EXCEPT ![d] = @ \ {r}]
  /\ Goto(d, "migrate")
  /\ UNCHANGED <<pending, processed, failed, captured, dbVars, backendVars, done>>

-----------------------------------------------------------------------------
(***************************************************************************)
(* processSpool.                                                           *)
(***************************************************************************)

\* Nothing is pending: the call returns before a job is started.
ListEmpty(d) ==
  /\ pc[d] = "migrate" /\ todo[d] = {}
  /\ pending = {}
  /\ Goto(d, "idle")
  /\ UNCHANGED <<spoolVars, dbVars, backendVars, todo, done>>

\* The snapshot of pending/ and the jobs row of this run.
ListPending(d) ==
  /\ pc[d] = "migrate" /\ todo[d] = {}
  /\ pending # {}
  /\ todo' = [todo EXCEPT ![d] = pending]
  /\ jobRow' = [jobRow EXCEPT ![d] = "running"]
  /\ errorRow' = [errorRow EXCEPT ![d] = FALSE]
  /\ refreshRow' = [refreshRow EXCEPT ![d] = "none"]
  /\ Goto(d, "read")
  /\ UNCHANGED <<spoolVars, known, backendVars, done>>

Readable(r) == r \in pending \ (Invalid \cup torn)

ReadSpoolRecord(d, r) ==
  /\ At(d, "read", r)
  /\ Readable(r)
  /\ Goto(d, "lookup")
  /\ UNCHANGED <<spoolVars, dbVars, backendVars, todo, done>>

\* Mutant: an unreadable file is treated like a refused promote.
ReadThrowsInsideTry(d, r) ==
  /\ At(d, "read", r)
  /\ ~Readable(r)
  /\ Goto(d, "error")
  /\ UNCHANGED <<spoolVars, dbVars, backendVars, todo, done>>

\* The file has been moved by another run, or does not parse: the read is
\* outside the per-record try, so the whole run ends.
ReadThrows(d, r) ==
  /\ At(d, "read", r)
  /\ ~Readable(r)
  /\ Abort(d)
  /\ UNCHANGED <<spoolVars, dbVars, backendVars>>

\* Mutant: the fingerprint is claimed before the backend is called.
LookupFileClaims(d, r) ==
  /\ At(d, "lookup", r)
  /\ Goto(d, IF r \in known THEN "dedupe" ELSE "promote")
  /\ known' = known \cup {r}
  /\ UNCHANGED <<spoolVars, jobRow, errorRow, refreshRow, backendVars, todo, done>>

\* Mutant: a duplicate is skipped without leaving pending/.
LookupFileSkips(d, r) ==
  /\ At(d, "lookup", r)
  /\ IF r \in known
     THEN Goto(d, "read") /\ todo' = [todo EXCEPT ![d] = @ \ {r}]
     ELSE Goto(d, "promote") /\ UNCHANGED todo
  /\ UNCHANGED <<spoolVars, dbVars, backendVars, done>>

LookupFile(d, r) ==
  /\ At(d, "lookup", r)
  /\ Goto(d, IF r \in known THEN "dedupe" ELSE "promote")
  /\ UNCHANGED <<spoolVars, dbVars, backendVars, todo, done>>

\* The terminal record is written; the pending file is removed afterwards.
MarkDeduped(d, r) ==
  /\ At(d, "dedupe", r)
  /\ processed' = processed \cup {r}
  /\ Goto(d, "unlink")
  /\ UNCHANGED <<pending, failed, torn, captured, dbVars, backendVars, todo, done>>

Promote(d, r) ==
  /\ At(d, "promote", r)
  /\ Store(d, r)
  /\ Goto(d, "record")
  /\ UNCHANGED <<spoolVars, dbVars, todo, done>>

PromoteThrows(d, r) ==
  /\ At(d, "promote", r)
  /\ \/ "promote" \in Fault /\ UNCHANGED backendVars
     \/ "timeout" \in Fault /\ Store(d, r)
  /\ Goto(d, "error")
  /\ UNCHANGED <<spoolVars, dbVars, todo, done>>

\* Mutant: the pending file is removed as soon as the table knows the record.
RecordFileUnlinks(d, r) ==
  /\ At(d, "record", r)
  /\ known' = known \cup {r}
  /\ pending' = pending \ {r}
  /\ torn' = torn \ {r}
  /\ Goto(d, "mark")
  /\ UNCHANGED <<processed, failed, captured, jobRow, errorRow, refreshRow,
                 backendVars, todo, done>>

\* Mutant: the row is not written.
RecordFileForgets(d, r) ==
  /\ At(d, "record", r)
  /\ Goto(d, "mark")
  /\ UNCHANGED <<spoolVars, dbVars, backendVars, todo, done>>

RecordFile(d, r) ==
  /\ At(d, "record", r)
  /\ known' = known \cup {r}
  /\ Goto(d, "mark")
  /\ UNCHANGED <<spoolVars, jobRow, errorRow, refreshRow, backendVars, todo, done>>

MarkProcessed(d, r) ==
  /\ At(d, "mark", r)
  /\ processed' = processed \cup {r}
  /\ done' = [done EXCEPT ![d] = @ \cup {r}]
  /\ Goto(d, "unlink")
  /\ UNCHANGED <<pending, failed, torn, captured, dbVars, backendVars, todo>>

AddError(d, r) ==
  /\ At(d, "error", r)
  /\ errorRow' = [errorRow EXCEPT ![d] = TRUE]
  /\ Goto(d, "fail")
  /\ UNCHANGED <<spoolVars, known, jobRow, refreshRow, backendVars, todo, done>>

MarkFailed(d, r) ==
  /\ At(d, "fail", r)
  /\ failed' = failed \cup {r}
  /\ Goto(d, "unlink")
  /\ UNCHANGED <<pending, processed, torn, captured, dbVars, backendVars, todo, done>>

\* rmSync of the pending file; a file that is already gone is no error.
Unlink(d, r) ==
  /\ At(d, "unlink", r)
  /\ pending' = pending \ {r}
  /\ torn' = torn \ {r}
  /\ todo' = [todo EXCEPT ![d] = @ \ {r}]
  /\ Goto(d, "read")
  /\ UNCHANGED <<processed, failed, captured, dbVars, backendVars, done>>

EndOfBatch(d) ==
  /\ pc[d] = "read" /\ todo[d] = {}
  /\ Goto(d, IF done[d] # {} THEN "refresh" ELSE "finish")
  /\ UNCHANGED <<spoolVars, dbVars, backendVars, todo, done>>

\* triggerRuntimeRefresh: the row, the call, the outcome.
InsertRefresh(d) ==
  /\ pc[d] = "refresh"
  /\ refreshRow' = [refreshRow EXCEPT ![d] = "running"]
  /\ Goto(d, "refreshing")
  /\ UNCHANGED <<spoolVars, known, jobRow, errorRow, backendVars, todo, done>>

Reindexed == stale' = [d \in Daemon |-> {}]

RefreshIndex(d) ==
  /\ pc[d] = "refreshing"
  /\ Reindexed
  /\ refreshRow' = [refreshRow EXCEPT ![d] = "completed"]
  /\ Goto(d, "finish")
  /\ UNCHANGED <<spoolVars, known, jobRow, errorRow, stored, todo, done>>

\* Mutant: a failed refresh is only noted in its row.
RefreshThrowsSwallowed(d) ==
  /\ pc[d] = "refreshing"
  /\ "refresh" \in Fault
  /\ refreshRow' = [refreshRow EXCEPT ![d] = "failed"]
  /\ Goto(d, "finish")
  /\ UNCHANGED <<spoolVars, known, jobRow, errorRow, backendVars, todo, done>>

\* The call fails, or the row cannot be completed (or cannot be changed at all).
RefreshThrows(d) ==
  /\ pc[d] = "refreshing"
  /\ Fault \cap {"refresh", "database"} # {}
  /\ Reindexed \/ UNCHANGED stale
  /\ \/ refreshRow' = [refreshRow EXCEPT ![d] = "failed"]
     \/ "database" \in Fault /\ UNCHANGED refreshRow
  /\ Abort(d)
  /\ UNCHANGED <<spoolVars, known, jobRow, errorRow, stored>>

FinishJob(d) ==
  /\ pc[d] = "finish"
  /\ jobRow' = [jobRow EXCEPT ![d] = "completed"]
  /\ done' = [done EXCEPT ![d] = {}]
  /\ Goto(d, "idle")
  /\ UNCHANGED <<spoolVars, known, errorRow, refreshRow, backendVars, todo>>

-----------------------------------------------------------------------------
(***************************************************************************)
(* Faults.                                                                 *)
(***************************************************************************)

\* recordFile throws inside the per-record try, every other statement outside.
DatabaseThrows(d) ==
  /\ "database" \in Fault
  /\ \/ /\ pc[d] = "record"
        /\ Goto(d, "error")
        /\ UNCHANGED <<todo, done>>
     \/ /\ \/ pc[d] \in {"lookup", "error", "refresh", "finish"}
           \/ pc[d] = "migrate" /\ todo[d] = {} /\ pending # {}
        /\ Abort(d)
  /\ UNCHANGED <<spoolVars, dbVars, backendVars>>

Crash(d) ==
  /\ "crash" \in Fault
  /\ pc[d] # "idle"
  /\ Abort(d)
  /\ UNCHANGED <<spoolVars, dbVars, backendVars>>

-----------------------------------------------------------------------------

RecordStep(d, r) ==
  \/ CopyOpen(d, r) \/ CopyClose(d, r)
  \/ ReadSpoolRecord(d, r) \/ ReadThrows(d, r) \/ LookupFile(d, r)
  \/ MarkDeduped(d, r)
  \/ Promote(d, r) \/ RecordFile(d, r) \/ MarkProcessed(d, r)
  \/ AddError(d, r) \/ MarkFailed(d, r)
  \/ Unlink(d, r)

\* What a run does of its own accord.
Step(d) ==
  \/ ListEmpty(d) \/ ListPending(d)
  \/ \E r \in Record : RecordStep(d, r)
  \/ EndOfBatch(d) \/ InsertRefresh(d) \/ RefreshIndex(d) \/ FinishJob(d)

FaultStep(d) ==
  \/ \E r \in Record : PromoteThrows(d, r)
  \/ RefreshThrows(d) \/ DatabaseThrows(d) \/ Crash(d)

Next ==
  \/ \E r \in Record : Capture(r)
  \/ \E d \in Daemon : Construct(d) \/ Step(d) \/ FaultStep(d)

Spec == Init /\ [][Next]_vars

\* A run that is alive goes on, and the scheduler keeps starting runs; no host
\* event and no fault has to happen.
Fairness == \A d \in Daemon : WF_vars(Step(d)) /\ WF_vars(Construct(d))

FairSpec == Spec /\ Fairness

-----------------------------------------------------------------------------
(***************************************************************************)
(* Safety.                                                                 *)
(***************************************************************************)

\* A record that was ever in the spool has a whole copy somewhere: moving it
\* to processed/ or failed/, racing with another run, a redelivery, a legacy
\* copy or a crash never loses it.
NoRecordLost ==
  captured \subseteq (pending \ torn) \cup processed \cup failed \cup Legacy

\* The files table and processed/ claim no record the backend does not hold,
\* so a record skipped as a duplicate is never one that was not ingested.
IngestedIsStored == known \cup processed \subseteq stored

\* What a run has ingested is in an index refreshed after it when its job is
\* marked as completed.
CompletedRunRefreshed ==
  \A d \in Daemon : pc[d] = "finish" => stale[d] \cap done[d] = {}

\* Without backend or database errors no record is moved to failed/, however
\* the runs race for it.
FailedNeedsError ==
  Fault \cap {"promote", "timeout", "database"} = {} => failed = {}

\* Unless a run dies or is told a lie about a promote or a row, what the backend
\* holds and the files table does not know yet is about to be recorded: however
\* often an event is delivered, only runs that look the record up while another
\* one is promoting it can give it to the backend a second time.
StoredIsRecorded ==
  Fault \cap {"crash", "timeout", "database"} = {} =>
    \A r \in stored \ known : \E d \in Daemon : At(d, "record", r)

\* What each control point of a run relies on, although other runs, hooks and
\* crashes act in between: what a batch holds was captured (or is a legacy
\* file), a record about to be marked as processed is stored, a pending file
\* is only removed once its record is in a terminal directory, and only the
\* copy of a legacy file is ever incomplete.
RunInv ==
  /\ pending \subseteq captured
  /\ captured \subseteq pending \cup processed \cup failed
  /\ torn \subseteq Legacy
  /\ IngestedIsStored
  /\ \A d \in Daemon :
       /\ todo[d] \subseteq
            (IF pc[d] \in {"migrate", "copying"} THEN Legacy ELSE captured)
       /\ \A r \in Record :
            /\ At(d, "dedupe", r) => r \in known
            /\ At(d, "record", r) \/ At(d, "mark", r) => r \in stored
            /\ At(d, "unlink", r) => r \in processed \cup failed

-----------------------------------------------------------------------------
(***************************************************************************)
(* Liveness, under FairSpec.                                               *)
(***************************************************************************)

\* Every record leaves pending/, one way or the other.
PendingDrained ==
  \A r \in Record : r \in pending ~> r \notin pending

-----------------------------------------------------------------------------
(***************************************************************************)
(* What the documentation says and the code does not do.                   *)
(***************************************************************************)

\* docs/HOOKS.md, line 121: invalid envelopes are isolated and do not break
\* the processing of the others.
InvalidIsolated ==
  \A r \in Record \ Invalid : r \in pending ~> r \notin pending

-----------------------------------------------------------------------------
(***************************************************************************)
(* Refinement: the directories read as the dispositions of SpoolContract.  *)
(***************************************************************************)

disposition ==
  [r \in Record |-> IF r \in processed THEN "ingested"
                   ELSE IF r \in failed THEN "rejected"
                   ELSE IF r \in pending THEN "pending"
                   ELSE "unseen"]

Contract == INSTANCE SpoolContract
              WITH Record <- Record, disposition <- disposition, stored <- stored

\* The spool implements its contract, whatever runs, races, crashes and
\* failures happen.
ImplementsContract == Contract!ContractSpec
=============================================================================
