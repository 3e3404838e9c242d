----------------------------- MODULE SourceSync -----------------------------
(***************************************************************************)
(* Synchronisation of external sources: SyncDaemon.runOnce, reindex and    *)
(* runScheduled.                                                           *)
(*                                                                         *)
(* A run lists the configured sources, and for each of them opens a job,   *)
(* scans its files, skips those whose hash the files table knows, promotes *)
(* the chunks not yet seen in this job, records the file, and refreshes    *)
(* the index at the end.  Runs of several processes overlap: nothing locks *)
(* the table or the sources.  Meanwhile files are edited and sources are   *)
(* added and removed.                                                      *)
(*                                                                         *)
(* A file's content is the set of its chunks, and stands for its hash.     *)
(* The knowledge graph upsert is left out: it writes to another tool, its  *)
(* errors are swallowed, and nothing in the code reads it back.            *)
(***************************************************************************)
EXTENDS Integers

CONSTANTS
  Daemon,    \* SyncDaemon instances that may be alive at the same time
  Source,    \* source ids, numbered in the order of listSources
  File,      \* files, numbered in the order of scanSource
  Owner,     \* the source a file belongs to
  Chunk,     \* chunk texts, numbered in the order they have in a file
  Contents,  \* what a file may hold, each a set of chunks
  None,      \* no such file, no such row, no current file or source
  MaxEdits,  \* bound on the number of edits
  Command,   \* commands that start a run in this instance
  Fault      \* the kinds of fault this instance may meet

\* crash:    the process dies between two steps
\* spool:    processSpool throws (see SpoolIngest)
\* scan:     the path of a source cannot be listed
\* promote:  the backend refuses a promote
\* timeout:  the backend applies a promote but the client sees an error
\* refresh:  the refresh call fails (the backend may have done it)
\* database: an SQL statement throws
FaultKind ==
  {"crash", "spool", "scan", "promote", "timeout", "refresh", "database"}

ASSUME ConstantsAssumption ==
  /\ Source \subseteq Nat /\ File \subseteq Nat /\ Chunk \subseteq Nat
  /\ Owner \in [File -> Source]
  /\ Contents \subseteq SUBSET Chunk
  /\ \A v \in SUBSET Chunk : v # None
  /\ \A i \in Source \cup File : i # None
  /\ MaxEdits \in Nat
  /\ Command \subseteq {"run", "reindex", "run-scheduled"}
  /\ Fault \subseteq FaultKind

Artifact == File \X Chunk    \* an artifact id is a hash of path and chunk

VARIABLES
  disk,        \* content of each file
  edits,       \* number of edits made (bounded by MaxEdits)
  sources,     \* rows of the sources table
  recorded,    \* content whose hash the files table holds for each file
  jobRow,      \* status of the last jobs row each daemon inserted
  errorRow,    \* does the errors table hold a row of that job?
  refreshRow,  \* status of the runtime_refresh row of that job
  stored,      \* artifacts the backend holds
  stale,       \* artifacts a daemon stored after the last refresh
  pc,
  due,         \* sources runScheduled still has to run
  want,        \* the source this runOnce was asked for (None: all of them)
  force,       \* is this a forced reindex?
  left,        \* sources this runOnce still has to sync
  cands,       \* candidates of the current source not yet handled
  seen,        \* seenRunChunkFingerprints
  body,        \* unique chunks of the current file not yet promoted
  read,        \* content of the current file, as it was read
  promoted     \* artifacts promoted by the current job

diskVars == <<disk, edits>>
dbVars == <<sources, recorded, jobRow, errorRow, refreshRow>>
jobVars == <<jobRow, errorRow, refreshRow>>
backendVars == <<stored, stale>>
planVars == <<due, want, force, left>>
fileVars == <<cands, seen, body, read, promoted>>
vars == <<diskVars, dbVars, backendVars, pc, planVars, fileVars>>

Control == {"idle", "spool", "list", "job", "scan", "file", "promote",
            "record", "refresh", "refreshing", "finish", "error", "fail"}

Content == {None} \cup SUBSET Chunk

TablesOK ==
  /\ disk \in [File -> Content] /\ edits \in 0 .. MaxEdits
  /\ sources \subseteq Source /\ recorded \in [File -> Content]
  /\ jobRow \in [Daemon -> {"none", "running", "completed", "failed"}]
  /\ errorRow \in [Daemon -> BOOLEAN]
  /\ refreshRow \in [Daemon -> {"none", "running", "completed", "failed"}]
  /\ stored \subseteq Artifact /\ stale \in [Daemon -> SUBSET Artifact]

RunsOK ==
  /\ pc \in [Daemon -> Control]
  /\ due \in [Daemon -> SUBSET Source]
  /\ want \in [Daemon -> {None} \cup Source]
  /\ force \in [Daemon -> BOOLEAN]
  /\ left \in [Daemon -> SUBSET Source]
  /\ cands \in [Daemon -> SUBSET File]
  /\ seen \in [Daemon -> SUBSET Chunk]
  /\ body \in [Daemon -> SUBSET Chunk]
  /\ read \in [Daemon -> Content]
  /\ promoted \in [Daemon -> SUBSET Artifact]

\* Type invariant: tables and run variables hold sources, files and chunks,
\* and each run is at one point of runOnce.
TypeOK == TablesOK /\ RunsOK

Init ==
  /\ disk \in [File -> Contents] /\ edits = 0
  /\ sources = {} /\ recorded = [f \in File |-> None]
  /\ jobRow = [d \in Daemon |-> "none"]
  /\ errorRow = [d \in Daemon |-> FALSE]
  /\ refreshRow = [d \in Daemon |-> "none"]
  /\ stored = {} /\ stale = [d \in Daemon |-> {}]
  /\ pc = [d \in Daemon |-> "idle"]
  /\ due = [d \in Daemon |-> {}]
  /\ want = [d \in Daemon |-> None]
  /\ force = [d \in Daemon |-> FALSE]
  /\ left = [d \in Daemon |-> {}]
  /\ cands = [d \in Daemon |-> {}]
  /\ seen = [d \in Daemon |-> {}]
  /\ body = [d \in Daemon |-> {}]
  /\ read = [d \in Daemon |-> None]
  /\ promoted = [d \in Daemon |-> {}]
-----------------------------------------------------------------------------
(***************************************************************************)
(* Helpers.                                                                *)
(***************************************************************************)

Goto(d, label) == pc' = [pc EXCEPT ![d] = label]

IsFirst(x, S) == x \in S /\ \A y \in S : x <= y

At(d, label) == pc[d] = label

\* d is working on source s, and on file f of it.
AtSource(d, label, s) == At(d, label) /\ IsFirst(s, left[d])
AtFile(d, label, f) == At(d, label) /\ IsFirst(f, cands[d])

FilesOf(s) == {f \in File : Owner[f] = s}

\* The chunks of source s the backend holds, whatever file they came from.
StoredChunks(s) == {c \in Chunk : \E f \in FilesOf(s) : <<f, c>> \in stored}

\* The job's local variables go out of scope.
EndOfJob(d) ==
  /\ cands' = [cands EXCEPT ![d] = {}]
  /\ seen' = [seen EXCEPT ![d] = {}]
  /\ body' = [body EXCEPT ![d] = {}]
  /\ read' = [read EXCEPT ![d] = None]
  /\ promoted' = [promoted EXCEPT ![d] = {}]

\* An exception that leaves runOnce, and runScheduled with it.
Abort(d) ==
  /\ Goto(d, "idle")
  /\ due' = [due EXCEPT ![d] = {}]
  /\ want' = [want EXCEPT ![d] = None]
  /\ force' = [force EXCEPT ![d] = FALSE]
  /\ left' = [left EXCEPT ![d] = {}]
  /\ EndOfJob(d)

\* Mutant: the catch goes straight to the job's status.
ThrowSkipsError(d) == Goto(d, "fail") /\ UNCHANGED planVars

\* An exception inside the per-source try.
Throw(d) == Goto(d, "error") /\ UNCHANGED planVars

\* The backend performs one promote on behalf of d: an upsert by artifact id.
Store(d, f, c) ==
  /\ stored' = stored \cup {<<f, c>>}
  /\ stale' = [stale EXCEPT ![d] = @ \cup {<<f, c>>}]

Reindexed == stale' = [d \in Daemon |-> {}]

-----------------------------------------------------------------------------
(***************************************************************************)
(* The world: files are written and deleted, sources added and removed.    *)
(***************************************************************************)

Edit(f, v) ==
  /\ edits < MaxEdits
  /\ disk[f] # v
  /\ disk' = [disk EXCEPT ![f] = v]
  /\ edits' = edits + 1
  /\ UNCHANGED <<dbVars, backendVars, pc, planVars, fileVars>>

UpsertSource(s) ==
  /\ sources' = sources \cup {s}
  /\ UNCHANGED <<diskVars, recorded, jobVars, backendVars, pc, planVars, fileVars>>

DeleteSource(s) ==
  /\ s \in sources
  /\ sources' = sources \ {s}
  /\ UNCHANGED <<diskVars, recorded, jobVars, backendVars, pc, planVars, fileVars>>

-----------------------------------------------------------------------------
(***************************************************************************)
(* A run: which sources.                                                   *)
(***************************************************************************)

\* run, run --source-id and reindex [--force].
RunOnce(d, w, forced) ==
  /\ At(d, "idle")
  /\ (IF forced THEN "reindex" ELSE "run") \in Command
  /\ want' = [want EXCEPT ![d] = w]
  /\ force' = [force EXCEPT ![d] = forced]
  /\ Goto(d, "spool")
  /\ UNCHANGED <<diskVars, dbVars, backendVars, due, left, fileVars>>

\* The sources due at this minute are run one after the other.
RunScheduled(d, S) ==
  /\ At(d, "idle")
  /\ "run-scheduled" \in Command
  /\ S # {} /\ S \subseteq sources
  /\ \E s \in S :
       /\ IsFirst(s, S)
       /\ want' = [want EXCEPT ![d] = s]
       /\ due' = [due EXCEPT ![d] = S \ {s}]
  /\ Goto(d, "spool")
  /\ UNCHANGED <<diskVars, dbVars, backendVars, force, left, fileVars>>

\* processSpool returns; it has refreshed the index when it ingested anything.
ProcessSpool(d) ==
  /\ At(d, "spool")
  /\ Reindexed \/ UNCHANGED stale
  /\ Goto(d, "list")
  /\ UNCHANGED <<diskVars, dbVars, stored, planVars, fileVars>>

\* A source that was asked for and has been removed ends the run.
ListSources(d) ==
  /\ At(d, "list")
  /\ IF want[d] = None
     THEN /\ left' = [left EXCEPT ![d] = sources]
          /\ Goto(d, "job")
          /\ UNCHANGED <<due, want, force, fileVars>>
     ELSE IF want[d] \in sources
     THEN /\ left' = [left EXCEPT ![d] = {want[d]}]
          /\ Goto(d, "job")
          /\ UNCHANGED <<due, want, force, fileVars>>
     ELSE Abort(d)
  /\ UNCHANGED <<diskVars, dbVars, backendVars>>

\* runOnce returns; runScheduled goes on with the next due source.
EndOfRun(d) ==
  /\ At(d, "job") /\ left[d] = {}
  /\ IF due[d] = {}
     THEN Abort(d)
     ELSE \E s \in due[d] :
            /\ IsFirst(s, due[d])
            /\ want' = [want EXCEPT ![d] = s]
            /\ due' = [due EXCEPT ![d] = @ \ {s}]
            /\ Goto(d, "spool")
            /\ UNCHANGED <<force, left, fileVars>>
  /\ UNCHANGED <<diskVars, dbVars, backendVars>>

-----------------------------------------------------------------------------
(***************************************************************************)
(* A run: one source.                                                      *)
(***************************************************************************)

StartJob(d, s) ==
  /\ AtSource(d, "job", s)
  /\ jobRow' = [jobRow EXCEPT ![d] = "running"]
  /\ errorRow' = [errorRow EXCEPT ![d] = FALSE]
  /\ refreshRow' = [refreshRow EXCEPT ![d] = "none"]
  /\ Goto(d, "scan")
  /\ UNCHANGED <<diskVars, sources, recorded, backendVars, planVars,
                 fileVars>>

ScanSource(d, s) ==
  /\ AtSource(d, "scan", s)
  /\ cands' = [cands EXCEPT ![d] = {f \in FilesOf(s) : disk[f] # None}]
  /\ Goto(d, "file")
  /\ UNCHANGED <<diskVars, dbVars, backendVars, planVars, seen, body, read,
                 promoted>>

ScanThrows(d, s) ==
  /\ AtSource(d, "scan", s)
  /\ "scan" \in Fault
  /\ Throw(d)
  /\ UNCHANGED <<diskVars, dbVars, backendVars, fileVars>>

\* The files row has the hash of what is on the disk.
Cached(d, f) == ~force[d] /\ recorded[f] = disk[f]

Skip(d, f) ==
  /\ cands' = [cands EXCEPT ![d] = @ \ {f}]
  /\ UNCHANGED <<pc, seen, body, read>>

Prepare(d, chunks, v) ==
  /\ body' = [body EXCEPT ![d] = chunks]
  /\ seen' = [seen EXCEPT ![d] = @ \cup v]
  /\ read' = [read EXCEPT ![d] = v]
  /\ Goto(d, "promote")
  /\ UNCHANGED cands

\* Mutant: any row counts as up to date.
ReadFileSkipsKnown(d, f) ==
  /\ AtFile(d, "file", f)
  /\ disk[f] # None
  /\ IF recorded[f] # None \/ disk[f] \subseteq seen[d]
     THEN Skip(d, f)
     ELSE Prepare(d, disk[f] \ seen[d], disk[f])
  /\ UNCHANGED <<diskVars, dbVars, backendVars, planVars, promoted>>

\* Mutant: the set of fingerprints is not consulted.
ReadFileKeepsSeen(d, f) ==
  /\ AtFile(d, "file", f)
  /\ disk[f] # None
  /\ IF Cached(d, f) \/ disk[f] = {}
     THEN Skip(d, f)
     ELSE Prepare(d, disk[f], disk[f])
  /\ UNCHANGED <<diskVars, dbVars, backendVars, planVars, promoted>>

\* The file is read and its hash compared with its row; its chunks are marked
\* as seen before any of them is promoted.
ReadFile(d, f) ==
  /\ AtFile(d, "file", f)
  /\ disk[f] # None
  /\ IF Cached(d, f) \/ disk[f] \subseteq seen[d]   \* also if there is no chunk
     THEN Skip(d, f)
     ELSE Prepare(d, disk[f] \ seen[d], disk[f])
  /\ UNCHANGED <<diskVars, dbVars, backendVars, planVars, promoted>>

\* The file has been deleted since the scan.
ReadThrows(d, f) ==
  /\ AtFile(d, "file", f)
  /\ disk[f] = None
  /\ Throw(d)
  /\ UNCHANGED <<diskVars, dbVars, backendVars, fileVars>>

\* One round of promoteChunks.
Promote(d, f, c) ==
  /\ AtFile(d, "promote", f) /\ IsFirst(c, body[d])
  /\ Store(d, f, c)
  /\ body' = [body EXCEPT ![d] = @ \ {c}]
  /\ promoted' = [promoted EXCEPT ![d] = @ \cup {<<f, c>>}]
  /\ Goto(d, IF body[d] = {c} THEN "record" ELSE "promote")
  /\ UNCHANGED <<diskVars, dbVars, planVars, cands, seen, read>>

PromoteThrows(d, f, c) ==
  /\ AtFile(d, "promote", f) /\ IsFirst(c, body[d])
  /\ \/ "promote" \in Fault /\ UNCHANGED backendVars
     \/ "timeout" \in Fault /\ Store(d, f, c)
  /\ Throw(d)
  /\ UNCHANGED <<diskVars, dbVars, fileVars>>

\* Mutant: the hash is taken when the row is written.
RecordFileRereads(d, f) ==
  /\ AtFile(d, "record", f)
  /\ recorded' = [recorded EXCEPT ![f] = disk[f]]
  /\ cands' = [cands EXCEPT ![d] = @ \ {f}]
  /\ Goto(d, "file")
  /\ UNCHANGED <<diskVars, sources, jobVars, backendVars, planVars, seen, body,
                 read, promoted>>

\* Mutant: the count of promoted artifacts starts anew with each file.
RecordFileResetsCount(d, f) ==
  /\ AtFile(d, "record", f)
  /\ recorded' = [recorded EXCEPT ![f] = read[d]]
  /\ cands' = [cands EXCEPT ![d] = @ \ {f}]
  /\ promoted' = [promoted EXCEPT ![d] = IF cands[d] = {f} THEN @ ELSE {}]
  /\ Goto(d, "file")
  /\ UNCHANGED <<diskVars, sources, jobVars, backendVars, planVars, seen, body,
                 read>>

\* The row gets the hash of what was read, not of what the file holds now.
RecordFile(d, f) ==
  /\ AtFile(d, "record", f)
  /\ recorded' = [recorded EXCEPT ![f] = read[d]]
  /\ cands' = [cands EXCEPT ![d] = @ \ {f}]
  /\ Goto(d, "file")
  /\ UNCHANGED <<diskVars, sources, jobVars, backendVars, planVars, seen, body,
                 read, promoted>>

EndOfFiles(d) ==
  /\ At(d, "file") /\ cands[d] = {}
  /\ Goto(d, IF promoted[d] # {} THEN "refresh" ELSE "finish")
  /\ UNCHANGED <<diskVars, dbVars, backendVars, planVars, fileVars>>

InsertRefresh(d) ==
  /\ At(d, "refresh")
  /\ refreshRow' = [refreshRow EXCEPT ![d] = "running"]
  /\ Goto(d, "refreshing")
  /\ UNCHANGED <<diskVars, sources, recorded, jobRow, errorRow,
                 backendVars, planVars, fileVars>>

RefreshIndex(d) ==
  /\ At(d, "refreshing")
  /\ Reindexed
  /\ refreshRow' = [refreshRow EXCEPT ![d] = "completed"]
  /\ Goto(d, "finish")
  /\ UNCHANGED <<diskVars, sources, recorded, jobRow, errorRow,
                 stored, planVars, fileVars>>

\* Mutant: a failed refresh is only noted in its row.
RefreshThrowsSwallowed(d) ==
  /\ At(d, "refreshing")
  /\ Fault \cap {"refresh", "database"} # {}
  /\ Reindexed \/ UNCHANGED stale
  /\ refreshRow' = [refreshRow EXCEPT ![d] = "failed"]
  /\ Goto(d, "finish")
  /\ UNCHANGED <<diskVars, sources, recorded, jobRow, errorRow,
                 stored, planVars, fileVars>>

\* The call fails, or the row cannot be completed (or cannot be changed at all).
RefreshThrows(d) ==
  /\ At(d, "refreshing")
  /\ Fault \cap {"refresh", "database"} # {}
  /\ Reindexed \/ UNCHANGED stale
  /\ \/ refreshRow' = [refreshRow EXCEPT ![d] = "failed"]
     \/ "database" \in Fault /\ UNCHANGED refreshRow
  /\ Throw(d)
  /\ UNCHANGED <<diskVars, sources, recorded, jobRow, errorRow,
                 stored, fileVars>>

FinishJob(d, s) ==
  /\ AtSource(d, "finish", s)
  /\ jobRow' = [jobRow EXCEPT ![d] = "completed"]
  /\ left' = [left EXCEPT ![d] = @ \ {s}]
  /\ EndOfJob(d)
  /\ Goto(d, "job")
  /\ UNCHANGED <<diskVars, sources, recorded, errorRow, refreshRow, backendVars,
                 due, want, force>>

\* The catch: the error row, the job's status, and the exception goes on.
AddError(d) ==
  /\ At(d, "error")
  /\ errorRow' = [errorRow EXCEPT ![d] = TRUE]
  /\ Goto(d, "fail")
  /\ UNCHANGED <<diskVars, sources, recorded, jobRow, refreshRow,
                 backendVars, planVars, fileVars>>

FailJob(d) ==
  /\ At(d, "fail")
  /\ jobRow' = [jobRow EXCEPT ![d] = "failed"]
  /\ Abort(d)
  /\ UNCHANGED <<diskVars, sources, recorded, errorRow, refreshRow,
                 backendVars>>

-----------------------------------------------------------------------------
(***************************************************************************)
(* Faults.                                                                 *)
(***************************************************************************)

SpoolThrows(d) ==
  /\ At(d, "spool")
  /\ "spool" \in Fault
  /\ Reindexed \/ UNCHANGED stale
  /\ Abort(d)
  /\ UNCHANGED <<diskVars, dbVars, stored>>

\* Statements of the try end in its catch, all others end the run.
DatabaseThrows(d) ==
  /\ "database" \in Fault
  /\ \/ /\ \/ At(d, "file") /\ cands[d] # {}
           \/ pc[d] \in {"record", "refresh", "finish"}
        /\ Throw(d)
        /\ UNCHANGED fileVars
     \/ /\ \/ pc[d] \in {"list", "error", "fail"}
           \/ At(d, "job") /\ left[d] # {}
        /\ Abort(d)
  /\ UNCHANGED <<diskVars, dbVars, backendVars>>

Crash(d) ==
  /\ "crash" \in Fault
  /\ ~At(d, "idle")
  /\ Abort(d)
  /\ UNCHANGED <<diskVars, dbVars, backendVars>>

-----------------------------------------------------------------------------

World ==
  \/ \E f \in File, v \in Contents \cup {None} : Edit(f, v)
  \/ \E s \in Source : UpsertSource(s) \/ DeleteSource(s)

Schedule(d) ==
  \/ \E w \in Source \cup {None}, forced \in BOOLEAN : RunOnce(d, w, forced)
  \/ \E S \in SUBSET Source : RunScheduled(d, S)

FileStep(d, f) ==
  \/ ReadFile(d, f) \/ ReadThrows(d, f)
  \/ \E c \in Chunk : Promote(d, f, c)
  \/ RecordFile(d, f)

\* What a run does of its own accord.
Step(d) ==
  \/ ProcessSpool(d) \/ ListSources(d) \/ EndOfRun(d)
  \/ \E s \in Source : StartJob(d, s) \/ ScanSource(d, s) \/ FinishJob(d, s)
  \/ \E f \in File : FileStep(d, f)
  \/ EndOfFiles(d) \/ InsertRefresh(d) \/ RefreshIndex(d)
  \/ AddError(d) \/ FailJob(d)

FaultStep(d) ==
  \/ SpoolThrows(d) \/ DatabaseThrows(d) \/ Crash(d) \/ RefreshThrows(d)
  \/ \E s \in Source : ScanThrows(d, s)
  \/ \E f \in File, c \in Chunk : PromoteThrows(d, f, c)

Next ==
  \/ World
  \/ \E d \in Daemon : Schedule(d) \/ Step(d) \/ FaultStep(d)

Spec == Init /\ [][Next]_vars

\* A run that is alive goes on, and every configured source is due again and
\* again at a minute at which the scheduler finds the process free.
Fairness ==
  /\ \A d \in Daemon : WF_vars(Step(d))
  /\ \A d \in Daemon, s \in Source : SF_vars(RunScheduled(d, {s}))

FairSpec == Spec /\ Fairness

-----------------------------------------------------------------------------
(***************************************************************************)
(* Safety.                                                                 *)
(***************************************************************************)

\* A row of the files table is never a promise the backend does not keep: each
\* chunk of the recorded content is stored under some file of the same source,
\* although chunks seen earlier in the job were left to another file's promote,
\* the file may have been edited in between and other runs write the row too.
RecordedIsStored ==
  \A f \in File :
    recorded[f] # None => recorded[f] \subseteq StoredChunks(Owner[f])

\* No job gives the backend the same chunk under two files.
JobPromotesOnce ==
  \A d \in Daemon : \A a, b \in promoted[d] : a[2] = b[2] => a = b

\* What a job promoted is in an index refreshed after it when the job is
\* marked as completed.
CompletedJobRefreshed ==
  \A d \in Daemon : At(d, "finish") => promoted[d] \cap stale[d] = {}

\* A failed job has left a row in errors, whatever failed.
FailedJobAudited == \A d \in Daemon : jobRow[d] = "failed" => errorRow[d]

\* A job is left running only by a crash or by sync.db, not by a file that
\* vanishes or a call that fails.
JobsClosed ==
  Fault \cap {"crash", "database"} = {}
    => \A d \in Daemon : At(d, "idle") => jobRow[d] # "running"

JobOK(d) ==
  /\ pc[d] \in {"idle", "spool", "list", "job", "scan"}
       => seen[d] = {} /\ promoted[d] = {}
  /\ pc[d] \notin {"promote", "error", "fail"} => body[d] = {}
  /\ body[d] \subseteq seen[d]
  /\ pc[d] \in {"file", "promote", "record"}
       => \E s \in Source :
            /\ cands[d] \subseteq FilesOf(s)
            /\ seen[d] \ body[d] \subseteq StoredChunks(s)
  /\ pc[d] \in {"promote", "record"} => read[d] \subseteq seen[d]
  /\ \A a \in promoted[d] : a[2] \in seen[d] \ body[d]

\* What a job knows at every step, and RecordedIsStored rests on: a chunk it has
\* seen is in the backend under a file of its source, or is still to be promoted
\* for the current file; the content it will record is all seen; and it has
\* promoted nothing it would promote again.
JobInv == \A d \in Daemon : JobOK(d)

-----------------------------------------------------------------------------
(***************************************************************************)
(* Liveness, under FairSpec.                                               *)
(***************************************************************************)

\* Once the files stand still, everything the configured sources hold is in
\* the backend.
CaughtUp ==
  \A f \in File :
    <>[](Owner[f] \in sources)
      => <>[](disk[f] # None => disk[f] \subseteq StoredChunks(Owner[f]))

\* As long as no file is deleted under a run, a promoted chunk is eventually
\* covered by a refresh.
PromotedRefreshed ==
  [](\A f \in File : disk[f] # None)
    => \A d \in Daemon : stale[d] # {} ~> stale[d] = {}

-----------------------------------------------------------------------------
(***************************************************************************)
(* What the documentation says and the code does not do.                   *)
(***************************************************************************)

\* docs/SPEC.md, line 609: what the pipeline writes to MemPalace is followed by
\* a refresh, so a source whose jobs complete has none left.
PipelineRefreshed ==
  \A d \in Daemon : stale[d] # {} /\ jobRow[d] = "completed"
    ~> stale[d] = {}
=============================================================================
