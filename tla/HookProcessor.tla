--------------------------- MODULE HookProcessor ---------------------------
(***************************************************************************)
(* The spool processor of the hook pack: processPendingSpool, with the     *)
(* spool directories, the lock directory and the MCP client it uses.       *)
(*                                                                         *)
(* Each processor is an operating-system process of its own; so are the    *)
(* runs of the sync daemon, which take records of the same spool and do    *)
(* not look at this lock.  Each may be killed between two file operations. *)
(***************************************************************************)
EXTENDS Naturals, FiniteSets

CONSTANTS
  Record,     \* spool records, by name; their order is that of the names
  Invalid,    \* the records that cannot be read or have no envelope
  Processor,  \* the processes that run processPendingSpool
  Daemon,     \* the daemon's runs of processSpool
  Nobody      \* no record

ASSUME ConstantsAssumption ==
  /\ Record \subseteq Nat /\ IsFiniteSet(Record)
  /\ Invalid \subseteq Record
  /\ Nobody \notin Record

VARIABLES
  pending, processed, failed,  \* the spool directories
  refreshed,  \* the files of processed/ that say refreshed: true
  lock,       \* does processor.lock exist?
  stored,     \* the records the backend holds
  pc,         \* each processor's place in the code
  todo,       \* the files it listed and has not read
  current,    \* the record it works on
  child,      \* its MCP process: none, up, or dead and never replaced
  step,       \* what each daemon run does next with the record it has taken
  taken,      \* that record
  known,      \* the records in the daemon's files table
  captured,   \* history: the records the hooks have written
  fresh,      \* history: what the backend held at a refresh
  misread,    \* history: a result marked isError was taken for a success
  orphaned    \* history: a holder went away without releasing the lock

files == <<pending, processed, failed, refreshed>>
locals == <<pc, todo, current, child>>
daemon == <<step, taken, known>>
history == <<captured, fresh, misread, orphaned>>
vars == <<files, lock, stored, locals, daemon, history>>

Control == {"idle", "start", "next", "promote", "refresh", "succeed", "fail", "remove",
            "close"}
DaemonControl == {"away", "promote", "processed", "failed", "remove"}

\* Type invariant: also, a record that is worked on is valid.
TypeOK ==
  /\ pending \subseteq Record
  /\ processed \subseteq Record /\ failed \subseteq Record /\ refreshed \subseteq processed
  /\ lock \in BOOLEAN /\ stored \subseteq Record
  /\ pc \in [Processor -> Control]
  /\ todo \in [Processor -> SUBSET Record]
  /\ current \in [Processor -> Record \cup {Nobody}]
  /\ \A p \in Processor :
       pc[p] \in {"promote", "refresh", "succeed", "fail", "remove"}
         => current[p] \in Record \ Invalid
  /\ child \in [Processor -> {"none", "up", "dead"}]
  /\ step \in [Daemon -> DaemonControl]
  /\ taken \in [Daemon -> Record \cup {Nobody}]
  /\ \A d \in Daemon : step[d] # "away" => taken[d] \in Record \ Invalid
  /\ known \subseteq Record
  /\ captured \subseteq Record /\ fresh \subseteq stored
  /\ misread \subseteq Record /\ orphaned \in BOOLEAN

Init ==
  /\ pending = {} /\ processed = {} /\ failed = {} /\ refreshed = {}
  /\ lock = FALSE /\ stored = {}
  /\ pc = [p \in Processor |-> "idle"]
  /\ todo = [p \in Processor |-> {}]
  /\ current = [p \in Processor |-> Nobody]
  /\ child = [p \in Processor |-> "none"]
  /\ step = [d \in Daemon |-> "away"]
  /\ taken = [d \in Daemon |-> Nobody]
  /\ known = {}
  /\ captured = {} /\ fresh = {} /\ misread = {} /\ orphaned = FALSE

Goto(p, place) == pc' = [pc EXCEPT ![p] = place]

\* The process ends; its MCP process ends with it.
End(p) ==
  /\ Goto(p, "idle")
  /\ todo' = [todo EXCEPT ![p] = {}]
  /\ current' = [current EXCEPT ![p] = Nobody]
  /\ child' = [child EXCEPT ![p] = "none"]

-----------------------------------------------------------------------------
\* The session-spool hook writes the record of an event; the same event again
\* is the same file, wherever the first one is by now.
Capture(r) ==
  /\ pending' = pending \cup {r}
  /\ captured' = captured \cup {r}
  /\ UNCHANGED <<processed, failed, refreshed, lock, stored, locals, daemon, fresh,
                 misread, orphaned>>

\* readSpoolRecord: the file is there and has an envelope.
Readable == pending \ Invalid

-----------------------------------------------------------------------------
(***************************************************************************)
(* A run of the daemon's processSpool, as far as a pass can meet it.       *)
(***************************************************************************)

\* The run reads a listed file and looks its fingerprint up.  Whatever its list
\* holds, a file that is gone or invalid would end the run.
DaemonReads(d) ==
  /\ step[d] = "away"
  /\ \E r \in Readable :
       /\ taken' = [taken EXCEPT ![d] = r]
       /\ step' = [step EXCEPT ![d] = IF r \in known THEN "processed" ELSE "promote"]
  /\ UNCHANGED <<files, lock, stored, locals, known, history>>

\* The backend stores the record and the table gets its row; or the backend
\* refuses, or its answer or the row is lost.
DaemonPromotes(d) ==
  /\ step[d] = "promote"
  /\ \/ /\ stored' = stored \cup {taken[d]}
        /\ known' = known \cup {taken[d]}
        /\ step' = [step EXCEPT ![d] = "processed"]
     \/ /\ stored' \in {stored, stored \cup {taken[d]}}
        /\ step' = [step EXCEPT ![d] = "failed"]
        /\ UNCHANGED known
  /\ UNCHANGED <<files, lock, locals, taken, history>>

\* writeTerminalRecord: the record is in its last directory ...
DaemonWrites(d) ==
  /\ \/ /\ step[d] = "processed"
        /\ processed' = processed \cup {taken[d]} /\ refreshed' = refreshed \ {taken[d]}
        /\ UNCHANGED failed
     \/ /\ step[d] = "failed"
        /\ failed' = failed \cup {taken[d]}
        /\ UNCHANGED <<processed, refreshed>>
  /\ step' = [step EXCEPT ![d] = "remove"]
  /\ UNCHANGED <<pending, lock, stored, locals, taken, known, history>>

\* ... before its pending file is removed.
DaemonRemoves(d) ==
  /\ step[d] = "remove"
  /\ pending' = pending \ {taken[d]}
  /\ step' = [step EXCEPT ![d] = "away"]
  /\ taken' = [taken EXCEPT ![d] = Nobody]
  /\ UNCHANGED <<processed, failed, refreshed, lock, stored, locals, known, history>>

\* The refresh at the end of the batch.  It may fail, or the run may end before
\* it: nothing makes up for it.
DaemonRefreshes(d) ==
  /\ step[d] = "away"
  /\ fresh' = stored
  /\ UNCHANGED <<files, lock, stored, locals, daemon, captured, misread, orphaned>>

\* The run is killed, or an exception leaves it.
DaemonEnds(d) ==
  /\ step[d] # "away"
  /\ step' = [step EXCEPT ![d] = "away"]
  /\ taken' = [taken EXCEPT ![d] = Nobody]
  /\ UNCHANGED <<files, lock, stored, locals, known, history>>

DaemonStep(d) ==
  \/ DaemonReads(d) \/ DaemonPromotes(d) \/ DaemonWrites(d) \/ DaemonRemoves(d)
  \/ DaemonRefreshes(d) \/ DaemonEnds(d)

-----------------------------------------------------------------------------
\* Mutant: the directory is created even if it exists.
AcquireAnyway(p) ==
  /\ pc[p] = "idle"
  /\ lock' = TRUE
  /\ Goto(p, "start")
  /\ UNCHANGED <<files, stored, todo, current, child, daemon, history>>

\* acquireProcessorLock: mkdir.  If the directory exists, the pass is skipped.
Acquire(p) ==
  /\ pc[p] = "idle" /\ ~lock
  /\ lock' = TRUE
  /\ Goto(p, "start")
  /\ UNCHANGED <<files, stored, todo, current, child, daemon, history>>

\* The configuration and the list of files are outside of the try: without a
\* command the pass ends and the lock stays.
Start(p) ==
  /\ pc[p] = "start"
  /\ \/ /\ Goto(p, "next")
        /\ todo' = [todo EXCEPT ![p] = pending]
        /\ UNCHANGED <<current, child, orphaned>>
     \/ End(p) /\ orphaned' = TRUE
  /\ UNCHANGED <<files, lock, stored, daemon, captured, fresh, misread>>

\* Mutant: what reading throws leaves the pass without the finally.
AfterThrowUncaught == "idle"

AfterThrow == "close"

\* readSpoolRecord of the next file is outside of the inner try: a file that is
\* gone or invalid ends the pass.
Read(p) ==
  /\ pc[p] = "next" /\ todo[p] # {}
  /\ \E r \in todo[p] :
       /\ \A q \in todo[p] : r <= q
       /\ todo' = [todo EXCEPT ![p] = @ \ {r}]
       /\ IF r \in Readable
          THEN Goto(p, "promote") /\ current' = [current EXCEPT ![p] = r]
          ELSE Goto(p, AfterThrow) /\ UNCHANGED current
  /\ UNCHANGED <<files, lock, stored, child, daemon, history>>

\* ensureStarted: the child is set before it has spawned and initialised, so a
\* start that fails is not tried again; later calls go to that child.
Connect(p) ==
  /\ pc[p] = "promote" /\ child[p] = "none"
  /\ \E to \in {"up", "dead"} :
       /\ child' = [child EXCEPT ![p] = to]
       /\ \/ to = "up" /\ UNCHANGED pc
          \/ Goto(p, "fail")
  /\ UNCHANGED <<files, lock, stored, todo, current, daemon, history>>

\* A call of a tool is rejected: an error, a time-out, a pipe that is closed, no
\* such tool, or a record that has no valid promote input.
CallFails(p) ==
  /\ pc[p] \in {"promote", "refresh"} /\ child[p] # "none"
  /\ Goto(p, "fail")
  /\ UNCHANGED <<files, lock, stored, todo, current, child, daemon, history>>

\* coerceStructuredPayload: a result marked as an error is like any other.
Misread(p) == misread' = misread \cup {current[p]}

\* The backend stores the record; its answer arrives or is lost.
Promote(p) ==
  /\ pc[p] = "promote" /\ child[p] = "up"
  /\ \/ /\ stored' = stored \cup {current[p]}
        /\ \E place \in {"refresh", "fail"} : Goto(p, place)
        /\ UNCHANGED misread
     \/ Goto(p, "refresh") /\ Misread(p) /\ UNCHANGED stored
  /\ UNCHANGED <<files, lock, todo, current, child, daemon, captured, fresh, orphaned>>

\* Mutant: the refresh is not awaited.
RefreshUnawaited(p) ==
  /\ pc[p] = "refresh" /\ child[p] = "up"
  /\ Goto(p, "succeed")
  /\ UNCHANGED <<files, lock, stored, todo, current, child, daemon, history>>

Refresh(p) ==
  /\ pc[p] = "refresh" /\ child[p] = "up"
  /\ \/ fresh' = stored /\ UNCHANGED misread
     \/ Misread(p) /\ UNCHANGED fresh
  /\ Goto(p, "succeed")
  /\ UNCHANGED <<files, lock, stored, todo, current, child, daemon, captured, orphaned>>

\* Mutant: the pending file is removed before the record is written elsewhere.
SettleRemoving(p) ==
  /\ pc[p] \in {"succeed", "fail"}
  /\ pending' = pending \ {current[p]}
  /\ Goto(p, "remove")
  /\ UNCHANGED <<processed, failed, refreshed, lock, stored, todo, current, child, daemon,
                 history>>

\* markSpoolRecordProcessed, markSpoolRecordFailed: the record is written to its
\* last directory, and then its pending file is removed.
Settle(p) ==
  /\ \/ /\ pc[p] = "succeed"
        /\ processed' = processed \cup {current[p]}
        /\ refreshed' = refreshed \cup {current[p]}
        /\ UNCHANGED failed
     \/ /\ pc[p] = "fail"
        /\ failed' = failed \cup {current[p]}
        /\ UNCHANGED <<processed, refreshed>>
  /\ Goto(p, "remove")
  /\ UNCHANGED <<pending, lock, stored, todo, current, child, daemon, history>>

Remove(p) ==
  /\ pc[p] = "remove"
  /\ pending' = pending \ {current[p]}
  /\ Goto(p, "next")
  /\ current' = [current EXCEPT ![p] = Nobody]
  /\ UNCHANGED <<processed, failed, refreshed, lock, stored, todo, child, daemon, history>>

Done(p) ==
  /\ pc[p] = "next" /\ todo[p] = {}
  /\ Goto(p, "close")
  /\ UNCHANGED <<files, lock, stored, todo, current, child, daemon, history>>

\* finally: the client is closed, the lock released.
Release(p) ==
  /\ pc[p] = "close"
  /\ lock' = FALSE
  /\ End(p)
  /\ UNCHANGED <<files, stored, daemon, history>>

\* The processor is killed.
Crash(p) ==
  /\ pc[p] # "idle"
  /\ End(p)
  /\ orphaned' = TRUE
  /\ UNCHANGED <<files, lock, stored, daemon, captured, fresh, misread>>

\* The MCP process dies; nothing in the client notices.
ChildExits(p) ==
  /\ child[p] = "up"
  /\ child' = [child EXCEPT ![p] = "dead"]
  /\ UNCHANGED <<files, lock, stored, pc, todo, current, daemon, history>>

\* A step of a pass that has begun.
Continue(p) ==
  \/ Start(p) \/ Read(p) \/ Connect(p) \/ CallFails(p) \/ Promote(p) \/ Refresh(p)
  \/ Settle(p) \/ Remove(p) \/ Done(p) \/ Release(p)

Next ==
  \/ \E r \in Record : Capture(r)
  \/ \E d \in Daemon : DaemonStep(d)
  \/ \E p \in Processor : Acquire(p) \/ Continue(p) \/ Crash(p) \/ ChildExits(p)

Spec == Init /\ [][Next]_vars

\* A pass that has begun goes on: the code only awaits requests, which time out.
FairSpec == Spec /\ \A p \in Processor : WF_vars(Continue(p))

-----------------------------------------------------------------------------
(***************************************************************************)
(* Properties.                                                             *)
(***************************************************************************)

Inside == {p \in Processor : pc[p] # "idle"}

Lock == INSTANCE SpoolLock WITH Holder <- Processor, holders <- Inside, taken <- lock

\* The lock directory is a lock: one pass runs at a time, and what a crash
\* leaves behind stops all later passes.
ImplementsLock == Lock!LockSpec

\* A captured record is in some directory of the spool, whoever crashes and
\* whatever the daemon does meanwhile.
NothingLost == captured \subseteq pending \cup processed \cup failed

\* What is in processed/ is in the backend, whoever moved it there, and a file of
\* processed/ that says refreshed: true is right: the backend was refreshed after
\* it had stored the record.  (The daemon's files do not say so: they are written
\* before its refresh.)  An error result that the client took for an answer is
\* the exception.
ProcessedTrue ==
  /\ processed \subseteq stored \cup misread
  /\ refreshed \subseteq fresh \cup misread

\* The lock is free again, unless a holder crashed or had no command.
LockReturned == lock ~> (~lock \/ orphaned)
=============================================================================
