------------------------ MODULE HookProcessorProofs ------------------------
(***************************************************************************)
(* Proofs about HookProcessor, for any set of records, processors and      *)
(* daemon runs.                                                            *)
(***************************************************************************)
EXTENDS HookProcessor, TLAPS

LEMMA TypeStep ==
  ASSUME TypeOK, [Next]_vars
  PROVE  TypeOK'
<1> USE ConstantsAssumption DEF TypeOK, Control, DaemonControl, vars, files, locals,
           daemon, history, Goto, End
<1>1. ASSUME NEW r \in Record, Capture(r) PROVE TypeOK'
  BY <1>1 DEF Capture
<1>2. ASSUME NEW d \in Daemon, DaemonStep(d) PROVE TypeOK'
  <2>1. CASE DaemonReads(d)
    <3>1. PICK r \in Readable :
            /\ taken' = [taken EXCEPT ![d] = r]
            /\ step' = [step EXCEPT ![d] = IF r \in known THEN "processed" ELSE "promote"]
      BY <2>1 DEF DaemonReads
    <3>2. r \in Record \ Invalid
      BY <3>1 DEF Readable
    <3>3. CASE r \in known
      BY <2>1, <3>1, <3>2, <3>3 DEF DaemonReads
    <3>4. CASE r \notin known
      BY <2>1, <3>1, <3>2, <3>4 DEF DaemonReads
    <3> QED
      BY <3>3, <3>4
  <2>2. CASE DaemonPromotes(d)
    BY <2>2 DEF DaemonPromotes
  <2>3. CASE DaemonWrites(d)
    BY <2>3 DEF DaemonWrites
  <2>4. CASE DaemonRemoves(d)
    BY <2>4 DEF DaemonRemoves
  <2>5. CASE DaemonRefreshes(d)
    BY <2>5 DEF DaemonRefreshes
  <2>6. CASE DaemonEnds(d)
    BY <2>6 DEF DaemonEnds
  <2> QED
    BY <1>2, <2>1, <2>2, <2>3, <2>4, <2>5, <2>6 DEF DaemonStep
<1>3. ASSUME NEW p \in Processor, Acquire(p) PROVE TypeOK'
  BY <1>3 DEF Acquire
<1>4. ASSUME NEW p \in Processor, Continue(p) PROVE TypeOK'
  <2>1. CASE Start(p)
    BY <2>1 DEF Start
  <2>2. CASE Read(p)
    <3>1. PICK r \in todo[p] :
            /\ todo' = [todo EXCEPT ![p] = @ \ {r}]
            /\ IF r \in Readable
               THEN Goto(p, "promote") /\ current' = [current EXCEPT ![p] = r]
               ELSE Goto(p, AfterThrow) /\ UNCHANGED current
      BY <2>2 DEF Read
    <3>2. CASE r \in Readable
      BY <2>2, <3>1, <3>2 DEF Read, Readable
    <3>3. CASE r \notin Readable
      BY <2>2, <3>1, <3>3 DEF Read, AfterThrow
    <3> QED
      BY <3>2, <3>3
  <2>3. CASE Connect(p)
    BY <2>3 DEF Connect
  <2>4. CASE CallFails(p)
    BY <2>4 DEF CallFails
  <2>5. CASE Promote(p)
    <3>1. current[p] \in Record \ Invalid
      BY <2>5 DEF Promote
    <3> QED
      BY <2>5, <3>1 DEF Promote, Misread
  <2>6. CASE Refresh(p)
    <3>1. current[p] \in Record \ Invalid
      BY <2>6 DEF Refresh
    <3> QED
      BY <2>6, <3>1 DEF Refresh, Misread
  <2>7. CASE Settle(p)
    <3>1. current[p] \in Record \ Invalid
      BY <2>7 DEF Settle
    <3> QED
      BY <2>7, <3>1 DEF Settle
  <2>8. CASE Remove(p)
    BY <2>8 DEF Remove
  <2>9. CASE Done(p)
    BY <2>9 DEF Done
  <2>10. CASE Release(p)
    BY <2>10 DEF Release
  <2> QED
    BY <1>4, <2>1, <2>2, <2>3, <2>4, <2>5, <2>6, <2>7, <2>8, <2>9, <2>10 DEF Continue
<1>5. ASSUME NEW p \in Processor, Crash(p) PROVE TypeOK'
  BY <1>5 DEF Crash
<1>6. ASSUME NEW p \in Processor, ChildExits(p) PROVE TypeOK'
  BY <1>6 DEF ChildExits
<1>7. CASE UNCHANGED vars
  BY <1>7
<1> QED
  BY <1>1, <1>2, <1>3, <1>4, <1>5, <1>6, <1>7 DEF Next

\* The variables of the processor have their types: the records it works on are
\* valid ones, and what was refreshed was stored.
THEOREM TypeCorrect == Spec => []TypeOK
<1>1. Init => TypeOK
  BY ConstantsAssumption DEF Init, TypeOK, Control, DaemonControl
<1> QED
  BY <1>1, TypeStep, PTL DEF Spec

-----------------------------------------------------------------------------
(***************************************************************************)
(* Records.  A file is removed only after it was written elsewhere; what   *)
(* a pass calls a success was stored and then refreshed, and what a daemon *)
(* run calls one was stored.                                               *)
(***************************************************************************)

Settled ==
  /\ \A p \in Processor : pc[p] = "remove" => current[p] \in processed \cup failed
  /\ \A d \in Daemon : step[d] = "remove" => taken[d] \in processed \cup failed

Told ==
  \A p \in Processor :
    /\ pc[p] = "refresh" => current[p] \in stored \cup misread
    /\ pc[p] = "succeed" => current[p] \in fresh \cup misread

DaemonTold ==
  /\ known \subseteq stored
  /\ \A d \in Daemon : step[d] = "processed" => taken[d] \in stored

RecordInv == NothingLost /\ ProcessedTrue /\ Settled /\ Told /\ DaemonTold

LEMMA RecordStep ==
  ASSUME TypeOK, RecordInv, [Next]_vars
  PROVE  RecordInv'
<1> USE DEF RecordInv, NothingLost, ProcessedTrue, Settled, Told, DaemonTold, TypeOK, vars, files,
            locals, daemon, history, Goto, End
<1>1. ASSUME NEW r \in Record, Capture(r) PROVE RecordInv'
  BY <1>1 DEF Capture
<1>2. ASSUME NEW d \in Daemon, DaemonStep(d) PROVE RecordInv'
  <2>1. CASE DaemonReads(d)
    <3>1. PICK r \in Readable :
            /\ taken' = [taken EXCEPT ![d] = r]
            /\ step' = [step EXCEPT ![d] = IF r \in known THEN "processed" ELSE "promote"]
      BY <2>1 DEF DaemonReads
    <3>2. r \in Record \ Invalid
      BY <3>1 DEF Readable
    <3>3. CASE r \in known
      BY <2>1, <3>1, <3>2, <3>3 DEF DaemonReads
    <3>4. CASE r \notin known
      BY <2>1, <3>1, <3>2, <3>4 DEF DaemonReads
    <3> QED
      BY <3>3, <3>4
  <2>2. CASE DaemonPromotes(d)
    BY <2>2 DEF DaemonPromotes
  <2>3. CASE DaemonWrites(d)
    BY <2>3 DEF DaemonWrites
  <2>4. CASE DaemonRemoves(d)
    BY <2>4 DEF DaemonRemoves
  <2>5. CASE DaemonRefreshes(d)
    BY <2>5 DEF DaemonRefreshes
  <2>6. CASE DaemonEnds(d)
    BY <2>6 DEF DaemonEnds
  <2> QED
    BY <1>2, <2>1, <2>2, <2>3, <2>4, <2>5, <2>6 DEF DaemonStep
<1>3. ASSUME NEW p \in Processor, Acquire(p) PROVE RecordInv'
  BY <1>3 DEF Acquire
<1>4. ASSUME NEW p \in Processor, Continue(p) PROVE RecordInv'
  <2>1. CASE Start(p)
    BY <2>1 DEF Start
  <2>2. CASE Read(p)
    BY <2>2 DEF Read, AfterThrow
  <2>3. CASE Connect(p)
    BY <2>3 DEF Connect
  <2>4. CASE CallFails(p)
    BY <2>4 DEF CallFails
  <2>5. CASE Promote(p)
    BY <2>5 DEF Promote, Misread
  <2>6. CASE Refresh(p)
    BY <2>6 DEF Refresh, Misread
  <2>7. CASE Settle(p)
    BY <2>7 DEF Settle
  <2>8. CASE Remove(p)
    BY <2>8 DEF Remove
  <2>9. CASE Done(p)
    BY <2>9 DEF Done
  <2>10. CASE Release(p)
    BY <2>10 DEF Release
  <2> QED
    BY <1>4, <2>1, <2>2, <2>3, <2>4, <2>5, <2>6, <2>7, <2>8, <2>9, <2>10 DEF Continue
<1>5. ASSUME NEW p \in Processor, Crash(p) PROVE RecordInv'
  BY <1>5 DEF Crash
<1>6. ASSUME NEW p \in Processor, ChildExits(p) PROVE RecordInv'
  BY <1>6 DEF ChildExits
<1>7. CASE UNCHANGED vars
  BY <1>7
<1> QED
  BY <1>1, <1>2, <1>3, <1>4, <1>5, <1>6, <1>7 DEF Next

LEMMA RecordsKept == Spec => [](TypeOK /\ RecordInv)
<1>1. Init => TypeOK /\ RecordInv
  BY ConstantsAssumption DEF Init, TypeOK, Control, DaemonControl, RecordInv, NothingLost,
     ProcessedTrue, Settled, Told, DaemonTold
<1> QED
  BY <1>1, TypeStep, RecordStep, PTL DEF Spec

\* No captured record is ever in none of the directories of the spool, however
\* many processors, crashes and records there are.
THEOREM RecordsNeverLost == Spec => []NothingLost
<1>1. RecordInv => NothingLost
  BY DEF RecordInv
<1> QED
  BY <1>1, RecordsKept, PTL

\* What is in processed/ is in the backend, and what says refreshed: true was
\* refreshed, whatever passes and daemon runs do to each other's files, unless an
\* error result was taken for an answer.
THEOREM ProcessedIsTrue == Spec => []ProcessedTrue
<1>1. RecordInv => ProcessedTrue
  BY DEF RecordInv
<1> QED
  BY <1>1, RecordsKept, PTL

-----------------------------------------------------------------------------
(***************************************************************************)
(* The lock directory implements the lock of SpoolLock.                    *)
(***************************************************************************)

\* Who is inside a pass is there alone, with the lock taken.
Alone ==
  \A p \in Processor : pc[p] # "idle" =>
    lock /\ \A q \in Processor : pc[q] # "idle" => q = p

\* A step of a pass that stays in it.
LEMMA StaysInside ==
  ASSUME TypeOK, Alone, NEW p \in Processor, NEW place \in Control \ {"idle"},
         pc[p] # "idle", Goto(p, place), UNCHANGED lock
  PROVE  Alone' /\ Inside' = Inside
BY DEF TypeOK, Alone, Goto, Inside, Control

\* A step that leaves the pass.
LEMMA Leaves ==
  ASSUME TypeOK, Alone, NEW p \in Processor, pc[p] # "idle", Goto(p, "idle")
  PROVE  Alone' /\ Inside = {p} /\ Inside' = {} /\ lock
BY DEF TypeOK, Alone, Goto, Inside, Control

LEMMA LockStep ==
  ASSUME TypeOK, Alone, [Next]_vars
  PROVE  Alone' /\ [Lock!LockNext]_(Lock!lockVars)
<1> USE DEF Lock!lockVars, Lock!LockNext, vars, files, locals, daemon, history
<1>1. ASSUME (\E r \in Record : Capture(r)) \/ (\E d \in Daemon : DaemonStep(d))
      PROVE  Alone' /\ [Lock!LockNext]_(Lock!lockVars)
  <2>1. UNCHANGED <<lock, pc>>
    BY <1>1 DEF Capture, DaemonStep, DaemonReads, DaemonPromotes, DaemonWrites,
       DaemonRemoves, DaemonRefreshes, DaemonEnds
  <2> QED
    BY <2>1 DEF Alone, Inside
<1>2. ASSUME NEW p \in Processor, Acquire(p)
      PROVE  Alone' /\ [Lock!LockNext]_(Lock!lockVars)
  <2>1. pc' = [pc EXCEPT ![p] = "start"] /\ ~lock /\ lock'
    BY <1>2 DEF Acquire, Goto
  <2>2. \A q \in Processor : pc[q] = "idle"
    BY <2>1 DEF Alone
  <2>3. Inside' = {p} /\ Alone'
    BY <2>1, <2>2 DEF TypeOK, Inside, Alone
  <2>4. lock' = TRUE
    BY <1>2 DEF Acquire
  <2>5. Lock!Take(p)
    BY <2>1, <2>3, <2>4 DEF Lock!Take
  <2> QED
    BY <2>3, <2>5
<1>3. ASSUME NEW p \in Processor, Continue(p)
      PROVE  Alone' /\ [Lock!LockNext]_(Lock!lockVars)
  <2>1. CASE Start(p)
    <3>1. pc[p] # "idle" /\ lock' = lock
      BY <2>1 DEF Start
    <3>2. CASE Goto(p, "next")
      BY <3>1, <3>2, StaysInside DEF Control
    <3>3. CASE End(p)
      <4>1. Alone' /\ Inside = {p} /\ Inside' = {} /\ lock
        BY <3>1, <3>3, Leaves DEF End
      <4>2. Lock!Abandon(p)
        BY <3>1, <4>1 DEF Lock!Abandon
      <4> QED
        BY <4>1, <4>2
    <3> QED
      BY <2>1, <3>2, <3>3 DEF Start
  <2>2. CASE Connect(p)
    <3>1. CASE UNCHANGED pc
      BY <2>2, <3>1 DEF Connect, Alone, Inside
    <3>2. CASE Goto(p, "fail")
      BY <2>2, <3>2, StaysInside DEF Connect, Control
    <3> QED
      BY <2>2, <3>1, <3>2 DEF Connect
  <2>3. CASE Release(p)
    <3>1. Alone' /\ Inside = {p} /\ Inside' = {} /\ lock
      BY <2>3, Leaves DEF Release, End
    <3>2. Lock!Give(p)
      BY <2>3, <3>1 DEF Lock!Give, Release
    <3> QED
      BY <3>1, <3>2
  <2>4. CASE Read(p) \/ CallFails(p) \/ Promote(p) \/ Refresh(p) \/ Settle(p)
             \/ Remove(p) \/ Done(p)
    <3>1. pc[p] # "idle" /\ lock' = lock
      BY <2>4 DEF Read, CallFails, Promote, Refresh, Settle, Remove, Done
    <3>2. \E place \in Control \ {"idle"} : Goto(p, place)
      BY <2>4 DEF Read, CallFails, Promote, Refresh, Settle, Remove, Done, AfterThrow, Control
    <3> QED
      BY <3>1, <3>2, StaysInside
  <2> QED
    BY <1>3, <2>1, <2>2, <2>3, <2>4 DEF Continue
<1>4. ASSUME NEW p \in Processor, Crash(p)
      PROVE  Alone' /\ [Lock!LockNext]_(Lock!lockVars)
  <2>1. Alone' /\ Inside = {p} /\ Inside' = {} /\ lock
    BY <1>4, Leaves DEF Crash, End
  <2>2. Lock!Abandon(p)
    BY <1>4, <2>1 DEF Lock!Abandon, Crash
  <2> QED
    BY <2>1, <2>2
<1>5. ASSUME NEW p \in Processor, ChildExits(p)
      PROVE  Alone' /\ [Lock!LockNext]_(Lock!lockVars)
  BY <1>5 DEF ChildExits, Alone, Inside
<1>6. CASE UNCHANGED vars
  BY <1>6 DEF Alone, Inside
<1> QED
  BY <1>1, <1>2, <1>3, <1>4, <1>5, <1>6 DEF Next

\* The passes over the spool, seen as holders of a lock, behave as SpoolLock
\* says: the directory is a lock, and one that a crash leaves is never freed.
THEOREM DirectoryIsLock == Spec => ImplementsLock
<1>1. Init => TypeOK /\ Alone /\ Lock!LockInit
  BY ConstantsAssumption DEF Init, TypeOK, Control, DaemonControl, Alone, Lock!LockInit, Inside
<1> QED
  BY <1>1, TypeStep, LockStep, PTL DEF Spec, ImplementsLock, Lock!LockSpec
=============================================================================
