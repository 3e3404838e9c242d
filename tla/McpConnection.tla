--------------------------- MODULE McpConnection ---------------------------
(***************************************************************************)
(* StdioMcpConnection: JSON-RPC requests of concurrent callers over the    *)
(* pipes of a child process that the connection starts on demand.          *)
(*                                                                         *)
(* The code runs in one JavaScript event loop.  A step is one event (a     *)
(* call, a frame on stdout, a timer, the exit of a process, close) or one  *)
(* continuation of an await.  Events wait until all continuations have run *)
(* (Quiet); continuations that are ready together run in any order, which  *)
(* stands for the different numbers of awaits between them.  The clients   *)
(* of the daemon, the memory runtime and the context engine each have a    *)
(* copy of the class with the same text, but for two things that the       *)
(* context engine's copy lacks (ExitHandled, FramesChecked).               *)
(***************************************************************************)
EXTENDS Integers

CONSTANTS
  Caller,       \* asynchronous callers of request(), each with one call at a time
  Nobody,       \* no owner of the start promise
  Versions,     \* protocol versions the start loop tries
  MaxCalls,     \* bound on the number of calls
  ExitHandled,  \* is there an exit handler? (not in the context engine's copy)
  FramesChecked \* must a frame be a result or an error to settle a call?
                \* (not in the context engine's copy)

ASSUME ConstantsAssumption ==
  /\ Nobody \notin Caller
  /\ Versions \in Nat \ {0}
  /\ MaxCalls \in Nat
  /\ ExitHandled \in BOOLEAN /\ FramesChecked \in BOOLEAN

VARIABLES
  child,     \* this.child: the number of the process, 0 for null
  spawned,   \* number of processes spawned so far
  alive,     \* processes that have not exited
  killed,    \* processes that were sent a signal by close()
  started,   \* this.started
  starting,  \* the caller whose promise this.starting holds
  nextId,    \* this.nextId
  pending,   \* keys of this.pending
  sent,      \* requests written to a process and not answered
  calls,     \* number of calls made (bounded by MaxCalls)
  pc, attempt, idOf, waitsFor,  \* each caller's place in the code and locals
  settled,   \* the promise a caller awaits: still open, resolved or rejected
  startFailed, \* history: has an attempt to start ever failed?
  dropped    \* history: entries a request of the process itself has removed

processVars == <<child, spawned, alive, killed>>
callerVars == <<attempt, idOf, waitsFor>>
history == <<startFailed, dropped>>
vars == <<processVars, started, starting, nextId, pending, sent, calls,
          pc, callerVars, settled, history>>

\* What has been given out so far.
Ids == 1 .. nextId - 1
Processes == 1 .. spawned

\* idle:    no call
\* await:   awaits the start loop of another caller
\* init:    runs the start loop and awaits the answer to initialize
\* retry:   the start loop has closed the connection after a failure
\* send:    ensureStarted has returned
\* waiting: awaits the answer to its request
Control == {"idle", "await", "init", "retry", "send", "waiting"}

\* Type invariant: every id in use was given out, every process in use was
\* spawned, and no start loop tries more versions than there are.
TypeOK ==
  /\ spawned \in Nat /\ child \in {0} \cup Processes
  /\ alive \subseteq Processes /\ killed \subseteq Processes
  /\ started \in BOOLEAN /\ starting \in {Nobody} \cup Caller
  /\ nextId \in Nat \ {0} /\ pending \subseteq Ids
  /\ sent \subseteq [to : Processes, id : Ids, from : Caller]
  /\ calls \in 0 .. MaxCalls
  /\ pc \in [Caller -> Control]
  /\ attempt \in [Caller -> 0 .. Versions]
  /\ idOf \in [Caller -> {0} \cup Ids]
  /\ waitsFor \in [Caller -> {Nobody} \cup Caller]
  /\ settled \in [Caller -> {"open", "resolved", "rejected"}]
  /\ startFailed \in BOOLEAN /\ dropped \subseteq Ids

Init ==
  /\ child = 0 /\ spawned = 0 /\ alive = {} /\ killed = {}
  /\ started = FALSE /\ starting = Nobody
  /\ nextId = 1 /\ pending = {} /\ sent = {} /\ calls = 0
  /\ pc = [c \in Caller |-> "idle"]
  /\ attempt = [c \in Caller |-> 0]
  /\ idOf = [c \in Caller |-> 0]
  /\ waitsFor = [c \in Caller |-> Nobody]
  /\ settled = [c \in Caller |-> "open"]
  /\ startFailed = FALSE /\ dropped = {}

-----------------------------------------------------------------------------
(***************************************************************************)
(* Helpers.                                                                *)
(***************************************************************************)

Ready(c) == pc[c] \in {"retry", "send"} \/ settled[c] # "open"

Quiet == \A c \in Caller : ~Ready(c)

\* c awaits the answer to a request that is in the table.
Waits(c) == pc[c] \in {"init", "waiting"} /\ settled[c] = "open"

\* Every request in the table is rejected.
RejectPending(st) ==
  [c \in Caller |-> IF Waits(c) /\ idOf[c] \in pending THEN "rejected" ELSE st[c]]

\* start(): a process is spawned and initialize is written to it.
StartAttempt(c) ==
  /\ spawned' = spawned + 1
  /\ child' = spawned + 1
  /\ alive' = alive \cup {spawned + 1}
  /\ attempt' = [attempt EXCEPT ![c] = @ + 1]
  /\ idOf' = [idOf EXCEPT ![c] = nextId]
  /\ nextId' = nextId + 1
  /\ pending' = pending \cup {nextId}
  /\ sent' = sent \cup {[to |-> spawned + 1, id |-> nextId, from |-> c]}
  /\ pc' = [pc EXCEPT ![c] = "init"]

\* The call of c is over; its locals go out of scope.
Return(c) ==
  /\ pc' = [pc EXCEPT ![c] = "idle"]
  /\ attempt' = [attempt EXCEPT ![c] = 0]
  /\ idOf' = [idOf EXCEPT ![c] = 0]
  /\ waitsFor' = [waitsFor EXCEPT ![c] = Nobody]

\* The promise of c's start loop is settled, for those that await it.
SettleWaiters(c, how) ==
  [w \in Caller |-> IF pc[w] = "await" /\ waitsFor[w] = c THEN how
                    ELSE IF w = c THEN "open"
                    ELSE settled[w]]

-----------------------------------------------------------------------------
(***************************************************************************)
(* request: ensureStarted, then requestOnce.                               *)
(***************************************************************************)

\* Mutant: a start that is under way is not noticed.
CallAlwaysStarts(c) ==
  /\ Quiet
  /\ pc[c] = "idle" /\ calls < MaxCalls
  /\ calls' = calls + 1
  /\ \/ /\ started
        /\ pc' = [pc EXCEPT ![c] = "send"]
        /\ UNCHANGED <<processVars, starting, nextId, pending, sent, callerVars>>
     \/ /\ ~started
        /\ starting' = c
        /\ StartAttempt(c)
        /\ UNCHANGED <<killed, waitsFor>>
  /\ UNCHANGED <<started, settled, history>>

Call(c) ==
  /\ Quiet
  /\ pc[c] = "idle" /\ calls < MaxCalls
  /\ calls' = calls + 1
  /\ \/ /\ started
        /\ pc' = [pc EXCEPT ![c] = "send"]
        /\ UNCHANGED <<processVars, starting, nextId, pending, sent, callerVars>>
     \/ /\ ~started /\ starting # Nobody
        /\ pc' = [pc EXCEPT ![c] = "await"]
        /\ waitsFor' = [waitsFor EXCEPT ![c] = starting]
        /\ UNCHANGED <<processVars, starting, nextId, pending, sent, attempt, idOf>>
     \/ /\ ~started /\ starting = Nobody
        /\ starting' = c
        /\ StartAttempt(c)
        /\ UNCHANGED <<killed, waitsFor>>
  /\ UNCHANGED <<started, settled, history>>

\* The answer to initialize is an object and the child is still there: the
\* notification is written and the loop ends.
StartSucceeds(c) ==
  /\ pc[c] = "init" /\ settled[c] = "resolved"
  /\ child # 0
  /\ started' = TRUE
  /\ starting' = Nobody
  /\ settled' = SettleWaiters(c, "resolved")
  /\ pc' = [pc EXCEPT ![c] = "send"]
  /\ UNCHANGED <<processVars, nextId, pending, sent, calls, callerVars, history>>

\* Mutant: the table is cleared without rejecting what it holds.
StartFailsForgets(c) ==
  /\ pc[c] = "init" /\ settled[c] # "open"
  /\ pending' = {}
  /\ settled' = [settled EXCEPT ![c] = "open"]
  /\ killed' = IF child = 0 THEN killed ELSE killed \cup {child}
  /\ child' = 0
  /\ started' = FALSE
  /\ starting' = Nobody
  /\ startFailed' = TRUE
  /\ pc' = [pc EXCEPT ![c] = "retry"]
  /\ UNCHANGED <<spawned, alive, nextId, sent, calls, callerVars, dropped>>

\* The attempt is rejected, its answer is not an object, or the child is gone:
\* the loop closes the connection, whoever uses it.
StartFails(c) ==
  /\ pc[c] = "init" /\ settled[c] # "open"
  /\ pending' = {}
  /\ settled' = RejectPending([settled EXCEPT ![c] = "open"])
  /\ killed' = IF child = 0 THEN killed ELSE killed \cup {child}
  /\ child' = 0
  /\ started' = FALSE
  /\ starting' = Nobody
  /\ startFailed' = TRUE
  /\ pc' = [pc EXCEPT ![c] = "retry"]
  /\ UNCHANGED <<spawned, alive, nextId, sent, calls, callerVars, dropped>>

\* The next protocol version.
Retry(c) ==
  /\ pc[c] = "retry" /\ attempt[c] < Versions
  /\ StartAttempt(c)
  /\ UNCHANGED <<killed, started, starting, calls, waitsFor, settled, history>>

\* Mutant: the promise of the loop stays open.
GiveUpAlone(c) ==
  /\ pc[c] = "retry" /\ attempt[c] = Versions
  /\ starting' = Nobody
  /\ Return(c)
  /\ UNCHANGED <<processVars, started, nextId, pending, sent, calls, settled,
                 history>>

\* No version is left: the loop, and all who await it, fail.
GiveUp(c) ==
  /\ pc[c] = "retry" /\ attempt[c] = Versions
  /\ settled' = SettleWaiters(c, "rejected")
  /\ starting' = Nobody
  /\ Return(c)
  /\ UNCHANGED <<processVars, started, nextId, pending, sent, calls, history>>

\* The loop of another caller has ended.
AwaitEnds(c) ==
  /\ pc[c] = "await" /\ settled[c] # "open"
  /\ settled' = [settled EXCEPT ![c] = "open"]
  /\ \/ /\ settled[c] = "resolved"
        /\ pc' = [pc EXCEPT ![c] = "send"]
        /\ UNCHANGED callerVars
     \/ /\ settled[c] = "rejected"
        /\ Return(c)
  /\ UNCHANGED <<processVars, started, starting, nextId, pending, sent, calls,
                 history>>

\* requestOnce: the entry is made before the write, and stays in the table when
\* the write finds no child.  What is written to a process that has exited is
\* lost.
Send(c) ==
  /\ pc[c] = "send"
  /\ nextId' = nextId + 1
  /\ pending' = pending \cup {nextId}
  /\ IF child = 0
     THEN Return(c) /\ UNCHANGED sent
     ELSE /\ pc' = [pc EXCEPT ![c] = "waiting"]
          /\ idOf' = [idOf EXCEPT ![c] = nextId]
          /\ sent' = IF child \in alive
                     THEN sent \cup {[to |-> child, id |-> nextId, from |-> c]}
                     ELSE sent
          /\ UNCHANGED <<attempt, waitsFor>>
  /\ UNCHANGED <<processVars, started, starting, calls, settled, history>>

\* The caller gets its answer or an error.
RequestEnds(c) ==
  /\ pc[c] = "waiting" /\ settled[c] # "open"
  /\ settled' = [settled EXCEPT ![c] = "open"]
  /\ Return(c)
  /\ UNCHANGED <<processVars, started, starting, nextId, pending, sent, calls,
                 history>>

-----------------------------------------------------------------------------
(***************************************************************************)
(* Events.                                                                 *)
(***************************************************************************)

\* A frame of a process, which may have exited since it wrote it: a result or
\* an error.  An id that is not in the table is ignored.
Answer(m, how) ==
  /\ Quiet
  /\ m \in sent
  /\ sent' = sent \ {m}
  /\ pending' = pending \ {m.id}
  /\ settled' = [c \in Caller |->
                   IF m.id \in pending /\ Waits(c) /\ idOf[c] = m.id
                   THEN how ELSE settled[c]]
  /\ UNCHANGED <<processVars, started, starting, nextId, calls, pc, callerVars,
                 history>>

\* A request of the process itself, with an id of its own: a frame that is
\* neither result nor error removes the entry with that id.  It settles nothing,
\* or, where frames are not checked, resolves the caller without a result.
ServerRequest(i) ==
  /\ Quiet
  /\ alive # {}
  /\ pending' = pending \ {i}
  /\ dropped' = dropped \cup {i}
  /\ settled' = [c \in Caller |->
                   IF ~FramesChecked /\ Waits(c) /\ idOf[c] = i
                   THEN "resolved" ELSE settled[c]]
  /\ UNCHANGED <<processVars, started, starting, nextId, sent, calls, pc,
                 callerVars, startFailed>>

Timeout(c) ==
  /\ Quiet
  /\ Waits(c) /\ idOf[c] \in pending
  /\ pending' = pending \ {idOf[c]}
  /\ settled' = [settled EXCEPT ![c] = "rejected"]
  /\ UNCHANGED <<processVars, started, starting, nextId, sent, calls, pc,
                 callerVars, history>>

\* A process exits, of its own accord or killed (and then never with code 0).
\* The handler does not ask which process it was.
Exit(g, clean) ==
  /\ Quiet
  /\ g \in alive
  /\ clean => g \notin killed
  /\ alive' = alive \ {g}
  /\ IF ExitHandled /\ (started \/ ~clean)
     THEN pending' = {} /\ settled' = RejectPending(settled)
     ELSE UNCHANGED <<pending, settled>>
  /\ UNCHANGED <<child, spawned, killed, started, starting, nextId, sent, calls,
                 pc, callerVars, history>>

\* Mutant: the table is cleared without rejecting what it holds.
CloseForgets ==
  /\ Quiet
  /\ pending' = {}
  /\ killed' = IF child = 0 THEN killed ELSE killed \cup {child}
  /\ child' = 0
  /\ started' = FALSE
  /\ starting' = Nobody
  /\ UNCHANGED <<spawned, alive, nextId, sent, calls, pc, callerVars, settled,
                 history>>

\* Mutant: a closed connection counts its requests from 1 again.
CloseResetsIds ==
  /\ Quiet
  /\ pending' = {}
  /\ settled' = RejectPending(settled)
  /\ killed' = IF child = 0 THEN killed ELSE killed \cup {child}
  /\ child' = 0
  /\ started' = FALSE
  /\ starting' = Nobody
  /\ nextId' = 1
  /\ UNCHANGED <<spawned, alive, sent, calls, pc, callerVars, history>>

\* close() by the owner of the client.
Close ==
  /\ Quiet
  /\ pending' = {}
  /\ settled' = RejectPending(settled)
  /\ killed' = IF child = 0 THEN killed ELSE killed \cup {child}
  /\ child' = 0
  /\ started' = FALSE
  /\ starting' = Nobody
  /\ UNCHANGED <<spawned, alive, nextId, sent, calls, pc, callerVars, history>>

-----------------------------------------------------------------------------

Continue(c) ==
  \/ StartSucceeds(c) \/ StartFails(c) \/ Retry(c) \/ GiveUp(c)
  \/ AwaitEnds(c) \/ Send(c) \/ RequestEnds(c)

Next ==
  \/ \E c \in Caller : Call(c) \/ Continue(c) \/ Timeout(c)
  \/ \E m \in sent, how \in {"resolved", "rejected"} : Answer(m, how)
  \/ \E i \in pending : ServerRequest(i)
  \/ \E g \in alive, clean \in BOOLEAN : Exit(g, clean)
  \/ Close

Spec == Init /\ [][Next]_vars

\* The event loop runs its continuations, and timers fire.  No process has to
\* answer, and none has to exit.
Fairness == \A c \in Caller : WF_vars(Continue(c)) /\ WF_vars(Timeout(c))

FairSpec == Spec /\ Fairness

-----------------------------------------------------------------------------
(***************************************************************************)
(* Safety.                                                                 *)
(***************************************************************************)

\* A request that waits has its entry in the table, so that an answer, a timer
\* or a close can still settle it: no close, exit or failed start of another
\* caller drops it in silence.  Only a request of the process itself does.
WaitingIsPending ==
  \A c \in Caller : Waits(c) => idOf[c] \in pending \cup dropped

\* A caller that awaits a start loop awaits one that is still running.
AwaitedLoopRuns ==
  \A c \in Caller :
    pc[c] = "await" /\ settled[c] = "open" => pc[waitsFor[c]] \in {"init", "retry"}

\* Callers that arrive together share one process: until a start fails, no
\* process runs that close() would not kill.
OneProcessUntilFailure == startFailed \/ alive \subseteq {child} \cup killed

\* A resolved caller holds the answer to its own request, also when answers of
\* earlier processes arrive late.  Only where frames are not checked may a
\* request of the process have resolved it.
AnswerIsOwn ==
  [][\A c \in Caller :
       Waits(c) /\ settled'[c] = "resolved"
         => \/ \E m \in sent \ sent' : m.from = c /\ m.id = idOf[c]
            \/ ~FramesChecked /\ idOf[c] \in dropped']_vars

-----------------------------------------------------------------------------
\* The entry of c, or of the caller whose start loop c awaits, was dropped.
Dropped(c) ==
  \/ idOf[c] \in dropped
  \/ pc[c] = "await" /\ idOf[waitsFor[c]] \in dropped

\* Liveness, under FairSpec: every call returns, whether or not its process
\* answers or exits, unless a request of the process has dropped its entry.
CallReturns == \A c \in Caller : pc[c] # "idle" ~> pc[c] = "idle" \/ Dropped(c)
=============================================================================
