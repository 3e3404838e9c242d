------------------------ MODULE McpConnectionProofs ------------------------
(***************************************************************************)
(* Proofs about McpConnection, for any number of callers, calls, processes *)
(* and protocol versions.                                                  *)
(***************************************************************************)
EXTENDS McpConnection, TLAPS

\* The part of TypeOK that the proofs below use.
Shape ==
  /\ nextId \in Nat
  /\ sent \subseteq [to : Nat, id : Nat, from : Caller]
  /\ pc \in [Caller -> Control]
  /\ attempt \in [Caller -> Nat]
  /\ idOf \in [Caller -> Nat]
  /\ waitsFor \in [Caller -> {Nobody} \cup Caller]
  /\ settled \in [Caller -> {"open", "resolved", "rejected"}]
  /\ spawned \in Nat /\ child \in Nat
  /\ starting \in {Nobody} \cup Caller

\* Ids are never used twice: what a caller waits for, and what is under way,
\* is older than nextId and has one owner.
IdsFresh ==
  /\ \A c \in Caller : idOf[c] < nextId
  /\ \A m \in sent : m.id < nextId
  /\ \A c, e \in Caller :
       Waits(c) /\ Waits(e) /\ idOf[c] = idOf[e] => c = e
  /\ \A c \in Caller, m \in sent : Waits(c) /\ idOf[c] = m.id => m.from = c

-----------------------------------------------------------------------------
(***************************************************************************)
(* Type correctness.                                                       *)
(***************************************************************************)

\* A start loop has tried no more versions than there are because a caller
\* begins its call with none tried.
TypeInv ==
  /\ TypeOK
  /\ \A c \in Caller : pc[c] = "idle" => attempt[c] = 0

\* What is given out stays given out.
LEMMA StartAttemptTyped ==
  ASSUME TypeInv, NEW c \in Caller, attempt[c] < Versions, StartAttempt(c),
         UNCHANGED <<killed, dropped>>, waitsFor' = waitsFor,
         started' \in BOOLEAN, starting' \in {Nobody} \cup Caller, calls' \in 0 .. MaxCalls,
         settled' = settled, startFailed' = startFailed
  PROVE  TypeInv'
<1> USE ConstantsAssumption DEF TypeInv, TypeOK, StartAttempt, Ids, Processes
<1>1. spawned' \in Nat /\ nextId' \in Nat \ {0} /\ child' \in 1 .. spawned'
  OBVIOUS
<1>2. /\ 1 .. spawned \subseteq 1 .. spawned' /\ spawned + 1 \in 1 .. spawned'
      /\ 1 .. nextId - 1 \subseteq 1 .. nextId' - 1 /\ nextId \in 1 .. nextId' - 1
  OBVIOUS
<1>3. alive' \subseteq Processes' /\ killed' \subseteq Processes'
  BY <1>2
<1>4. pending' \subseteq Ids' /\ dropped' \subseteq Ids'
  BY <1>2
<1>5. sent' \subseteq [to : Processes', id : Ids', from : Caller]
  BY <1>2
<1>6. pc' \in [Caller -> Control]
  BY DEF Control
<1>7. attempt' \in [Caller -> 0 .. Versions]
  OBVIOUS
<1>8. idOf' \in [Caller -> {0} \cup Ids']
  BY <1>2
<1>9. \A e \in Caller : pc'[e] = "idle" => attempt'[e] = 0
  OBVIOUS
<1> QED
  BY <1>1, <1>3, <1>4, <1>5, <1>6, <1>7, <1>8, <1>9

LEMMA TypeStep ==
  ASSUME TypeInv, [Next]_vars
  PROVE  TypeInv'
<1> USE ConstantsAssumption
    DEF TypeInv, TypeOK, Ids, Processes, vars, processVars, callerVars, history
<1>1. ASSUME NEW c \in Caller, Call(c) PROVE TypeInv'
  <2>1. calls' \in 0 .. MaxCalls /\ pc[c] = "idle" /\ attempt[c] = 0 /\ 0 < Versions
    BY <1>1 DEF Call
  <2>2. CASE StartAttempt(c) /\ starting' = c /\ killed' = killed /\ waitsFor' = waitsFor
    <3> HIDE DEF TypeInv, TypeOK
    <3> QED
      BY <1>1, <2>1, <2>2, StartAttemptTyped DEF Call, TypeInv, TypeOK
  <2>3. CASE started /\ pc' = [pc EXCEPT ![c] = "send"]
             /\ UNCHANGED <<processVars, starting, nextId, pending, sent, callerVars>>
    BY <1>1, <2>1, <2>3 DEF Call, Control
  <2>4. CASE /\ starting # Nobody
             /\ pc' = [pc EXCEPT ![c] = "await"]
             /\ waitsFor' = [waitsFor EXCEPT ![c] = starting]
             /\ UNCHANGED <<processVars, starting, nextId, pending, sent, attempt, idOf>>
    BY <1>1, <2>1, <2>4 DEF Call, Control
  <2> QED
    BY <1>1, <2>2, <2>3, <2>4 DEF Call
<1>2. ASSUME NEW c \in Caller, Continue(c) PROVE TypeInv'
  <2>1. CASE StartSucceeds(c)
    BY <2>1 DEF StartSucceeds, SettleWaiters, Control
  <2>2. CASE StartFails(c)
    BY <2>2 DEF StartFails, RejectPending, Control
  <2>3. CASE Retry(c)
    <3> HIDE DEF TypeInv, TypeOK
    <3> QED
      BY <2>3, StartAttemptTyped DEF Retry, TypeInv, TypeOK
  <2>4. CASE GiveUp(c)
    BY <2>4 DEF GiveUp, SettleWaiters, Return, Control
  <2>5. CASE AwaitEnds(c)
    BY <2>5 DEF AwaitEnds, Return, Control
  <2>6. CASE Send(c)
    <3>1. /\ nextId' \in Nat \ {0} /\ 1 .. nextId - 1 \subseteq 1 .. nextId' - 1
          /\ nextId \in 1 .. nextId' - 1
      BY <2>6 DEF Send
    <3>2. pending' \subseteq Ids' /\ dropped' \subseteq Ids'
      BY <2>6, <3>1 DEF Send
    <3>3. sent' \subseteq [to : Processes, id : Ids', from : Caller]
      BY <2>6, <3>1 DEF Send
    <3>4. idOf' \in [Caller -> {0} \cup Ids']
      BY <2>6, <3>1 DEF Send, Return
    <3>5. /\ pc' \in [Caller -> Control] /\ attempt' \in [Caller -> 0 .. Versions]
          /\ waitsFor' \in [Caller -> {Nobody} \cup Caller]
          /\ \A e \in Caller : pc'[e] = "idle" => attempt'[e] = 0
      BY <2>6 DEF Send, Return, Control
    <3> QED
      BY <2>6, <3>1, <3>2, <3>3, <3>4, <3>5 DEF Send
  <2>7. CASE RequestEnds(c)
    BY <2>7 DEF RequestEnds, Return, Control
  <2> QED
    BY <1>2, <2>1, <2>2, <2>3, <2>4, <2>5, <2>6, <2>7 DEF Continue
<1>3. ASSUME NEW c \in Caller, Timeout(c) PROVE TypeInv'
  BY <1>3 DEF Timeout
<1>4. ASSUME NEW m \in sent, NEW how \in {"resolved", "rejected"}, Answer(m, how)
      PROVE TypeInv'
  BY <1>4 DEF Answer
<1>5. ASSUME NEW i \in pending, ServerRequest(i) PROVE TypeInv'
  BY <1>5 DEF ServerRequest
<1>6. ASSUME NEW g \in alive, NEW clean \in BOOLEAN, Exit(g, clean) PROVE TypeInv'
  BY <1>6 DEF Exit, RejectPending
<1>7. CASE Close
  BY <1>7 DEF Close, RejectPending
<1>8. CASE UNCHANGED vars
  BY <1>8
<1> QED
  BY <1>1, <1>2, <1>3, <1>4, <1>5, <1>6, <1>7, <1>8 DEF Next

\* TypeOK: ids and processes in use were given out, and the loop of ensureStarted
\* ends with the last protocol version.
THEOREM TypeCorrect == Spec => []TypeOK
<1>1. ASSUME Init PROVE TypeInv
  <2>1. /\ child = 0 /\ spawned = 0 /\ alive = {} /\ killed = {} /\ nextId = 1
        /\ pending = {} /\ sent = {} /\ dropped = {} /\ calls \in 0 .. MaxCalls
    BY <1>1, ConstantsAssumption DEF Init
  <2>5. starting = Nobody /\ started \in BOOLEAN /\ startFailed \in BOOLEAN
    BY <1>1 DEF Init
  <2>2. /\ pc \in [Caller -> Control]
        /\ waitsFor \in [Caller -> {Nobody} \cup Caller]
        /\ settled \in [Caller -> {"open", "resolved", "rejected"}]
    BY <1>1 DEF Init, Control
  <2>3. 0 \in 0 .. Versions
    BY ConstantsAssumption
  <2>4. /\ attempt \in [Caller -> 0 .. Versions]
        /\ idOf \in [Caller -> {0} \cup Ids]
        /\ \A e \in Caller : attempt[e] = 0
    BY <1>1, <2>3 DEF Init
  <2> QED
    BY <2>1, <2>2, <2>4, <2>5 DEF TypeInv, TypeOK
<1>2. TypeInv => TypeOK
  BY DEF TypeInv
<1> QED
  BY <1>1, <1>2, TypeStep, PTL DEF Spec

LEMMA ShapeCorrect == Spec => []Shape
<1>1. TypeOK => Shape
  BY DEF TypeOK, Shape, Ids, Processes
<1> QED
  BY <1>1, TypeCorrect, PTL

-----------------------------------------------------------------------------
(***************************************************************************)
(* A request is settled by its own answer.                                 *)
(***************************************************************************)

\* A caller that starts a process waits for an id nobody has.
LEMMA StartAttemptFresh ==
  ASSUME Shape, IdsFresh, NEW c \in Caller, StartAttempt(c), UNCHANGED settled
  PROVE  IdsFresh'
<1> USE DEF Shape, StartAttempt, Waits
<1>1. \A e \in Caller : idOf'[e] < nextId'
  BY DEF IdsFresh
<1>2. \A m \in sent' : m.id < nextId'
  BY DEF IdsFresh
<1>3. \A a, e \in Caller :
        Waits(a)' /\ Waits(e)' /\ idOf'[a] = idOf'[e] => a = e
  BY DEF IdsFresh
<1>4. \A e \in Caller, m \in sent' : Waits(e)' /\ idOf'[e] = m.id => m.from = e
  BY DEF IdsFresh
<1> QED
  BY <1>1, <1>2, <1>3, <1>4 DEF IdsFresh

\* A step after which no one waits who did not, and nothing new is sent.
LEMMA FreshStays ==
  ASSUME Shape, IdsFresh, nextId' = nextId, sent' \subseteq sent,
         \A c \in Caller : idOf'[c] \in {0, idOf[c]},
         \A c \in Caller : Waits(c)' => Waits(c) /\ idOf'[c] = idOf[c]
  PROVE  IdsFresh'
<1>1. \A c \in Caller : idOf'[c] < nextId'
  <2> SUFFICES ASSUME NEW c \in Caller PROVE idOf'[c] < nextId
    OBVIOUS
  <2>1. idOf[c] \in Nat /\ nextId \in Nat /\ idOf[c] < nextId
    BY DEF Shape, IdsFresh
  <2>2. idOf'[c] = 0 \/ idOf'[c] = idOf[c]
    OBVIOUS
  <2> QED
    BY <2>1, <2>2
<1> QED
  BY <1>1 DEF IdsFresh

LEMMA IdsFreshStep ==
  ASSUME Shape, IdsFresh, [Next]_vars
  PROVE  IdsFresh'
<1> USE DEF Shape, vars, processVars, callerVars, history
<1>1. ASSUME NEW c \in Caller, Call(c) PROVE IdsFresh'
  <2>1. CASE StartAttempt(c)
    BY <1>1, <2>1, StartAttemptFresh DEF Call
  <2>2. CASE ~StartAttempt(c)
    BY <1>1, <2>2, FreshStays DEF Call, Waits
  <2> QED
    BY <2>1, <2>2
<1>2. ASSUME NEW c \in Caller, Continue(c) PROVE IdsFresh'
  <2>1. CASE StartSucceeds(c)
    BY <2>1, FreshStays DEF StartSucceeds, SettleWaiters, Waits
  <2>2. CASE StartFails(c)
    BY <2>2, FreshStays DEF StartFails, RejectPending, Waits
  <2>3. CASE Retry(c)
    BY <2>3, StartAttemptFresh DEF Retry
  <2>4. CASE GiveUp(c)
    BY <2>4, FreshStays DEF GiveUp, SettleWaiters, Return, Waits
  <2>5. CASE AwaitEnds(c)
    BY <2>5, FreshStays DEF AwaitEnds, Return, Waits
  <2>6. CASE Send(c)
    <3>1. /\ \A e \in Caller : idOf'[e] \in {0, idOf[e], nextId}
          /\ \A e \in Caller \ {c} : /\ pc'[e] = pc[e] /\ idOf'[e] = idOf[e]
                                    /\ settled'[e] = settled[e]
          /\ Waits(c)' => idOf'[c] = nextId
          /\ nextId' = nextId + 1
      BY <2>6 DEF Send, Return, Waits
    <3>2. \A m \in sent' : m \in sent \/ (m.id = nextId /\ m.from = c)
      BY <2>6 DEF Send
    <3>3. \A e \in Caller : idOf'[e] < nextId'
      BY <3>1 DEF IdsFresh
    <3>4. \A m \in sent' : m.id < nextId'
      BY <3>1, <3>2 DEF IdsFresh
    <3>5. \A a, e \in Caller :
            Waits(a)' /\ Waits(e)' /\ idOf'[a] = idOf'[e] => a = e
      BY <3>1 DEF IdsFresh, Waits
    <3>6. \A e \in Caller, m \in sent' :
            Waits(e)' /\ idOf'[e] = m.id => m.from = e
      BY <3>1, <3>2 DEF IdsFresh, Waits
    <3> QED
      BY <3>3, <3>4, <3>5, <3>6 DEF IdsFresh
  <2>7. CASE RequestEnds(c)
    BY <2>7, FreshStays DEF RequestEnds, Return, Waits
  <2> QED
    BY <1>2, <2>1, <2>2, <2>3, <2>4, <2>5, <2>6, <2>7 DEF Continue
<1>3. ASSUME NEW c \in Caller, Timeout(c) PROVE IdsFresh'
  BY <1>3, FreshStays DEF Timeout, Waits
<1>4. ASSUME NEW m \in sent, NEW how \in {"resolved", "rejected"}, Answer(m, how)
      PROVE IdsFresh'
  BY <1>4, FreshStays DEF Answer, Waits
<1>5. ASSUME NEW i \in pending, ServerRequest(i) PROVE IdsFresh'
  BY <1>5, FreshStays DEF ServerRequest, Waits
<1>6. ASSUME NEW g \in alive, NEW clean \in BOOLEAN, Exit(g, clean)
      PROVE IdsFresh'
  BY <1>6, FreshStays DEF Exit, RejectPending, Waits
<1>7. CASE Close
  BY <1>7, FreshStays DEF Close, RejectPending, Waits
<1>8. CASE UNCHANGED vars
  BY <1>8, FreshStays DEF Waits
<1> QED
  BY <1>1, <1>2, <1>3, <1>4, <1>5, <1>6, <1>7, <1>8 DEF Next

LEMMA IdsFreshCorrect == Spec => []IdsFresh
<1>1. Init => IdsFresh
  BY DEF Init, IdsFresh, Waits
<1> QED
  BY <1>1, IdsFreshStep, ShapeCorrect, PTL DEF Spec

\* Only a frame with the id of a waiting caller resolves it, and only that
\* caller's own request was written with this id; where frames are not checked,
\* a request of the process with this id resolves it as well.
THEOREM AnswersMatch == Spec => AnswerIsOwn
<1>1. ASSUME Shape, IdsFresh, [Next]_vars, NEW c \in Caller, Waits(c),
             settled'[c] = "resolved"
      PROVE  \/ \E m \in sent \ sent' : m.from = c /\ m.id = idOf[c]
             \/ ~FramesChecked /\ idOf[c] \in dropped'
  <2> USE <1>1 DEF Shape, Waits, vars, processVars, callerVars, history
  <2>1. ASSUME NEW m \in sent, NEW how \in {"resolved", "rejected"},
               Answer(m, how)
        PROVE  \E n \in sent \ sent' : n.from = c /\ n.id = idOf[c]
    <3>1. m \in sent \ sent' /\ m.id = idOf[c]
      BY <2>1 DEF Answer
    <3>2. m.from = c
      BY <3>1 DEF IdsFresh
    <3> QED
      BY <3>1, <3>2
  <2>2. ASSUME NEW e \in Caller, Continue(e) PROVE settled'[c] # "resolved"
    BY <2>2 DEF Continue, StartSucceeds, SettleWaiters, StartFails,
       RejectPending, Retry, GiveUp, AwaitEnds, Send, RequestEnds
  <2>3. ASSUME NEW e \in Caller, Call(e) \/ Timeout(e)
        PROVE  settled'[c] # "resolved"
    BY <2>3 DEF Call, Timeout
  <2>4. ASSUME NEW i \in pending, ServerRequest(i)
        PROVE  ~FramesChecked /\ idOf[c] \in dropped'
    BY <2>4 DEF ServerRequest
  <2>5. ASSUME NEW g \in alive, NEW clean \in BOOLEAN, Exit(g, clean)
        PROVE  settled'[c] # "resolved"
    BY <2>5 DEF Exit, RejectPending
  <2>6. CASE Close
    BY <2>6 DEF Close, RejectPending
  <2>7. CASE UNCHANGED vars
    BY <2>7
  <2> QED
    BY <2>1, <2>2, <2>3, <2>4, <2>5, <2>6, <2>7 DEF Next
<1>2. Shape /\ IdsFresh /\ [Next]_vars
        => [\A c \in Caller :
              Waits(c) /\ settled'[c] = "resolved"
                => \/ \E m \in sent \ sent' : m.from = c /\ m.id = idOf[c]
                   \/ ~FramesChecked /\ idOf[c] \in dropped']_vars
  BY <1>1
<1> QED
  BY <1>2, ShapeCorrect, IdsFreshCorrect, PTL DEF Spec, AnswerIsOwn

-----------------------------------------------------------------------------
(***************************************************************************)
(* No request waits in vain.                                               *)
(***************************************************************************)

\* Whoever clears the table rejects what it holds, and an entry is only taken
\* out for the caller it belongs to, as ids are unique, or by a request of the
\* process itself.
THEOREM WaitingCorrect == Spec => []WaitingIsPending
<1>1. Init => WaitingIsPending
  BY DEF Init, WaitingIsPending, Waits
<1>2. Shape /\ IdsFresh /\ WaitingIsPending /\ [Next]_vars => WaitingIsPending'
  <2> SUFFICES ASSUME Shape, IdsFresh, WaitingIsPending, [Next]_vars,
                      NEW c \in Caller, Waits(c)'
               PROVE  idOf'[c] \in pending' \cup dropped'
    BY DEF WaitingIsPending
  <2> USE DEF Shape, WaitingIsPending, Waits, vars, processVars, callerVars, history
  <2>1. ASSUME NEW e \in Caller, Call(e) PROVE idOf'[c] \in pending' \cup dropped'
    BY <2>1 DEF Call, StartAttempt
  <2>2. ASSUME NEW e \in Caller, Continue(e) PROVE idOf'[c] \in pending' \cup dropped'
    <3>1. CASE StartSucceeds(e) \/ GiveUp(e) \/ AwaitEnds(e) \/ RequestEnds(e)
      BY <3>1 DEF StartSucceeds, SettleWaiters, GiveUp, AwaitEnds, RequestEnds,
         Return
    <3>2. CASE StartFails(e)
      BY <3>2 DEF StartFails, RejectPending
    <3>3. CASE Retry(e)
      BY <3>3 DEF Retry, StartAttempt
    <3>4. CASE Send(e)
      BY <3>4 DEF Send, Return
    <3> QED
      BY <2>2, <3>1, <3>2, <3>3, <3>4 DEF Continue
  <2>3. ASSUME NEW e \in Caller, Timeout(e) PROVE idOf'[c] \in pending' \cup dropped'
    BY <2>3 DEF Timeout, IdsFresh
  <2>4. ASSUME NEW m \in sent, NEW how \in {"resolved", "rejected"},
               Answer(m, how)
        PROVE  idOf'[c] \in pending' \cup dropped'
    BY <2>4 DEF Answer
  <2>5. ASSUME NEW i \in pending, ServerRequest(i) PROVE idOf'[c] \in pending' \cup dropped'
    BY <2>5 DEF ServerRequest
  <2>6. ASSUME NEW g \in alive, NEW clean \in BOOLEAN, Exit(g, clean)
        PROVE  idOf'[c] \in pending' \cup dropped'
    BY <2>6 DEF Exit, RejectPending
  <2>7. CASE Close
    BY <2>7 DEF Close, RejectPending
  <2>8. CASE UNCHANGED vars
    BY <2>8
  <2> QED
    BY <2>1, <2>2, <2>3, <2>4, <2>5, <2>6, <2>7, <2>8 DEF Next
<1> QED
  BY <1>1, <1>2, ShapeCorrect, IdsFreshCorrect, PTL DEF Spec

-----------------------------------------------------------------------------
(***************************************************************************)
(* The start loop.                                                         *)
(***************************************************************************)

\* this.starting, when set, is the promise of a loop that is running, and it
\* was set for whoever awaits one.
StartingRuns ==
  /\ starting # Nobody => pc[starting] \in {"init", "retry"}
  /\ \A c \in Caller : pc[c] = "await" => waitsFor[c] \in Caller

\* A loop ends by settling all who await it, and takes its promise out of
\* this.starting, so no one can await it afterwards.
THEOREM LoopCorrect == Spec => []AwaitedLoopRuns
<1> DEFINE IInv == AwaitedLoopRuns /\ StartingRuns
<1>1. Init => IInv
  BY DEF Init, AwaitedLoopRuns, StartingRuns
<1>2. Shape /\ IInv /\ [Next]_vars => IInv'
  <2> SUFFICES ASSUME Shape, IInv, [Next]_vars PROVE IInv'
    OBVIOUS
  <2> USE ConstantsAssumption DEF Shape, AwaitedLoopRuns, StartingRuns, vars,
          processVars, callerVars, history
  <2>1. ASSUME NEW e \in Caller, Call(e) PROVE IInv'
    BY <2>1 DEF Call, StartAttempt
  <2>2. ASSUME NEW e \in Caller, Continue(e) PROVE IInv'
    <3>1. CASE StartSucceeds(e)
      BY <3>1 DEF StartSucceeds, SettleWaiters
    <3>2. CASE StartFails(e)
      BY <3>2 DEF StartFails, RejectPending, Waits
    <3>3. CASE Retry(e)
      BY <3>3 DEF Retry, StartAttempt
    <3>4. CASE GiveUp(e)
      BY <3>4 DEF GiveUp, SettleWaiters, Return
    <3>5. CASE AwaitEnds(e)
      BY <3>5 DEF AwaitEnds, Return
    <3>6. CASE Send(e)
      BY <3>6 DEF Send, Return
    <3>7. CASE RequestEnds(e)
      BY <3>7 DEF RequestEnds, Return
    <3> QED
      BY <2>2, <3>1, <3>2, <3>3, <3>4, <3>5, <3>6, <3>7 DEF Continue
  <2>3. ASSUME NEW e \in Caller, Timeout(e) PROVE IInv'
    BY <2>3 DEF Timeout
  <2>4. ASSUME NEW m \in sent, NEW how \in {"resolved", "rejected"},
               Answer(m, how)
        PROVE  IInv'
    BY <2>4 DEF Answer
  <2>5. ASSUME NEW i \in pending, ServerRequest(i) PROVE IInv'
    BY <2>5 DEF ServerRequest
  <2>6. ASSUME NEW g \in alive, NEW clean \in BOOLEAN, Exit(g, clean)
        PROVE  IInv'
    BY <2>6 DEF Exit, RejectPending, Waits
  <2>7. CASE Close
    BY <2>7 DEF Close, RejectPending, Waits
  <2>8. CASE UNCHANGED vars
    BY <2>8
  <2> QED
    BY <2>1, <2>2, <2>3, <2>4, <2>5, <2>6, <2>7, <2>8 DEF Next
<1> QED
  BY <1>1, <1>2, ShapeCorrect, PTL DEF Spec

\* Until a start fails, a connection that has a child is started or starting,
\* and a loop that tries again has failed before.
OneLoop ==
  /\ startFailed \/ (child # 0 => started \/ starting # Nobody)
  /\ \A c \in Caller : pc[c] = "retry" => startFailed
  /\ 0 \notin alive

\* A process is only spawned when there is no child, except by a loop that goes
\* on after a failure.
THEOREM OneProcessCorrect == Spec => []OneProcessUntilFailure
<1> DEFINE IInv == OneProcessUntilFailure /\ OneLoop
<1>1. Init => IInv
  BY DEF Init, OneProcessUntilFailure, OneLoop
<1>2. Shape /\ IInv /\ [Next]_vars => IInv'
  <2> SUFFICES ASSUME Shape, IInv, [Next]_vars PROVE IInv'
    OBVIOUS
  <2> USE ConstantsAssumption DEF Shape, OneProcessUntilFailure, OneLoop, vars,
          processVars, callerVars, history
  <2>1. ASSUME NEW e \in Caller, Call(e) PROVE IInv'
    BY <2>1 DEF Call, StartAttempt
  <2>2. ASSUME NEW e \in Caller, Continue(e) PROVE IInv'
    <3>1. CASE StartSucceeds(e)
      BY <3>1 DEF StartSucceeds
    <3>2. CASE StartFails(e)
      BY <3>2 DEF StartFails
    <3>3. CASE Retry(e)
      BY <3>3 DEF Retry, StartAttempt
    <3>4. CASE GiveUp(e) \/ AwaitEnds(e) \/ RequestEnds(e)
      BY <3>4 DEF GiveUp, AwaitEnds, RequestEnds, Return
    <3>5. CASE Send(e)
      BY <3>5 DEF Send, Return
    <3> QED
      BY <2>2, <3>1, <3>2, <3>3, <3>4, <3>5 DEF Continue
  <2>3. ASSUME NEW e \in Caller, Timeout(e) PROVE IInv'
    BY <2>3 DEF Timeout
  <2>4. ASSUME NEW m \in sent, NEW how \in {"resolved", "rejected"},
               Answer(m, how)
        PROVE  IInv'
    BY <2>4 DEF Answer
  <2>5. ASSUME NEW i \in pending, ServerRequest(i) PROVE IInv'
    BY <2>5 DEF ServerRequest
  <2>6. ASSUME NEW g \in alive, NEW clean \in BOOLEAN, Exit(g, clean)
        PROVE  IInv'
    BY <2>6 DEF Exit
  <2>7. CASE Close
    BY <2>7 DEF Close
  <2>8. CASE UNCHANGED vars
    BY <2>8
  <2> QED
    BY <2>1, <2>2, <2>3, <2>4, <2>5, <2>6, <2>7, <2>8 DEF Next
<1> QED
  BY <1>1, <1>2, ShapeCorrect, PTL DEF Spec
=============================================================================
