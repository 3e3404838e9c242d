------------------------- MODULE BackendShimProofs -------------------------
(***************************************************************************)
(* Proofs about BackendShim, for any number of processes, entries, agents, *)
(* notes and changes, and any limit.                                       *)
(***************************************************************************)
EXTENDS BackendShim, SequenceTheorems, FiniteSetTheorems, TLAPS

Drawer ==
  [name : ({"diary", "plain"} \X Entry) \cup ({"note"} \X Note),
   diaryOf : SUBSET Agent, mentions : SUBSET Agent]

State == [kind : {"state"}, drawers : Seq(Drawer), diaries : Seq(Entry)]

\* The variables have their types, and a process that writes runs.
BackendTypeOK ==
  /\ tools \in SUBSET DiaryTool
  /\ memory \in [Process -> State \cup {Down}]
  /\ file \in State \cup {Torn}
  /\ writing \subseteq Running

LEMMA StateIsUp == Down \notin State /\ Torn \notin State
  BY DEF State, Down, Torn

LEMMA DrawersTyped ==
  ASSUME NEW e \in Entry
  PROVE  DiaryDrawer(e) \in Drawer /\ PlainDrawer(e) \in Drawer
  BY BackendAssumption DEF DiaryDrawer, PlainDrawer, Drawer

LEMMA NoteTyped ==
  ASSUME NEW n \in Note
  PROVE  NoteDrawer(n) \in Drawer
  BY DEF NoteDrawer, Drawer

-----------------------------------------------------------------------------
(***************************************************************************)
(* What the operators on a state do.                                       *)
(***************************************************************************)

\* The least index that satisfies a test, as SelectInSeq computes it.
LEMMA LeastIndex ==
  ASSUME NEW n \in Nat, NEW T \in SUBSET (1 .. n), T # {}
  PROVE  Min(T) \in T /\ \A j \in T : Min(T) <= j
<1>1. \E i \in T : \A j \in T : i <= j
  <2>1. T \subseteq Nat
    OBVIOUS
  <2>2. PICK i \in T : \A j \in T : ~(<<j, i>> \in OpToRel(<, Nat))
    BY <2>1, NatLessThanWellFounded, WFMin
  <2>3. ASSUME NEW j \in T, j < i PROVE <<j, i>> \in OpToRel(<, Nat)
    <3>1. <<j, i>> \in {ss \in Nat \X Nat : ss[1] < ss[2]}
      BY <2>3
    <3> QED
      BY <3>1, Zenon DEF OpToRel
  <2>4. \A j \in T : ~(j < i)
    BY <2>2, <2>3, Zenon
  <2> QED
    BY <2>4
<1> QED
  BY <1>1 DEF Min

\* What Put does: the names of the others stay in their places, and the drawer
\* given is there, behind them if its name is new.
IsPut(old, d, new) ==
  /\ new \in Seq(Drawer)
  /\ \A i \in 1 .. Len(old) :
       i \in 1 .. Len(new) /\ new[i].name = old[i].name /\ new[i] \in {old[i], d}
  /\ \A i \in 1 .. Len(new) :
       \/ i \in 1 .. Len(old)
       \/ new[i] = d /\ i = Len(old) + 1 /\ \A j \in 1 .. Len(old) : old[j].name # d.name
  /\ \E i \in 1 .. Len(new) : new[i] = d

LEMMA PutKeepsNames ==
  ASSUME NEW drawers \in Seq(Drawer), NEW d \in Drawer
  PROVE  IsPut(drawers, d, Put(drawers, d))
<1> DEFINE at == {i \in 1 .. Len(drawers) : drawers[i].name = d.name}
<1>1. CASE at = {}
  <2>1. Put(drawers, d) = Append(drawers, d)
    BY <1>1 DEF Put, SelectInSeq
  <2>2. \A j \in 1 .. Len(drawers) : drawers[j].name # d.name
    BY <1>1
  <2> QED
    BY <2>1, <2>2 DEF IsPut
<1>2. CASE at # {}
  <2>1. Min(at) \in at
    <3>1. at \in SUBSET (1 .. Len(drawers)) /\ Len(drawers) \in Nat
      OBVIOUS
    <3> HIDE DEF at
    <3> QED
      BY <1>2, <3>1, LeastIndex
  <2>2. Put(drawers, d) = [drawers EXCEPT ![Min(at)] = d]
    <3>1. Put(drawers, d) = IF Min(at) = 0 THEN Append(drawers, d)
                            ELSE [drawers EXCEPT ![Min(at)] = d]
      BY <1>2 DEF Put, SelectInSeq
    <3> QED
      BY <2>1, <3>1
  <2> HIDE DEF at
  <2>3. Min(at) \in 1 .. Len(drawers) /\ drawers[Min(at)].name = d.name
    BY <2>1 DEF at
  <2> QED
    BY <2>2, <2>3 DEF IsPut
<1> QED
  BY <1>1, <1>2

LEMMA AddDrawerTyped ==
  ASSUME NEW state \in State, NEW d \in Drawer
  PROVE  /\ AddDrawer(state, d) \in State
         /\ AddDrawer(state, d).drawers = Put(state.drawers, d)
         /\ AddDrawer(state, d).diaries = state.diaries
<1>1. state.drawers \in Seq(Drawer)
  BY DEF State
<1>2. Put(state.drawers, d) \in Seq(Drawer)
  BY <1>1, PutKeepsNames DEF IsPut
<1> QED
  BY <1>2 DEF AddDrawer, State

\* An entry that is written again is moved to the end.
LEMMA MovedToEnd ==
  ASSUME NEW entries \in Seq(Entry), NEW e \in Entry
  PROVE  /\ Append(RemoveFirst(entries, e), e) \in Seq(Entry)
         /\ IsInjective(entries) => IsInjective(Append(RemoveFirst(entries, e), e))
         /\ ToSet(Append(RemoveFirst(entries, e), e)) = ToSet(entries) \cup {e}
<1> DEFINE at == {i \in 1 .. Len(entries) : entries[i] = e}
           moved == Append(RemoveFirst(entries, e), e)
<1>1. CASE at = {}
  <2>1. RemoveFirst(entries, e) = entries /\ \A i \in 1 .. Len(entries) : entries[i] # e
    BY <1>1 DEF RemoveFirst
  <2>2. moved = Append(entries, e)
    BY <2>1
  <2> HIDE DEF moved
  <2>3. /\ moved \in Seq(Entry) /\ Len(moved) = Len(entries) + 1
        /\ DOMAIN moved = 1 .. Len(entries) + 1 /\ DOMAIN entries = 1 .. Len(entries)
        /\ \A i \in 1 .. Len(entries) : moved[i] = entries[i]
        /\ moved[Len(entries) + 1] = e
    BY <2>2
  <2>4. IsInjective(entries) => IsInjective(moved)
    BY <2>1, <2>3 DEF IsInjective
  <2>5. ToSet(moved) = ToSet(entries) \cup {e}
    BY <2>3 DEF ToSet
  <2> QED
    BY <2>3, <2>4, <2>5 DEF moved
<1>2. CASE at # {}
  <2> DEFINE k == Min(at)
  <2>1. k \in 1 .. Len(entries) /\ entries[k] = e
    <3>1. at \in SUBSET (1 .. Len(entries)) /\ Len(entries) \in Nat
      OBVIOUS
    <3>2. k \in at
      <4> HIDE DEF at
      <4> QED
        BY <1>2, <3>1, LeastIndex
    <3> QED
      BY <3>2
  <2>2. RemoveFirst(entries, e) = SubSeq(entries, 1, k - 1) \o SubSeq(entries, k + 1, Len(entries))
    <3>1. SelectInSeq(entries, LAMBDA v : v = e) = k
      BY <1>2 DEF SelectInSeq
    <3>2. \E i \in 1 .. Len(entries) : entries[i] = e
      BY <2>1
    <3> QED
      BY <3>1, <3>2 DEF RemoveFirst, RemoveAt
  <2> HIDE DEF k, at
  <2>3. /\ RemoveFirst(entries, e) \in Seq(Entry)
        /\ Len(RemoveFirst(entries, e)) = Len(entries) - 1
        /\ \A i \in 1 .. Len(entries) - 1 :
             RemoveFirst(entries, e)[i] = IF i < k THEN entries[i] ELSE entries[i + 1]
    <3> DEFINE front == SubSeq(entries, 1, k - 1)
               back == SubSeq(entries, k + 1, Len(entries))
    <3>1. /\ front \in Seq(Entry) /\ Len(front) = k - 1
          /\ \A i \in 1 .. k - 1 : front[i] = entries[i]
      BY <2>1
    <3>2. /\ back \in Seq(Entry) /\ Len(back) = Len(entries) - k
          /\ \A i \in 1 .. Len(entries) - k : back[i] = entries[i + k]
      BY <2>1
    <3> HIDE DEF front, back
    <3>3. RemoveFirst(entries, e) = front \o back
      BY <2>2 DEF front, back
    <3>4. /\ front \o back \in Seq(Entry) /\ Len(front \o back) = Len(entries) - 1
          /\ \A i \in 1 .. Len(entries) - 1 :
               (front \o back)[i] = IF i <= k - 1 THEN front[i] ELSE back[i - (k - 1)]
      BY <2>1, <3>1, <3>2
    <3>5. ASSUME NEW i \in 1 .. Len(entries) - 1
          PROVE  (front \o back)[i] = IF i < k THEN entries[i] ELSE entries[i + 1]
      <4>1. CASE i < k
        BY <2>1, <3>1, <3>4, <4>1
      <4>2. CASE ~(i < k)
        <5>1. i - (k - 1) \in 1 .. Len(entries) - k /\ (i - (k - 1)) + k = i + 1 /\ ~(i <= k - 1)
          BY <2>1, <4>2
        <5> QED
          BY <3>2, <3>4, <4>2, <5>1
      <4> QED
        BY <4>1, <4>2
    <3> QED
      BY <3>3, <3>4, <3>5
  <2>4. /\ moved \in Seq(Entry) /\ Len(moved) = Len(entries)
        /\ DOMAIN moved = 1 .. Len(entries) /\ DOMAIN entries = 1 .. Len(entries)
        /\ \A i \in 1 .. Len(entries) - 1 :
             moved[i] = IF i < k THEN entries[i] ELSE entries[i + 1]
        /\ moved[Len(entries)] = e
    BY <2>1, <2>3
  <2> HIDE DEF moved
  <2>5. IsInjective(entries) => IsInjective(moved)
    <3> SUFFICES ASSUME IsInjective(entries),
                        NEW i \in 1 .. Len(entries), NEW j \in 1 .. Len(entries),
                        moved[i] = moved[j], i < j
                 PROVE  FALSE
      BY <2>4 DEF IsInjective
    <3>1. \A a, b \in 1 .. Len(entries) : entries[a] = entries[b] => a = b
      BY <2>4 DEF IsInjective
    <3> DEFINE was(n) == IF n = Len(entries) THEN k ELSE IF n < k THEN n ELSE n + 1
    <3>2. ASSUME NEW n \in 1 .. Len(entries)
          PROVE  was(n) \in 1 .. Len(entries) /\ moved[n] = entries[was(n)]
      <4>1. CASE n = Len(entries)
        BY <2>1, <2>4, <4>1
      <4>2. CASE n # Len(entries)
        <5>1. n \in 1 .. Len(entries) - 1
          BY <4>2
        <5>2. moved[n] = IF n < k THEN entries[n] ELSE entries[n + 1]
          BY <2>4, <5>1
        <5>3. was(n) = IF n < k THEN n ELSE n + 1
          BY <4>2
        <5> QED
          BY <2>1, <5>1, <5>2, <5>3
      <4> QED
        BY <4>1, <4>2
    <3>3. was(i) # was(j)
      BY <2>1
    <3> HIDE DEF was
    <3> QED
      BY <3>1, <3>2, <3>3
  <2>6. ToSet(moved) = ToSet(entries) \cup {e}
    <3>1. ASSUME NEW i \in 1 .. Len(entries) PROVE moved[i] \in ToSet(entries) \cup {e}
      BY <2>1, <2>4 DEF ToSet
    <3>2. ASSUME NEW i \in 1 .. Len(entries) PROVE \E j \in 1 .. Len(entries) : moved[j] = entries[i]
      <4>1. CASE i < k
        BY <2>1, <2>4, <4>1
      <4>2. CASE i = k
        BY <2>1, <2>4, <4>2
      <4>3. CASE i > k
        <5>1. i - 1 \in 1 .. Len(entries) - 1 /\ ~(i - 1 < k) /\ (i - 1) + 1 = i
          BY <2>1, <4>3
        <5> QED
          BY <2>4, <5>1
      <4> QED
        BY <2>1, <4>1, <4>2, <4>3
    <3>3. e \in ToSet(moved)
      BY <2>1, <2>4 DEF ToSet
    <3>4. ToSet(moved) \subseteq ToSet(entries) \cup {e}
      BY <2>4, <3>1 DEF ToSet
    <3>5. ASSUME NEW x \in ToSet(entries) PROVE x \in ToSet(moved)
      <4>1. PICK i \in 1 .. Len(entries) : x = entries[i]
        BY <2>4 DEF ToSet
      <4>2. PICK j \in 1 .. Len(entries) : moved[j] = x
        BY <3>2, <4>1
      <4> QED
        BY <2>4, <4>2 DEF ToSet
    <3> QED
      BY <3>3, <3>4, <3>5
  <2> QED
    BY <2>4, <2>5, <2>6 DEF moved
<1> QED
  BY <1>1, <1>2

LEMMA DiaryAppendTyped ==
  ASSUME NEW state \in State, NEW e \in Entry
  PROVE  /\ DiaryAppend(state, e) \in State
         /\ DiaryAppend(state, e).drawers = Put(state.drawers, DiaryDrawer(e))
         /\ DiaryAppend(state, e).diaries = Append(RemoveFirst(state.diaries, e), e)
<1>1. state.diaries \in Seq(Entry)
  BY DEF State
<1>2. Append(RemoveFirst(state.diaries, e), e) \in Seq(Entry)
  BY <1>1, MovedToEnd
<1>3. DiaryDrawer(e) \in Drawer
  BY DrawersTyped
<1>4. /\ AddDrawer(state, DiaryDrawer(e)) \in State
      /\ AddDrawer(state, DiaryDrawer(e)).drawers = Put(state.drawers, DiaryDrawer(e))
      /\ AddDrawer(state, DiaryDrawer(e)).diaries = state.diaries
  BY <1>3, AddDrawerTyped
<1> QED
  BY <1>2, <1>4 DEF DiaryAppend, State

-----------------------------------------------------------------------------
(***************************************************************************)
(* What a process holds.                                                   *)
(***************************************************************************)

\* The drawer d is one that a client writes, and the change puts it into state.
Writes(state, d, next) ==
  \/ \E n \in Note : d = NoteDrawer(n) /\ next = AddDrawer(state, d)
  \/ \E e \in Entry :
       /\ "append" \in tools
       /\ d = DiaryDrawer(e) /\ next = DiaryAppend(state, e)
  \/ \E e \in Entry :
       /\ "append" \notin tools
       /\ \/ d = DiaryDrawer(e)
          \/ d = PlainDrawer(e) /\ e \in callerNamed'
       /\ next = AddDrawer(state, d)

LEMMA ChangeWrites ==
  ASSUME BackendTypeOK, NEW p \in Process, ChangeNext(p)
  PROVE  /\ memory[p] \in State /\ callerNamed \subseteq callerNamed'
         /\ \E next \in State, d \in Drawer : Change(p, next) /\ Writes(memory[p], d, next)
<1>1. memory[p] \in State
  BY DEF BackendTypeOK, ChangeNext, Change, Running
<1>2. \A e \in Entry : DiaryAppend(memory[p], e) \in State
  BY <1>1, DiaryAppendTyped
<1>3. \A d \in Drawer : AddDrawer(memory[p], d) \in State
  BY <1>1, AddDrawerTyped
<1>4. \A e \in Entry : DiaryDrawer(e) \in Drawer /\ PlainDrawer(e) \in Drawer
  BY DrawersTyped
<1>5. \A n \in Note : NoteDrawer(n) \in Drawer
  BY NoteTyped
<1>6. ASSUME NEW n \in Note, Change(p, AddDrawer(memory[p], NoteDrawer(n)))
      PROVE  \E next \in State, d \in Drawer : Change(p, next) /\ Writes(memory[p], d, next)
  BY <1>3, <1>5, <1>6 DEF Writes
<1>7. ASSUME NEW e \in Entry, NEW given \in BOOLEAN, given => e \in callerNamed',
             \/ Change(p, EngineAppend(memory[p], e))
             \/ Change(p, MemoryAppend(memory[p], e, given))
      PROVE  \E next \in State, d \in Drawer : Change(p, next) /\ Writes(memory[p], d, next)
  <2>1. CASE "append" \in tools
    <3>1. Change(p, DiaryAppend(memory[p], e))
      BY <1>7, <2>1 DEF EngineAppend, MemoryAppend
    <3> QED
      BY <1>2, <1>4, <2>1, <3>1 DEF Writes
  <2>2. CASE "append" \notin tools
    <3>1. PICK d \in {DiaryDrawer(e), PlainDrawer(e)} :
            Change(p, AddDrawer(memory[p], d)) /\ (d = DiaryDrawer(e) \/ e \in callerNamed')
      BY <1>7, <2>2 DEF EngineAppend, MemoryAppend
    <3>2. d \in Drawer /\ AddDrawer(memory[p], d) \in State
      BY <1>3, <1>4, <3>1
    <3>3. Writes(memory[p], d, AddDrawer(memory[p], d))
      BY <2>2, <3>1 DEF Writes
    <3> QED
      BY <3>1, <3>2, <3>3
  <2> QED
    BY <2>1, <2>2
<1>8. callerNamed \subseteq callerNamed'
  BY DEF ChangeNext
<1> QED
  BY <1>1, <1>6, <1>7, <1>8 DEF ChangeNext

LEMMA WritesPuts ==
  ASSUME NEW state \in State, NEW next, NEW d \in Drawer, Writes(state, d, next)
  PROVE  next.drawers = Put(state.drawers, d)
  BY AddDrawerTyped, DiaryAppendTyped DEF Writes

\* A change keeps the names of what was there.
LEMMA NamesKept ==
  ASSUME NEW state \in State, NEW next \in State, NEW d \in Drawer, Writes(state, d, next)
  PROVE  Names(state) \subseteq Names(next)
<1>1. state.drawers \in Seq(Drawer) /\ next.drawers \in Seq(Drawer)
  BY DEF State
<1>2. next.drawers = Put(state.drawers, d)
  BY WritesPuts
<1>3. IsPut(state.drawers, d, next.drawers)
  BY <1>1, <1>2, PutKeepsNames
<1> QED
  BY <1>1, <1>3 DEF Names, IsPut

LEMMA BackendTypeStep ==
  ASSUME BackendTypeOK, [BackendNext]_backendVars
  PROVE  BackendTypeOK'
<1> USE StateIsUp DEF BackendTypeOK, Running
<1>1. ASSUME NEW p \in Process, StartServer(p) PROVE BackendTypeOK'
  BY <1>1 DEF StartServer
<1>2. ASSUME NEW p \in Process, ChangeNext(p) PROVE BackendTypeOK'
  <2>1. PICK next \in State : Change(p, next)
    BY <1>2, ChangeWrites
  <2> QED
    BY <2>1 DEF Change
<1>3. ASSUME NEW p \in Process, Respond(p) PROVE BackendTypeOK'
  BY <1>3 DEF Respond
<1>4. ASSUME NEW p \in Process, Exit(p) PROVE BackendTypeOK'
  BY <1>4 DEF Exit
<1>5. CASE UNCHANGED backendVars
  BY <1>5 DEF backendVars
<1> QED
  BY <1>1, <1>2, <1>3, <1>4, <1>5 DEF BackendNext

\* Type correctness of the test backend: every process holds a state of drawers
\* and entries or is down, the file is whole or torn, and only a running process
\* is in a write.
THEOREM BackendTypeCorrect == BackendSpec => []BackendTypeOK
<1>1. BackendInit => BackendTypeOK
  <2>1. DefaultState \in State
    BY DEF DefaultState, State
  <2> QED
    BY <2>1 DEF BackendInit, BackendTypeOK, Running
<1> QED
  BY <1>1, BackendTypeStep, PTL DEF BackendSpec

-----------------------------------------------------------------------------
(***************************************************************************)
(* No change that was answered is lost while one process runs at a time.   *)
(***************************************************************************)

\* While calm, one process runs at most, the file is torn exactly while that
\* process writes, and what was answered is in the file and in the process.
KeptInv ==
  calm =>
    /\ \A p, q \in Running : p = q
    /\ writing # {} => file = Torn
    /\ writing = {} => file # Torn /\ acked \subseteq Names(file)
    /\ \A p \in Running : acked \subseteq Names(memory[p])

LEMMA KeptStep ==
  ASSUME BackendTypeOK, KeptInv, [BackendNext]_backendVars
  PROVE  KeptInv'
<1> USE StateIsUp DEF BackendTypeOK, Running
<1>1. ASSUME NEW p \in Process, StartServer(p) PROVE KeptInv'
  <2> SUFFICES ASSUME calm' PROVE KeptInv'
    BY DEF KeptInv
  <2>1. calm /\ Running = {} /\ writing = {}
    BY <1>1 DEF StartServer
  <2>2. Running' = {p} /\ memory'[p] = file /\ file' = file /\ writing' = {} /\ acked' = acked
    BY <1>1, <2>1 DEF StartServer
  <2>3. file # Torn /\ acked \subseteq Names(file)
    BY <2>1 DEF KeptInv
  <2> HIDE DEF Running
  <2> QED
    BY <2>2, <2>3 DEF KeptInv, Names
<1>2. ASSUME NEW p \in Process, ChangeNext(p) PROVE KeptInv'
  <2> SUFFICES ASSUME calm' PROVE KeptInv'
    BY DEF KeptInv
  <2>1. PICK next \in State, d \in Drawer : Change(p, next) /\ Writes(memory[p], d, next)
    BY <1>2, ChangeWrites
  <2>2. memory[p] \in State
    BY <1>2, ChangeWrites
  <2>3. Names(memory[p]) \subseteq Names(next)
    BY <2>1, <2>2, NamesKept
  <2>4. /\ calm /\ p \in Running /\ Running' = Running /\ memory'[p] = next
        /\ file' = Torn /\ writing' # {} /\ acked' = acked
    BY <2>1 DEF Change
  <2>5. acked \subseteq Names(memory[p]) /\ \A q \in Running : q = p
    BY <2>4 DEF KeptInv
  <2> HIDE DEF Running
  <2> QED
    BY <2>3, <2>4, <2>5 DEF KeptInv, Names
<1>3. ASSUME NEW p \in Process, Respond(p) PROVE KeptInv'
  <2> SUFFICES ASSUME calm' PROVE KeptInv'
    BY DEF KeptInv
  <2>1. calm /\ p \in writing /\ p \in Running /\ Running' = Running /\ memory' = memory
    BY <1>3 DEF Respond
  <2>2. (\A q \in Running : q = p) /\ file = Torn /\ acked \subseteq Names(memory[p])
    BY <2>1 DEF KeptInv
  <2>3. memory[p] \in State
    BY <2>1
  <2>4. file' = memory[p] /\ writing' = {} /\ acked' = acked \cup Names(memory[p])
    BY <1>3, <2>2 DEF Respond
  <2> HIDE DEF Running
  <2> QED
    BY <2>1, <2>2, <2>3, <2>4 DEF KeptInv, Names
<1>4. ASSUME NEW p \in Process, Exit(p) PROVE KeptInv'
  <2> SUFFICES ASSUME calm' PROVE KeptInv'
    BY DEF KeptInv
  <2>1. calm /\ p \in Running /\ p \notin writing /\ file' = file /\ acked' = acked
    BY <1>4 DEF Exit
  <2>2. \A q \in Running : q = p
    BY <2>1 DEF KeptInv
  <2>3. writing = {} /\ writing' = {} /\ Running' = {}
    BY <1>4, <2>1, <2>2 DEF Exit
  <2> HIDE DEF Running
  <2> QED
    BY <2>1, <2>3 DEF KeptInv, Names
<1>5. CASE UNCHANGED backendVars
  BY <1>5 DEF backendVars, KeptInv, Names
<1> QED
  BY <1>1, <1>2, <1>3, <1>4, <1>5 DEF BackendNext

\* AnsweredIsKept: a change that was answered is in the state file and in the
\* process that runs, unless two processes ran at a time or one was killed in a
\* write (readState, writeState).
THEOREM AnsweredKept == BackendSpec => []AnsweredIsKept
<1>1. BackendInit => KeptInv
  BY StateIsUp DEF BackendInit, KeptInv, Running, Torn, DefaultState
<1>2. KeptInv => AnsweredIsKept
  BY DEF KeptInv, AnsweredIsKept
<1> QED
  BY <1>1, <1>2, KeptStep, BackendTypeCorrect, PTL DEF BackendSpec

-----------------------------------------------------------------------------
(***************************************************************************)
(* Both clients read the diary.                                            *)
(***************************************************************************)

\* A state as the clients leave it: no two drawers have one name, each is one
\* that a client writes, and the diary and its drawers go together.
Sound(state, named) ==
  /\ \A i, j \in 1 .. Len(state.drawers) :
       state.drawers[i].name = state.drawers[j].name => i = j
  /\ \A i \in 1 .. Len(state.drawers) :
       \/ \E e \in Entry : /\ state.drawers[i] = DiaryDrawer(e)
                           /\ "append" \in tools => e \in ToSet(state.diaries)
       \/ \E e \in named \cap Entry : state.drawers[i] = PlainDrawer(e) /\ "append" \notin tools
       \/ \E n \in Note : state.drawers[i] = NoteDrawer(n)
  /\ \A e \in ToSet(state.diaries) :
       \E i \in 1 .. Len(state.drawers) : state.drawers[i] = DiaryDrawer(e)
  /\ IsInjective(state.diaries)

LEMMA NamesApart ==
  ASSUME NEW e \in Entry
  PROVE  /\ \A f \in Entry : DiaryDrawer(f).name = DiaryDrawer(e).name => f = e
         /\ \A f \in Entry : PlainDrawer(f).name # DiaryDrawer(e).name
         /\ \A n \in Note : NoteDrawer(n).name # DiaryDrawer(e).name
  BY DEF DiaryDrawer, PlainDrawer, NoteDrawer

LEMMA SoundKept ==
  ASSUME NEW state \in State, NEW next \in State, NEW d \in Drawer,
         Writes(state, d, next), callerNamed \subseteq callerNamed',
         Sound(state, callerNamed)
  PROVE  Sound(next, callerNamed')
<1> DEFINE old == state.drawers
           new == Put(old, d)
<1>1. /\ old \in Seq(Drawer) /\ next.drawers = new
      /\ state.diaries \in Seq(Entry) /\ next.diaries \in Seq(Entry)
  BY WritesPuts DEF State
<1> HIDE DEF old
<1>2. old \in Seq(Drawer)
  BY <1>1
<1>3. IsPut(old, d, new)
  BY <1>2, PutKeepsNames
<1> HIDE DEF new
<1>4. \A i \in 1 .. Len(old) :
        i \in 1 .. Len(new) /\ new[i].name = old[i].name /\ new[i] \in {old[i], d}
  BY <1>3 DEF IsPut
<1>5. \A i \in 1 .. Len(new) :
        \/ i \in 1 .. Len(old)
        \/ new[i] = d /\ i = Len(old) + 1 /\ \A j \in 1 .. Len(old) : old[j].name # d.name
  BY <1>3 DEF IsPut
<1>6. next.diaries = state.diaries
      \/ \E e \in Entry : /\ "append" \in tools /\ d = DiaryDrawer(e)
                          /\ next.diaries = Append(RemoveFirst(state.diaries, e), e)
  <2>1. next = AddDrawer(state, d)
        \/ \E e \in Entry : "append" \in tools /\ d = DiaryDrawer(e) /\ next = DiaryAppend(state, e)
    BY DEF Writes
  <2>2. AddDrawer(state, d).diaries = state.diaries
    BY AddDrawerTyped
  <2>3. \A e \in Entry : DiaryAppend(state, e).diaries = Append(RemoveFirst(state.diaries, e), e)
    BY DiaryAppendTyped
  <2> QED
    BY <2>1, <2>2, <2>3
<1>7. ToSet(state.diaries) \subseteq ToSet(next.diaries)
      /\ IsInjective(next.diaries)
      /\ \A e \in ToSet(next.diaries) : e \in ToSet(state.diaries) \/ d = DiaryDrawer(e)
  <2>1. IsInjective(state.diaries)
    BY DEF Sound
  <2> DEFINE diaries == state.diaries
  <2>2. diaries \in Seq(Entry)
    BY <1>1
  <2> HIDE DEF diaries
  <2>3. \A e \in Entry :
          /\ IsInjective(diaries) => IsInjective(Append(RemoveFirst(diaries, e), e))
          /\ ToSet(Append(RemoveFirst(diaries, e), e)) = ToSet(diaries) \cup {e}
    BY <2>2, MovedToEnd
  <2> QED
    BY <1>6, <2>1, <2>3 DEF diaries
<1>8. \/ \E e \in Entry : d = DiaryDrawer(e) /\ ("append" \in tools => e \in ToSet(next.diaries))
      \/ \E e \in callerNamed' \cap Entry : d = PlainDrawer(e) /\ "append" \notin tools
      \/ \E n \in Note : d = NoteDrawer(n)
  <2>1. CASE \E e \in Entry : /\ "append" \in tools /\ d = DiaryDrawer(e)
                              /\ next = DiaryAppend(state, e)
    <3>1. PICK e \in Entry : d = DiaryDrawer(e) /\ next = DiaryAppend(state, e)
      BY <2>1
    <3>2. next.diaries = Append(RemoveFirst(state.diaries, e), e)
      BY <3>1, DiaryAppendTyped
    <3>3. e \in ToSet(next.diaries)
      <4> DEFINE diaries == state.diaries
      <4>1. diaries \in Seq(Entry)
        BY <1>1
      <4> HIDE DEF diaries
      <4>2. e \in ToSet(Append(RemoveFirst(diaries, e), e))
        BY <4>1, MovedToEnd
      <4> QED
        BY <3>2, <4>2 DEF diaries
    <3> QED
      BY <3>1, <3>3
  <2> QED
    BY <2>1 DEF Writes
<1>9. \A i, j \in 1 .. Len(new) : new[i].name = new[j].name => i = j
  <2>1. \A i, j \in 1 .. Len(old) : old[i].name = old[j].name => i = j
    BY DEF Sound, old
  <2> QED
    BY <1>4, <1>5, <2>1
<1>10. ASSUME NEW i \in 1 .. Len(new)
       PROVE  \/ \E e \in Entry : new[i] = DiaryDrawer(e)
                                  /\ ("append" \in tools => e \in ToSet(next.diaries))
              \/ \E e \in callerNamed' \cap Entry : new[i] = PlainDrawer(e) /\ "append" \notin tools
              \/ \E n \in Note : new[i] = NoteDrawer(n)
  <2>1. CASE new[i] = d
    BY <1>8, <2>1
  <2>2. CASE i \in 1 .. Len(old) /\ new[i] = old[i]
    <3>1. \/ \E e \in Entry : old[i] = DiaryDrawer(e)
                              /\ ("append" \in tools => e \in ToSet(state.diaries))
          \/ \E e \in callerNamed \cap Entry : old[i] = PlainDrawer(e) /\ "append" \notin tools
          \/ \E n \in Note : old[i] = NoteDrawer(n)
      BY <2>2 DEF Sound, old
    <3> QED
      BY <1>7, <2>2, <3>1
  <2> QED
    BY <1>4, <1>5, <2>1, <2>2
<1>11. ASSUME NEW e \in ToSet(next.diaries)
       PROVE  \E i \in 1 .. Len(new) : new[i] = DiaryDrawer(e)
  <2>1. CASE d = DiaryDrawer(e)
    BY <1>3, <2>1 DEF IsPut
  <2>2. CASE e \in ToSet(state.diaries)
    <3>1. e \in Entry
      BY <1>1, <2>2 DEF ToSet
    <3>2. PICK i \in 1 .. Len(old) : old[i] = DiaryDrawer(e)
      BY <2>2 DEF Sound, old
    <3>3. i \in 1 .. Len(new) /\ new[i].name = DiaryDrawer(e).name /\ new[i] \in {DiaryDrawer(e), d}
      BY <1>4, <3>2
    <3>4. d.name = DiaryDrawer(e).name => d = DiaryDrawer(e)
      BY <1>8, <3>1, NamesApart
    <3> QED
      BY <3>3, <3>4
  <2> QED
    BY <1>7, <2>1, <2>2
<1> QED
  BY <1>1, <1>7, <1>9, <1>10, <1>11 DEF Sound

SoundInv ==
  /\ file # Torn => Sound(file, callerNamed)
  /\ \A p \in Running : Sound(memory[p], callerNamed)

LEMMA SoundStep ==
  ASSUME BackendTypeOK, SoundInv, [BackendNext]_backendVars
  PROVE  SoundInv'
<1> USE StateIsUp DEF BackendTypeOK, Running
<1>1. ASSUME NEW p \in Process, StartServer(p) PROVE SoundInv'
  BY <1>1 DEF StartServer, SoundInv, Sound
<1>2. ASSUME NEW p \in Process, ChangeNext(p) PROVE SoundInv'
  <2>1. PICK next \in State, d \in Drawer : Change(p, next) /\ Writes(memory[p], d, next)
    BY <1>2, ChangeWrites
  <2>2. memory[p] \in State /\ callerNamed \subseteq callerNamed'
    BY <1>2, ChangeWrites
  <2>3. p \in Running /\ tools' = tools /\ file' = Torn
        /\ memory' = [memory EXCEPT ![p] = next]
    BY <2>1 DEF Change
  <2>4. Sound(memory[p], callerNamed)
    BY <2>3 DEF SoundInv
  <2>5. Sound(next, callerNamed')
    BY <2>1, <2>2, <2>4, SoundKept
  <2>6. ASSUME NEW q \in Running', q # p PROVE Sound(memory'[q], callerNamed')
    <3>1. q \in Running /\ memory'[q] = memory[q]
      BY <2>3, <2>6
    <3>2. Sound(memory[q], callerNamed)
      BY <3>1 DEF SoundInv
    <3> QED
      BY <2>2, <3>1, <3>2 DEF Sound
  <2>7. memory'[p] = next /\ p \in Process
    BY <2>3
  <2>8. \A state, named : Sound(state, named) => Sound(state, named)'
    BY <2>3 DEF Sound
  <2>9. ASSUME NEW q \in Running' PROVE Sound(memory[q], callerNamed)'
    <3>1. Sound(memory'[q], callerNamed')
      BY <2>5, <2>6, <2>7
    <3> QED
      BY <2>3, <3>1 DEF Sound
  <2> QED
    BY <2>3, <2>9 DEF SoundInv
<1>3. ASSUME NEW p \in Process, Respond(p) PROVE SoundInv'
  <2>1. /\ p \in Running /\ file' \in {memory[p], Torn}
        /\ memory' = memory /\ callerNamed' = callerNamed /\ tools' = tools
    BY <1>3 DEF Respond
  <2>2. \A q \in Running : Sound(memory[q], callerNamed)
    BY DEF SoundInv
  <2>3. \A state, named : Sound(state, named) => Sound(state, named)'
    BY <2>1 DEF Sound
  <2>4. ASSUME file' # Torn PROVE Sound(file, callerNamed)'
    <3>1. Sound(file', callerNamed')
      BY <2>1, <2>2, <2>4
    <3> QED
      BY <2>1, <3>1 DEF Sound
  <2>5. ASSUME NEW q \in Running' PROVE Sound(memory[q], callerNamed)'
    <3>1. q \in Running /\ memory'[q] = memory[q]
      BY <2>1
    <3>2. Sound(memory[q], callerNamed)
      BY <2>2, <3>1
    <3> QED
      BY <2>1, <3>1, <3>2 DEF Sound
  <2> QED
    BY <2>4, <2>5 DEF SoundInv
<1>4. ASSUME NEW p \in Process, Exit(p) PROVE SoundInv'
  <2>1. file' = file /\ callerNamed' = callerNamed /\ tools' = tools
    BY <1>4 DEF Exit
  <2>2. ASSUME NEW q \in Running' PROVE Sound(memory[q], callerNamed)'
    <3>1. q \in Running /\ memory'[q] = memory[q]
      BY <1>4 DEF Exit
    <3>2. Sound(memory[q], callerNamed)
      BY <3>1 DEF SoundInv
    <3> QED
      BY <2>1, <3>1, <3>2 DEF Sound
  <2>3. ASSUME file' # Torn PROVE Sound(file, callerNamed)'
    <3>1. Sound(file, callerNamed)
      BY <2>1, <2>3 DEF SoundInv
    <3> QED
      BY <2>1, <3>1 DEF Sound
  <2> QED
    BY <2>2, <2>3 DEF SoundInv
<1>5. CASE UNCHANGED backendVars
  BY <1>5 DEF backendVars, SoundInv, Sound
<1> QED
  BY <1>1, <1>2, <1>3, <1>4, <1>5 DEF BackendNext

\* A rank below the limit: of at most limit places one is never behind limit others.
LEMMA RankBelow ==
  ASSUME NEW T, IsFiniteSet(T), NEW S \in SUBSET T, NEW x \in T, x \notin S
  PROVE  IsFiniteSet(S) /\ Cardinality(S) < Cardinality(T)
         /\ Cardinality(S) \in Nat /\ Cardinality(T) \in Nat
<1>1. IsFiniteSet(S) /\ Cardinality(S) <= Cardinality(T)
      /\ (Cardinality(S) = Cardinality(T) => S = T)
  BY FS_Subset
<1>2. S # T
  OBVIOUS
<1>3. Cardinality(S) \in Nat /\ Cardinality(T) \in Nat
  BY <1>1, FS_CardinalityType
<1> QED
  BY <1>1, <1>2, <1>3

\* Places of distinct elements of a finite set are no more than these.
LEMMA PlacesBounded ==
  ASSUME NEW at, NEW T, IsFiniteSet(T), NEW f \in [at -> T],
         \A i, j \in at : f[i] = f[j] => i = j
  PROVE  IsFiniteSet(at) /\ Cardinality(at) <= Cardinality(T) /\ Cardinality(at) \in Nat
<1>1. f \in Injection(at, T)
  BY DEF Injection, IsInjective
<1>2. IsFiniteSet(at) /\ Cardinality(at) <= Cardinality(T)
  BY <1>1, FS_Injection
<1> QED
  BY <1>2, FS_CardinalityType

Mentioning(state, agent) == {d \in ToSet(state.drawers) : agent \in d.mentions}

LEMMA MentioningFinite ==
  ASSUME NEW state \in State, NEW agent
  PROVE  IsFiniteSet(Mentioning(state, agent))
<1> DEFINE drawers == state.drawers
<1>1. drawers \in Seq(Drawer)
  BY DEF State
<1> HIDE DEF drawers
<1>2. drawers \in Surjection(1 .. Len(drawers), ToSet(drawers)) /\ Len(drawers) \in Nat
  BY <1>1 DEF Surjection, ToSet
<1>3. IsFiniteSet(1 .. Len(drawers))
  BY <1>2, FS_Interval
<1>4. IsFiniteSet(ToSet(drawers))
  BY <1>2, <1>3, FS_Surjection
<1>5. Mentioning(state, agent) \in SUBSET ToSet(drawers)
  BY DEF Mentioning, drawers
<1> QED
  BY <1>4, <1>5, FS_Subset

\* Within the limit a search finds every drawer that mentions the agent.
LEMMA SearchFindsAll ==
  ASSUME NEW state \in State, Sound(state, callerNamed), NEW agent,
         Cardinality(Mentioning(state, agent)) <= Limit,
         NEW i \in 1 .. Len(state.drawers), agent \in state.drawers[i].mentions
  PROVE  state.drawers[i] \in SearchDrawers(state, agent)
<1> DEFINE hits == {j \in DOMAIN state.drawers : agent \in state.drawers[j].mentions}
           before == {j \in hits : j < i}
           f == [j \in hits |-> state.drawers[j]]
<1>1. state.drawers \in Seq(Drawer) /\ DOMAIN state.drawers = 1 .. Len(state.drawers)
  BY DEF State
<1>2. f \in [hits -> Mentioning(state, agent)]
  BY DEF Mentioning, ToSet
<1>3. \A j, k \in hits : f[j] = f[k] => j = k
  BY <1>1 DEF Sound
<1>4. i \in hits /\ i \notin before /\ before \in SUBSET hits
  BY <1>1
<1>5. SearchDrawers(state, agent) =
        {state.drawers[j] : j \in {j \in hits : Cardinality({k \in hits : k < j}) < Limit}}
  BY DEF SearchDrawers
<1>6. Cardinality(before) < Limit
  <2> HIDE DEF hits, f, before
  <2>1. IsFiniteSet(Mentioning(state, agent))
    BY MentioningFinite
  <2>2. /\ IsFiniteSet(hits) /\ Cardinality(hits) \in Nat
        /\ Cardinality(hits) <= Cardinality(Mentioning(state, agent))
    BY <1>2, <1>3, <2>1, PlacesBounded
  <2>3. Cardinality(before) < Cardinality(hits) /\ Cardinality(before) \in Nat
    BY <1>4, <2>2, RankBelow
  <2>4. Cardinality(Mentioning(state, agent)) \in Nat /\ Limit \in Nat
    BY <2>1, FS_CardinalityType, BackendAssumption
  <2> QED
    BY <2>2, <2>3, <2>4
<1> QED
  BY <1>4, <1>5, <1>6

\* Within the limit the list tool lists every entry of the agent.
LEMMA ListFindsAll ==
  ASSUME NEW state \in State, Sound(state, callerNamed), NEW agent,
         Cardinality(Mentioning(state, agent)) <= Limit,
         NEW e \in ToSet(state.diaries), Author[e] = agent
  PROVE  e \in DiaryList(state, agent)
<1> DEFINE entries == {j \in DOMAIN state.diaries : Author[state.diaries[j]] = agent}
           f == [j \in entries |-> DiaryDrawer(state.diaries[j])]
<1>1. /\ state.diaries \in Seq(Entry) /\ DOMAIN state.diaries = 1 .. Len(state.diaries)
      /\ state.drawers \in Seq(Drawer) /\ DOMAIN state.drawers = 1 .. Len(state.drawers)
  BY DEF State
<1>2. f \in [entries -> Mentioning(state, agent)]
  <2> SUFFICES ASSUME NEW j \in entries
               PROVE  DiaryDrawer(state.diaries[j]) \in Mentioning(state, agent)
    OBVIOUS
  <2>1. state.diaries[j] \in ToSet(state.diaries)
    BY DEF ToSet
  <2>2. PICK k \in 1 .. Len(state.drawers) : state.drawers[k] = DiaryDrawer(state.diaries[j])
    BY <2>1 DEF Sound
  <2>3. agent \in DiaryDrawer(state.diaries[j]).mentions
    BY DEF DiaryDrawer
  <2> QED
    BY <1>1, <2>2, <2>3 DEF Mentioning, ToSet
<1>3. \A j, k \in entries : f[j] = f[k] => j = k
  <2>1. \A j, k \in DOMAIN state.diaries : state.diaries[j] = state.diaries[k] => j = k
    BY DEF Sound, IsInjective
  <2>2. \A j \in entries : state.diaries[j] \in Entry
    BY <1>1
  <2>3. \A g, h \in Entry : DiaryDrawer(g) = DiaryDrawer(h) => g = h
    BY NamesApart
  <2> QED
    BY <2>1, <2>2, <2>3
<1>4. PICK i \in DOMAIN state.diaries : state.diaries[i] = e
  BY DEF ToSet
<1> DEFINE after == {k \in entries : i < k}
<1>5. i \in entries /\ i \notin after /\ after \in SUBSET entries
  BY <1>1, <1>4
<1>6. DiaryList(state, agent) =
        {state.diaries[j] : j \in {j \in entries : Cardinality({k \in entries : j < k}) < Limit}}
  BY DEF DiaryList
<1>7. Cardinality(after) < Limit
  <2> HIDE DEF entries, f, after
  <2>1. IsFiniteSet(Mentioning(state, agent))
    BY MentioningFinite
  <2>2. /\ IsFiniteSet(entries) /\ Cardinality(entries) \in Nat
        /\ Cardinality(entries) <= Cardinality(Mentioning(state, agent))
    BY <1>2, <1>3, <2>1, PlacesBounded
  <2>3. Cardinality(after) < Cardinality(entries) /\ Cardinality(after) \in Nat
    BY <1>5, <2>2, RankBelow
  <2>4. Cardinality(Mentioning(state, agent)) \in Nat /\ Limit \in Nat
    BY <2>1, FS_CardinalityType, BackendAssumption
  <2> QED
    BY <2>2, <2>3, <2>4
<1> QED
  BY <1>4, <1>5, <1>6, <1>7

\* DiaryShared: both diary clients read each other's entries when the backend has
\* all diary tools or none and no more than the limit mentions the agent, but an
\* entry whose id a caller gave may be listed by the memory runtime alone
\* (appendDiaryEntry, listDiaryEntries and getDiaryEntry of the two clients).
THEOREM DiaryClientsAgree == BackendSpec => []DiaryShared
<1>1. BackendInit => SoundInv
  BY StateIsUp
  DEF BackendInit, SoundInv, Running, DefaultState, Sound, ToSet, IsInjective
<1>2. ASSUME BackendTypeOK, SoundInv PROVE DiaryShared
  <2> SUFFICES ASSUME tools \in {{}, DiaryTool}, NEW p \in Running, NEW a \in Agent,
                      Cardinality(Mentioning(memory[p], a)) <= Limit,
                      NEW d \in ToSet(memory[p].drawers), a \in d.diaryOf
               PROVE  /\ d.name[2] \in MemoryList(memory[p], a)
                      /\ d.name[2] \notin callerNamed =>
                           /\ d.name[2] \in EngineList(memory[p], a)
                           /\ GetDiaryEntry(memory[p], d.name[2])
    BY DEF DiaryShared, Mentioning
  <2> DEFINE state == memory[p]
  <2>1. state \in State /\ Sound(state, callerNamed)
    BY <1>2 DEF BackendTypeOK, SoundInv, Running
  <2>2. DOMAIN state.drawers = 1 .. Len(state.drawers)
    BY <2>1 DEF State
  <2> HIDE DEF state
  <2>3. PICK i \in 1 .. Len(state.drawers) : d = state.drawers[i]
    BY <2>2 DEF ToSet, state
  <2>4. PICK e \in Entry :
          \/ d = DiaryDrawer(e) /\ ("append" \in tools => e \in ToSet(state.diaries))
          \/ d = PlainDrawer(e) /\ e \in callerNamed /\ "append" \notin tools
    <3>1. \A n \in Note : d # NoteDrawer(n)
      BY DEF NoteDrawer
    <3> QED
      BY <2>1, <2>3, <3>1 DEF Sound
  <2>5. Author[e] = a /\ d.name[2] = e /\ a \in d.mentions
    BY <2>4 DEF DiaryDrawer, PlainDrawer
  <2>6. CASE tools = {}
    <3>1. d \in SearchDrawers(state, a)
      BY <2>1, <2>3, <2>5, SearchFindsAll DEF state
    <3>2. d.name \in DiaryHits(state, a)
      BY <3>1 DEF DiaryHits
    <3>3. e \in MemoryList(state, a)
      BY <2>5, <2>6, <3>2 DEF MemoryList
    <3>4. ASSUME e \notin callerNamed
          PROVE  GetDiaryEntry(state, e) /\ e \in EngineList(state, a)
      <4>1. d.name = <<"diary", e>>
        BY <2>4, <3>4 DEF DiaryDrawer
      <4>2. d.name \in Names(state)
        BY <2>2, <2>3 DEF Names
      <4>3. GetDiaryEntry(state, e)
        BY <2>6, <4>1, <4>2 DEF GetDiaryEntry
      <4> QED
        BY <2>5, <2>6, <3>2, <4>3 DEF EngineList
    <3> QED
      BY <2>5, <3>3, <3>4 DEF state
  <2>7. CASE tools = DiaryTool
    <3>1. "append" \in tools /\ "list" \in tools /\ "get" \in tools
      BY <2>7 DEF DiaryTool
    <3>2. e \in ToSet(state.diaries)
      BY <2>4, <3>1
    <3>3. e \in DiaryList(state, a)
      BY <2>1, <2>5, <3>2, ListFindsAll DEF state
    <3> QED
      BY <2>5, <3>1, <3>2, <3>3 DEF MemoryList, EngineList, GetDiaryEntry, state
  <2> QED
    BY <2>6, <2>7
<1> QED
  BY <1>1, <1>2, SoundStep, BackendTypeCorrect, PTL DEF BackendSpec
=============================================================================
