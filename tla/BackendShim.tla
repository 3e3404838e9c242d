---------------------------- MODULE BackendShim ----------------------------
(***************************************************************************)
(* The MCP server of the host-real tests and the clients of its diary.     *)
(* Each client has a server process of its own, and all processes share    *)
(* one state file: a process reads it when it starts, and writes all it    *)
(* holds with every change.                                                *)
(*                                                                         *)
(* The memory runtime and the context engine both append to the diary,     *)
(* with the diary tools, or as drawers where a backend lacks these.        *)
(***************************************************************************)
EXTENDS Integers, SequencesExt

CONSTANTS
  Process,       \* server processes
  Entry, Agent,  \* diary entries and agents
  Author,        \* the agent of each entry
  Note,          \* drawers that are not of a diary, and mention every agent
  Limit,         \* the limit of a list or a search
  MaxWrites      \* bound: changes of the state

ASSUME BackendAssumption == Author \in [Entry -> Agent] /\ Limit \in Nat /\ MaxWrites \in Nat

VARIABLES
  tools,    \* the diary tools the backend announces
  memory,   \* what each process holds
  file,     \* the state file
  writing,  \* processes that have truncated the file and not yet filled it
  writes,   \* number of changes
  acked,    \* history: names of the drawers whose change was answered
  calm,     \* history: no two processes at a time, and none killed while writing
  callerNamed  \* history: entries whose id the caller gave to the memory runtime

backendVars == <<tools, memory, file, writing, writes, acked, calm, callerNamed>>

DiaryTool == {"append", "list", "get"}

Down == [kind |-> "down"]
Torn == [kind |-> "torn"]
DefaultState == [kind |-> "state", drawers |-> <<>>, diaries |-> <<>>]

Running == {p \in Process : memory[p] # Down}

\* Drawers named diary-<entry>, drawers named as the caller says, and notes.
DiaryDrawer(e) == [name |-> <<"diary", e>>, diaryOf |-> {Author[e]}, mentions |-> {Author[e]}]
PlainDrawer(e) == [DiaryDrawer(e) EXCEPT !.name = <<"plain", e>>]
NoteDrawer(n) == [name |-> <<"note", n>>, diaryOf |-> {}, mentions |-> Agent]

Names(state) == {state.drawers[i].name : i \in DOMAIN state.drawers}

BackendInit ==
  /\ tools \in SUBSET DiaryTool
  /\ memory = [p \in Process |-> Down]
  /\ file = DefaultState
  /\ writing = {} /\ writes = 0 /\ acked = {} /\ calm = TRUE
  /\ callerNamed = {}

-----------------------------------------------------------------------------
\* Mutant: a process starts from the built-in state.
StartFresh(p) ==
  /\ memory[p] = Down /\ file # Torn
  /\ memory' = [memory EXCEPT ![p] = DefaultState]
  /\ calm' = (calm /\ Running = {})
  /\ UNCHANGED <<tools, file, writing, writes, acked, callerNamed>>

\* readState: once, when the process starts.  It dies of a file that is torn.
StartServer(p) ==
  /\ memory[p] = Down /\ file # Torn
  /\ memory' = [memory EXCEPT ![p] = file]
  /\ calm' = (calm /\ Running = {})
  /\ UNCHANGED <<tools, file, writing, writes, acked, callerNamed>>

\* A drawer that exists is replaced in its place, like a key of an object.
Put(drawers, drawer) ==
  LET i == SelectInSeq(drawers, LAMBDA d : d.name = drawer.name)
  IN IF i = 0 THEN Append(drawers, drawer) ELSE [drawers EXCEPT ![i] = drawer]

\* mempalace_add_drawer
AddDrawer(state, drawer) == [state EXCEPT !.drawers = Put(@, drawer)]

\* mempalace_diary_append: the entry and a drawer of it; the newest is last.
DiaryAppend(state, e) ==
  [AddDrawer(state, DiaryDrawer(e)) EXCEPT !.diaries = Append(RemoveFirst(@, e), e)]

\* The state changes, and writeState truncates the file.
Change(p, state) ==
  /\ p \in Running \ writing /\ writes < MaxWrites
  /\ memory' = [memory EXCEPT ![p] = state]
  /\ file' = Torn
  /\ writing' = writing \cup {p}
  /\ writes' = writes + 1
  /\ UNCHANGED <<tools, acked, calm>>

\* writeState fills the file, and the call is answered.  What two processes
\* wrote at a time may be mixed up.
Respond(p) ==
  /\ p \in writing
  /\ file' \in {memory[p]} \cup (IF file = Torn THEN {} ELSE {Torn})
  /\ writing' = writing \ {p}
  /\ acked' = acked \cup Names(memory[p])
  /\ UNCHANGED <<tools, memory, writes, calm, callerNamed>>

\* The client closes or loses its process.
Exit(p) ==
  /\ p \in Running
  /\ memory' = [memory EXCEPT ![p] = Down]
  /\ writing' = writing \ {p}
  /\ calm' = (calm /\ p \notin writing)
  /\ UNCHANGED <<tools, file, writes, acked, callerNamed>>

-----------------------------------------------------------------------------
\* mempalace_search for the name of an agent: all hits score the same, so the
\* oldest come first, up to the limit.
SearchDrawers(state, agent) ==
  LET hits == {i \in DOMAIN state.drawers : agent \in state.drawers[i].mentions}
  IN {state.drawers[i] : i \in {i \in hits : Cardinality({j \in hits : j < i}) < Limit}}

\* mempalace_diary_list: the newest come first, up to the limit.
DiaryList(state, agent) ==
  LET entries == {i \in DOMAIN state.diaries : Author[state.diaries[i]] = agent}
  IN {state.diaries[i] : i \in {i \in entries : Cardinality({j \in entries : i < j}) < Limit}}

\* getDiaryEntry, of both clients.
GetDiaryEntry(state, e) ==
  IF "get" \in tools THEN e \in ToSet(state.diaries) ELSE <<"diary", e>> \in Names(state)

\* Mutant: the prefix is left out.
EngineNamesPlain(state, e) ==
  IF "append" \in tools THEN DiaryAppend(state, e) ELSE AddDrawer(state, PlainDrawer(e))

\* appendDiaryEntry of the context engine.
EngineAppend(state, e) ==
  IF "append" \in tools THEN DiaryAppend(state, e) ELSE AddDrawer(state, DiaryDrawer(e))

\* appendDiaryEntry of the memory runtime: a drawer gets the id the caller gives
\* as it is, and a prefix only before an id the client makes up.
MemoryAppend(state, e, given) ==
  IF "append" \in tools THEN DiaryAppend(state, e)
  ELSE AddDrawer(state, IF given THEN PlainDrawer(e) ELSE DiaryDrawer(e))

\* The diary drawers of an agent among the hits of a search.
DiaryHits(state, agent) ==
  {d.name : d \in {h \in SearchDrawers(state, agent) : agent \in h.diaryOf}}

\* listDiaryEntries of the context engine gets each hit as an entry.
EngineList(state, agent) ==
  IF "list" \in tools THEN DiaryList(state, agent)
  ELSE {e \in {name[2] : name \in DiaryHits(state, agent)} : GetDiaryEntry(state, e)}

\* listDiaryEntries of the memory runtime gets each hit as a drawer.
MemoryList(state, agent) ==
  IF "list" \in tools THEN DiaryList(state, agent)
  ELSE {name[2] : name \in DiaryHits(state, agent)}

-----------------------------------------------------------------------------
ChangeNext(p) ==
  \/ /\ \/ \E n \in Note : Change(p, AddDrawer(memory[p], NoteDrawer(n)))
        \/ \E e \in Entry : Change(p, EngineAppend(memory[p], e))
        \/ \E e \in Entry : Change(p, MemoryAppend(memory[p], e, FALSE))
     /\ UNCHANGED callerNamed
  \/ \E e \in Entry :
       /\ Change(p, MemoryAppend(memory[p], e, TRUE))
       /\ callerNamed' = callerNamed \cup {e}

BackendNext ==
  \E p \in Process : StartServer(p) \/ ChangeNext(p) \/ Respond(p) \/ Exit(p)

BackendSpec == BackendInit /\ [][BackendNext]_backendVars

-----------------------------------------------------------------------------
\* As long as no two processes run at a time and none is killed in a write, the
\* file is whole when nothing is being written, and every change that was
\* answered is in it and in the process that runs: only a process that started
\* before a change can undo it.
AnsweredIsKept ==
  calm =>
    /\ writing = {} => file # Torn /\ acked \subseteq Names(file)
    /\ \A p \in Running : acked \subseteq Names(memory[p])

\* Both clients find each other's entries, when the backend has all diary tools
\* or none and the agent has no more hits than the limit: each entry is listed
\* and can be got, but one whose id a caller gave to the memory runtime may be
\* listed by the memory runtime alone.
DiaryShared ==
  tools \in {{}, DiaryTool} =>
    \A p \in Running, a \in Agent :
      LET state == memory[p]
          named(d) == d.name[2]
      IN Cardinality({d \in ToSet(state.drawers) : a \in d.mentions}) <= Limit =>
           \A e \in {named(d) : d \in {h \in ToSet(state.drawers) : a \in h.diaryOf}} :
             /\ e \in MemoryList(state, a)
             /\ e \notin callerNamed => e \in EngineList(state, a) /\ GetDiaryEntry(state, e)
=============================================================================
