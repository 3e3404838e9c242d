-------------------------- MODULE ContextAssembly --------------------------
(***************************************************************************)
(* The calls of the context engine, assemble and afterTurn, over the       *)
(* managers of the memory plugin and the clients of the agent diary.       *)
(*                                                                         *)
(* An assembly gets its manager from the registry and then searches, reads *)
(* and asks the diary, while the host asks for managers and closes them.   *)
(* Each use of the diary has a client, and so a process, of its own.  What *)
(* assemble makes of the entries is in ContextSelection, and what the      *)
(* diary holds and lists, with the limits of its lists, in BackendShim.    *)
(***************************************************************************)
EXTENDS ManagerRegistry

CONSTANT AgentDiaries  \* config.advanced.agentDiaries

VARIABLE diaryOpen  \* the calls whose diary client may have a process

vars == <<registryVars, diaryOpen>>

Place == {"idle", "closed", "create", "returned", "search", "read", "list", "listed",
          "append"}

\* Type invariant: also, managers are numbered as they are created, and no
\* process of a lost one is ever closed.
TypeOK ==
  /\ created \in 0 .. MaxManagers
  /\ managers \in [Key -> 0 .. created]
  /\ configOf \in [Manager -> Config \cup {None}]
  /\ open \subseteq 1 .. created
  /\ pc \in [Caller -> Place]
  /\ key \in [Caller -> Key \cup {None}] /\ config \in [Caller -> Config \cup {None}]
  /\ own \in [Caller -> 0 .. created]
  /\ closing \in BOOLEAN /\ visited \subseteq Key
  /\ overlapped \in BOOLEAN
  /\ failed \subseteq open /\ reopened \subseteq 1 .. created /\ dropped \subseteq open
  /\ diaryOpen \subseteq Caller

EngineInit ==
  /\ Init
  /\ diaryOpen = {}

-----------------------------------------------------------------------------
\* The call is over: the host keeps the manager, or the engine its context.
End(c) ==
  /\ Goto(c, "idle")
  /\ own' = [own EXCEPT ![c] = 0]
  /\ UNCHANGED <<key, config>>

\* The registry's caller was the host, or the engine degrades to the prompt
\* without context because there is no manager.
Returned(c) ==
  /\ pc[c] = "returned"
  /\ End(c)
  /\ UNCHANGED <<managers, configOf, created, open, closing, visited, history,
                 diaryOpen>>

\* manager.search and manager.readFile: requests to the process of the manager,
\* which may have been closed by now.
UseManager(c, from, to) ==
  /\ pc[c] = from
  /\ own[c] # 0
  /\ Use(own[c]) /\ Goto(c, to)
  /\ UNCHANGED <<managers, configOf, created, key, config, own, closing, visited,
                 overlapped, failed, dropped, diaryOpen>>

Search(c) == UseManager(c, "returned", "read")
ReadFile(c) == UseManager(c, "read", "read")

\* search or readFile is rejected, and assemble with it; or it is complete.
Assembled(c) ==
  /\ pc[c] \in {"read", "listed"}
  /\ End(c)
  /\ UNCHANGED <<managers, configOf, created, open, closing, visited, history,
                 diaryOpen>>

-----------------------------------------------------------------------------
\* shouldQueryDiary: a diary client is started.
AskDiary(c) ==
  /\ AgentDiaries
  /\ pc[c] = "read" /\ Goto(c, "list")
  /\ diaryOpen' = diaryOpen \cup {c}
  /\ UNCHANGED <<managers, configOf, created, open, key, config, own, closing, visited,
                 history>>

\* The entries are injected and the client is closed, or listing fails and the
\* client is closed all the same.
ListDiary(c) ==
  /\ pc[c] = "list" /\ Goto(c, "listed")
  /\ diaryOpen' = diaryOpen \ {c}
  /\ UNCHANGED <<managers, configOf, created, open, key, config, own, closing, visited,
                 history>>

\* afterTurn: a diary client is started.
AfterTurn(c) ==
  /\ AgentDiaries
  /\ pc[c] = "idle" /\ Goto(c, "append")
  /\ diaryOpen' = diaryOpen \cup {c}
  /\ UNCHANGED <<managers, configOf, created, open, key, config, own, closing, visited,
                 history>>

\* appendDiaryEntry, with what it does to the backend left to BackendShim; the
\* client is closed whatever happens.
AppendDiary(c) ==
  /\ pc[c] = "append" /\ Goto(c, "idle")
  /\ diaryOpen' = diaryOpen \ {c}
  /\ UNCHANGED <<managers, configOf, created, open, key, config, own, closing, visited,
                 history>>

-----------------------------------------------------------------------------
EngineNext ==
  \/ RegistryNext /\ UNCHANGED diaryOpen
  \/ \E c \in Caller :
       \/ Returned(c) \/ Search(c) \/ ReadFile(c) \/ Assembled(c)
       \/ AskDiary(c) \/ ListDiary(c) \/ AfterTurn(c) \/ AppendDiary(c)

Spec == EngineInit /\ [][EngineNext]_vars

-----------------------------------------------------------------------------
(***************************************************************************)
(* Properties.                                                             *)
(***************************************************************************)

\* The process of a diary client does not outlive the call it was made for.
DiaryClosed == \A c \in diaryOpen : pc[c] \in {"list", "append"}
=============================================================================
