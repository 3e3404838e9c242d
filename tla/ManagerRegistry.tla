-------------------------- MODULE ManagerRegistry --------------------------
(***************************************************************************)
(* The managers of the memory plugin: MemoryPluginRuntimeAdapter, one      *)
(* manager for each agent and purpose, each with one MCP process.          *)
(*                                                                         *)
(* The calls of getMemorySearchManager and closeAllMemorySearchManagers    *)
(* interleave at their awaits.  Closing a manager kills its process at     *)
(* once, and a manager that is closed spawns another when it is used.      *)
(***************************************************************************)
EXTENDS Naturals, FiniteSets

CONSTANTS
  Key,         \* agentId:purpose
  Config,      \* configuration fingerprints
  Caller,      \* concurrent calls of getMemorySearchManager
  None,        \* no key, no configuration
  MaxManagers  \* bound on the managers that are created

ASSUME ConstantsAssumption ==
  /\ None \notin Key \cup Config
  /\ MaxManagers \in Nat

VARIABLES
  managers,   \* the map: a manager, numbered as they are created, or 0
  configOf,   \* the fingerprint a manager was created with
  created,    \* how many managers there are
  open,       \* the managers whose process runs
  pc, key, config, own,  \* each call's place in the code, arguments and manager
  closing,    \* is closeAll under way?
  visited,    \* the keys its iteration has behind it
  overlapped, \* history: have two calls that change the map overlapped?
  failed,     \* history: the managers whose first status failed
  reopened,   \* history: the managers that were used after they were closed
  dropped     \* history: the managers the map lost without closing them

calls == <<pc, key, config, own>>
history == <<overlapped, failed, reopened, dropped>>
registryVars == <<managers, configOf, created, open, calls, closing, visited, history>>

Manager == 1 .. MaxManagers

Init ==
  /\ managers = [k \in Key |-> 0]
  /\ configOf = [m \in Manager |-> None]
  /\ created = 0 /\ open = {}
  /\ pc = [c \in Caller |-> "idle"]
  /\ key = [c \in Caller |-> None] /\ config = [c \in Caller |-> None]
  /\ own = [c \in Caller |-> 0]
  /\ closing = FALSE /\ visited = {}
  /\ overlapped = FALSE /\ failed = {} /\ reopened = {} /\ dropped = {}

-----------------------------------------------------------------------------
Mapped == {managers[k] : k \in Key} \ {0}

Mapping == {c \in Caller : pc[c] \in {"closed", "create"}}

Goto(c, place) == pc' = [pc EXCEPT ![c] = place]

\* The call returns m, or an error if m is 0.
Return(c, m) ==
  /\ Goto(c, "returned")
  /\ own' = [own EXCEPT ![c] = m]
  /\ key' = [key EXCEPT ![c] = None] /\ config' = [config EXCEPT ![c] = None]

\* The key leaves what it maps to.
Drops(k) == dropped' = IF managers[k] \in open \ reopened THEN dropped \cup {managers[k]}
                       ELSE dropped

\* Any use of a manager spawns its process if there is none.
Use(m) ==
  /\ open' = open \cup {m}
  /\ reopened' = IF m \in open THEN reopened ELSE reopened \cup {m}

\* A new client, and the request for its status, which spawns its process.
Create(c, f) ==
  /\ created < MaxManagers
  /\ created' = created + 1
  /\ configOf' = [configOf EXCEPT ![created + 1] = f]
  /\ own' = [own EXCEPT ![c] = created + 1]
  /\ open' = open \cup {created + 1}
  /\ Goto(c, "create")

\* A call that has to change the map.
Asks(c, k, f) ==
  /\ pc[c] = "idle"
  /\ key' = [key EXCEPT ![c] = k] /\ config' = [config EXCEPT ![c] = f]
  /\ overlapped' = (overlapped \/ closing \/ Mapping # {})

SameConfig(k, f) == managers[k] # 0 /\ configOf[managers[k]] = f

\* The manager of the key has this configuration and is returned.
AskKnown(c, k, f) ==
  /\ pc[c] = "idle" /\ SameConfig(k, f)
  /\ Return(c, managers[k])
  /\ UNCHANGED <<managers, configOf, created, open, closing, visited, history>>

\* There is no manager for the key.
AskNew(c, k, f) ==
  /\ managers[k] = 0
  /\ Asks(c, k, f)
  /\ Create(c, f)
  /\ UNCHANGED <<managers, closing, visited, failed, reopened, dropped>>

\* Mutant: the manager of the old configuration is not closed.
AskOtherUnclosed(c, k, f) ==
  /\ managers[k] # 0 /\ ~SameConfig(k, f)
  /\ Asks(c, k, f)
  /\ Goto(c, "closed")
  /\ UNCHANGED <<managers, configOf, created, open, own, closing, visited, failed,
                 reopened, dropped>>

\* The manager of the key has another configuration: it is closed.
AskOther(c, k, f) ==
  /\ managers[k] # 0 /\ ~SameConfig(k, f)
  /\ Asks(c, k, f)
  /\ open' = open \ {managers[k]}
  /\ Goto(c, "closed")
  /\ UNCHANGED <<managers, configOf, created, own, closing, visited, failed, reopened,
                 dropped>>

\* After the close the key is deleted, whatever it maps to by now; if it is set
\* again, an iteration of the map still has it before it.
Replace(c) ==
  /\ pc[c] = "closed"
  /\ managers' = [managers EXCEPT ![key[c]] = 0]
  /\ visited' = visited \ {key[c]}
  /\ Drops(key[c])
  /\ Create(c, config[c])
  /\ UNCHANGED <<key, config, closing, overlapped, failed, reopened>>

\* The status is known: the manager is put into the map, over one that another
\* call may have put there.
Created(c) ==
  /\ pc[c] = "create"
  /\ managers' = [managers EXCEPT ![key[c]] = own[c]]
  /\ Drops(key[c])
  /\ Return(c, own[c])
  /\ UNCHANGED <<configOf, created, open, closing, visited, overlapped, failed, reopened>>

\* The status fails: an error is returned, and the process is not closed.
StatusFails(c) ==
  /\ pc[c] = "create"
  /\ failed' = failed \cup {own[c]}
  /\ Return(c, 0)
  /\ UNCHANGED <<managers, configOf, created, open, closing, visited, overlapped,
                 reopened, dropped>>

-----------------------------------------------------------------------------
CloseAll ==
  /\ ~closing
  /\ closing' = TRUE /\ visited' = {}
  /\ overlapped' = (overlapped \/ Mapping # {})
  /\ UNCHANGED <<managers, configOf, created, open, calls, failed, reopened, dropped>>

\* The iteration of the map closes the next manager and awaits that.
CloseNext(k) ==
  /\ closing /\ managers[k] # 0 /\ k \notin visited
  /\ open' = open \ {managers[k]}
  /\ visited' = visited \cup {k}
  /\ UNCHANGED <<managers, configOf, created, calls, closing, history>>

\* The map is cleared, with what was set behind the iteration.
Clear ==
  /\ closing /\ \A k \in Key : managers[k] = 0 \/ k \in visited
  /\ managers' = [k \in Key |-> 0]
  /\ closing' = FALSE /\ visited' = {}
  /\ dropped' = dropped \cup ((Mapped \cap open) \ reopened)
  /\ UNCHANGED <<configOf, created, open, calls, overlapped, failed, reopened>>

-----------------------------------------------------------------------------
\* A step of the registry.
RegistryNext ==
  \/ \E c \in Caller, k \in Key, f \in Config :
       AskKnown(c, k, f) \/ AskNew(c, k, f) \/ AskOther(c, k, f)
  \/ \E c \in Caller : Replace(c) \/ Created(c) \/ StatusFails(c)
  \/ CloseAll \/ Clear \/ \E k \in Key : CloseNext(k)

-----------------------------------------------------------------------------
(***************************************************************************)
(* Properties.                                                             *)
(***************************************************************************)

\* A running process is that of a manager in the map or in the making, unless
\* its status failed or it was used after it was closed, or two calls that
\* change the map have overlapped.
ProcessesOwned ==
  open \subseteq Mapped \cup {own[c] : c \in Mapping} \cup failed \cup reopened
                   \cup (IF overlapped THEN dropped ELSE {})
=============================================================================
