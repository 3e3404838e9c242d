--------------------------- MODULE MemoryRuntime ---------------------------
(***************************************************************************)
(* The memory runtime of one manager: MemoryRuntimeService with its caches *)
(* and the public mirror, under the calls of MemPalaceMemorySearchManager, *)
(* over the tools of the MCP client.                                       *)
(*                                                                         *)
(* The calls of the host run in one event loop and interleave at every     *)
(* await.  A backend request is two steps: the backend answers (what it    *)
(* answers is fixed then), and the continuation uses the answer.  The      *)
(* backend also changes on its own: the sync daemon and the other managers *)
(* promote through processes of their own.  And the mirror is one          *)
(* directory for all managers, each of which has caches of its own: the    *)
(* others write its files too.  The diagnostics counters, which nothing    *)
(* reads, are left out.                                                    *)
(***************************************************************************)
EXTENDS Naturals, FiniteSets

CONSTANTS
  Artifact,        \* artifact ids
  None,            \* no artifact, no content
  Caller,          \* concurrent calls of the host
  MaxVersion,      \* bound on the versions of an artifact
  MaxCalls,        \* bound on the calls of the host, to any manager
  QueryExpansion   \* config.advanced.queryExpansion

ASSUME ConstantsAssumption ==
  /\ None \notin Artifact \cup [id : Artifact, version : Nat]
  /\ IsFiniteSet(Artifact)
  /\ MaxVersion \in Nat /\ MaxCalls \in Nat
  /\ QueryExpansion \in BOOLEAN

VARIABLES
  tools,          \* does the backend have mempalace_get_drawer? never changes
  backend,        \* the version of each artifact, 0 for absent
  artifactCache, metadataCache, knownArtifactIds, cacheState,
  capabilities,   \* is cachedCapabilities set?
  cachedStatus,   \* what the manager reports to the host
  mirror,         \* the files of public-artifacts/
  pc, arg, answer, hits, snapshot, \* each call's place in the code and locals
  calls,      \* how many calls the host has made, to any manager
  floor,      \* history: the backend when it answered the last refresh
  late,       \* history: the calls that were answered before that
  raced,      \* history: the artifacts that such a call recorded last
  newest,     \* history: the highest version recorded of each artifact
  overtaken,  \* history: the answered calls whose artifact was recorded meanwhile
  setBack,    \* history: the artifacts that such a call recorded last
  unwritten,  \* history: the artifacts whose last record missed the mirror
  lapsed      \* history: those whose file another manager has put back since

caches == <<artifactCache, metadataCache, knownArtifactIds>>
locals == <<arg, answer, hits, snapshot>>
freshness == <<floor, late, raced>>
records == <<newest, overtaken, setBack>>
written == <<unwritten, lapsed>>
history == <<freshness, records, written>>
vars == <<tools, backend, caches, cacheState, capabilities, cachedStatus, mirror,
          pc, locals, calls, history>>

Content == [id : Artifact, version : 1 .. MaxVersion]
CacheState == [artifactEntries : Nat, metadataEntries : Nat,
               stale : BOOLEAN, lastRefresh : BOOLEAN]

\* Where a call awaits: the backend (get, promote, search, expand, refresh,
\* status), an answer the backend has given (got, found, merged, refreshed), or
\* the capabilities (diag, snapshot).
Control == {"idle", "get", "got", "promote", "search", "found", "expand", "merged",
            "diag", "refresh", "refreshed", "status", "snapshot"}

\* Type invariant: also, a cached artifact is one version of an artifact.
TypeOK ==
  /\ tools \subseteq {"get_drawer"}
  /\ backend \in [Artifact -> 0 .. MaxVersion]
  /\ artifactCache \in [Artifact -> Content \cup {None}]
  /\ metadataCache \subseteq Artifact /\ knownArtifactIds \subseteq Artifact
  /\ cacheState \in CacheState /\ capabilities \in BOOLEAN
  /\ cachedStatus \in [cache : CacheState, memoryCount : Nat]
  /\ mirror \in [Artifact -> Content \cup {None}]
  /\ pc \in [Caller -> Control]
  /\ arg \in [Caller -> Artifact \cup {None}]
  /\ \A c \in Caller :
       /\ pc[c] \in {"get", "got", "promote"} => arg[c] \in Artifact
       /\ pc[c] = "got" => answer[c] \in Content
       /\ pc[c] = "snapshot" => snapshot[c] \in CacheState
  /\ answer \in [Caller -> Content \cup {None}]
  /\ hits \in [Caller -> SUBSET Artifact]
  /\ snapshot \in [Caller -> CacheState \cup {None}]
  /\ calls \in 0 .. MaxCalls
  /\ floor \in [Artifact -> 0 .. MaxVersion]
  /\ late \subseteq Caller
  /\ newest \in [Artifact -> 0 .. MaxVersion]
  /\ overtaken \subseteq Caller
  /\ raced \subseteq Artifact /\ setBack \subseteq Artifact
  /\ unwritten \subseteq Artifact /\ lapsed \subseteq Artifact

FreshState == [artifactEntries |-> 0, metadataEntries |-> 0, stale |-> FALSE,
               lastRefresh |-> FALSE]

Init ==
  /\ tools \in SUBSET {"get_drawer"}
  /\ backend = [a \in Artifact |-> 0]
  /\ artifactCache = [a \in Artifact |-> None]
  /\ metadataCache = {} /\ knownArtifactIds = {}
  /\ cacheState = FreshState /\ capabilities = FALSE
  /\ cachedStatus = [cache |-> FreshState, memoryCount |-> 0]
  /\ mirror = [a \in Artifact |-> None]
  /\ pc = [c \in Caller |-> "idle"]
  /\ arg = [c \in Caller |-> None] /\ answer = [c \in Caller |-> None]
  /\ hits = [c \in Caller |-> {}]
  /\ snapshot = [c \in Caller |-> None]
  /\ calls = 0
  /\ floor = [a \in Artifact |-> 0]
  /\ newest = [a \in Artifact |-> 0]
  /\ late = {} /\ overtaken = {}
  /\ raced = {} /\ setBack = {} /\ unwritten = {} /\ lapsed = {}

-----------------------------------------------------------------------------
(***************************************************************************)
(* Helpers.                                                                *)
(***************************************************************************)

Stored == {a \in Artifact : backend[a] > 0}

Current(a) == [id |-> a, version |-> backend[a]]

Cached(cache) == {a \in Artifact : cache[a] # None}

\* The host makes another call.
Called(c) ==
  /\ pc[c] = "idle"
  /\ calls < MaxCalls /\ calls' = calls + 1

Goto(c, place) == pc' = [pc EXCEPT ![c] = place]

\* The call of c leaves its place and its locals.
Leave(c) ==
  /\ Goto(c, "idle")
  /\ arg' = [arg EXCEPT ![c] = None] /\ answer' = [answer EXCEPT ![c] = None]
  /\ hits' = [hits EXCEPT ![c] = {}]
  /\ snapshot' = [snapshot EXCEPT ![c] = None]

\* The call of c returns or is rejected, with nothing to record.
End(c) ==
  /\ Leave(c)
  /\ late' = late \ {c} /\ overtaken' = overtaken \ {c}

Answered(c, artifact) ==
  /\ answer' = [answer EXCEPT ![c] = artifact]
  /\ Goto(c, "got")
  /\ UNCHANGED <<arg, hits, snapshot>>

\* Any stored artifacts may be hits; an answer that is not an array, such as the
\* text of a failure, is no hits.
Hits == SUBSET Stored

\* Mutant: caches that are filled again stay marked as stale.
RecomputedStale(cache, metadata, lastRefresh) ==
  [artifactEntries |-> Cardinality(Cached(cache)),
   metadataEntries |-> Cardinality(metadata),
   stale |-> cacheState.stale, lastRefresh |-> lastRefresh]

Recomputed(cache, metadata, lastRefresh) ==
  [artifactEntries |-> Cardinality(Cached(cache)),
   metadataEntries |-> Cardinality(metadata),
   stale |-> FALSE, lastRefresh |-> lastRefresh]

\* The request of c fails: an error of the backend, a time-out, a closed
\* connection.  search() hides a failing status, the other calls are rejected.
Fail(c) ==
  /\ \/ pc[c] \in {"get", "promote", "search", "expand", "refresh", "status"}
     \/ pc[c] \in {"diag", "snapshot"} /\ ~capabilities
  /\ End(c)
  /\ UNCHANGED <<tools, calls, backend, caches, cacheState, capabilities,
                 cachedStatus, mirror, floor, raced, newest, setBack, written>>

-----------------------------------------------------------------------------
(***************************************************************************)
(* readFile: get, through the artifact cache.                              *)
(***************************************************************************)

\* The host calls readFile.  A cached artifact is returned at once, and the
\* cache state forgets the last refresh.
Get(c, a) ==
  /\ Called(c)
  /\ IF artifactCache[a] # None
     THEN /\ cacheState' = Recomputed(artifactCache, metadataCache, FALSE)
          /\ UNCHANGED <<pc, arg>>
     ELSE /\ Goto(c, "get") /\ arg' = [arg EXCEPT ![c] = a]
          /\ UNCHANGED cacheState
  /\ UNCHANGED <<tools, backend, caches, capabilities, cachedStatus, mirror, answer,
                 hits, snapshot, history>>

\* The client asks mempalace_get_drawer, or, if the backend has no such tool,
\* takes the first hit of a search for the id, whatever artifact that is.
Obtainable(a) == IF "get_drawer" \in tools THEN Stored \cap {a} ELSE Stored

AnswerGet(c) ==
  /\ pc[c] = "get"
  /\ \E b \in Obtainable(arg[c]) : Answered(c, Current(b))
  /\ UNCHANGED <<tools, calls, backend, caches, cacheState, capabilities,
                 cachedStatus, mirror, history>>

\* Mutant: a file of the mirror is written once.
WrittenOnce(a, artifact) ==
  IF mirror[a] = None THEN [mirror EXCEPT ![a] = artifact] ELSE mirror

\* writeArtifact
Written(a, artifact) == [mirror EXCEPT ![a] = artifact]

\* Mutant: an artifact that is cached is not cached again.
RecordedOnce(a, artifact) ==
  IF artifactCache[a] = None THEN [artifactCache EXCEPT ![a] = artifact] ELSE artifactCache

Recorded(a, artifact) == [artifactCache EXCEPT ![a] = artifact]

\* What the history keeps of a record: c is overtaken if another call recorded
\* the same artifact between the answer of c and this record of it.
Remember(c, a) ==
  /\ raced' = IF c \in late THEN raced \cup {a} ELSE raced \ {a}
  /\ newest' = IF answer[c].id = a /\ answer[c].version > newest[a]
               THEN [newest EXCEPT ![a] = answer[c].version] ELSE newest
  /\ overtaken' = (overtaken \cup {d \in Caller : pc[d] = "got" /\ arg[d] = a}) \ {c}
  /\ setBack' = IF c \in overtaken THEN setBack \cup {a} ELSE setBack \ {a}

\* recordArtifact: the caches first, then the mirror; the call is rejected when
\* the mirror cannot be written, with the artifact in the caches.
RecordArtifact(c) ==
  LET a == arg[c] IN
  /\ pc[c] = "got"
  /\ artifactCache' = Recorded(a, answer[c])
  /\ knownArtifactIds' = knownArtifactIds \cup {a}
  /\ metadataCache' = metadataCache \cup {a}
  /\ cacheState' = Recomputed(artifactCache', metadataCache', cacheState.lastRefresh)
  /\ Remember(c, a)
  /\ \/ /\ mirror' = Written(a, answer[c])
        /\ unwritten' = unwritten \ {a} /\ lapsed' = lapsed \ {a}
     \/ UNCHANGED <<mirror, lapsed>> /\ unwritten' = unwritten \cup {a}
  /\ Leave(c) /\ late' = late \ {c}
  /\ UNCHANGED <<tools, calls, backend, capabilities, cachedStatus, floor>>

-----------------------------------------------------------------------------
(***************************************************************************)
(* promote.                                                                *)
(***************************************************************************)

Promote(c, a) ==
  /\ Called(c)
  /\ Goto(c, "promote") /\ arg' = [arg EXCEPT ![c] = a]
  /\ UNCHANGED <<tools, backend, caches, cacheState, capabilities, cachedStatus,
                 mirror, answer, hits, snapshot, history>>

\* mempalace_add_drawer; its answer reaches the client or is lost.
AnswerPromote(c) ==
  LET a == arg[c] IN
  /\ pc[c] = "promote" /\ backend[a] < MaxVersion
  /\ backend' = [backend EXCEPT ![a] = @ + 1]
  /\ \/ /\ Answered(c, [id |-> a, version |-> backend[a] + 1])
        /\ UNCHANGED <<late, overtaken>>
     \/ End(c)
  /\ UNCHANGED <<tools, calls, caches, cacheState, capabilities, cachedStatus,
                 mirror, floor, raced, newest, setBack, written>>

-----------------------------------------------------------------------------
(***************************************************************************)
(* sync: index, which evicts the caches, then status.                      *)
(***************************************************************************)

\* A call of the host that starts with a request: probe...Availability starts
\* at the status.
Begin(c, place) ==
  /\ Called(c) /\ Goto(c, place)
  /\ UNCHANGED <<tools, backend, caches, cacheState, capabilities, cachedStatus,
                 mirror, locals, history>>

Sync(c) == Begin(c, "refresh")
Search(c) == Begin(c, "search")
Probe(c) == Begin(c, "status")

\* mempalace_refresh_index, or a status call when there is no such tool: the
\* client reports either as accepted.  What the backend holds at this moment is
\* what the refresh stands for.
AnswerRefresh(c) ==
  /\ pc[c] = "refresh"
  /\ Goto(c, "refreshed")
  /\ floor' = backend
  /\ late' = late \cup {d \in Caller : pc[d] = "got"}
  /\ raced' = Cached(artifactCache)
  /\ UNCHANGED <<tools, calls, backend, caches, cacheState, capabilities,
                 cachedStatus, mirror, locals, records, written>>

\* Mutant: only the metadata is evicted.
EvictMetadata(c) ==
  /\ pc[c] = "refreshed"
  /\ metadataCache' = {}
  /\ cacheState' = [artifactEntries |-> 0, metadataEntries |-> 0, stale |-> TRUE,
                    lastRefresh |-> TRUE]
  /\ raced' = {}
  /\ Goto(c, "status")
  /\ UNCHANGED <<tools, calls, backend, artifactCache, knownArtifactIds,
                 capabilities, cachedStatus, mirror, locals, floor, late, records, written>>

EvictCaches(c) ==
  /\ pc[c] = "refreshed"
  /\ artifactCache' = [a \in Artifact |-> None] /\ metadataCache' = {}
  /\ cacheState' = [artifactEntries |-> 0, metadataEntries |-> 0, stale |-> TRUE,
                    lastRefresh |-> TRUE]
  /\ raced' = {}
  /\ Goto(c, "status")
  /\ UNCHANGED <<tools, calls, backend, knownArtifactIds, capabilities, cachedStatus,
                 mirror, locals, floor, late, records, written>>

-----------------------------------------------------------------------------
(***************************************************************************)
(* search: the hits, a second search when they are few, the metadata of    *)
(* the composed results, then the status.                                  *)
(***************************************************************************)

\* Few or weak hits are expanded.
AnswerSearch(c) ==
  /\ pc[c] = "search"
  /\ \E ids \in Hits, weak \in BOOLEAN :
       /\ ids = {} => weak
       /\ hits' = [hits EXCEPT ![c] = ids]
       /\ Goto(c, IF QueryExpansion /\ weak THEN "expand" ELSE "found")
  /\ UNCHANGED <<tools, calls, backend, caches, cacheState, capabilities,
                 cachedStatus, mirror, arg, answer, snapshot, history>>

\* getCapabilities, the terms and the search with them.  A graph that fails is
\* replaced by the terms of the hits; no new term, no search: no hits are added.
AnswerExpand(c) ==
  /\ pc[c] = "expand"
  /\ capabilities' = TRUE
  /\ \E ids \in Hits : hits' = [hits EXCEPT ![c] = @ \cup ids]
  /\ Goto(c, "merged")
  /\ UNCHANGED <<tools, calls, backend, caches, cacheState, cachedStatus, mirror,
                 arg, answer, snapshot, history>>

Compose(c) ==
  /\ pc[c] \in {"found", "merged"}
  /\ knownArtifactIds' = knownArtifactIds \cup hits[c]
  /\ metadataCache' = metadataCache \cup hits[c]
  /\ cacheState' = Recomputed(artifactCache, metadataCache', cacheState.lastRefresh)
  /\ hits' = [hits EXCEPT ![c] = {}]
  /\ Goto(c, "diag")
  /\ UNCHANGED <<tools, calls, backend, artifactCache, capabilities, cachedStatus,
                 mirror, arg, answer, snapshot, history>>

ResolveDiagnostics(c) ==
  /\ pc[c] = "diag"
  /\ capabilities' = TRUE
  /\ Goto(c, "status")
  /\ UNCHANGED <<tools, calls, backend, caches, cacheState, cachedStatus, mirror,
                 locals, history>>

\* service.status: after health and sources it reads the cache state, awaits the
\* capabilities, and counts the known artifacts.
ReadStatus(c) ==
  /\ pc[c] = "status"
  /\ snapshot' = [snapshot EXCEPT ![c] = cacheState]
  /\ Goto(c, "snapshot")
  /\ UNCHANGED <<tools, calls, backend, caches, cacheState, capabilities,
                 cachedStatus, mirror, arg, answer, hits, history>>

\* Mutant: what is known is counted in a cache that a refresh may have emptied.
CountedMetadata == Cardinality(metadataCache)

MemoryCount == Cardinality(knownArtifactIds)

ReturnStatus(c) ==
  /\ pc[c] = "snapshot"
  /\ capabilities' = TRUE
  /\ cachedStatus' = [cache |-> snapshot[c],
                      memoryCount |-> MemoryCount]
  /\ End(c)
  /\ UNCHANGED <<tools, calls, backend, caches, cacheState, mirror, floor, raced,
                 newest, setBack, written>>

-----------------------------------------------------------------------------
\* The sync daemon or another manager promotes a new version, through a process
\* of the backend of its own; nothing reaches this runtime.
Ingest(a) ==
  /\ backend[a] < MaxVersion
  /\ backend' = [backend EXCEPT ![a] = @ + 1]
  /\ UNCHANGED <<tools, calls, caches, cacheState, capabilities, cachedStatus,
                 mirror, pc, locals, history>>

\* A call of the host to another manager records an artifact, in a version the
\* backend has answered at any time before, in the mirror the managers share.
OtherManagerWrites(a) ==
  /\ calls < MaxCalls /\ calls' = calls + 1
  /\ \E b \in Obtainable(a) : \E v \in 1 .. backend[b] :
       /\ mirror' = Written(a, [id |-> b, version |-> v])
       /\ lapsed' = IF mirror[a] # None /\ (b # mirror[a].id \/ v < mirror[a].version)
                    THEN lapsed \cup {a} ELSE lapsed
  /\ UNCHANGED <<tools, backend, caches, cacheState, capabilities, cachedStatus,
                 pc, locals, freshness, records, unwritten>>

\* A step of a call that has begun.
Continue(c) ==
  \/ AnswerGet(c) \/ AnswerPromote(c) \/ RecordArtifact(c)
  \/ AnswerRefresh(c) \/ EvictCaches(c)
  \/ AnswerSearch(c) \/ AnswerExpand(c) \/ Compose(c) \/ ResolveDiagnostics(c)
  \/ ReadStatus(c) \/ ReturnStatus(c)
  \/ Fail(c)

Next ==
  \/ \E c \in Caller :
       \/ \E a \in Artifact : Get(c, a) \/ Promote(c, a)
       \/ Sync(c) \/ Search(c) \/ Probe(c)
       \/ Continue(c)
  \/ \E a \in Artifact : Ingest(a) \/ OtherManagerWrites(a)

Spec == Init /\ [][Next]_vars

-----------------------------------------------------------------------------
(***************************************************************************)
(* Properties.                                                             *)
(***************************************************************************)

\* What the cache state says of the caches is so at every await: the entries
\* are counted, and caches said to be stale are empty.
CacheStateTold ==
  /\ cacheState.artifactEntries = Cardinality(Cached(artifactCache))
  /\ cacheState.metadataEntries = Cardinality(metadataCache)
  /\ cacheState.stale => Cached(artifactCache) = {} /\ metadataCache = {}

\* Every cached artifact has metadata and is counted as known.
CachedIsKnown ==
  /\ Cached(artifactCache) \subseteq metadataCache
  /\ metadataCache \subseteq knownArtifactIds

\* No content from before the last refresh is cached, unless its read was
\* answered before the refresh and recorded after it.
FilledSinceRefresh ==
  \A a \in Cached(artifactCache) \ raced :
    artifactCache[a].version >= floor[artifactCache[a].id]

\* The status the host sees never counts more cached artifacts than known ones,
\* although its two halves are read on both sides of an await.
StatusConsistent == cachedStatus.cache.metadataEntries <= cachedStatus.memoryCount

\* The catalogue in the mirror is not behind the cache that readFile answers
\* from: the file of a cached artifact is there, of the same artifact and at
\* least as new, unless its write failed or another manager, whose read was
\* answered earlier, has put it back since.
MirrorKeepsUp ==
  \A a \in Cached(artifactCache) \ (unwritten \cup lapsed) :
    /\ mirror[a] # None
    /\ mirror[a].id = artifactCache[a].id
    /\ mirror[a].version >= artifactCache[a].version

\* What a host has read or promoted under an id it does not read in an older
\* version later, across refreshes and with calls in between, unless two calls
\* for the id were under way at once and recorded in the order opposite to
\* their answers.
ReadsAdvance ==
  \A a \in Cached(artifactCache) \ setBack :
    artifactCache[a].id = a => artifactCache[a].version >= newest[a]
=============================================================================
