------------------------ MODULE MemoryRuntimeProofs ------------------------
(***************************************************************************)
(* Proofs about MemoryRuntime, for any artifacts, callers and bounds.      *)
(***************************************************************************)
EXTENDS MemoryRuntime, FiniteSetTheorems, TLAPS

-----------------------------------------------------------------------------
(***************************************************************************)
(* Types.                                                                  *)
(***************************************************************************)

\* Sets of artifacts are counted by naturals, and a larger one counts more.
LEMMA Counted ==
  ASSUME NEW S \in SUBSET Artifact
  PROVE  IsFiniteSet(S) /\ Cardinality(S) \in Nat
BY ConstantsAssumption, FS_Subset, FS_CardinalityType

LEMMA CountedSubset ==
  ASSUME NEW S \in SUBSET Artifact, NEW T \in SUBSET S
  PROVE  Cardinality(T) <= Cardinality(S)
BY Counted, FS_Subset

LEMMA RecomputedType ==
  ASSUME NEW cache, NEW metadata \in SUBSET Artifact, NEW refreshed \in BOOLEAN
  PROVE  Recomputed(cache, metadata, refreshed) \in CacheState
<1>1. Cached(cache) \in SUBSET Artifact
  BY DEF Cached
<1> QED
  BY <1>1, Counted DEF Recomputed, CacheState

LEMMA CalledType ==
  ASSUME TypeOK, NEW c \in Caller, Called(c)
  PROVE  calls' \in 0 .. MaxCalls
BY ConstantsAssumption DEF TypeOK, Called

LEMMA TypeStep ==
  ASSUME TypeOK, [Next]_vars
  PROVE  TypeOK'
<1> USE ConstantsAssumption DEF TypeOK, Control, vars, caches, locals, history,
       freshness, records, written, Goto
<1>1. ASSUME NEW c \in Caller, NEW a \in Artifact, Get(c, a) PROVE TypeOK'
  <2>1. Recomputed(artifactCache, metadataCache, FALSE) \in CacheState
    BY RecomputedType
  <2>2. calls' \in 0 .. MaxCalls
    BY <1>1, CalledType DEF Get
  <2>3. CASE artifactCache[a] # None
    BY <1>1, <2>1, <2>2, <2>3 DEF Get
  <2>4. CASE artifactCache[a] = None
    BY <1>1, <2>2, <2>4 DEF Get
  <2> QED
    BY <2>3, <2>4
<1>2. ASSUME NEW c \in Caller, NEW a \in Artifact, Promote(c, a) PROVE TypeOK'
  <2>1. calls' \in 0 .. MaxCalls
    BY <1>2, CalledType DEF Promote
  <2> QED
    BY <1>2, <2>1 DEF Promote
<1>3. ASSUME NEW c \in Caller, Sync(c) \/ Search(c) \/ Probe(c) PROVE TypeOK'
  <2>1. PICK place \in {"refresh", "search", "status"} : Begin(c, place)
    BY <1>3 DEF Sync, Search, Probe
  <2>2. calls' \in 0 .. MaxCalls
    BY <2>1, CalledType DEF Begin
  <2> QED
    BY <2>1, <2>2 DEF Begin
<1>4. ASSUME NEW c \in Caller, Continue(c) PROVE TypeOK'
  <2>1. CASE AnswerGet(c)
    <3>1. PICK b \in Obtainable(arg[c]) : Answered(c, Current(b))
      BY <2>1 DEF AnswerGet
    <3>2. Current(b) \in Content
      BY <3>1 DEF Obtainable, Stored, Current, Content
    <3> QED
      BY <2>1, <3>1, <3>2 DEF AnswerGet, Answered
  <2>2. CASE AnswerPromote(c)
    <3>1. arg[c] \in Artifact /\ backend[arg[c]] + 1 \in 1 .. MaxVersion
      BY <2>2 DEF AnswerPromote
    <3>2. [id |-> arg[c], version |-> backend[arg[c]] + 1] \in Content
      BY <3>1 DEF Content
    <3> QED
      BY <2>2, <3>1, <3>2 DEF AnswerPromote, Answered, End, Leave
  <2>3. CASE RecordArtifact(c)
    <3>1. arg[c] \in Artifact /\ answer[c] \in Content
      BY <2>3 DEF RecordArtifact
    <3>2. cacheState' \in CacheState
      <4>1. metadataCache \cup {arg[c]} \in SUBSET Artifact /\ cacheState.lastRefresh \in BOOLEAN
        BY <3>1 DEF CacheState
      <4> QED
        BY <2>3, <4>1, RecomputedType DEF RecordArtifact
    <3>3. mirror' \in [Artifact -> Content \cup {None}]
      BY <2>3, <3>1 DEF RecordArtifact, Written
    <3>4. newest' \in [Artifact -> 0 .. MaxVersion] /\ overtaken' \subseteq Caller
      BY <2>3, <3>1 DEF RecordArtifact, Remember, Content
    <3>5. raced' \subseteq Artifact /\ setBack' \subseteq Artifact
      BY <2>3, <3>1 DEF RecordArtifact, Remember
    <3> QED
      BY <2>3, <3>1, <3>2, <3>3, <3>4, <3>5 DEF RecordArtifact, Recorded, Leave
  <2>4. CASE AnswerRefresh(c)
    BY <2>4 DEF AnswerRefresh, Cached
  <2>5. CASE EvictCaches(c)
    BY <2>5 DEF EvictCaches, CacheState
  <2>6. CASE AnswerSearch(c)
    BY <2>6 DEF AnswerSearch, Hits, Stored
  <2>7. CASE AnswerExpand(c)
    BY <2>7 DEF AnswerExpand, Hits, Stored
  <2>8. CASE Compose(c)
    <3>1. metadataCache \cup hits[c] \in SUBSET Artifact /\ cacheState.lastRefresh \in BOOLEAN
      BY DEF CacheState
    <3>2. cacheState' \in CacheState
      BY <2>8, <3>1, RecomputedType DEF Compose
    <3> QED
      BY <2>8, <3>1, <3>2 DEF Compose
  <2>9. CASE ResolveDiagnostics(c)
    BY <2>9 DEF ResolveDiagnostics
  <2>10. CASE ReadStatus(c)
    BY <2>10 DEF ReadStatus
  <2>11. CASE ReturnStatus(c)
    <3>1. MemoryCount \in Nat
      BY Counted DEF MemoryCount
    <3> QED
      BY <2>11, <3>1 DEF ReturnStatus, End, Leave
  <2>12. CASE Fail(c)
    BY <2>12 DEF Fail, End, Leave
  <2> QED
    BY <1>4, <2>1, <2>2, <2>3, <2>4, <2>5, <2>6, <2>7, <2>8, <2>9, <2>10, <2>11, <2>12
    DEF Continue
<1>5. ASSUME NEW a \in Artifact, Ingest(a) PROVE TypeOK'
  BY <1>5 DEF Ingest
<1>6. ASSUME NEW a \in Artifact, OtherManagerWrites(a) PROVE TypeOK'
  <2>1. PICK b \in Obtainable(a) : \E v \in 1 .. backend[b] :
          mirror' = Written(a, [id |-> b, version |-> v])
    BY <1>6 DEF OtherManagerWrites
  <2>2. PICK v \in 1 .. backend[b] : mirror' = Written(a, [id |-> b, version |-> v])
    BY <2>1
  <2>3. [id |-> b, version |-> v] \in Content
    BY <2>1, <2>2 DEF Obtainable, Stored, Content
  <2>4. mirror' \in [Artifact -> Content \cup {None}]
    BY <2>2, <2>3 DEF Written
  <2>5. calls' \in 0 .. MaxCalls /\ lapsed' \subseteq Artifact
    BY <1>6 DEF OtherManagerWrites
  <2> QED
    BY <1>6, <2>4, <2>5 DEF OtherManagerWrites
<1>7. CASE UNCHANGED vars
  BY <1>7
<1> QED
  BY <1>1, <1>2, <1>3, <1>4, <1>5, <1>6, <1>7 DEF Next

\* The variables have their types: an answer that is waited for, and what is
\* cached, is one version of an artifact.
THEOREM TypeCorrect == Spec => []TypeOK
<1>1. Init => TypeOK
  <2>1. FreshState \in CacheState
    BY DEF FreshState, CacheState
  <2>2. ASSUME Init
        PROVE  /\ cachedStatus \in [cache : CacheState, memoryCount : Nat]
               /\ calls \in 0 .. MaxCalls
               /\ backend \in [Artifact -> 0 .. MaxVersion]
               /\ floor \in [Artifact -> 0 .. MaxVersion]
               /\ newest \in [Artifact -> 0 .. MaxVersion]
    BY <2>1, <2>2, ConstantsAssumption DEF Init
  <2> QED
    BY <2>1, <2>2, ConstantsAssumption DEF Init, TypeOK, Control
<1> QED
  BY <1>1, TypeStep, PTL DEF Spec

-----------------------------------------------------------------------------
(***************************************************************************)
(* The counters.  The status reads the cache state before an await and the *)
(* known artifacts after it; the artifacts that are known only grow, and   *)
(* every metadata entry is of one of them.                                 *)
(***************************************************************************)

SnapshotBounded ==
  \A c \in Caller : pc[c] = "snapshot" =>
    snapshot[c].metadataEntries <= Cardinality(knownArtifactIds)

CounterInv == CacheStateTold /\ CachedIsKnown /\ StatusConsistent /\ SnapshotBounded

LEMMA KnownOnlyGrows ==
  ASSUME TypeOK, [Next]_vars
  PROVE  knownArtifactIds \subseteq knownArtifactIds'
BY DEF Next, vars, caches, Get, Promote, Sync, Search, Probe, Begin, Continue, AnswerGet,
   AnswerPromote, RecordArtifact, AnswerRefresh, EvictCaches, AnswerSearch, AnswerExpand,
   Compose, ResolveDiagnostics, ReadStatus, ReturnStatus, Fail, Ingest, OtherManagerWrites

LEMMA CacheStep ==
  ASSUME TypeOK, CacheStateTold, CachedIsKnown, [Next]_vars
  PROVE  CacheStateTold' /\ CachedIsKnown'
<1> USE DEF CacheStateTold, CachedIsKnown, vars, caches
<1>1. ASSUME UNCHANGED <<caches, cacheState>> PROVE CacheStateTold' /\ CachedIsKnown'
  BY <1>1 DEF Cached
<1>2. ASSUME NEW c \in Caller, NEW a \in Artifact, Get(c, a)
      PROVE  CacheStateTold' /\ CachedIsKnown'
  <2>1. CASE artifactCache[a] # None
    <3>1. cacheState' = Recomputed(artifactCache, metadataCache, FALSE) /\ UNCHANGED caches
      BY <1>2, <2>1 DEF Get
    <3> QED
      BY <3>1 DEF Recomputed, Cached
  <2>2. CASE artifactCache[a] = None
    BY <1>1, <1>2, <2>2 DEF Get
  <2> QED
    BY <2>1, <2>2
<1>3. ASSUME NEW c \in Caller, Continue(c) PROVE CacheStateTold' /\ CachedIsKnown'
  <2>1. CASE RecordArtifact(c)
    <3>1. Cached(artifactCache') \subseteq Cached(artifactCache) \cup {arg[c]}
      BY <2>1 DEF RecordArtifact, Recorded, Cached, TypeOK
    <3>2. CacheStateTold'
      BY <2>1 DEF RecordArtifact, Recomputed
    <3>3. CachedIsKnown'
      BY <2>1, <3>1 DEF RecordArtifact, Recorded, Cached
    <3> QED
      BY <3>2, <3>3
  <2>2. CASE EvictCaches(c)
    <3>1. Cached(artifactCache') = {}
      BY <2>2 DEF EvictCaches, Cached
    <3> QED
      BY <2>2, <3>1, FS_EmptySet DEF EvictCaches, Cached
  <2>3. CASE Compose(c)
    <3>1. CacheStateTold'
      BY <2>3 DEF Compose, Recomputed, Cached
    <3>2. CachedIsKnown'
      BY <2>3 DEF Compose, Cached
    <3> QED
      BY <3>1, <3>2
  <2> QED
    BY <1>1, <1>3, <2>1, <2>2, <2>3 DEF Continue, AnswerGet, AnswerPromote, AnswerRefresh,
       AnswerSearch, AnswerExpand, ResolveDiagnostics, ReadStatus, ReturnStatus, Fail
<1> QED
  BY <1>1, <1>2, <1>3 DEF Next, Promote, Sync, Search, Probe, Begin, Ingest, OtherManagerWrites

LEMMA StatusStep ==
  ASSUME TypeOK, TypeOK', CounterInv, [Next]_vars
  PROVE  StatusConsistent' /\ SnapshotBounded'
<1>1. Cardinality(knownArtifactIds) <= Cardinality(knownArtifactIds')
  BY KnownOnlyGrows, CountedSubset DEF TypeOK
<1>2. Cardinality(knownArtifactIds) \in Nat /\ Cardinality(knownArtifactIds') \in Nat
  BY Counted DEF TypeOK
<1>3. cacheState.metadataEntries <= Cardinality(knownArtifactIds)
  BY CountedSubset DEF TypeOK, CounterInv, CacheStateTold, CachedIsKnown
<1>4. \A c \in Caller : pc[c] = "snapshot" => snapshot[c].metadataEntries \in Nat
  BY DEF TypeOK, CacheState
<1>5. StatusConsistent'
  <2>1. CASE UNCHANGED cachedStatus
    BY <2>1 DEF CounterInv, StatusConsistent
  <2>2. CASE \E c \in Caller : ReturnStatus(c)
    <3>1. PICK c \in Caller : ReturnStatus(c)
      BY <2>2
    <3>2. cachedStatus'.cache = snapshot[c] /\ cachedStatus'.memoryCount = Cardinality(knownArtifactIds)
      BY <3>1 DEF ReturnStatus, MemoryCount
    <3> QED
      BY <3>1, <3>2 DEF ReturnStatus, CounterInv, SnapshotBounded, StatusConsistent
  <2> QED
    BY <2>1, <2>2 DEF Next, vars, Get, Promote, Sync, Search, Probe, Begin, Continue,
       AnswerGet, AnswerPromote, RecordArtifact, AnswerRefresh, EvictCaches, AnswerSearch,
       AnswerExpand, Compose, ResolveDiagnostics, ReadStatus, Fail, Ingest, OtherManagerWrites
<1>6. ASSUME NEW c \in Caller, pc'[c] = "snapshot"
      PROVE  snapshot'[c].metadataEntries <= Cardinality(knownArtifactIds')
  <2>1. CASE ReadStatus(c)
    <3>1. snapshot'[c] = cacheState
      BY <2>1 DEF ReadStatus, TypeOK
    <3>2. cacheState.metadataEntries \in Nat
      BY DEF TypeOK, CacheState
    <3> QED
      BY <1>1, <1>2, <1>3, <3>1, <3>2
  <2>2. CASE pc[c] = "snapshot" /\ snapshot'[c] = snapshot[c]
    BY <1>1, <1>2, <1>4, <2>2 DEF CounterInv, SnapshotBounded
  <2>3. ReadStatus(c) \/ (pc[c] = "snapshot" /\ snapshot'[c] = snapshot[c])
    <3> USE DEF TypeOK, Control, Goto
    <3>1. CASE UNCHANGED <<pc, snapshot>>
      BY <1>6, <3>1
    <3>2. ASSUME NEW d \in Caller, NEW a \in Artifact, Get(d, a) \/ Promote(d, a)
          PROVE  pc[c] = "snapshot" /\ snapshot'[c] = snapshot[c]
      BY <1>6, <3>2 DEF Get, Promote
    <3>3. ASSUME NEW d \in Caller, NEW place \in {"refresh", "search", "status"},
                 Begin(d, place)
          PROVE  pc[c] = "snapshot" /\ snapshot'[c] = snapshot[c]
      BY <1>6, <3>3 DEF Begin, locals
    <3>4. ASSUME NEW d \in Caller, AnswerGet(d) \/ AnswerSearch(d) \/ AnswerExpand(d) \/ Compose(d)
          PROVE  pc[c] = "snapshot" /\ snapshot'[c] = snapshot[c]
      BY <1>6, <3>4 DEF AnswerGet, Answered, AnswerSearch, AnswerExpand, Compose
    <3>5. ASSUME NEW d \in Caller, AnswerRefresh(d) \/ EvictCaches(d) \/ ResolveDiagnostics(d)
          PROVE  pc[c] = "snapshot" /\ snapshot'[c] = snapshot[c]
      BY <1>6, <3>5 DEF AnswerRefresh, EvictCaches, ResolveDiagnostics, locals
    <3>6. ASSUME NEW d \in Caller, Leave(d)
          PROVE  pc[c] = "snapshot" /\ snapshot'[c] = snapshot[c]
      BY <1>6, <3>6 DEF Leave
    <3>7. ASSUME NEW d \in Caller, AnswerPromote(d)
          PROVE  pc[c] = "snapshot" /\ snapshot'[c] = snapshot[c]
      BY <1>6, <3>6, <3>7 DEF AnswerPromote, Answered, End
    <3>8. ASSUME NEW d \in Caller, RecordArtifact(d) \/ ReturnStatus(d) \/ Fail(d)
          PROVE  pc[c] = "snapshot" /\ snapshot'[c] = snapshot[c]
      BY <3>6, <3>8 DEF RecordArtifact, ReturnStatus, Fail, End
    <3>9. ASSUME NEW d \in Caller, ReadStatus(d)
          PROVE  ReadStatus(c) \/ (pc[c] = "snapshot" /\ snapshot'[c] = snapshot[c])
      BY <1>6, <3>9 DEF ReadStatus
    <3> HIDE DEF TypeOK, Control, Goto
    <3> QED
      BY <3>1, <3>2, <3>3, <3>4, <3>5, <3>7, <3>8, <3>9
      DEF Next, Continue, Sync, Search, Probe, Ingest, OtherManagerWrites, vars, locals
  <2> QED
    BY <2>1, <2>2, <2>3
<1> QED
  BY <1>5, <1>6 DEF SnapshotBounded

LEMMA CountersKept == Spec => [](TypeOK /\ CounterInv)
<1>1. ASSUME Init PROVE CounterInv
  <2>1. Cached(artifactCache) = {} /\ metadataCache = {} /\ knownArtifactIds = {}
    BY <1>1 DEF Init, Cached
  <2>2. Cardinality({}) = 0
    BY FS_EmptySet
  <2>3. CacheStateTold /\ CachedIsKnown
    BY <1>1, <2>1, <2>2 DEF Init, CacheStateTold, CachedIsKnown, FreshState
  <2>4. StatusConsistent
    BY <1>1, <2>1, <2>2 DEF Init, StatusConsistent, FreshState
  <2>5. SnapshotBounded
    BY <1>1 DEF Init, SnapshotBounded
  <2> QED
    BY <2>3, <2>4, <2>5 DEF CounterInv
<1>2. TypeOK /\ TypeOK' /\ CounterInv /\ [Next]_vars => CounterInv'
  BY CacheStep, StatusStep DEF CounterInv
<1> QED
  BY <1>1, <1>2, TypeCorrect, PTL DEF Spec

\* The cache state tells what the caches hold, at every await.
THEOREM CountersRight == Spec => []CacheStateTold
BY CountersKept, PTL DEF CounterInv

\* A cached artifact has metadata, and what has metadata is known.
THEOREM CachesNested == Spec => []CachedIsKnown
BY CountersKept, PTL DEF CounterInv

\* The two halves of a status, read on both sides of an await, agree.
THEOREM StatusAgrees == Spec => []StatusConsistent
BY CountersKept, PTL DEF CounterInv

-----------------------------------------------------------------------------
(***************************************************************************)
(* Freshness.  The backend only moves on, so an answer given after the     *)
(* last refresh is not older than what the backend held then; a call that  *)
(* was answered before it is late.                                         *)
(***************************************************************************)

FloorReached == \A a \in Artifact : floor[a] <= backend[a]

AnswersFresh ==
  \A c \in Caller \ late : pc[c] = "got" => answer[c].version >= floor[answer[c].id]

FreshInv == FilledSinceRefresh /\ FloorReached /\ AnswersFresh

\* What the freshness speaks of.
freshVars == <<backend, artifactCache, floor, late, raced>>

LEMMA EndFresh ==
  ASSUME TypeOK, AnswersFresh, UNCHANGED floor, NEW c \in Caller, End(c)
  PROVE  AnswersFresh'
BY DEF TypeOK, AnswersFresh, End, Leave, Goto

LEMMA FreshStep ==
  ASSUME TypeOK, FreshInv, [Next]_vars
  PROVE  FreshInv'
<1> USE DEF FreshInv, FilledSinceRefresh, FloorReached, AnswersFresh, TypeOK, Cached
<1>1. ASSUME UNCHANGED <<freshVars, pc, answer>> PROVE FreshInv'
  BY <1>1 DEF freshVars
<1>2. ASSUME NEW c \in Caller, NEW place \in Control \ {"got"}, Goto(c, place),
             UNCHANGED <<freshVars, answer>>
      PROVE  FreshInv'
  BY <1>2 DEF freshVars, Goto
<1>3. ASSUME NEW c \in Caller, NEW a \in Artifact, Get(c, a) \/ Promote(c, a) PROVE FreshInv'
  BY <1>1, <1>2, <1>3 DEF Get, Promote, Control, freshVars, caches, history, freshness
<1>4. ASSUME NEW c \in Caller, NEW place \in {"refresh", "search", "status"}, Begin(c, place)
      PROVE  FreshInv'
  BY <1>2, <1>4 DEF Begin, Control, freshVars, caches, history, freshness, locals
<1>5. ASSUME NEW c \in Caller, Continue(c) PROVE FreshInv'
  <2>1. CASE AnswerGet(c)
    <3>1. PICK b \in Obtainable(arg[c]) : Answered(c, Current(b))
      BY <2>1 DEF AnswerGet
    <3>2. b \in Artifact /\ Current(b).version >= floor[Current(b).id]
      BY <3>1 DEF Obtainable, Stored, Current
    <3>3. AnswersFresh'
      BY <2>1, <3>1, <3>2 DEF AnswerGet, Answered, Goto, history, freshness
    <3> QED
      BY <2>1, <3>3 DEF AnswerGet, caches, history, freshness
  <2>2. CASE AnswerPromote(c)
    <3>1. arg[c] \in Artifact /\ UNCHANGED <<floor, artifactCache, raced>>
      BY <2>2 DEF AnswerPromote, caches
    <3>2. FloorReached'
      BY <2>2, <3>1 DEF AnswerPromote
    <3>3. FilledSinceRefresh'
      BY <3>1
    <3>4. CASE Answered(c, [id |-> arg[c], version |-> backend[arg[c]] + 1]) /\ UNCHANGED late
      <4>1. backend[arg[c]] + 1 >= floor[arg[c]]
        BY <3>1
      <4> QED
        BY <3>1, <3>2, <3>3, <3>4, <4>1 DEF Answered, Goto
    <3>5. CASE End(c)
      <4>1. AnswersFresh'
        BY <3>1, <3>5, EndFresh
      <4> QED
        BY <3>2, <3>3, <4>1
    <3> QED
      BY <2>2, <3>4, <3>5 DEF AnswerPromote
  <2>3. CASE RecordArtifact(c)
    <3>1. arg[c] \in Artifact /\ UNCHANGED <<backend, floor>> /\ Leave(c) /\ late' = late \ {c}
      BY <2>3 DEF RecordArtifact
    <3>2. AnswersFresh'
      BY <3>1 DEF Leave, Goto
    <3>3. FilledSinceRefresh'
      <4>1. ASSUME NEW a \in Cached(artifactCache') \ raced'
            PROVE  artifactCache'[a].version >= floor[artifactCache'[a].id]
        <5>1. CASE a = arg[c]
          BY <2>3, <3>1, <4>1, <5>1 DEF RecordArtifact, Recorded, Remember
        <5>2. CASE a # arg[c]
          BY <2>3, <3>1, <4>1, <5>2 DEF RecordArtifact, Recorded, Remember
        <5> QED
          BY <5>1, <5>2
      <4> QED
        BY <3>1, <4>1
    <3> QED
      BY <3>1, <3>2, <3>3
  <2>4. CASE AnswerRefresh(c)
    <3>1. AnswersFresh'
      BY <2>4 DEF AnswerRefresh, locals, Goto
    <3> QED
      BY <2>4, <3>1 DEF AnswerRefresh, caches
  <2>5. CASE EvictCaches(c)
    <3>1. AnswersFresh'
      BY <2>5 DEF EvictCaches, locals, Goto
    <3> QED
      BY <2>5, <3>1 DEF EvictCaches
  <2>6. CASE AnswerSearch(c)
    BY <1>2, <2>6 DEF AnswerSearch, Control, freshVars, caches, history, freshness
  <2>7. CASE AnswerExpand(c)
    BY <1>2, <2>7 DEF AnswerExpand, Control, freshVars, caches, history, freshness
  <2>8. CASE Compose(c)
    BY <1>2, <2>8 DEF Compose, Control, freshVars, history, freshness
  <2>9. CASE ResolveDiagnostics(c)
    BY <1>2, <2>9 DEF ResolveDiagnostics, Control, freshVars, caches, history, freshness, locals
  <2>10. CASE ReadStatus(c)
    BY <1>2, <2>10 DEF ReadStatus, Control, freshVars, caches, history, freshness
  <2>11. CASE ReturnStatus(c) \/ Fail(c)
    <3>1. UNCHANGED <<backend, artifactCache, floor, raced>> /\ End(c)
      BY <2>11 DEF ReturnStatus, Fail, caches
    <3>2. AnswersFresh'
      BY <3>1, EndFresh
    <3> QED
      BY <3>1, <3>2
  <2> QED
    BY <1>5, <2>1, <2>2, <2>3, <2>4, <2>5, <2>6, <2>7, <2>8, <2>9, <2>10, <2>11 DEF Continue
<1>6. ASSUME NEW a \in Artifact, Ingest(a) PROVE FreshInv'
  <2>1. UNCHANGED <<artifactCache, floor, late, raced, pc, answer>>
    BY <1>6 DEF Ingest, OtherManagerWrites, caches, history, freshness, locals
  <2>2. FloorReached'
    BY <1>6, <2>1 DEF Ingest, OtherManagerWrites
  <2> QED
    BY <2>1, <2>2
<1>7. ASSUME NEW a \in Artifact, OtherManagerWrites(a) PROVE FreshInv'
  BY <1>1, <1>7 DEF OtherManagerWrites, freshVars, caches, freshness, locals
<1>8. CASE UNCHANGED vars
  BY <1>1, <1>8 DEF vars, freshVars, caches, locals, history, freshness
<1> QED
  BY <1>3, <1>4, <1>5, <1>6, <1>7, <1>8 DEF Next, Sync, Search, Probe

\* After a refresh the caches hold nothing older than what the backend held at
\* that refresh, but for what a late call records.
THEOREM CacheIsFresh == Spec => []FilledSinceRefresh
<1>1. Init => FreshInv
  BY DEF Init, FreshInv, FilledSinceRefresh, FloorReached, AnswersFresh, Cached
<1>2. TypeOK /\ FreshInv /\ [Next]_vars => FreshInv'
  BY FreshStep
<1>3. FreshInv => FilledSinceRefresh
  BY DEF FreshInv
<1> QED
  BY <1>1, <1>2, <1>3, TypeCorrect, PTL DEF Spec

-----------------------------------------------------------------------------
(***************************************************************************)
(* The mirror.  A record writes what it caches, and what another manager   *)
(* writes is newer, or the file has lapsed.                                *)
(***************************************************************************)

LEMMA MirrorStep ==
  ASSUME TypeOK, MirrorKeepsUp, [Next]_vars
  PROVE  MirrorKeepsUp'
<1> USE DEF MirrorKeepsUp, Cached
<1>1. CASE UNCHANGED <<artifactCache, mirror, unwritten, lapsed>>
  BY <1>1
<1>2. ASSUME NEW c \in Caller, RecordArtifact(c) PROVE MirrorKeepsUp'
  <2>1. /\ arg[c] \in Artifact /\ answer[c] \in Content
        /\ artifactCache' = [artifactCache EXCEPT ![arg[c]] = answer[c]]
        /\ \/ /\ mirror' = [mirror EXCEPT ![arg[c]] = answer[c]]
              /\ unwritten' = unwritten \ {arg[c]} /\ lapsed' = lapsed \ {arg[c]}
           \/ UNCHANGED <<mirror, lapsed>> /\ unwritten' = unwritten \cup {arg[c]}
    BY <1>2 DEF RecordArtifact, Recorded, Written, TypeOK
  <2>2. answer[c].version \in Nat /\ answer[c] # None
    BY <2>1, ConstantsAssumption DEF Content
  <2> QED
    BY <2>1, <2>2 DEF TypeOK
<1>3. ASSUME NEW c \in Caller, EvictCaches(c) PROVE MirrorKeepsUp'
  BY <1>3 DEF EvictCaches
<1>4. ASSUME NEW a \in Artifact, OtherManagerWrites(a) PROVE MirrorKeepsUp'
  <2>1. PICK b \in Obtainable(a) : \E v \in 1 .. backend[b] :
          /\ mirror' = Written(a, [id |-> b, version |-> v])
          /\ lapsed' = IF mirror[a] # None /\ (b # mirror[a].id \/ v < mirror[a].version)
                       THEN lapsed \cup {a} ELSE lapsed
    BY <1>4 DEF OtherManagerWrites
  <2>2. PICK v \in 1 .. backend[b] :
          /\ mirror' = Written(a, [id |-> b, version |-> v])
          /\ lapsed' = IF mirror[a] # None /\ (b # mirror[a].id \/ v < mirror[a].version)
                       THEN lapsed \cup {a} ELSE lapsed
    BY <2>1
  <2>3. UNCHANGED <<artifactCache, unwritten>>
    BY <1>4 DEF OtherManagerWrites, caches
  <2>4. [id |-> b, version |-> v] # None /\ v \in Nat
    BY <2>1, <2>2, ConstantsAssumption DEF Obtainable, Stored, TypeOK
  <2> DEFINE f == [id |-> b, version |-> v]
  <2>5. f # None /\ f.id = b /\ f.version = v /\ v \in Nat
    BY <2>4
  <2>6. mirror' = [mirror EXCEPT ![a] = f]
    BY <2>2 DEF Written
  <2> HIDE DEF f
  <2>7. ASSUME NEW e \in Cached(artifactCache) \ (unwritten \cup lapsed')
        PROVE  mirror'[e] # None /\ mirror'[e].id = artifactCache[e].id
               /\ mirror'[e].version >= artifactCache[e].version
    <3>1. e \notin lapsed
      BY <2>2, <2>7
    <3>2. mirror[e] # None /\ mirror[e].id = artifactCache[e].id
          /\ mirror[e].version >= artifactCache[e].version
          /\ artifactCache[e].version \in Nat /\ mirror[e].version \in Nat
      BY <2>7, <3>1 DEF TypeOK, Content
    <3>3. CASE e = a
      <4>1. mirror'[e] = f
        BY <2>6, <3>3 DEF TypeOK
      <4>2. b = mirror[a].id /\ ~(v < mirror[a].version)
        BY <2>2, <2>7, <3>2, <3>3
      <4> QED
        BY <2>5, <3>2, <3>3, <4>1, <4>2
    <3>4. CASE e # a
      BY <2>6, <2>7, <3>2, <3>4 DEF TypeOK
    <3> QED
      BY <3>3, <3>4
  <2> QED
    BY <2>3, <2>7
<1> QED
  BY <1>1, <1>2, <1>3, <1>4 DEF Next, vars, caches, history, written, Get, Promote, Sync,
     Search, Probe, Begin, Continue, AnswerGet, AnswerPromote, AnswerRefresh, AnswerSearch,
     AnswerExpand, Compose, ResolveDiagnostics, ReadStatus, ReturnStatus, Fail, Ingest

\* A file of the mirror that all managers share is behind the cache only after
\* its write failed or another manager put it back.
THEOREM MirrorNotBehind == Spec => []MirrorKeepsUp
<1>1. Init => MirrorKeepsUp
  BY DEF Init, MirrorKeepsUp, Cached
<1> QED
  BY <1>1, MirrorStep, TypeCorrect, PTL DEF Spec

-----------------------------------------------------------------------------
(***************************************************************************)
(* Monotonic reads.  What has been recorded the backend had, so an answer  *)
(* is not older than any record made before it; a record made after it     *)
(* overtakes the call.                                                     *)
(***************************************************************************)

NewestReached == \A a \in Artifact : newest[a] <= backend[a]

AnswersReached ==
  \A c \in Caller : pc[c] = "got" => answer[c].version <= backend[answer[c].id]

AnswersNewest ==
  \A c \in Caller \ overtaken :
    pc[c] = "got" /\ answer[c].id = arg[c] => answer[c].version >= newest[arg[c]]

AdvanceInv == ReadsAdvance /\ NewestReached /\ AnswersReached /\ AnswersNewest

\* What the records speak of.
advanceVars == <<backend, artifactCache, newest, overtaken, setBack>>

LEMMA AdvanceEnd ==
  ASSUME TypeOK, AdvanceInv, NEW c \in Caller, End(c),
         UNCHANGED <<artifactCache, newest, setBack>>,
         \A a \in Artifact : backend'[a] \in Nat /\ backend[a] <= backend'[a]
  PROVE  AdvanceInv'
BY DEF TypeOK, AdvanceInv, ReadsAdvance, NewestReached, AnswersReached, AnswersNewest,
   Content, Cached, End, Leave, Goto

\* An answer of what the backend holds by now.
LEMMA AdvanceAnswer ==
  ASSUME TypeOK, AdvanceInv, NEW c \in Caller, NEW b \in Artifact,
         Answered(c, [id |-> b, version |-> backend'[b]]),
         UNCHANGED <<artifactCache, newest, setBack, overtaken>>,
         \A a \in Artifact : backend'[a] \in Nat /\ backend[a] <= backend'[a]
  PROVE  AdvanceInv'
<1> USE DEF TypeOK, AdvanceInv, ReadsAdvance, NewestReached, AnswersReached, AnswersNewest
<1>1. ReadsAdvance' /\ NewestReached'
  BY DEF Cached
<1>2. AnswersReached'
  BY DEF Answered, Goto, Content
<1>3. AnswersNewest'
  BY DEF Answered, Goto, Content
<1> QED
  BY <1>1, <1>2, <1>3

LEMMA AdvanceRecord ==
  ASSUME TypeOK, AdvanceInv, NEW c \in Caller, RecordArtifact(c)
  PROVE  AdvanceInv'
<1> DEFINE a == arg[c]
           best == IF answer[c].id = a /\ answer[c].version > newest[a]
                   THEN [newest EXCEPT ![a] = answer[c].version] ELSE newest
<1>1. /\ a \in Artifact /\ answer[c] \in Content /\ pc[c] = "got"
      /\ artifactCache' = [artifactCache EXCEPT ![a] = answer[c]]
      /\ UNCHANGED backend /\ Leave(c)
      /\ newest' = best
      /\ overtaken' = (overtaken \cup {d \in Caller : pc[d] = "got" /\ arg[d] = a}) \ {c}
      /\ setBack' = IF c \in overtaken THEN setBack \cup {a} ELSE setBack \ {a}
  BY DEF RecordArtifact, Recorded, Remember, TypeOK
<1>2. answer[c].version \in Nat /\ answer[c].id \in Artifact
  BY <1>1 DEF Content
<1>3. \A b \in Artifact \ {a} : newest'[b] = newest[b]
  BY <1>1 DEF TypeOK
<1>4. newest'[a] = IF answer[c].id = a /\ answer[c].version > newest[a]
                   THEN answer[c].version ELSE newest[a]
  BY <1>1 DEF TypeOK
<1> HIDE DEF a, best
<1>5. ReadsAdvance'
  <2>1. ASSUME NEW b \in Cached(artifactCache') \ setBack', artifactCache'[b].id = b
        PROVE  artifactCache'[b].version >= newest'[b]
    <3>1. CASE b = a
      <4>1. c \notin overtaken /\ artifactCache'[b] = answer[c] /\ answer[c].id = a
        BY <1>1, <2>1, <3>1 DEF TypeOK
      <4>2. answer[c].version >= newest[a] /\ newest[a] \in Nat
        BY <1>1, <4>1 DEF AdvanceInv, AnswersNewest, TypeOK, a
      <4> QED
        BY <1>2, <1>4, <3>1, <4>1, <4>2
    <3>2. CASE b # a
      BY <1>1, <1>3, <2>1, <3>2 DEF AdvanceInv, ReadsAdvance, Cached, TypeOK
    <3> QED
      BY <3>1, <3>2
  <2> QED
    BY <2>1 DEF ReadsAdvance
<1>6. NewestReached'
  BY <1>1, <1>2, <1>3, <1>4 DEF AdvanceInv, NewestReached, AnswersReached, TypeOK
<1>7. AnswersReached'
  BY <1>1 DEF AdvanceInv, AnswersReached, Leave, Goto, TypeOK
<1>8. AnswersNewest'
  <2>1. ASSUME NEW d \in Caller \ overtaken', pc'[d] = "got", answer'[d].id = arg'[d]
        PROVE  answer'[d].version >= newest'[arg'[d]]
    <3>1. d # c /\ pc[d] = "got" /\ answer'[d] = answer[d] /\ arg'[d] = arg[d]
      BY <1>1, <2>1 DEF Leave, Goto, TypeOK
    <3>2. d \notin overtaken /\ arg[d] \in Artifact \ {a}
      BY <1>1, <2>1, <3>1 DEF TypeOK
    <3> QED
      BY <1>3, <2>1, <3>1, <3>2 DEF AdvanceInv, AnswersNewest
  <2> QED
    BY <2>1 DEF AnswersNewest
<1> QED
  BY <1>5, <1>6, <1>7, <1>8 DEF AdvanceInv
LEMMA AdvanceStep ==
  ASSUME TypeOK, TypeOK', AdvanceInv, [Next]_vars
  PROVE  AdvanceInv'
<1>1. ASSUME UNCHANGED <<advanceVars, pc, arg, answer>> PROVE AdvanceInv'
  BY <1>1 DEF advanceVars, AdvanceInv, ReadsAdvance, NewestReached, AnswersReached,
     AnswersNewest, Cached
<1>2. ASSUME NEW c \in Caller, NEW place \in Control \ {"got"}, Goto(c, place),
             UNCHANGED <<advanceVars, answer>>,
             \A d \in Caller \ {c} : arg'[d] = arg[d]
      PROVE  AdvanceInv'
  BY <1>2 DEF TypeOK, Goto, advanceVars, AdvanceInv, ReadsAdvance, NewestReached,
     AnswersReached, AnswersNewest, Cached
<1>3. \A a \in Artifact : backend'[a] \in Nat /\ backend[a] \in Nat
  BY ConstantsAssumption DEF TypeOK
<1>4. ASSUME NEW c \in Caller, NEW a \in Artifact, Get(c, a) \/ Promote(c, a) PROVE AdvanceInv'
  <2>1. CASE UNCHANGED <<pc, arg>>
    BY <1>1, <1>4, <2>1 DEF Get, Promote, advanceVars, caches, history, records
  <2>2. CASE arg' = [arg EXCEPT ![c] = a] /\ (Goto(c, "get") \/ Goto(c, "promote"))
    <3>1. \A d \in Caller \ {c} : arg'[d] = arg[d]
      BY <2>2 DEF TypeOK
    <3> QED
      BY <1>2, <1>4, <2>2, <3>1 DEF Get, Promote, Control, advanceVars, caches, history, records
  <2> QED
    BY <1>4, <2>1, <2>2 DEF Get, Promote
<1>5. ASSUME NEW c \in Caller, NEW place \in {"refresh", "search", "status"}, Begin(c, place)
      PROVE  AdvanceInv'
  BY <1>2, <1>5 DEF Begin, Control, advanceVars, caches, history, records, locals
<1>6. ASSUME NEW c \in Caller, Continue(c) PROVE AdvanceInv'
  <2>1. CASE AnswerGet(c)
    <3>1. PICK b \in Obtainable(arg[c]) : Answered(c, Current(b))
      BY <2>1 DEF AnswerGet
    <3>2. UNCHANGED <<backend, artifactCache, newest, setBack, overtaken>>
      BY <2>1 DEF AnswerGet, caches, history, records
    <3>3. b \in Artifact /\ Answered(c, [id |-> b, version |-> backend'[b]])
      BY <3>1, <3>2 DEF Obtainable, Stored, Current
    <3> QED
      BY <1>3, <3>2, <3>3, AdvanceAnswer
  <2>2. CASE AnswerPromote(c)
    <3>1. arg[c] \in Artifact /\ UNCHANGED <<artifactCache, newest, setBack>>
          /\ backend' = [backend EXCEPT ![arg[c]] = @ + 1]
      BY <2>2 DEF AnswerPromote, caches, TypeOK
    <3>2. \A a \in Artifact : backend'[a] \in Nat /\ backend[a] <= backend'[a]
      BY <1>3, <3>1 DEF TypeOK
    <3>3. CASE Answered(c, [id |-> arg[c], version |-> backend[arg[c]] + 1])
               /\ UNCHANGED <<late, overtaken>>
      <4>1. backend'[arg[c]] = backend[arg[c]] + 1
        BY <3>1 DEF TypeOK
      <4> QED
        BY <3>1, <3>2, <3>3, <4>1, AdvanceAnswer
    <3>4. CASE End(c)
      BY <3>1, <3>2, <3>4, AdvanceEnd
    <3> QED
      BY <2>2, <3>3, <3>4 DEF AnswerPromote
  <2>3. CASE RecordArtifact(c)
    BY <2>3, AdvanceRecord
  <2>4. CASE EvictCaches(c)
    <3>1. /\ Cached(artifactCache') = {}
          /\ UNCHANGED <<backend, newest, overtaken, setBack, arg, answer>>
      BY <2>4 DEF EvictCaches, Cached, records, locals
    <3>2. \A d \in Caller : pc'[d] = "got" => pc[d] = "got"
      BY <2>4 DEF EvictCaches, Goto, TypeOK
    <3> QED
      BY <3>1, <3>2 DEF AdvanceInv, ReadsAdvance, NewestReached, AnswersReached, AnswersNewest
  <2>5. CASE AnswerRefresh(c) \/ ResolveDiagnostics(c)
    BY <1>2, <2>5 DEF AnswerRefresh, ResolveDiagnostics, Control, advanceVars, caches, locals,
       history, records
  <2>6. CASE AnswerSearch(c) \/ AnswerExpand(c) \/ Compose(c) \/ ReadStatus(c)
    BY <1>2, <2>6 DEF AnswerSearch, AnswerExpand, Compose, ReadStatus, Control, advanceVars,
       caches, history, records
  <2>7. CASE ReturnStatus(c) \/ Fail(c)
    <3>1. End(c) /\ UNCHANGED <<backend, artifactCache, newest, setBack>>
      BY <2>7 DEF ReturnStatus, Fail, caches
    <3>2. \A a \in Artifact : backend'[a] \in Nat /\ backend[a] <= backend'[a]
      BY <1>3, <3>1
    <3> QED
      BY <3>1, <3>2, AdvanceEnd
  <2> QED
    BY <1>6, <2>1, <2>2, <2>3, <2>4, <2>5, <2>6, <2>7 DEF Continue
<1>7. ASSUME NEW a \in Artifact, Ingest(a) PROVE AdvanceInv'
  <2>1. UNCHANGED <<artifactCache, newest, overtaken, setBack, pc, arg, answer>>
    BY <1>7 DEF Ingest, caches, history, records, locals
  <2>2. \A b \in Artifact : backend[b] <= backend'[b]
    BY <1>3, <1>7 DEF Ingest, TypeOK
  <2>3. \A c \in Caller : pc[c] = "got" => answer[c].id \in Artifact /\ answer[c].version \in Nat
    BY DEF TypeOK, Content
  <2>4. \A b \in Artifact : newest[b] \in Nat
    BY ConstantsAssumption DEF TypeOK
  <2> QED
    BY <1>3, <2>1, <2>2, <2>3, <2>4 DEF AdvanceInv, ReadsAdvance, NewestReached, AnswersReached,
       AnswersNewest, Cached
<1>8. ASSUME NEW a \in Artifact, OtherManagerWrites(a) PROVE AdvanceInv'
  BY <1>1, <1>8 DEF OtherManagerWrites, advanceVars, caches, records, locals
<1>9. CASE UNCHANGED vars
  BY <1>1, <1>9 DEF vars, advanceVars, caches, locals, history, records
<1> QED
  BY <1>4, <1>5, <1>6, <1>7, <1>8, <1>9 DEF Next, Sync, Search, Probe

\* What is cached under an id, and so what readFile answers, is not older than
\* what was read or promoted under it before, unless two calls for it crossed.
THEOREM ReadsMonotonic == Spec => []ReadsAdvance
<1>1. Init => AdvanceInv
  BY DEF Init, AdvanceInv, ReadsAdvance, NewestReached, AnswersReached, AnswersNewest, Cached
<1>2. TypeOK /\ TypeOK' /\ AdvanceInv /\ [Next]_vars => AdvanceInv'
  BY AdvanceStep
<1>3. AdvanceInv => ReadsAdvance
  BY DEF AdvanceInv
<1> QED
  BY <1>1, <1>2, <1>3, TypeCorrect, PTL DEF Spec
=============================================================================
