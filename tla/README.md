# mempalace-openclaw: models and proofs

TLA+ modules for the parts of this repository that keep state or compute what is
recalled, the TLC runs that check them, and TLAPS proofs about them. Paths below
are relative to `src/packages/` unless they begin with `docs/`, `infra/`,
`fixtures/` or `examples/`.

## 1. The system

OpenClaw (the host) gets a durable memory from MemPalace (a backend process
reached over MCP stdio). Six packages sit between them.

| Part | State it keeps | Operations | Talks to |
|---|---|---|---|
| **Ingest hooks** (`mempalace-ingest-hooks`) | JSON files in the spool (`pending/`, `processed/`, `failed/`), a processor lock directory | `writePendingSpoolRecord` for each host event; an optional processor `processPendingSpool` with an MCP client of its own | the file system; the backend only from the processor |
| **Sync daemon: spool** (`sync-daemon/src/jobs`, `spool/`) | the same spool directories; tables `files`, `jobs`, `errors`, `runtime_refresh` of `sync.db` | legacy copy at construction, `processSpool` | hooks (files), backend (promote, refresh), `sync.db` |
| **Sync daemon: sources** (`jobs/`, `sources/`, `db/`) | tables `sources`, `files`, `jobs`, `errors`, `runtime_refresh` | `runOnce`, `reindex`, `runScheduled`, add, list, remove | source files, backend, `sync.db` |
| **Schedules** (`sync-daemon/src/scheduler`, `infra/`) | none; a launcher (crontab, systemd timer) | `isScheduleDue` for each start of `run-scheduled` | sync daemon |
| **Chunking** (`sync-daemon/src/sources/pipeline.ts`) | none | split, name and classify the chunks of a file | sync daemon |
| **Sync plugin and CLI** (`skill-mempalace-sync`, `sync-daemon/src/cli`) | none | one call of a daemon per command | sync daemon |
| **MCP stdio clients** (three copies of one class) | child process, table of pending requests, start promise | `ensureStarted`, `request`, `close` | child process over pipes: stdout, exit and timer callbacks |
| **Memory runtime** (`memory-mempalace/src/runtime`) | artifact and metadata caches, known ids, cache state, cached status, public mirror | `search`, `readFile`, `sync`, `probe…`, `promote` | backend client, host, mirror files |
| **Plugin runtime registry** (`runtime/plugin-runtime.ts`) | map from agent and purpose to manager | `getMemorySearchManager`, `closeAllMemorySearchManagers` | the host's concurrent calls, managers and their processes |
| **Retrieval** (`memory-mempalace/src/retrieval`) | none | ranking, collapse of duplicates, cut to limit and budget | memory runtime |
| **Context engine** (`context-engine-mempalace`) | none in memory; the diary in the backend | `assemble`, `afterTurn` | registry and managers, a diary client per use |
| **MemPalace backend** (upstream; a server for tests in `fixtures/host-real`) | drawers and diaries, in the fixture one state file | the MCP tools | every client has a process of its own |

How they interact: hooks write files; every cron or timer tick, CLI call or plugin
command builds its own `SyncDaemon`, so several runs may be alive at once over one
spool, one `sync.db` and one backend; a daemon takes no lock. The host asks the
registry for managers, each a memory runtime over one MCP connection; the context
engine asks the same registry, and starts a diary client of its own for each use.
The daemon and the runtime share the backend only through its storage.

What is hard in it: two runs with the same snapshot of `pending/`; a crash between
two of the steps "promote, record, mark, remove"; a call that the backend applied
and the client saw failing; redelivered host events; a batch of which a part
fails; files edited, and sources removed, under a run; a refresh that fails after
everything it covers has been recorded; requests, timeouts, late answers and the
exit of a child racing in one table; a cache filled by a call that was answered
before the refresh that emptied it; a map of managers that is changed across an
await; a lock directory whose holder dies; state files that several processes
rewrite. `PROJECT.json` lists each hazard at its line with the properties for it.

What makes each part correct:

* spool: no captured record is ever lost; `files` and `processed/` claim only what
  the backend holds; a completed run was refreshed; everything leaves `pending/`;
* sources: `files` claims only content whose chunks are stored; within a job a
  chunk is promoted once; files that stand still are caught up; a failure leaves
  its trace; what was promoted gets refreshed;
* schedules: a source that has one is due time and again;
* chunking: the chunks are the text, and keep their names when the file grows;
* MCP client: every call returns, with its own answer or an error;
* memory runtime: nothing from before a refresh survives it; no read is followed by
  an older one; counters and status tell what the caches hold, and the mirror that the
  managers share is not behind them;
* registry and engine: no process without an owner;
* retrieval and selection: within limit and budget, nothing twice, nothing worse
  before something better, knowledge before conversation;
* hook processor: one holder of the lock, which is given back; nothing lost.

## 2. Modules

| Module | Models | Composed with |
|---|---|---|
| `SpoolIngest` | hook capture, legacy copy, `processSpool`, terminal records, rows and refresh, for any number of runs | implements `SpoolContract` |
| `SpoolContract` | what the spool promises: `Deliver`, `Accept`, `Ingest`, `Reject` | |
| `SourceSync` | `runOnce` over sources, `reindex`, `runScheduled`, edits and source removal | its `ProcessSpool` stands for a whole run of `SpoolIngest`; which sources are due is any set here and a schedule in `Scheduler` |
| `McpConnection` | `StdioMcpConnection`: start loop, request table, timers, late answers, exits, close | under every backend call of the others, which see it as a call that succeeds, fails, or fails after it was applied |
| `MemoryRuntime` | `MemoryRuntimeService` of one manager under the calls of the search manager, with caches and status, and the mirror that the other managers write too | what a search answers is ranked in `Retrieval` |
| `HookProcessor` | `processPendingSpool`, its lock, its client, and daemon runs taking files from the same spool | implements `SpoolLock`; the daemon runs in full are in `SpoolIngest` |
| `SpoolLock` | a lock that a holder may leave taken for ever | |
| `ManagerRegistry` | the map of managers and its awaits | |
| `ContextAssembly` | `assemble` and `afterTurn` over the managers and the diary clients | extends `ManagerRegistry`; what the diary holds and lists is in `BackendShim` |
| `Retrieval` | ranking, composition and keyword fallback, as operators | |
| `ContextSelection` | from search results and diary entries to the injected block | extends `Retrieval` |
| `Chunking` | split, names, classification | |
| `Scheduler` | `isScheduleDue` and the launcher that starts `run-scheduled` | |
| `Commands` | the three fronts of the daemon | |
| `BackendShim` | the server processes of the host-real tests over one state file, both diary clients | |
| `Framing` | the frames that a server writes to stdout and the readers of the MCP clients | |
| `Subsequences` | places, picks and sums of sequences, the operators these are written with | |
| `Algorithms` | the inputs of the six modules above it, and what holds for every input | extends them |
| `…Proofs` | theorems about `SpoolIngest`, `SourceSync`, `McpConnection`, `MemoryRuntime`, `HookProcessor`, `ContextAssembly`, `BackendShim` and `Algorithms` | |
| `MC…` | constants, inputs and symmetry sets for TLC | |

### SpoolIngest

One action is one system call, SQL statement or backend call of one run; between
two of them any hook or other run may step. `pc[d]` is the place in `processSpool`:
`migrate`/`copying` (constructor), `read`, `lookup`, `dedupe` or `promote`,
`record`, `mark`, `unlink` for each file, `error`/`fail` for its catch,
`refresh`/`refreshing`, `finish`. `todo[d]` is the rest of the directory listing
taken at the start, `done[d]` the artifact ids the run collected. `torn` is the
set of files a `copyFileSync` has opened and not finished. A record stands for an
envelope and its file name, which is a function of its fingerprint; whether the
schema rejects it is the constant `Invalid`. The write of the terminal record and
the removal of the pending file are two actions because a crash or another run
fits between them. `stale[d]` is what `d` gave the backend since the last refresh;
`captured` is history.

### SourceSync

`disk[f]` is the content of a file, a set of chunks that also stands for its hash;
`recorded[f]` is the content whose hash the `files` row holds. `left`, `cands`,
`seen`, `body` and `read` are the locals of `runOnce`; they are emptied where they
go out of scope. `Edit` writes or deletes a file at any moment (at most `MaxEdits`
times). `Throw` is an exception inside the per-source `try`, `Abort` one that
leaves `runOnce` and `runScheduled`.

### McpConnection

The connection lives in one JavaScript event loop, so a step is one event (a call,
a frame, a timer, an exit, `close`) or one continuation of an `await`. Events wait
until all continuations have run (`Quiet`); continuations that are ready at the
same time run in any order, which stands for the different numbers of awaits
between them. `pc[c]` is the caller's place: `await` (the start promise of another
caller), `init` (its own start loop, awaiting `initialize`), `retry` (the loop has
closed the connection), `send`, `waiting`. `settled[c]` is the promise it awaits.
`child` is a process number rather than a handle, so that a frame or an exit of an
earlier process stays distinguishable; the code does not make the distinction.
`pending` is the request table, `sent` the requests that may still be answered,
by a process that has exited too; `dropped` is history, the entries a request of
the server has removed. Two constants tell the copies of this class apart: the one
in `context-engine-mempalace` has no exit handler (`ExitHandled`) and, where the
others drop the entry of a frame that is neither result nor error, resolves its
caller without a result (`FramesChecked`).

### MemoryRuntime

A request to the backend is two steps: the backend answers (`AnswerGet`,
`AnswerSearch`, …), which fixes the answer, and the continuation uses it
(`RecordArtifact`, `Compose`, …); `Fail` is any request that is rejected. `pc[c]`
names the await a call is in. `Ingest` is the daemon, or another manager, promoting
through a backend process of its own: nothing tells this runtime. The directory of
the mirror belongs to the adapter, and every manager of it writes there from caches
of its own: `OtherManagerWrites` puts any version there that the backend has answered
so far. `tools` is what the backend announces, fixed for a behaviour; without
`get_drawer` the client falls back to the first hit of a search, whichever artifact
that is (`Obtainable`).

The history variables say what the properties need. Of a refresh: `floor`, what the
backend held when it answered the last one; `late`, the calls answered before that;
`raced`, the artifacts such a call recorded last. Of the records of an artifact:
`newest`, the highest version recorded; `overtaken`, the answered calls whose artifact
another call has recorded meanwhile; `setBack`, the artifacts such a call recorded
last. Of the mirror: `unwritten`, the artifacts whose last write failed, and `lapsed`,
those whose file another manager has put back since.

### HookProcessor

One action is one file operation or one request. The directories are those of the
spool. Runs of the daemon work on the same files, in the steps of `SpoolIngest` as far
as a pass can meet them: `DaemonReads`, `DaemonPromotes` (with the row of `files`),
`DaemonWrites` and `DaemonRemoves`, and an end at any point (`DaemonEnds`), by a kill
or an exception, as on a file that is gone or invalid. Its files in `processed/` are
there before its refresh (`DaemonRefreshes`), which may never come. `refreshed` holds
those files of `processed/` that say `refreshed: true`, which only a pass writes.
`child[p]` is `none`, `up` or `dead`: the client sets its
child before `initialize` has succeeded, so `dead` is never replaced. `misread` are
the records whose promote was answered with an error result that the client took
for success, `orphaned` says that some holder went away with the lock. A `SpoolLock`
behaviour is obtained with `holders <- Inside` (the processes in a pass) and
`taken <- lock` (the directory).

### ManagerRegistry and ContextAssembly

`managers` is the map, `open` the managers whose process runs. `closed` and
`create` are the two awaits of `getMemorySearchManager`, behind which `Replace` and
`Created` change a map that may have changed since; `closing` and `visited` are the
iteration of `closeAllMemorySearchManagers`. `own[c]` is the manager a call holds:
`Use` respawns the process of one that was closed. `overlapped`, `failed`, `reopened`
and `dropped` are history. An assembly (`Returned` or `Search`, `ReadFile`,
`AskDiary`, `ListDiary`, `Assembled`) keeps its manager over all its awaits, and
`diaryOpen` are the calls whose diary client may have a process. What the diary holds,
and what is listed of it under the limits of lists and searches, is in `BackendShim`.

### Algorithms and the modules it extends

A hit, an entry, a line or a word is a record of the fields the code reads: scores
are whole hundredths, the text is a `payload` with a number of characters or
tokens, a line is a length with the marks of a classification. A catalogue is a
function from artifact ids to what the engine takes from it; of a result it takes the
id and the score. An input grows by
one element per step, so the invariants are evaluated on every input within the
bounds. `case` chooses one of six parts (`recall`, `chunks`, `commands`,
`schedule`, `backend`, `frames`); the parts share nothing, and each is explored from
initial states of its own. The last three are state machines: the launcher starting
every `Period` minutes, server processes that read the state file once and rewrite
it with every change, and server processes whose frames reach one reader.

In `Framing` a message is two lengths, that of its text in UTF-8, which the header
states, and that in UTF-16 code units, by which the reader cuts. A frame is a
sequence of tokens, the header with its length, the blank line and the code units;
`OnStdout` takes any number of tokens that have been written and not yet arrived,
so a chunk ends inside a text, between header and text, or behind several frames.
`buffer` is `readBuffer`, which outlives the process: tokens of several processes
may meet in it. `lenient` tells the copies apart that wait or throw when there is no
length; `mixed` and `got` are history.

## 3. Runs

| Run | Instance | Distinct states |
|---|---|---|
| `spool_faults` | 2 runs, 2 records with redeliveries, one of them legacy; crash, lost answer, failed refresh, SQL error | 1,555,947 |
| `spool_drain` | 2 runs, 2 records, refresh may fail, fair | 83,286 |
| `sources_faults` | 1 run at a time, 2 sources of one file, every command, every fault, 1 edit | 1,511,480 |
| `sources_catch_up` | 2 overlapping runs, 1 source of 2 files that share a chunk, 1 edit or deletion, fair, no fault | 234,906 |
| `mcp_calls` | 2 callers, 2 calls, 2 protocol versions; failing starts, exits, timeouts, late answers, server requests, closes; fair | 94,687 |
| `runtime` | 2 artifacts of 2 versions, 2 callers, 4 calls of any kind to this or another manager, any tools, failing requests and mirror writes | 8,466,649 |
| `hooks` | 2 records, 2 processors and a daemon run at a time; crashes, exits, failing calls, error results; fair | 1,588,896 |
| `recall` | 2 keys, 2 configurations, 3 callers, 3 managers | 2,185,993 |
| `algorithms` | up to 3 hits of 7 kinds under 128 queries, catalogues and configurations, files of up to 5 lines, commands of up to 4 words, 36 schedules, 2 server processes with 3 changes, 2 processes with 2 frames each in any chunks | 244,721 |
| `spool_invalid`, `sources_lost_refresh`, `schedule_timer` | the smallest that refutes: 1 run with 2 records or 1 file; the timer after a boot at any minute of an hour | |

The numbers for `runtime`, `recall` and `spool_faults` are up to symmetry of callers,
artifacts, keys, configurations or runs; none of these checks liveness, where
symmetry would not be sound.

**What each shows.**

* `spool_faults`: whatever fails, no record is lost, nothing is claimed before the
  backend holds it, a completed run was refreshed, and the spool implements its
  contract.
* `spool_drain`: without lost answers or crashes, a record is given to the backend
  twice only while two runs are both promoting it, nothing goes to `failed/`, and
  `pending/` drains although runs abort when another has taken a file.
* `sources_faults`, `sources_catch_up`: no row of `files` names content the backend
  lacks; a completed job was refreshed and a failed one left an error row; what
  stands still is caught up, and refreshed unless a file was deleted under a run.
* `mcp_calls`: a waiting call keeps its table entry, nobody awaits a start that is
  not under way, a caller never gets the answer to another, and every call returns.
  Two exceptions are part of the properties: a start that has failed may leave a
  process that nobody kills, and a request of the server itself (a `ping`) with an
  id that happens to be in the table removes that entry and leaves its caller
  waiting for ever.
* `runtime`: counters and status agree with the caches at every await. Content older
  than the last refresh is cached only by a call that was answered before it and
  recorded after it, and an older version than one read before only by a call that
  another one for the same artifact has overtaken. A file of the mirror is behind the
  cache only if its write failed or another manager put it back. What the first hit of
  a search is cached as, without `get_drawer`, is not judged.
* `hooks`: the lock directory is a lock, returned unless its holder went away; no
  record is lost; what is in `processed/` is in the backend, and what says
  `refreshed: true` there was refreshed, whatever a daemon run does between, unless
  the client took an error result for an answer.
* `recall`: a process without an owner needs a failed first status, a use after the
  close, or two overlapping changes of the map.
* `algorithms`: duplicates never hide a better hit, in whichever of all orders the
  backend answers; both selections keep their limits and repeat nothing; chunks are the
  text and keep their names; the fronts make the same calls; a change of the backend
  that was answered is undone only by a process that started before it; both diary
  clients read each other; however frames are cut into chunks, each message is read
  once it is there, once and in order, unless a character takes more than one byte or
  the frames of two processes meet in the buffer; a schedule that asks for minutes at
  which the launcher starts is due again and again.
* Three runs refute a sentence of the documents (`findings`): one invalid envelope
  stops the spool for ever (`spool_invalid`, `docs/HOOKS.md:121`); a refresh that
  failed once is never made up for (`sources_lost_refresh`, `docs/SPEC.md:500`); the
  systemd timer never meets the schedules of the examples (`schedule_timer`).

**Bounds.** Two runs are enough for every race of the daemon: each interference is
between one run that is about to act and one other that has acted. Two records give a
batch with a first and a rest. A source needs two files for the `seen` set to matter,
and two contents, one growing into the other, for an edit to change which chunks are
new. One edit is enough to fall into any gap of a run; what a second could do, the
proofs cover. On one connection two callers give every pairing of a start loop with a
waiter, a request or a second loop; two versions give a loop that fails and goes on;
the second call of each finds the table another call has left behind. The clients'
other copy (`ExitHandled`, `FramesChecked`) has no run of its own: the safety theorems
hold for both, and that its calls return is not checked. In the runtime two versions
tell what is stale; four calls let one that began before a sync end after it, with
another call behind both. Two hook records give a pass one to work on and one that it
has listed and not read; two processors and a daemon run are all who contend. No
record of that instance is invalid: a file that does not parse ends a pass as one that
is gone does, and the daemon can make that of any; the proofs are for any set of
invalid records. Three managers for two keys, asked for by three callers, let one be
replaced twice or two keys be closed while a third is made. Three hits of seven kinds
hold every pair of duplicates together with a hit between them; five lines reach the
third chunk at `MaxChunkLines` = 3; four words hold both flags of a command with a
name each; a day of starts every 15 minutes meets every schedule of the instance,
which has no day-of-month field; two processes and three changes let one write between
the read and the write of another. Two frames of one or two code units, in one or two
bytes each, are cut at every place, and two processes let one be cut off by the other.
Only `edits`, `calls`, `created`, `writes`, `backend` (versions) and `written`
(frames) are capped by a guard, by `MaxEdits`, `MaxCalls`, `MaxManagers`, `MaxWrites`,
`MaxVersion` and `MaxFrames`; the inputs of `Algorithms` by `MaxHits`, `MaxLines` and
`MaxWords`.

**Fairness.** `WF(Step(d))`: a process that is alive goes on. `WF(Construct(d))`
in the spool and `SF(RunScheduled(d, {s}))` in the sources: cron and the systemd
timer keep starting runs, and each source is due again and again when the process
is free (strong, because other commands may take the process in between; that it is
due is what `DueTimeAndAgain` says for the crontab, and what `schedule_timer` refutes
for the timer). In the connection `WF(Continue(c))` and `WF(Timeout(c))`: the event
loop runs its continuations and a timer that was set fires; no process has to answer
or exit. In the hook processor `WF(Continue(p))`: a pass only awaits requests, and
these time out. `WF(Launch)`: the launcher goes on. No hook, edit, command, answer or
fault is assumed to happen.

**Deadlock** is checked where an idle run or a connection can always go on: in the
runs of the spool, the sources, the connection and `schedule_timer`. In `runtime`,
`hooks`, `recall` and `algorithms` all may come to rest: the calls, records, managers
and inputs of an instance are used up, and a lock may be left for ever.

## 4. Proofs

Type invariants and inductive invariants are proved rather than run, and so is every
safety property that a passing run checks: the run shows it on the instance of
section 3, the theorem for every value of the constants.

`SpoolIngestProofs`, for any number of runs and records and any faults:

* `TypeCorrect`, and `RunInvCorrect`: `RunInv` is inductive on top of `TypeOK`.
  `NoRecordLost` and `IngestedIsStored` are not inductive: a run that is about to
  write a row or to unlink a file relies on something it read earlier. `RunInv` says
  what each control point relies on, and the lemma behind it that no step of another
  run takes it away, because `known`, `stored`, `processed` and `failed` only grow;
* `NothingLost`, `NothingClaimedEarly`: from `RunInv`;
* `RecordedNext`: what is stored and not known has a run at `record`; the lemma
  `RecordingStays` says that only that run's own step takes it from there;
* `RefreshedWhenCompleted`, `OnlyErrorsFail`: what the end of a run and the
  directory `failed/` mean;
* `SpoolRefinesContract`: every step is a step of `SpoolContract` or a stutter.

`SourceSyncProofs`, for any number of runs, sources, files and edits:

* `TypeCorrect`, and `JobsCorrect`: `JobInv`, the inductive invariant of a job.
  `RecordedIsStored` is not inductive: `RecordFile` trusts a set of chunks that were
  marked as seen long before, some of them left to the promote of another file, while
  the file was edited and other runs wrote its row. `JobInv` says that what is seen
  and not in `body` is stored under the source of every candidate left. A step of one
  run keeps the `JobInv` of the others because `stored` only grows (`OneMoves`);
* `RecordedCorrect`, `PromotesOnceCorrect`: from `JobInv`;
* `CompletedJobCorrect`, `FailedJobCorrect`, `JobsClosedCorrect`: inductive with one
  conjunct on the control state each.

`McpConnectionProofs`, for any number of callers, calls, processes and versions:

* `TypeCorrect`, from `TypeInv`: a start loop never runs out of the versions because
  a caller begins its call with none tried;
* `AnswersMatch`: from `IdsFresh`, which says that ids are never used twice, so a
  late answer of an earlier process finds no table entry or its own; for the copy that
  does not check frames it allows the caller whose entry a request of the server hit;
* `WaitingCorrect`: whoever clears the table rejects what is in it;
* `LoopCorrect` and `OneProcessCorrect`: what `this.starting` and `this.child` stand
  for until a start fails.

`MemoryRuntimeProofs`, for any artifacts, callers and bounds:

* `TypeCorrect`; `CountersRight`, `CachesNested`, `StatusAgrees` from `CounterInv`.
  A status is composed of a cache state taken before an await and a count taken after
  it, so it agrees only because no step makes less known (`KnownOnlyGrows`, which
  `SnapshotBounded` carries across the await);
* `CacheIsFresh` from `FreshInv`: what a call that is not `late` holds for recording
  is no older than the last refresh (`AnswersFresh`), and the backend never falls
  behind it (`FloorReached`);
* `MirrorNotBehind`: inductive by itself (`MirrorStep`), because what a record writes
  it has cached before, and what another manager writes is newer or lapses the file;
* `ReadsMonotonic` from `AdvanceInv`: what was recorded the backend had, so an answer
  is no older than what was recorded before it (`AnswersNewest`), and a call that is
  answered and sees another record is `overtaken`.

`ContextAssemblyProofs`, for any keys, configurations, callers and managers:

* `TypeCorrect`: a manager is in one place at most, under one key, with the one call
  that makes it, or lost, and only managers in the map are closed (`NumberInv`);
* `OwnersKnown` from `OwnerInv`: until two changes of the map overlap, one call at a
  time is between its read of the map and its write, and what it takes out of the map
  it has closed (`OneAtATime`);
* `DiaryClients`: no process of a diary client outlives the call it was made for.

`HookProcessorProofs`, for any records, processors and daemon runs:

* `TypeCorrect`; `RecordsNeverLost` and `ProcessedIsTrue` from `RecordInv`: a file is
  removed only when its terminal record is written (`Settled`), a pass writes
  `refreshed: true` only behind a refresh that came after the promote (`Told`), and a
  daemon run writes to `processed/` only what it has promoted or found in its table
  (`DaemonTold`);
* `DirectoryIsLock`: every step is one of `SpoolLock` or a stutter, because at most
  one processor is inside and then the directory exists.

`BackendShimProofs`, for any processes, entries, agents and bounds:

* `BackendTypeCorrect`;
* `AnsweredKept`: while processes run one at a time and none is killed in a write,
  what a running process holds is what the file holds, so its next write takes
  nothing away that was answered;
* `DiaryClientsAgree`: an entry has the author both clients ask for, unless a caller
  has named the id.

`AlgorithmsProofs`, for inputs of any length, any files, words, hits, options and
frames:

* two schemes come first. `Induction` is induction over the naturals of membership
  in a set, got from the well-foundedness of `<`, because the theorems of the library
  take an operator and cannot be used. `Recursion` and its variants say that a
  function defined by recursion has the values its definition gives it; the sums,
  chunk starts and rounds of a reader unfold with it. On these stand lemmas about the
  model's operators: `Nth`, `Pick` and `Sorted` by the ranks of a set of numbers
  (`NthOfRank`, `PickIs`, `SortedIs`: a sort by a linear order draws each place once),
  and sums over what is drawn (`DrawnTotal`);
* `FrontsCorrect`: in well-formed words no name is a flag, so an option is parsed at
  its only place and all positional words are the same (`OnlyPlace`, `FrontsMeet`);
* `NamesCorrect`: a name holds the path, the source and the place of a chunk;
* `ChunksCorrect`: the starts of chunks grow and end at the last line (`StartsGrow`,
  `StartsBound`), so every line that is not blank is in one; the starts of a file are
  those of its front up to the last chunk (`ChunksStay`);
* `RankingCorrect`: collapsing keeps the best of each kind (`KeptIs`), twice
  (`CollapsedTwice`), and what is cut off by the limit is behind what is kept;
* `OrderCorrect`: for every permutation of the answer; without equal scores the hits
  that survive are a set that the order does not change, the best of each kind
  (`CollapsedSet`), and two sequences of descending scores with one set of elements
  are equal (`DescendingEqual`);
* `SelectionCorrect`: cutting fills a budget and never passes it (`TakeFittingIs`,
  `BudgetedIs`), and nothing repeats among what was selected and what did not fit;
* `PriorityCorrect`: knowledge is in front of conversation when the budget is filled,
  so what is passed over did not fit beside the knowledge before it (`InHand`);
* `FramesCorrect` from `FramesInv`, which TLC found to hold before it was proved: the
  messages of a process have been read up to the last whole frame, and if every other
  process is between two frames, the buffer is what has arrived of the next one. One
  round takes a whole frame from the front (`RoundReads`) or waits (`RoundWaits`), and
  as many rounds follow as there are frames (`ReadFramesIs`).

The constants' assumptions are all that is assumed. In the spool: record numbers
are naturals (the order of file names), and only legacy files can be invalid (hooks
validate what they write). In the sources: ids are naturals (the order of
`listSources`, of the scan, of the chunks in a file), and each file has one owner. In
the test backend and the algorithms: no name is a flag of a command, a path is
determined by its name, lengths, tokens, limits and budgets are naturals (the limit of
a query is positive, as its schema asks), also those of the artifacts in a catalogue,
scores and ages integers, there is at least one choice of options, and a message has at least
one byte and one code unit. In the others: `None` and `Nobody` are no artifact, content,
key, configuration, caller or record, bounds are naturals, artifacts and hook records
finite sets.

Model-checked only: liveness (`PendingDrained`, `CaughtUp`, `PromotedRefreshed`,
`CallReturns`, `LockReturned`, `DueTimeAndAgain`), which no backend of the prover
reaches under fairness.

## 5. Not modelled, and observed in passing

* The upstream MemPalace server is external: a promote stores the artifact under its
  id (or, for a milestone, under a new one), a refresh covers all that is stored.
* The knowledge graph upsert: its errors are swallowed and nothing reads it back.
* The tool cache and the payloads of the MCP clients, and the stdin of the servers;
  diagnostics
  counters, slices of files and lexical terms of the runtime; `bootstrap`, `compact`
  and `ingest` of the engine, which keep no state; the text of blocks and notes.
* Schemas, configuration defaults, evidence logs, wording; documents, skills,
  scripts and host probes: no program state.

Behaviour met while modelling that no property judges:

* the daemon's refresh goes to a backend process of its own, so a runtime serves a
  cached artifact until the host syncs (`docs/SPEC.md:500` asks for a refresh of the
  runtime cache);
* a decision that exceeds the budget is passed over and a conversation behind it
  taken, so a block may be all conversation (`docs/CONTEXT_ENGINE.md:72`);
* without `mempalace_get_drawer`, the first hit of a search is returned under the id
  that was asked for (`docs/MEMORY_RUNTIME.md:52` asks for a failure);
* an exception outside the per-record `try` leaves the `jobs` row running without an
  `errors` row (`sync-daemon.ts:408`), and `run-scheduled` does not read the spool when
  no source is due (`sync-daemon.ts:435`);
* the child of an MCP client has no handler for `error` (`mcp-stdio-client.ts:282`);
* a header counts bytes and the clients cut by UTF-16 code units, so a text with a
  character of more than one byte is waited for until the next frame arrives and then
  cut in the wrong place (`mcp-stdio-client.ts:368`); `readBuffer` outlives the process
  whose half frame it may hold (`:340`). `FramesRead` excepts both;
* two start loops overwrite each other's child; a call suspended in `ensureStarted`
  during `close()` spawns a process after it; after an exit `started` stays true and
  requests go to a dead pipe until they time out;
* one `readFile` that is rejected rejects the whole assembly (`engine.ts:649`).

## 6. Plan

1. `SpoolIngest`, its contract and proofs; `SourceSync` and its proofs. (done)
2. `McpConnection` and its proofs. (done)
3. `MemoryRuntime`, `ManagerRegistry` and the engine over it, with proofs. (done)
4. `HookProcessor` as a lock, composed with the daemon on one spool. (done)
5. Pure algorithms, the fronts, the schedules, the test backend. (done)
6. Framing of the MCP clients. (done)
7. Proofs of every safety property of the runs. (done)
8. Open: one composition of `SpoolIngest` and `HookProcessor` at full detail, where
   each is a single action of the other now; the graph upsert, if something ever
   reads it.
