----------------------------- MODULE Algorithms -----------------------------
(***************************************************************************)
(* The inputs of the pure parts of the system, and what these must do with *)
(* every one of them.  An input grows by one element in a step: the hits   *)
(* of the backend, the lines of a file, the words of a command.  Beside    *)
(* them are three parts that no other module works with: the launcher of   *)
(* the daemon, the server of the host-real tests, and the reader of the    *)
(* frames that a server writes.                                            *)
(***************************************************************************)
EXTENDS ContextSelection, Chunking, Scheduler, Commands, BackendShim, Framing

CONSTANTS
  Hit, MaxHits,     \* hits the backend may return, and how many
  DiaryInput,       \* the diary entries there may be
  Options,          \* queries and configurations
  LineInput, MaxLines,  \* lines of a file, and how many
  PathInput, SourceInput,  \* paths and sources of files
  MaxWords  \* words of a command

ASSUME HitAssumption ==
  \A h \in Hit : /\ h.score \in Int /\ h.age \in Int /\ h.chars \in Nat
                /\ h.classification \in DOMAIN ClassificationPriority
                /\ h.pin \in {"none", "other", "own", "global"}

ASSUME DiaryAssumption ==
  \A d \in DiaryInput : /\ d \in Seq(ToSet(d))
                       /\ \A e \in ToSet(d) : e.age \in Int /\ e.tokens \in Nat

\* The artifacts of a catalogue, as far as selections do arithmetic with them.
Catalogue(artifacts) ==
  \A a \in DOMAIN artifacts :
    /\ artifacts[a].age \in Int /\ artifacts[a].tokens \in Nat
    /\ artifacts[a].classification \in DOMAIN ClassificationPriority

\* The schema of a query asks for a positive limit.
ASSUME OptionAssumption ==
  /\ Options # {}
  /\ \A o \in Options : /\ IsFiniteSet(o.query.words)
                       /\ o.query.limit \in Nat \ {0} /\ o.query.budget \in Nat
                       /\ Catalogue(o.listed) /\ Catalogue(o.mirrored)
                       /\ o.config.budget \in Nat /\ o.config.maxEntries \in Nat
                       /\ o.config.maxCompactedEntries \in Nat

ASSUME LineAssumption == \A l \in LineInput : l.len \in Nat

\* What a path says is determined by its name.
ASSUME PathAssumption == \A p, q \in PathInput : p.name = q.name => p = q

VARIABLES
  case,   \* which part
  hits, diary, options,  \* recall
  lines,  \* chunking
  args    \* commands

recallVars == <<hits, diary, options>>
vars == <<case, recallVars, lines, args, schedulerVars, backendVars, framingVars>>

Case == {"recall", "chunks", "commands", "schedule", "backend", "frames"}

AlgorithmsInit ==
  /\ case \in Case
  /\ hits = <<>> /\ lines = <<>> /\ args = <<>>
  /\ diary \in IF case = "recall" THEN DiaryInput ELSE {<<>>}
  /\ IF case = "recall" THEN options \in Options ELSE options = CHOOSE o \in Options : TRUE
  /\ IF case = "schedule" THEN SchedulerInit
     ELSE schedule = (CHOOSE s \in Schedule : TRUE) /\ now = 0
  /\ BackendInit /\ (case # "backend" => tools = {})
  /\ FramingInit /\ (case # "frames" => ~lenient)

\* The backend returns one more hit.
ReturnHit ==
  /\ case = "recall" /\ Len(hits) < MaxHits
  /\ \E h \in Hit : hits' = Append(hits, h)
  /\ UNCHANGED <<case, diary, options, lines, args, schedulerVars, backendVars,
                 framingVars>>

\* A file has one more line.
AppendLine ==
  /\ case = "chunks" /\ Len(lines) < MaxLines
  /\ \E l \in LineInput : lines' = Append(lines, l)
  /\ UNCHANGED <<case, recallVars, args, schedulerVars, backendVars,
                 framingVars>>

\* A command has one more word.
AppendWord ==
  /\ case = "commands" /\ Len(args) < MaxWords
  /\ \E w \in Flag \cup Name : args' = Append(args, w)
  /\ UNCHANGED <<case, recallVars, lines, schedulerVars, backendVars,
                 framingVars>>

LaunchNext ==
  /\ case = "schedule"
  /\ Launch
  /\ UNCHANGED <<case, recallVars, lines, args, backendVars,
                 framingVars>>

ServerNext ==
  /\ case = "backend"
  /\ BackendNext
  /\ UNCHANGED <<case, recallVars, lines, args, schedulerVars, framingVars>>

ReaderNext ==
  /\ case = "frames"
  /\ FramingNext
  /\ UNCHANGED <<case, recallVars, lines, args, schedulerVars, backendVars>>

AlgorithmsNext ==
  ReturnHit \/ AppendLine \/ AppendWord \/ LaunchNext \/ ServerNext \/ ReaderNext

AlgorithmsSpec == AlgorithmsInit /\ [][AlgorithmsNext]_vars /\ WF_vars(LaunchNext)

-----------------------------------------------------------------------------
(***************************************************************************)
(* Retrieval.                                                              *)
(***************************************************************************)

Pool == Ranked(options.query, hits, options.pinned)
Composed == BeforeFallback(options.query, hits, options.pinned)
Results == Search(options.query, hits, options.pinned, options.minScore)

\* A hit with the same artifact, or the same text as one with the same artifact,
\* and at least the same score is among the hits.
Represented(hit, chosen) ==
  \E g \in ToSet(Pool), r \in ToSet(chosen) :
    g.artifact = hit.artifact /\ g.payload = r.payload /\ r.score >= hit.score

\* Collapsing duplicates, sorting and cutting never prefer a worse hit: when a
\* result is worse than a hit of the backend, that hit is represented too.
NothingBetterLeftOut ==
  \A r \in ToSet(Composed), h \in ToSet(Pool) :
    r.score < h.score => Represented(h, Composed)

\* The results do not depend on the order in which the backend returns its hits,
\* whichever it is, unless two of them have the same score.
OrderIndependent ==
  IsInjective([i \in DOMAIN hits |-> Pool[i].score]) =>
    \A order \in Bijection(DOMAIN hits, DOMAIN hits) :
      Search(options.query, [i \in DOMAIN hits |-> hits[order[i]]],
             options.pinned, options.minScore) = Results

-----------------------------------------------------------------------------
(***************************************************************************)
(* Selection.                                                              *)
(***************************************************************************)

Entries ==
  Enriched(Results, PublicArtifactCatalog(options.listed, options.mirrored))
  \o IF ShouldQueryDiary(Results, options.minScore, options.diaryPrompt)
     THEN [i \in DOMAIN diary |-> DiaryEntry(diary[i])] ELSE <<>>

Block == Injected(Entries, options.config)
Notes == Compacted(Entries, options.config)

\* No two of the selected have the same artifact or the same text.
Distinct(selected) ==
  \A i, j \in DOMAIN selected :
    selected[i].artifact = selected[j].artifact \/ selected[i].payload = selected[j].payload
      => i = j

\* Both selections, each with its own way of cutting, keep to their limits: the
\* results of the runtime to the limit and the budget of the query, the block of
\* the engine to its budget.  Neither repeats an artifact or a text, and the notes
\* made of what did not fit repeat nothing that did.
SelectionFits ==
  /\ Len(Results) <= options.query.limit /\ TokenCount(Results) <= options.query.budget
  /\ Tokens(Block) <= options.config.budget
  /\ Distinct(Results) /\ Distinct(Block \o Notes)

\* When the block has a conversation in it, no knowledge was left out for it: a
\* decision, problem, milestone or artifact is missing only if it does not fit
\* beside the other knowledge, or its source has two entries in hand, or it is
\* redundant.
KnowledgeFirst ==
  LET knowledge == Pick(Block, {i \in DOMAIN Block : ~Conversation(Block[i])})
      ordered == Ordered(Entries, options.config)
  IN (\E e \in ToSet(Block) : Conversation(e)) =>
       \A e \in ToSet(Entries) :
         \/ Conversation(e) \/ e \in ToSet(Block)
         \/ Tokens(knowledge) + e.tokens > options.config.budget
         \/ Cardinality({i \in DOMAIN ordered : ordered[i].source = e.source}) >= 2
         \/ e \notin ToSet(RemoveRedundantEntries(Entries))

-----------------------------------------------------------------------------
(***************************************************************************)
(* Chunking.                                                               *)
(***************************************************************************)

\* The chunks are stretches of the file, each behind the one before, and all that
\* is outside of them is blank: first has the line at which each begins.
HoldText(chunks, content, first) ==
  LET stretch(k) == first[k] .. first[k] + Len(chunks[k]) - 1
  IN /\ \A k \in DOMAIN chunks :
          /\ stretch(k) \subseteq DOMAIN content
          /\ chunks[k] = SubSeq(content, first[k], first[k] + Len(chunks[k]) - 1)
          /\ \A m \in 1 .. k - 1 : first[m] + Len(chunks[m]) <= first[k]
     /\ \A i \in DOMAIN content : Blank(content[i]) \/ \E k \in DOMAIN chunks : i \in stretch(k)

WithinBounds(chunk) ==
  /\ Len(chunk) \in 1 .. MaxChunkLines
  /\ Len(chunk) = 1 \/ LengthOf(chunk) <= MaxChunkChars

\* The chunks hold the text of the file, in order and without loss.  Each is within
\* the bounds unless a single line is not.  A file that grew at its end kept its
\* chunks but the last: they are not promoted again under new names.
ChunksSound ==
  LET chunks == SplitContentIntoChunks(lines)
  IN /\ \E first \in [DOMAIN chunks -> DOMAIN lines] : HoldText(chunks, lines, first)
     /\ \A k \in DOMAIN chunks : WithinBounds(chunks[k])
     /\ lines # <<>> =>
          LET before == SplitContentIntoChunks(Front(lines))
          IN \A k \in 1 .. Len(before) - 1 : k \in DOMAIN chunks /\ chunks[k] = before[k]

\* Two chunks of a source that are promoted under one name, of whichever files,
\* are of one file and have the same text and classification, so one may take
\* the place of the other.
NameDeterminesArtifact ==
  \A s \in SourceInput :
    LET prepared == UNION {ToSet(PrepareSourceChunks(lines, p, s)) : p \in PathInput}
    IN \A a, b \in prepared :
         a.artifact = b.artifact =>
           [a EXCEPT !.sourcePath = 0] = [b EXCEPT !.sourcePath = 0]
           /\ a.sourcePath[1] = b.sourcePath[1]

-----------------------------------------------------------------------------
(***************************************************************************)
(* Commands.                                                               *)
(***************************************************************************)

\* The three fronts make the same call of the daemon out of well-formed words, and
\* refuse the same ones.
FrontsAgree ==
  \A c \in Command :
    WellFormed(c, args) =>
      /\ Chat(c, args) = Cli(c, args)
      /\ Cli(c, args) = PluginCli(c, ParsedOptions(args))

-----------------------------------------------------------------------------
(***************************************************************************)
(* Scheduling, under the fairness that the launcher goes on.               *)
(***************************************************************************)

\* A source is due time and again if no field of its schedule asks for a minute
\* at which the launcher never starts.
DueTimeAndAgain ==
  []<>(case = "schedule" => IsScheduleDue(schedule, Clock(now)))
=============================================================================
