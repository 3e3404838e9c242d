-------------------------- MODULE ContextSelection --------------------------
(***************************************************************************)
(* What assemble makes of the results of a search: one entry for each      *)
(* result with known metadata, the entries of the diary behind them, and   *)
(* of these the block that fits the token budget and the compacted notes.  *)
(*                                                                         *)
(* config has the fields maxEntries, budget (the smaller one of the host's *)
(* and the engine's), compaction and maxCompactedEntries.  A catalogue has *)
(* for each artifact its classification, source, age and payload (path and *)
(* content), and the tokens of the block that these make, as a diary entry *)
(* has its own.                                                            *)
(***************************************************************************)
EXTENDS Retrieval

ClassificationPriority ==
  [decision |-> 0, problem |-> 1, milestone |-> 2, artifact |-> 3, conversation |-> 4]

Conversation(entry) == entry.classification = "conversation"

\* loadPublicArtifactCatalog: the artifacts whose exported files can be read, or
\* else those of the mirror directory.
PublicArtifactCatalog(listed, mirrored) ==
  IF DOMAIN listed # {} THEN listed ELSE mirrored

\* Of the result itself only the score counts.
EnrichedEntry(result, artifact) ==
  [artifact |-> result.artifact, payload |-> artifact.payload,
   classification |-> artifact.classification, source |-> artifact.source,
   score |-> result.score, age |-> artifact.age, tokens |-> artifact.tokens]

\* Results that are not in the catalogue are skipped.
Enriched(results, catalogue) ==
  LET known == Pick(results, {i \in DOMAIN results : results[i].artifact \in DOMAIN catalogue})
  IN [i \in DOMAIN known |-> EnrichedEntry(known[i], catalogue[known[i].artifact])]

\* Diary entries are conversation of a fixed score.
DiaryEntry(e) ==
  [artifact |-> e.artifact, payload |-> e.payload, classification |-> "conversation",
   source |-> "agent-diary", score |-> 24, age |-> e.age, tokens |-> e.tokens]

\* The diary is asked when the recall is weak, or the prompt asks for it.
ShouldQueryDiary(results, minScore, diaryPrompt) ==
  \/ results = <<>> \/ results[1].score < Max({20, minScore})
  \/ diaryPrompt

\* Mutant: only repeated artifacts are redundant.
RepeatsId(e, f) == e.artifact = f.artifact

Repeats(e, f) == e.artifact = f.artifact \/ e.payload = f.payload

\* The first of several entries with one artifact or one payload stays.
RemoveRedundantEntries(entries) ==
  LET output[n \in 0 .. Len(entries)] ==
        IF n = 0 THEN {}
        ELSE IF \E i \in output[n - 1] : Repeats(entries[n], entries[i])
        THEN output[n - 1] ELSE output[n - 1] \cup {n}
  IN Pick(entries, output[Len(entries)])

\* compareEntries: score, classification, and the newer one first.
Precedes(e, f) ==
  \/ e.score > f.score
  \/ /\ e.score = f.score
     /\ \/ ClassificationPriority[e.classification] < ClassificationPriority[f.classification]
        \/ e.classification = f.classification /\ e.age < f.age

\* The stable sort.
InOrder(entries) ==
  Sorted(entries, {p \in (DOMAIN entries) \X (DOMAIN entries) :
                     \/ Precedes(entries[p[1]], entries[p[2]])
                     \/ ~Precedes(entries[p[2]], entries[p[1]]) /\ p[1] < p[2]})

\* Mutant: the order is that of the scores alone.
PrioritizeNone(entries) == entries

PrioritizeNonConversation(entries) ==
  LET conversations == {i \in DOMAIN entries : Conversation(entries[i])}
  IN Pick(entries, DOMAIN entries \ conversations) \o Pick(entries, conversations)

\* Of the entries of a source the first ones stay.
LimitPerSource(entries, max) ==
  Pick(entries, {i \in DOMAIN entries :
                   Cardinality({j \in 1 .. i - 1 : entries[j].source = entries[i].source}) < max})

Ordered(entries, config) ==
  LET kept == LimitPerSource(PrioritizeNonConversation(InOrder(RemoveRedundantEntries(entries))), 2)
  IN SubSeq(kept, 1, Min({Len(kept), config.maxEntries}))

Tokens(entries) == Total([i \in DOMAIN entries |-> entries[i].tokens])

\* An entry that does not fit any more is passed over, and smaller ones follow.
Budgeted(ordered, budget) ==
  LET budgeted[n \in 0 .. Len(ordered)] ==
        IF n = 0 THEN {}
        ELSE IF Tokens(Pick(ordered, budgeted[n - 1])) + ordered[n].tokens > budget
        THEN budgeted[n - 1] ELSE budgeted[n - 1] \cup {n}
  IN Pick(ordered, budgeted[Len(ordered)])

\* Mutant: the notes are made of all entries.
OverflowAll(ordered, budgeted) == ordered

Overflow(ordered, budgeted) ==
  Pick(ordered, {i \in DOMAIN ordered :
                   \A j \in DOMAIN budgeted : budgeted[j].artifact # ordered[i].artifact})

\* The entries of the compacted notes.
Compacted(entries, config) ==
  LET ordered == Ordered(entries, config)
      over == Overflow(ordered, Budgeted(ordered, config.budget))
  IN IF config.compaction THEN SubSeq(over, 1, Min({Len(over), config.maxCompactedEntries}))
     ELSE <<>>

\* The entries of the block.
Injected(entries, config) == Budgeted(Ordered(entries, config), config.budget)
=============================================================================
