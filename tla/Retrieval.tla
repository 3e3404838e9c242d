----------------------------- MODULE Retrieval -----------------------------
(***************************************************************************)
(* What the memory runtime makes of the hits of the backend: the ranking,  *)
(* the collapse of duplicates, the cut to a limit and a token budget and   *)
(* the keyword fallback.  Scores are in hundredths.                        *)
(*                                                                         *)
(* A hit has the fields artifact, payload (snippet and path), chars,       *)
(* score, age (days), sourceType, classification, matched (the filters it  *)
(* meets), words (those in its snippet, source and path), reason (those in *)
(* the reason the backend gives for it) and pin.                           *)
(***************************************************************************)
EXTENDS Subsequences

ClassificationBoost ==
  [artifact |-> 2, conversation |-> 1, decision |-> 6, milestone |-> 4, problem |-> 5]

RecencyBoost(age) == IF age <= 1 THEN 12 ELSE IF age <= 7 THEN 8
                     ELSE IF age <= 30 THEN 4 ELSE 0

SourceConfidenceBoost(type) ==
  IF type \in {"filesystem", "git", "documents"} THEN 8
  ELSE IF type \in {"sessions", "spool", "manual"} THEN 4 ELSE 2

StructuralBoost(hit) ==
  5 * Cardinality(hit.matched \cap {"wing", "hall", "room", "sourceId"})
  + 3 * Cardinality(hit.matched \cap {"classifications", "memoryTypes"})

KeywordBoost(query, hit) ==
  IF query.words = {} THEN 0
  ELSE (20 * Cardinality((hit.words \cup hit.reason) \cap query.words)) \div Cardinality(query.words)

\* Only with the ranking profile v3, which pinnedMemory selects; the pin of
\* another agent does not count.
PinnedMemoryBoost(hit, pinned) ==
  IF ~pinned THEN 0
  ELSE [none |-> 0, other |-> 0, own |-> 14, global |-> 18][hit.pin]

RankedScore(query, hit, pinned) ==
  hit.score + RecencyBoost(hit.age) + SourceConfidenceBoost(hit.sourceType)
  + StructuralBoost(hit) + ClassificationBoost[hit.classification]
  + KeywordBoost(query, hit) + PinnedMemoryBoost(hit, pinned)

Ranked(query, hits, pinned) ==
  Listed([i \in DOMAIN hits |->
            [artifact |-> hits[i].artifact, payload |-> hits[i].payload,
             chars |-> hits[i].chars, words |-> hits[i].words,
             score |-> RankedScore(query, hits[i], pinned)]])

-----------------------------------------------------------------------------
\* Mutant: of several hits with one key the first stays.
KeptFirst(hits, at) == Min(at)

\* Of several hits with one key the best stays, and of equals the first.
Kept(hits, at) ==
  CHOOSE i \in at :
    \A j \in at : hits[j].score < hits[i].score \/ (hits[j].score = hits[i].score /\ i <= j)

\* One hit for each key, in the place of the first with it.
Collapsed(hits, key) ==
  LET with(k) == {i \in DOMAIN hits : key[i] = k}
      firsts == {i \in DOMAIN hits : i = Min(with(key[i]))}
  IN Listed([n \in 1 .. Cardinality(firsts) |-> hits[Kept(hits, with(key[Nth(firsts, n)]))]])

ByArtifactId(hits) == Collapsed(hits, [i \in DOMAIN hits |-> hits[i].artifact])

BySnippetFingerprint(hits) == Collapsed(hits, [i \in DOMAIN hits |-> hits[i].payload])

\* The stable sort by score.
ByScore(hits) ==
  Sorted(hits, {p \in (DOMAIN hits) \X (DOMAIN hits) :
                  \/ hits[p[1]].score > hits[p[2]].score
                  \/ hits[p[1]].score = hits[p[2]].score /\ p[1] < p[2]})

TokenCount(hits) == Total([i \in DOMAIN hits |-> (hits[i].chars + 3) \div 4])

\* The hits are taken in order up to the limit, which is positive, or to the
\* first that exceeds the budget.
TakeFitting(query, ordered) ==
  SubSeq(ordered, 1,
         Max({n \in 0 .. Len(ordered) :
                n <= query.limit /\ TokenCount(SubSeq(ordered, 1, n)) <= query.budget}))

\* The reason, which counted for the score, is not searched here.
Matching(query, hits) == Pick(hits, {i \in DOMAIN hits : hits[i].words \cap query.words # {}})

\* Weak results are cut to those with a word of the query, if there are any.
FallbackApplies(query, hits) ==
  /\ hits # <<>> /\ hits[1].score < 30
  /\ Matching(query, hits) # <<>>

KeywordFallback(query, hits) ==
  IF FallbackApplies(query, hits) THEN ByScore(Matching(query, hits)) ELSE hits

BeforeFallback(query, hits, pinned) ==
  TakeFitting(query, ByScore(BySnippetFingerprint(ByArtifactId(Ranked(query, hits, pinned)))))

ComposeMemorySearchResults(query, hits, pinned) ==
  KeywordFallback(query, BeforeFallback(query, hits, pinned))

\* search of the manager: the results below the minimal score are cut off.
Search(query, hits, pinned, minScore) ==
  LET composed == ComposeMemorySearchResults(query, hits, pinned)
  IN Pick(composed, {i \in DOMAIN composed : composed[i].score >= minScore})
=============================================================================
