------------------------------ MODULE Chunking ------------------------------
(***************************************************************************)
(* How the sync daemon cuts the content of a source file into chunks,      *)
(* names them and classifies them.                                         *)
(*                                                                         *)
(* A line has the fields len and marks (the classifications its words      *)
(* announce); a line of length 0 stands for white space.  A source has the *)
(* fields id, mode (the words it contains) and kind; a path the fields     *)
(* name and signals.                                                       *)
(***************************************************************************)
EXTENDS Subsequences

CONSTANTS MaxChunkLines, MaxChunkChars  \* 40 and 1500 in the code

ASSUME ChunkAssumption == MaxChunkLines \in Nat \ {0} /\ MaxChunkChars \in Nat

Blank(line) == line.len = 0

\* The length of the first n lines, each with its line feed.
Lengths(lines) == Sums([n \in DOMAIN lines |-> lines[n].len + 1])

LengthOf(lines) == Lengths(lines)[Len(lines)]

\* Mutant: one line too many.
StartsLate(lines) ==
  LET length == Lengths(lines)
      start[n \in 0 .. Len(lines)] ==
        IF n = 0 THEN 1
        ELSE LET first == start[n - 1]
             IN IF \/ n - first > MaxChunkLines
                   \/ length[n] - length[first - 1] > MaxChunkChars
                THEN n ELSE first
  IN start

\* For each line the first line of its chunk: it begins a chunk if there are
\* enough lines, or it would make the chunk too long.
Starts(lines) ==
  LET length == Lengths(lines)
      start[n \in 0 .. Len(lines)] ==
        IF n = 0 THEN 1
        ELSE LET first == start[n - 1]
             IN IF \/ n - first >= MaxChunkLines
                   \/ length[n] - length[first - 1] > MaxChunkChars
                THEN n ELSE first
  IN start

\* The lines of the chunk with this first line that are not blank.
TextAt(lines, starts, first) ==
  {i \in DOMAIN lines : ~Blank(lines[i]) /\ starts[i] = first}

\* trim(): without the blank lines at both ends.
ChunkAt(lines, starts, first) ==
  LET text == TextAt(lines, starts, first) IN SubSeq(lines, Min(text), Max(text))

\* Blank chunks are left out.
ChunkStarts(lines, starts) == {first \in DOMAIN lines : TextAt(lines, starts, first) # {}}

SplitContentIntoChunks(lines) ==
  LET starts == Starts(lines)
      begins == ChunkStarts(lines, starts)
  IN [n \in 1 .. Cardinality(begins) |-> ChunkAt(lines, starts, Nth(begins, n))]

-----------------------------------------------------------------------------
\* The first of the names that the set holds, or none.
FirstOf(names, set) ==
  LET i == SelectInSeq(names, LAMBDA n : n \in set) IN IF i = 0 THEN "none" ELSE names[i]

ClassifyFromMode(mode) ==
  [milestone |-> "milestone", session |-> "conversation", repo |-> "artifact",
   code |-> "artifact", notes |-> "artifact", documents |-> "artifact", none |-> "none"]
  [FirstOf(<<"milestone", "session", "repo", "code", "notes", "documents">>, mode)]

ClassifyFromContent(chunk) ==
  FirstOf(<<"decision", "problem", "milestone">>, UNION {chunk[i].marks : i \in DOMAIN chunk})

ClassifyFromPath(signals) ==
  [sessions |-> "conversation", document |-> "artifact", none |-> "none"]
  [FirstOf(<<"sessions", "document">>, signals)]

\* source.mode, then what the content says, then the path, then the kind.
ClassifyChunk(chunk, path, source) ==
  LET said == SelectSeq(<<ClassifyFromMode(source.mode), ClassifyFromContent(chunk),
                          ClassifyFromPath(path.signals)>>, LAMBDA c : c # "none")
  IN IF said # <<>> THEN said[1]
     ELSE IF source.kind = "spool" THEN "conversation" ELSE "artifact"

MapMemoryType ==
  [decision |-> "facts", milestone |-> "events", problem |-> "advice",
   conversation |-> "events", artifact |-> "discoveries"]

\* Mutant: an artifact is named after its text alone.
ArtifactIdOfText(chunk, path, source) == <<source.id, chunk>>

\* Hashes stand for what they are made of.
ArtifactId(chunk, path, source) == <<source.id, path.name, chunk>>

PrepareSourceChunks(lines, path, source) ==
  LET chunks == SplitContentIntoChunks(lines)
  IN [i \in DOMAIN chunks |->
        LET class == ClassifyChunk(chunks[i], path, source)
        IN [artifact |-> ArtifactId(chunks[i], path, source),
            fingerprint |-> <<source.id, chunks[i]>>,
            classification |-> class, memoryType |-> MapMemoryType[class],
            content |-> chunks[i], source |-> source.id,
            sourcePath |-> <<path.name, i>>]]
=============================================================================
