---------------------------- MODULE MCAlgorithms ----------------------------
(***************************************************************************)
(* Inputs for the pure parts of the system.                                *)
(***************************************************************************)
EXTENDS Algorithms

\* Hits: two versions of one decision, a copy of it under another name, a pinned
\* memory, two conversations of one source, an artifact of another source.
H(artifact, payload, class, score, age) ==
  [artifact |-> artifact, payload |-> payload, chars |-> 8, score |-> score, age |-> age,
   sourceType |-> "filesystem", classification |-> class,
   matched |-> {}, words |-> {}, reason |-> {}, pin |-> "none"]

Hits ==
  {H("a1", "p1", "decision", 10, 60),
   [H("a1", "p2", "decision", 30, 0) EXCEPT !.words = {"w"}],
   [H("a2", "p1", "problem", 21, 20) EXCEPT !.chars = 5, !.reason = {"w"}],
   [H("a3", "p3", "conversation", 40, 5)
      EXCEPT !.matched = {"wing", "classifications"}, !.sourceType = "sessions"],
   [H("a4", "p4", "conversation", 12, 400)
      EXCEPT !.pin = "other", !.words = {"w", "x"}, !.sourceType = "sessions"],
   [H("a5", "p5", "artifact", 11, 2)
      EXCEPT !.pin = "global", !.sourceType = "manual", !.chars = 17],
   [H("a6", "p6", "milestone", 0, 90)
      EXCEPT !.pin = "own", !.words = {"x"}, !.reason = {"x"}, !.sourceType = "web"]}

\* The catalogue knows the newer version of the decision, and a5 as a conversation
\* of another source, which it has become since the backend indexed it.
M(payload, class, source, age, tokens) ==
  [payload |-> payload, classification |-> class, source |-> source, age |-> age,
   tokens |-> tokens]

Artifacts ==
  [a1 |-> M("p2", "decision", "s1", 0, 9), a2 |-> M("p1", "problem", "s1", 20, 3),
   a3 |-> M("p3", "conversation", "s2", 5, 4), a4 |-> M("p4", "conversation", "s2", 400, 4),
   a5 |-> M("p5", "conversation", "s2", 2, 6), a6 |-> M("p2", "milestone", "s3", 90, 4)]

Diaries ==
  {<<>>,
   <<[artifact |-> "d1", payload |-> "p4", age |-> 1, tokens |-> 2],
     [artifact |-> "d2", payload |-> "q2", age |-> 0, tokens |-> 3]>>}

Queries == [words : {{"w", "x"}}, limit : {2, 3}, budget : {5, 100}]

Configs == [maxEntries : {1, 3}, budget : {7, 14}, compaction : {TRUE},
            maxCompactedEntries : {2}]

RecallOptions ==
  [query : Queries, pinned : BOOLEAN, minScore : {0, 25}, diaryPrompt : {TRUE},
   listed : {Restrict(Artifacts, {"a1", "a2", "a3", "a4", "a5"}), <<>>},
   mirrored : {Artifacts}, config : Configs]

Lines ==
  {[len |-> 0, marks |-> {}], [len |-> 2, marks |-> {}], [len |-> 2, marks |-> {"decision"}],
   [len |-> 5, marks |-> {"problem", "milestone"}], [len |-> 9, marks |-> {}]}

Paths == {[name |-> "n1", signals |-> {"sessions"}], [name |-> "n2", signals |-> {"document"}],
          [name |-> "n3", signals |-> {}]}

Sources == [id : {"s"}, mode : {{}, {"session"}, {"code"}}, kind : {"filesystem", "spool"}]

Star == [kind |-> "any", n |-> 0]
Every(n) == [kind |-> "every", n |-> n]
Exactly(n) == [kind |-> "exact", n |-> n]

Schedules ==
  [minute : {Star, Every(7), Every(20), Every(30), Exactly(0), Exactly(45)},
   hour : {Star, Every(5), Exactly(23)},
   dayOfMonth : {Star}, month : {Star}, dayOfWeek : {Star, Every(2)}]

Authors == [e1 |-> "ag1", e2 |-> "ag2"]

Messages == {[bytes |-> n, units |-> u] : n \in 1 .. 2, u \in 1 .. 2} \ {[bytes |-> 1, units |-> 2]}

ADay == [minute |-> 0, hour |-> 0, dayOfMonth |-> 1, month |-> 1, dayOfWeek |-> 4]
=============================================================================
