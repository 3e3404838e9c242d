------------------------------- MODULE Framing -------------------------------
(***************************************************************************)
(* The frames in which a server process writes its messages to stdout, and *)
(* the reader of the MCP clients, who gets them in chunks cut anywhere.    *)
(* The buffer of a reader outlives a process that is killed or exits, and  *)
(* what that one has written may still arrive beside the frames of the     *)
(* next.                                                                   *)
(*                                                                         *)
(* A message has the fields bytes and units, the length of its text in     *)
(* UTF-8 and in UTF-16 code units.  A frame is a sequence of tokens: the   *)
(* header with the length, the blank line, and the code units of the text. *)
(***************************************************************************)
EXTENDS Subsequences

CONSTANTS
  Server,    \* the processes that write to one reader
  Message,   \* the lengths of messages
  MaxFrames  \* bound on the frames of a process

ASSUME FramingAssumption ==
  /\ Message \subseteq [bytes : Nat \ {0}, units : Nat \ {0}]
  /\ MaxFrames \in Nat

VARIABLES
  written,  \* the messages each process has written
  arrived,  \* how many of its tokens have arrived
  buffer,   \* this.readBuffer
  got,      \* history: the messages that were parsed, by process and number
  thrown,   \* an exception has left the handler of a chunk
  lenient,  \* the context engine's copy, which waits if there is no length
  mixed     \* history: a chunk arrived behind a part of another process' frame

framingVars == <<written, arrived, buffer, got, thrown, lenient, mixed>>

Body(p, n, m) == [i \in 1 .. m.units |-> <<"unit", p, n>>]

\* writeMessage: the length is that in bytes.
Frame(p, n, m) == <<<<"length", m.bytes>>, <<"blank">>>> \o Body(p, n, m)

Stream(p, messages) == FlattenSeq([n \in DOMAIN messages |-> Frame(p, n, messages[n])])

\* The place at which the n-th frame of p ends, and the places between frames.
EndOf(p, n) == Len(Stream(p, SubSeq(written[p], 1, n)))
Ends(p) == {EndOf(p, n) : n \in 0 .. Len(written[p])}

FramingInit ==
  /\ written = [p \in Server |-> <<>>] /\ arrived = [p \in Server |-> 0]
  /\ buffer = <<>> /\ got = <<>> /\ thrown = FALSE
  /\ lenient \in BOOLEAN /\ mixed = FALSE

-----------------------------------------------------------------------------
\* The number of the message with this text; nothing else is JSON.
Parsed(text) == {m \in Server \X (1 .. MaxFrames) :
                   m[2] \in DOMAIN written[m[1]] /\ text = Body(m[1], m[2], written[m[1]][m[2]])}

\* Mutant: the last code unit of a text is waited for in vain.
CompleteBehind(rest, end, length) == end + length < Len(rest)

\* Has the text whose header ends at this place arrived?
Complete(rest, end, length) == end + length <= Len(rest)

\* One round of the loop over the buffer, which ends by waiting or by throwing.
Round(reader) ==
  LET rest == reader.rest
      blanks == {i \in DOMAIN rest : rest[i][1] = "blank"}
      end == Min(blanks)
      lengths == {i \in 1 .. end : rest[i][1] = "length"}
      length == rest[Min(lengths)][2]
      text == SubSeq(rest, end + 1, end + length)
      behind == SubSeq(rest, end + length + 1, Len(rest))
  IN IF blanks = {} THEN [reader EXCEPT !.at = "waits"]
     ELSE IF lengths = {} THEN [reader EXCEPT !.at = IF lenient THEN "waits" ELSE "throws"]
     ELSE IF ~Complete(rest, end, length) THEN [reader EXCEPT !.at = "waits"]
     ELSE IF Parsed(text) = {} THEN [reader EXCEPT !.rest = behind, !.at = "throws"]
     ELSE [reader EXCEPT !.rest = behind, !.got = Append(@, CHOOSE m \in Parsed(text) : TRUE)]

\* The loop: a round takes a frame from the buffer or is the last.
ReadFrames(rest) ==
  LET after[n \in 0 .. Len(rest) + 1] ==
        IF n = 0 THEN [rest |-> rest, got |-> got, at |-> "reads"]
        ELSE LET before == after[n - 1]
             IN IF before.at = "reads" THEN Round(before) ELSE before
  IN after[Len(rest) + 1]

\* A process writes a frame.
WriteMessage(p, m) ==
  /\ Len(written[p]) < MaxFrames
  /\ written' = [written EXCEPT ![p] = Append(@, m)]
  /\ UNCHANGED <<arrived, buffer, got, thrown, lenient, mixed>>

\* The handler of a chunk: everything up to the n-th token that p has written.
OnStdout(p, n) ==
  LET chunk == SubSeq(Stream(p, written[p]), arrived[p] + 1, n)
      read == ReadFrames(buffer \o chunk)
  IN /\ ~thrown
     /\ arrived' = [arrived EXCEPT ![p] = n]
     /\ buffer' = read.rest
     /\ got' = read.got
     /\ thrown' = (read.at = "throws")
     /\ mixed' = (mixed \/ \E q \in Server \ {p} : arrived[q] \notin Ends(q))
     /\ UNCHANGED <<written, lenient>>

FramingNext ==
  \E p \in Server :
    \/ \E m \in Message : WriteMessage(p, m)
    \/ \E n \in arrived[p] + 1 .. Len(Stream(p, written[p])) : OnStdout(p, n)

-----------------------------------------------------------------------------
\* The frames of p whose last token has arrived.
Whole(p) == {n \in DOMAIN written[p] : EndOf(p, n) <= arrived[p]}

\* However the frames of a process are cut into chunks, each message is read once
\* it is there, once and in order, and the reader never throws: unless a text has
\* characters of more than one byte, which make its length in the header exceed
\* that in the buffer, or the frames of two processes meet in the buffer.
FramesRead ==
  \/ mixed
  \/ \E p \in Server : \E n \in DOMAIN written[p] : written[p][n].bytes # written[p][n].units
  \/ /\ ~thrown
     /\ \A p \in Server :
          Pick(got, {i \in DOMAIN got : got[i][1] = p})
            = [n \in 1 .. Cardinality(Whole(p)) |-> <<p, n>>]
=============================================================================
