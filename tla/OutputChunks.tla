---------------------------- MODULE OutputChunks ----------------------------
(***************************************************************************)
(* How a worker cuts the output of a command into messages                 *)
(* (src/src/worker/app/command_wrapper.py) and how the runner puts it      *)
(* together again (src/src/runner/app/task_queue_client.py).               *)
(*                                                                         *)
(* A text is a sequence of characters: a plain one, a wide one (longer in  *)
(* JSON than in Python: not ASCII, a quote, a control character), or the   *)
(* line separator.                                                         *)
(***************************************************************************)
EXTENDS Naturals, Sequences, FiniteSets, SequencesExt

CONSTANTS
  ChunkSize,    \* CHUNK_SIZE
  Overhead,     \* JSON_OVERHEAD
  MaxPayload,   \* the largest message NATS takes
  WideBytes     \* bytes of a wide character in JSON

ASSUME SizesAssumption ==
  /\ Overhead \in Nat /\ ChunkSize \in Nat /\ ChunkSize > 1 /\ ChunkSize >= 2 * Overhead
  /\ WideBytes \in Nat \ {0} /\ MaxPayload \in Nat /\ WideBytes + Overhead <= MaxPayload

Plain == "a"
Wide == "w"
Newline == "nl"

Effective == ChunkSize - Overhead

\* "\n".join
Join(lines) ==
  FlattenSeq([i \in 1..Len(lines) |-> IF i = 1 THEN lines[1] ELSE <<Newline>> \o lines[i]])

\* A sequence without the elements equal to x.
Without(s, x) ==
  LET kept[n \in 0..Len(s)] ==
        IF n = 0 THEN <<>>
        ELSE IF s[n] = x THEN kept[n - 1] ELSE Append(kept[n - 1], s[n])
  IN  kept[Len(s)]

\* run_command keeps the lines that are not empty.
Collect(printed) == Without(printed, <<>>)

\* The bytes of a text in JSON, and of the message it makes.
MessageSize(text) ==
  Overhead + Len(text)
    + (WideBytes - 1) * Cardinality({i \in 1..Len(text) : text[i] = Wide})

TooBig(text) == MessageSize(text) > MaxPayload

\* Mutation: what does not fill a piece is dropped.
PiecesWhole(text, size) ==
  [i \in 1..(Len(text) \div size) |-> SubSeq(text, (i - 1) * size + 1, i * size)]

Pieces(text, size) ==
  [i \in 1..((Len(text) + size - 1) \div size) |->
     SubSeq(text, (i - 1) * size + 1, IF i * size < Len(text) THEN i * size ELSE Len(text))]

\* The chunk under construction becomes a chunk, if there is one.
CloseChunk(b) ==
  IF b.open = <<>> THEN b
  ELSE [chunks |-> Append(b.chunks, Join(b.open)), open |-> <<>>, size |-> 0]

\* One line: a line too long for a chunk is cut, a line that does not fit opens
\* the next chunk.
AddLine(b, line) ==
  LET size   == Len(line) + (IF b.size > 0 THEN 1 ELSE 0)
      closed == CloseChunk(b)
  IN  IF size > Effective
        THEN [closed EXCEPT !.chunks = @ \o Pieces(line, Effective)]
      ELSE IF b.size + size > Effective /\ b.open # <<>>
        THEN [closed EXCEPT !.open = <<line>>, !.size = Len(line)]
      ELSE [chunks |-> b.chunks, open |-> Append(b.open, line), size |-> b.size + size]

NothingBuilt == [chunks |-> <<>>, open |-> <<>>, size |-> 0]

ByLines(lines) ==
  LET built[n \in 0..Len(lines)] ==
        IF n = 0 THEN NothingBuilt ELSE AddLine(built[n - 1], lines[n])
  IN  CloseChunk(built[Len(lines)]).chunks

\* The pass that cuts chunks above the safe size in pieces of half that size.
CutOversized(chunks) ==
  FlattenSeq([i \in 1..Len(chunks) |->
     IF Len(chunks[i]) + Overhead > ChunkSize
       THEN Pieces(chunks[i], ChunkSize \div 2) ELSE <<chunks[i]>>])

Chunks(lines) == CutOversized(ByLines(lines))

\* A chunk that makes too big a message is replaced by its halves.
Halve(chunks, i) ==
  LET half == Len(chunks[i]) \div 2
  IN  SubSeq(chunks, 1, i - 1)
        \o <<SubSeq(chunks[i], 1, half), SubSeq(chunks[i], half + 1, Len(chunks[i]))>>
        \o SubSeq(chunks, i + 1, Len(chunks))

\* The runner's side: the chunks it has, in order; missing ones are skipped.
Assemble(got, total) ==
  FlattenSeq([i \in 1..total |-> IF i \in DOMAIN got THEN got[i] ELSE <<>>])

\* A text without its line separators.
Letters(text) == Without(text, Newline)

=============================================================================
