---------------------------- MODULE MCTaskOutput ----------------------------
(***************************************************************************)
(* Instances of TaskOutput for TLC: what the command may print.            *)
(***************************************************************************)
EXTENDS TaskOutput

CONSTANTS LineLengths,   \* lengths of the plain lines
          WideLengths,   \* lengths of the lines of wide characters
          MaxLines       \* lines printed

PlainLine(n) == [i \in 1..n |-> Plain]
WideLine(n)  == [i \in 1..n |-> Wide]

MCLines == {PlainLine(n) : n \in LineLengths} \cup {WideLine(n) : n \in WideLengths}

Kinds(out) == Cardinality({out[i] : i \in DOMAIN out})

\* Up to two lines of any kind, and more if they are all alike or all different.
MCPrinted ==
  {out \in UNION {[1..n -> MCLines] : n \in 0..MaxLines} :
     Len(out) <= 2 \/ Kinds(out) \in {1, Len(out)}}

\* One line that is cut into eleven chunks.
MCEleven == {<<PlainLine(11 * Effective)>>}

MCFewOrEleven == MCPrinted \cup MCEleven

=============================================================================
