------------------------------- MODULE LineFiles -------------------------------
(***************************************************************************)
(* Files of JSON lines that are only ever appended to, with appendFileSync *)
(* of one line and its end: those of the evidence store and of the         *)
(* transparency log.                                                       *)
(*                                                                         *)
(* An append that throws or is cut off by a crash may leave nothing, a     *)
(* part of its line, or a line without its end.  A record is the number of *)
(* its write.                                                              *)
(***************************************************************************)
EXTENDS Integers, Sequences, FiniteSets, SequencesExt

\* A line is what stands between two line ends: the record of one write, or
\* the remains of cut-off writes with at most one whole record behind them.
Ends == {"part", "unended", "whole"}
Pieces == [rec : Nat, end : Ends]

\* Bytes in a file, as the pieces in it.
Places(lines) == UNION {{<<i, j>> : j \in DOMAIN lines[i]} : i \in DOMAIN lines}

\* The lines once a piece has been put behind them.
WithPiece(lines, p) ==
    IF lines = <<>> \/ Last(Last(lines)).end = "whole"
    THEN Append(lines, <<p>>)
    ELSE [lines EXCEPT ![Len(lines)] = Append(@, p)]

\* What an append that does not come to its end leaves of record r.
Remains(lines, r) ==
    {lines} \cup {WithPiece(lines, [rec |-> r, end |-> end]) : end \in {"part", "unended"}}

\* A line parses if it is one record from its beginning to its end.
IsReadable(line) == Len(line) = 1 /\ line[1].end # "part"

\* The records of R that can be read in a directory of files.
ReadableOf(R, dir) ==
    {r \in R : \E n \in DOMAIN dir : \E i \in DOMAIN dir[n] :
        IsReadable(dir[n][i]) /\ dir[n][i][1].rec = r}

\* Files whose last line lacks its end.
Unended(dir) == {n \in DOMAIN dir : dir[n] # <<>> /\ Last(Last(dir[n])).end # "whole"}
=============================================================================
