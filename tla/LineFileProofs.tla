---------------------------- MODULE LineFileProofs ----------------------------
(***************************************************************************)
(* Proofs about the two stores that keep lines of JSON: EvidenceStore for  *)
(* any number of writers, files and days, and TransparencyLog for any      *)
(* number of processes, time zone and length of its history.               *)
(*                                                                         *)
(* A line only ever grows while it has no end, so a whole record is always *)
(* the last thing on its line: that is WellFormed.  In the evidence store  *)
(* Pending counts the writers that have chosen a file which was not full   *)
(* at that time.  In the log Writing counts the processes that are going   *)
(* to write a key file, as only one does that has found none or was        *)
(* forced, next to the keys that have been generated.                      *)
(***************************************************************************)
EXTENDS EvidenceStore, TransparencyLog, FiniteSetTheorems, TLAPS

WellFormed(lines) ==
    \A i \in DOMAIN lines :
        /\ lines[i] # <<>>
        /\ i < Len(lines) => Last(lines[i]).end = "whole"
        /\ \A j \in DOMAIN lines[i] : j < Len(lines[i]) => lines[i][j].end # "whole"

\* An append puts one piece into one new place and leaves the others alone.
LEMMA OnePieceMore ==
    ASSUME NEW lines \in Seq(Seq(Pieces)), WellFormed(lines), NEW p \in Pieces
    PROVE  LET new == WithPiece(lines, p)
           IN  /\ new \in Seq(Seq(Pieces))
               /\ WellFormed(new)
               /\ \A i \in DOMAIN lines :
                     i \in DOMAIN new /\ (Last(lines[i]).end = "whole" => new[i] = lines[i])
               /\ Len(new) \in DOMAIN new
               /\ Last(new[Len(new)]) = p
               /\ \E q : Places(new) = Places(lines) \cup {q}
               /\ \A i \in DOMAIN new : \A j \in DOMAIN new[i] :
                     \/ new[i][j] = p
                     \/ i \in DOMAIN lines /\ j \in DOMAIN lines[i] /\ new[i][j] = lines[i][j]
<1> DEFINE new == WithPiece(lines, p)
<1>1. CASE lines = <<>> \/ Last(Last(lines)).end = "whole"
  <2>1. new = Append(lines, <<p>>)
    BY <1>1 DEF WithPiece
  <2>2. /\ new \in Seq(Seq(Pieces))
        /\ Len(new) = Len(lines) + 1
        /\ new[Len(new)] = <<p>>
        /\ \A i \in DOMAIN lines : i \in DOMAIN new /\ new[i] = lines[i]
        /\ DOMAIN new = DOMAIN lines \cup {Len(new)}
    BY <2>1
  <2>3. WellFormed(new)
    <3> SUFFICES ASSUME NEW i \in DOMAIN new
                 PROVE  /\ new[i] # <<>>
                        /\ i < Len(new) => Last(new[i]).end = "whole"
                        /\ \A j \in DOMAIN new[i] : j < Len(new[i]) => new[i][j].end # "whole"
      BY DEF WellFormed
    <3> HIDE DEF new
    <3>1. CASE i = Len(new)
      <4>1. <<p>> # <<>> /\ \A j \in DOMAIN <<p>> : ~(j < Len(<<p>>))
        OBVIOUS
      <4>2. new[i] = <<p>> /\ ~(i < Len(new))
        BY <2>2, <3>1
      <4> QED
        BY <4>1, <4>2
    <3>2. CASE i \in DOMAIN lines
      <4>1. CASE i < Len(lines)
        BY <2>2, <3>2, <4>1 DEF WellFormed
      <4>2. CASE i = Len(lines)
        BY <1>1, <2>2, <3>2, <4>2 DEF WellFormed, Last
      <4> QED
        BY <3>2, <4>1, <4>2
    <3> QED
      BY <2>2, <3>1, <3>2
  <2>4. Places(new) = Places(lines) \cup {<<Len(new), 1>>}
    <3>1. DOMAIN new[Len(new)] = {1}
      BY <2>2
    <3>2. ASSUME NEW x PROVE x \in Places(new) <=> x \in Places(lines) \cup {<<Len(new), 1>>}
      BY <2>2, <3>1 DEF Places
    <3> QED
      BY <3>2
  <2>5. ASSUME NEW i \in DOMAIN new, NEW j \in DOMAIN new[i]
        PROVE  new[i][j] = p \/ (i \in DOMAIN lines /\ j \in DOMAIN lines[i] /\ new[i][j] = lines[i][j])
    BY <2>2
  <2>6. Last(new[Len(new)]) = p
    BY <2>2 DEF Last
  <2>7. Len(new) \in DOMAIN new
    BY <2>2
  <2> QED
    <3> HIDE DEF new
    <3> SUFFICES /\ new \in Seq(Seq(Pieces)) /\ WellFormed(new)
                 /\ \A i \in DOMAIN lines :
                       i \in DOMAIN new /\ (Last(lines[i]).end = "whole" => new[i] = lines[i])
                 /\ Len(new) \in DOMAIN new
                 /\ Last(new[Len(new)]) = p
                 /\ \E q : Places(new) = Places(lines) \cup {q}
                 /\ \A i \in DOMAIN new : \A j \in DOMAIN new[i] :
                       new[i][j] = p \/ (i \in DOMAIN lines /\ j \in DOMAIN lines[i] /\ new[i][j] = lines[i][j])
      BY DEF new
    <3> QED
      BY <2>2, <2>3, <2>4, <2>5, <2>6, <2>7
<1>2. CASE ~(lines = <<>> \/ Last(Last(lines)).end = "whole")
  <2> DEFINE n == Len(lines)
  <2> DEFINE grown == Append(lines[n], p)
  <2>1. n \in DOMAIN lines /\ lines[n] \in Seq(Pieces) /\ Last(lines[n]).end # "whole"
    BY <1>2 DEF Last
  <2>2. new = [lines EXCEPT ![n] = grown]
    BY <1>2 DEF WithPiece
  <2>3. /\ grown \in Seq(Pieces)
        /\ Len(grown) = Len(lines[n]) + 1
        /\ grown[Len(grown)] = p
        /\ \A j \in DOMAIN lines[n] : j \in DOMAIN grown /\ grown[j] = lines[n][j]
        /\ DOMAIN grown = DOMAIN lines[n] \cup {Len(grown)}
    BY <2>1
  <2>4. /\ new \in Seq(Seq(Pieces))
        /\ Len(new) = n
        /\ DOMAIN new = DOMAIN lines
        /\ new[n] = grown
        /\ \A i \in DOMAIN lines : i # n => new[i] = lines[i]
    <3> HIDE DEF grown
    <3> QED
      BY <2>1, <2>2, <2>3
  <2>5. WellFormed(new)
    <3> SUFFICES ASSUME NEW i \in DOMAIN new
                 PROVE  /\ new[i] # <<>>
                        /\ i < Len(new) => Last(new[i]).end = "whole"
                        /\ \A j \in DOMAIN new[i] : j < Len(new[i]) => new[i][j].end # "whole"
      BY DEF WellFormed
    <3> HIDE DEF new, grown
    <3>1. CASE i # n
      BY <2>4, <3>1 DEF WellFormed
    <3>2. CASE i = n
      <4>1. \A j \in DOMAIN lines[n] : lines[n][j].end # "whole"
        BY <2>1 DEF WellFormed, Last
      <4>2. new[i] = grown /\ ~(i < Len(new)) /\ i \in DOMAIN lines
        BY <2>1, <2>4, <3>2
      <4>3. grown # <<>>
        BY <2>3, <2>1
      <4>4. ASSUME NEW j \in DOMAIN grown, j < Len(grown)
            PROVE  grown[j].end # "whole"
        <5>1. j \in DOMAIN lines[n]
          BY <2>1, <2>3, <4>4
        <5> QED
          BY <2>3, <4>1, <5>1
      <4> QED
        BY <4>2, <4>3, <4>4
    <3> QED
      BY <3>1, <3>2
  <2>6. Places(new) = Places(lines) \cup {<<n, Len(grown)>>}
    <3> HIDE DEF new, grown
    <3>1. ASSUME NEW x PROVE x \in Places(new) <=> x \in Places(lines) \cup {<<n, Len(grown)>>}
      BY <2>1, <2>3, <2>4 DEF Places
    <3> QED
      BY <3>1
  <2>7. ASSUME NEW i \in DOMAIN new, NEW j \in DOMAIN new[i]
        PROVE  new[i][j] = p \/ (i \in DOMAIN lines /\ j \in DOMAIN lines[i] /\ new[i][j] = lines[i][j])
    BY <2>1, <2>3, <2>4
  <2>8. \A i \in DOMAIN lines : Last(lines[i]).end = "whole" => i # n
    BY <2>1
  <2>9. n \in DOMAIN new /\ Last(new[n]) = p
    <3> HIDE DEF new, grown
    <3> QED
      BY <2>1, <2>3, <2>4 DEF Last
  <2> QED
    <3> HIDE DEF grown
    <3> QED
      BY <2>4, <2>5, <2>6, <2>7, <2>8, <2>9
<1> QED
  BY <1>1, <1>2

\* A directory of such files, by name.
Intact(dir) == \A n \in DOMAIN dir : dir[n] \in Seq(Seq(Pieces)) /\ WellFormed(dir[n])
LinesIn(dir, n) == IF n \in DOMAIN dir THEN dir[n] ELSE <<>>

\* What an append of piece p to file m does to the directory.
Grown(old, new, m, p) ==
    /\ DOMAIN new = DOMAIN old \cup {m}
    /\ Intact(new)
    /\ \A n \in DOMAIN old : \A i \in DOMAIN old[n] :
          i \in DOMAIN new[n] /\ (Last(old[n][i]).end = "whole" => new[n][i] = old[n][i])
    /\ \E i \in DOMAIN new[m] : Last(new[m][i]) = p
    /\ \A n \in DOMAIN new : \A i \in DOMAIN new[n] : \A j \in DOMAIN new[n][i] :
          \/ new[n][i][j] = p
          \/ /\ n \in DOMAIN old /\ i \in DOMAIN old[n] /\ j \in DOMAIN old[n][i]
             /\ new[n][i][j] = old[n][i][j]
    /\ \E q : Places(LinesIn(new, m)) = Places(LinesIn(old, m)) \cup {q}
    /\ \A n : n # m => LinesIn(new, n) = LinesIn(old, n)

LEMMA AppendGrows ==
    ASSUME NEW dir, Intact(dir), NEW m, NEW p \in Pieces, NEW dir2,
           dir2 = [n \in DOMAIN dir \cup {m} |->
                      IF n = m THEN WithPiece(LinesIn(dir, m), p) ELSE dir[n]]
    PROVE  Grown(dir, dir2, m, p)
<1> DEFINE old == LinesIn(dir, m)
<1> DEFINE new == WithPiece(old, p)
<1>1. old \in Seq(Seq(Pieces)) /\ WellFormed(old)
  BY DEF Intact, LinesIn, WellFormed
<1>2. dir2 = [n \in DOMAIN dir \cup {m} |-> IF n = m THEN new ELSE dir[n]]
  OBVIOUS
<1>3. /\ new \in Seq(Seq(Pieces)) /\ WellFormed(new)
      /\ \A i \in DOMAIN old :
            i \in DOMAIN new /\ (Last(old[i]).end = "whole" => new[i] = old[i])
      /\ Len(new) \in DOMAIN new
      /\ Last(new[Len(new)]) = p
      /\ \E q : Places(new) = Places(old) \cup {q}
      /\ \A i \in DOMAIN new : \A j \in DOMAIN new[i] :
            new[i][j] = p \/ (i \in DOMAIN old /\ j \in DOMAIN old[i] /\ new[i][j] = old[i][j])
  <2> HIDE DEF old
  <2> QED
    BY <1>1, OnePieceMore DEF new
<1>4. m \in DOMAIN dir => dir[m] = old
  BY DEF LinesIn
<1>5. m \notin DOMAIN dir => old = <<>>
  BY DEF LinesIn
<1>6. ASSUME NEW n PROVE LinesIn(dir2, n) = IF n = m THEN new ELSE LinesIn(dir, n)
  <2> HIDE DEF new
  <2> QED
    BY <1>2 DEF LinesIn
<1> HIDE DEF old, new
<1>7. dir2[m] = new
  BY <1>2
<1>8. Intact(dir2)
  BY <1>2, <1>3 DEF Intact
<1>9. \A n \in DOMAIN dir : \A i \in DOMAIN dir[n] :
         i \in DOMAIN dir2[n] /\ (Last(dir[n][i]).end = "whole" => dir2[n][i] = dir[n][i])
  BY <1>2, <1>3, <1>4
<1>10. ASSUME NEW n \in DOMAIN dir2, NEW i \in DOMAIN dir2[n], NEW j \in DOMAIN dir2[n][i]
       PROVE  \/ dir2[n][i][j] = p
              \/ /\ n \in DOMAIN dir /\ i \in DOMAIN dir[n] /\ j \in DOMAIN dir[n][i]
                 /\ dir2[n][i][j] = dir[n][i][j]
  <2>1. CASE n # m
    BY <1>2, <1>10, <2>1
  <2>2. CASE n = m /\ m \in DOMAIN dir
    BY <1>3, <1>4, <1>7, <1>10, <2>2
  <2>3. CASE n = m /\ m \notin DOMAIN dir
    BY <1>3, <1>5, <1>7, <1>10, <2>3
  <2> QED
    BY <2>1, <2>2, <2>3
<1>11. \E i \in DOMAIN dir2[m] : Last(dir2[m][i]) = p
  BY <1>3, <1>7
<1>12. \E q : Places(LinesIn(dir2, m)) = Places(LinesIn(dir, m)) \cup {q}
  <2>1. LinesIn(dir2, m) = new /\ LinesIn(dir, m) = old
    BY <1>6 DEF old
  <2> QED
    BY <1>3, <2>1
<1> QED
  BY <1>2, <1>6, <1>8, <1>9, <1>10, <1>11, <1>12 DEF Grown

-----------------------------------------------------------------------------
(* What one append does to the files that lack an end and to the records    *)
(* that can be read.                                                        *)

IsOpen(lines) == lines # <<>> /\ Last(Last(lines)).end # "whole"

\* Behind a line that has its end there is a new one; else the last one grows.
LEMMA PieceIsLast ==
    ASSUME NEW lines \in Seq(Seq(Pieces)), WellFormed(lines), NEW p \in Pieces
    PROVE  LET new == WithPiece(lines, p)
           IN  /\ new # <<>> /\ Last(Last(new)) = p
               /\ ~IsOpen(lines) =>
                     /\ Len(new) = Len(lines) + 1
                     /\ new[Len(new)] = <<p>>
                     /\ \A i \in DOMAIN lines : new[i] = lines[i]
               /\ IsOpen(lines) =>
                     /\ Len(new) = Len(lines)
                     /\ Len(new[Len(new)]) # 1
                     /\ \A i \in DOMAIN lines : i # Len(lines) => new[i] = lines[i]
<1> DEFINE new == WithPiece(lines, p)
<1>1. CASE ~IsOpen(lines)
  <2>1. new = Append(lines, <<p>>)
    BY <1>1 DEF WithPiece, IsOpen
  <2>2. /\ Len(new) = Len(lines) + 1 /\ new[Len(new)] = <<p>> /\ new # <<>>
        /\ \A i \in DOMAIN lines : new[i] = lines[i]
    BY <2>1
  <2>3. Last(Last(new)) = p
    BY <2>2 DEF Last
  <2> QED
    BY <1>1, <2>2, <2>3
<1>2. CASE IsOpen(lines)
  <2> DEFINE n == Len(lines)
  <2> DEFINE grown == Append(lines[n], p)
  <2>1. n \in DOMAIN lines /\ lines[n] \in Seq(Pieces) /\ lines[n] # <<>>
    BY <1>2 DEF IsOpen, WellFormed
  <2>2. new = [lines EXCEPT ![n] = grown]
    BY <1>2 DEF WithPiece, IsOpen
  <2>3. Len(grown) # 1 /\ grown[Len(grown)] = p
    BY <2>1
  <2>4. /\ Len(new) = n /\ new[n] = grown /\ new # <<>>
        /\ \A i \in DOMAIN lines : i # n => new[i] = lines[i]
    BY <2>1, <2>2
  <2>5. Last(Last(new)) = p
    <3> HIDE DEF new, grown, n
    <3> QED
      BY <2>3, <2>4 DEF Last
  <2> QED
    BY <1>2, <2>3, <2>4, <2>5
<1> QED
  BY <1>1, <1>2

\* The directory after an append of piece p to file m.
Appended(dir, m, p) ==
    [n \in DOMAIN dir \cup {m} |-> IF n = m THEN WithPiece(LinesIn(dir, m), p) ELSE dir[n]]

LEMMA UnendedAfter ==
    ASSUME NEW dir, Intact(dir), NEW m, NEW p \in Pieces
    PROVE  Unended(Appended(dir, m, p)) =
              IF p.end = "whole" THEN Unended(dir) \ {m} ELSE Unended(dir) \cup {m}
<1> DEFINE new == WithPiece(LinesIn(dir, m), p)
<1>1. LinesIn(dir, m) \in Seq(Seq(Pieces)) /\ WellFormed(LinesIn(dir, m))
  BY DEF Intact, LinesIn, WellFormed
<1>2. new # <<>> /\ Last(Last(new)) = p
  BY <1>1, PieceIsLast
<1> HIDE DEF new
<1>3. Appended(dir, m, p) = [n \in DOMAIN dir \cup {m} |-> IF n = m THEN new ELSE dir[n]]
  BY DEF Appended, new
<1> QED
  BY <1>2, <1>3 DEF Unended

\* Nothing is appended to a record of R, nor is there one of piece p.
Unknown(R, dir, p) ==
    /\ p.rec \notin R
    /\ \A n \in DOMAIN dir : \A i \in DOMAIN dir[n] : \A j \in DOMAIN dir[n][i] :
          /\ dir[n][i][j].rec # p.rec
          /\ dir[n][i][j].end # "whole" => dir[n][i][j].rec \notin R

IsFound(r, dir) == \E n \in DOMAIN dir : \E i \in DOMAIN dir[n] :
                       IsReadable(dir[n][i]) /\ dir[n][i][1].rec = r

\* What could be read still can, and the record of p can if its file had its
\* end.
LEMMA ReadableAfter ==
    ASSUME NEW dir, Intact(dir), NEW m, NEW p \in Pieces, NEW R, Unknown(R, dir, p),
           NEW dir2, dir2 = Appended(dir, m, p)
    PROVE  /\ ReadableOf(R, dir2) = ReadableOf(R, dir)
           /\ p.end = "whole" => (IsFound(p.rec, dir2) <=> m \notin Unended(dir))
<1> DEFINE old == LinesIn(dir, m)
<1> DEFINE new == WithPiece(old, p)
<1>1. old \in Seq(Seq(Pieces)) /\ WellFormed(old)
  BY DEF Intact, LinesIn, WellFormed
<1>2. /\ new # <<>> /\ Last(Last(new)) = p
      /\ ~IsOpen(old) =>
            /\ Len(new) = Len(old) + 1
            /\ new[Len(new)] = <<p>>
            /\ \A i \in DOMAIN old : new[i] = old[i]
      /\ IsOpen(old) =>
            /\ Len(new) = Len(old)
            /\ Len(new[Len(new)]) # 1
            /\ \A i \in DOMAIN old : i # Len(old) => new[i] = old[i]
  BY <1>1, PieceIsLast
<1>3. new \in Seq(Seq(Pieces))
  BY <1>1, OnePieceMore
<1>4. m \in Unended(dir) <=> IsOpen(old)
  BY DEF Unended, IsOpen, LinesIn
<1>5. /\ m \in DOMAIN dir => dir[m] = old
      /\ m \notin DOMAIN dir => old = <<>>
  BY DEF LinesIn
<1> HIDE DEF new, old
<1>6. dir2 = [n \in DOMAIN dir \cup {m} |-> IF n = m THEN new ELSE dir[n]]
  BY DEF Appended, new, old
<1>7. DOMAIN dir2 = DOMAIN dir \cup {m} /\ dir2[m] = new /\ \A n \in DOMAIN dir : n # m => dir2[n] = dir[n]
  BY <1>6
\* A line that has changed cannot be read, but for the one of p alone.
<1>8. ASSUME NEW i \in DOMAIN new, IsReadable(new[i])
      PROVE  \/ i \in DOMAIN old /\ new[i] = old[i]
             \/ ~IsOpen(old) /\ i = Len(new) /\ new[i] = <<p>>
  <2>1. i \in 1 .. Len(new) /\ Len(old) \in Nat /\ DOMAIN old = 1 .. Len(old)
    BY <1>1, <1>3
  <2>2. CASE IsOpen(old)
    <3>1. Len(new[i]) = 1 /\ Len(new) = Len(old) /\ Len(new[Len(new)]) # 1
      BY <1>2, <1>8, <2>2 DEF IsReadable
    <3>2. i # Len(old)
      BY <3>1
    <3> QED
      BY <1>2, <2>1, <2>2, <3>1, <3>2
  <2>3. CASE ~IsOpen(old)
    <3>1. Len(new) = Len(old) + 1 /\ new[Len(new)] = <<p>>
      BY <1>2, <2>3
    <3>2. i = Len(new) \/ i \in DOMAIN old
      BY <2>1, <3>1
    <3> QED
      BY <1>2, <2>3, <3>1, <3>2
  <2> QED
    BY <2>2, <2>3
\* A record of R that can be read has its end, so that its line stays.
<1>9. ASSUME NEW n \in DOMAIN dir, NEW i \in DOMAIN dir[n], IsReadable(dir[n][i]), dir[n][i][1].rec \in R
      PROVE  n \in DOMAIN dir2 /\ i \in DOMAIN dir2[n] /\ dir2[n][i] = dir[n][i]
  <2>1. dir[n] \in Seq(Seq(Pieces))
    BY DEF Intact
  <2>2. Len(dir[n][i]) = 1 /\ 1 \in DOMAIN dir[n][i]
    BY <1>9, <2>1 DEF IsReadable
  <2>3. dir[n][i][1].end = "whole"
    BY <1>9, <2>2 DEF Unknown
  <2>4. CASE n # m
    BY <1>7, <2>4
  <2>5. CASE n = m
    <3>1. old = dir[n] /\ dir2[n] = new
      BY <1>5, <1>7, <2>5
    <3>2. ~(IsOpen(old) /\ i = Len(old))
      BY <2>2, <2>3, <3>1 DEF IsOpen, Last
    <3>3. i \in 1 .. Len(old) /\ Len(old) \in Nat
      BY <1>1, <3>1
    <3>4. i \in DOMAIN new /\ new[i] = old[i]
      BY <1>1, <1>2, <1>3, <3>2, <3>3
    <3> QED
      BY <1>7, <3>1, <3>4
  <2> QED
    BY <2>4, <2>5
<1>10. ASSUME NEW n \in DOMAIN dir2, NEW i \in DOMAIN dir2[n], IsReadable(dir2[n][i])
       PROVE  \/ n \in DOMAIN dir /\ i \in DOMAIN dir[n] /\ dir2[n][i] = dir[n][i]
              \/ n = m /\ ~IsOpen(old) /\ dir2[n][i] = <<p>>
  <2>1. CASE n # m
    BY <1>7, <1>10, <2>1
  <2>2. CASE n = m
    <3>1. m \in DOMAIN dir \/ DOMAIN old = {}
      BY <1>5
    <3> QED
      BY <1>5, <1>7, <1>8, <1>10, <2>2, <3>1
  <2> QED
    BY <2>1, <2>2
<1>11. <<p>>[1].rec = p.rec /\ Len(<<p>>) = 1
  OBVIOUS
<1>12. ReadableOf(R, dir2) = ReadableOf(R, dir)
  <2>1. ASSUME NEW r \in ReadableOf(R, dir) PROVE r \in ReadableOf(R, dir2)
    BY <1>9, <2>1 DEF ReadableOf
  <2>2. ASSUME NEW r \in ReadableOf(R, dir2) PROVE r \in ReadableOf(R, dir)
    <3>1. PICK n \in DOMAIN dir2 : \E i \in DOMAIN dir2[n] :
             IsReadable(dir2[n][i]) /\ dir2[n][i][1].rec = r /\ r \in R
      BY <2>2 DEF ReadableOf
    <3>2. PICK i \in DOMAIN dir2[n] : IsReadable(dir2[n][i]) /\ dir2[n][i][1].rec = r /\ r \in R
      BY <3>1
    <3>3. p.rec \notin R
      BY DEF Unknown
    <3>4. n \in DOMAIN dir /\ i \in DOMAIN dir[n] /\ dir2[n][i] = dir[n][i]
      BY <1>10, <1>11, <3>2, <3>3
    <3> QED
      BY <3>2, <3>4 DEF ReadableOf
  <2> QED
    BY <2>1, <2>2
<1>13. ASSUME p.end = "whole" PROVE IsFound(p.rec, dir2) <=> m \notin Unended(dir)
  <2>1. ASSUME ~IsOpen(old) PROVE IsFound(p.rec, dir2)
    <3>1. Len(new) \in DOMAIN new /\ new[Len(new)] = <<p>>
      BY <1>2, <1>3, <2>1
    <3>2. IsReadable(<<p>>)
      BY <1>11, <1>13 DEF IsReadable
    <3> QED
      BY <1>7, <1>11, <3>1, <3>2 DEF IsFound
  <2>2. ASSUME IsFound(p.rec, dir2) PROVE ~IsOpen(old)
    <3>1. PICK n \in DOMAIN dir2 : \E i \in DOMAIN dir2[n] :
             IsReadable(dir2[n][i]) /\ dir2[n][i][1].rec = p.rec
      BY <2>2 DEF IsFound
    <3>2. PICK i \in DOMAIN dir2[n] : IsReadable(dir2[n][i]) /\ dir2[n][i][1].rec = p.rec
      BY <3>1
    <3>3. ASSUME n \in DOMAIN dir, i \in DOMAIN dir[n], dir2[n][i] = dir[n][i] PROVE FALSE
      <4>1. dir[n] \in Seq(Seq(Pieces))
        BY <3>3 DEF Intact
      <4>2. 1 \in DOMAIN dir[n][i]
        BY <3>2, <3>3, <4>1 DEF IsReadable
      <4> QED
        BY <3>2, <3>3, <4>2 DEF Unknown
    <3> QED
      BY <1>10, <3>2, <3>3
  <2> QED
    BY <1>4, <2>1, <2>2
<1> QED
  BY <1>12, <1>13

\* The append of a new record that is acknowledged.
LEMMA AcknowledgedAppend ==
    ASSUME NEW dir, Intact(dir), NEW m, NEW p \in Pieces, p.end = "whole",
           NEW R, Unknown(R, dir, p), NEW dir2, dir2 = Appended(dir, m, p)
    PROVE  IF m \in Unended(dir)
           THEN /\ Unended(dir2) = Unended(dir) \ {m}
                /\ ReadableOf(R \cup {p.rec}, dir2) = ReadableOf(R, dir)
           ELSE /\ Unended(dir2) = Unended(dir)
                /\ ReadableOf(R \cup {p.rec}, dir2) = ReadableOf(R, dir) \cup {p.rec}
<1>1. ReadableOf(R \cup {p.rec}, dir2) =
         ReadableOf(R, dir2) \cup (IF IsFound(p.rec, dir2) THEN {p.rec} ELSE {})
  BY DEF ReadableOf, IsFound
<1>2. Unended(dir2) = Unended(dir) \ {m}
  BY UnendedAfter
<1>3. ReadableOf(R, dir2) = ReadableOf(R, dir) /\ (IsFound(p.rec, dir2) <=> m \notin Unended(dir))
  BY ReadableAfter
<1>4. CASE m \in Unended(dir)
  BY <1>1, <1>2, <1>3, <1>4
<1>5. CASE m \notin Unended(dir)
  BY <1>1, <1>2, <1>3, <1>5
<1> QED
  BY <1>4, <1>5

\* The append of one that is not.
LEMMA FailedAppend ==
    ASSUME NEW dir, Intact(dir), NEW m, NEW p \in Pieces, p.end # "whole",
           NEW R, Unknown(R, dir, p), NEW dir2, dir2 = Appended(dir, m, p)
    PROVE  Unended(dir2) = Unended(dir) \cup {m} /\ ReadableOf(R, dir2) = ReadableOf(R, dir)
<1>1. Unended(dir2) = Unended(dir) \cup {m}
  BY UnendedAfter
<1>2. ReadableOf(R, dir2) = ReadableOf(R, dir)
  BY ReadableAfter
<1> QED
  BY <1>1, <1>2

\* An append that leaves nothing, or no more than an empty file.
LEMMA NothingAppended ==
    ASSUME NEW dir, NEW m, NEW R, NEW dir2,
           dir2 = [n \in DOMAIN dir \cup {m} |-> IF n = m THEN LinesIn(dir, m) ELSE dir[n]]
    PROVE  Unended(dir2) = Unended(dir) /\ ReadableOf(R, dir2) = ReadableOf(R, dir)
<1>1. DOMAIN dir2 = DOMAIN dir \cup {m}
  OBVIOUS
<1>2. \A n \in DOMAIN dir : dir2[n] = dir[n]
  BY DEF LinesIn
<1>3. \A n \in DOMAIN dir2 : n \notin DOMAIN dir => dir2[n] = <<>>
  BY DEF LinesIn
<1>4. Unended(dir2) = Unended(dir)
  BY <1>1, <1>2, <1>3 DEF Unended
<1>5. ReadableOf(R, dir2) = ReadableOf(R, dir)
  <2>1. ASSUME NEW n \in DOMAIN dir2, n \notin DOMAIN dir, NEW i \in DOMAIN dir2[n] PROVE FALSE
    <3>1. DOMAIN <<>> = {}
      OBVIOUS
    <3>2. dir2[n] = <<>>
      BY <1>3, <2>1
    <3> QED
      BY <2>1, <3>1, <3>2, Zenon
  <2>2. ASSUME NEW r PROVE r \in ReadableOf(R, dir2) <=> r \in ReadableOf(R, dir)
    BY <1>1, <1>2, <2>1 DEF ReadableOf
  <2> QED
    BY <2>2
<1> QED
  BY <1>4, <1>5

-----------------------------------------------------------------------------
(* The evidence store. *)

FilesWellFormed == \A n \in DOMAIN files : WellFormed(files[n])

Puts(w, p) == Grown(files, files', path[w], p)

LEMMA AppendPuts ==
    ASSUME TypeOK, FilesWellFormed, NEW w \in Writers, NEW p \in Pieces,
           AppendTo(path[w], WithPiece(Lines(path[w]), p))
    PROVE  Puts(w, p)
<1>1. Intact(files)
  BY DEF TypeOK, FilesWellFormed, Intact
<1>2. Lines(path[w]) = LinesIn(files, path[w])
  BY DEF Lines, LinesIn, Exists
<1> QED
  BY <1>1, <1>2, AppendGrows DEF AppendTo, Puts

LEMMA PutsLines ==
    ASSUME NEW w, NEW p, Puts(w, p)
    PROVE  /\ \A n : n = path[w] => \E q : Places(Lines(n)') = Places(Lines(n)) \cup {q}
           /\ \A n : n # path[w] => Lines(n)' = Lines(n)
<1>1. \A n : Lines(n) = LinesIn(files, n) /\ Lines(n)' = LinesIn(files', n)
  BY DEF Lines, LinesIn, Exists
<1> QED
  BY <1>1 DEF Puts, Grown, Grown

\* An append that writes nothing at most creates an empty file.
Touches(w) ==
    /\ DOMAIN files' = DOMAIN files \cup {path[w]}
    /\ \A n \in DOMAIN files : files'[n] = files[n]
    /\ path[w] \notin DOMAIN files => files'[path[w]] = <<>>
    /\ \A n : Lines(n)' = Lines(n)

LEMMA AppendTouches ==
    ASSUME TypeOK, NEW w \in Writers, AppendTo(path[w], Lines(path[w]))
    PROVE  Touches(w)
BY DEF AppendTo, Lines, Exists, Touches

\* The three things that can happen to the directory.
LEMMA LeavingBehind ==
    ASSUME TypeOK, FilesWellFormed, NEW w \in Writers, LeavesBehind(w)
    PROVE  \/ Touches(w)
           \/ \E end \in {"part", "unended"} : Puts(w, [rec |-> rec[w], end |-> end])
<1>1. CASE AppendTo(path[w], Lines(path[w]))
  BY <1>1, AppendTouches
<1>2. ASSUME NEW end \in {"part", "unended"},
             AppendTo(path[w], WithPiece(Lines(path[w]), [rec |-> rec[w], end |-> end]))
      PROVE  Puts(w, [rec |-> rec[w], end |-> end])
  <2>1. [rec |-> rec[w], end |-> end] \in Pieces
    BY DEF TypeOK, Pieces, Ends
  <2> QED
    BY <1>2, <2>1, AppendPuts
<1> QED
  BY <1>1, <1>2 DEF LeavesBehind, Remains

LEMMA Whole ==
    ASSUME TypeOK, FilesWellFormed, NEW w \in Writers, WriteLine(w)
    PROVE  Puts(w, [rec |-> rec[w], end |-> "whole"])
<1>1. [rec |-> rec[w], end |-> "whole"] \in Pieces
  BY DEF TypeOK, Pieces, Ends
<1> QED
  BY <1>1, AppendPuts DEF WriteLine

-----------------------------------------------------------------------------
\* TypeOK needs the shape of the lines: a piece is put behind the last line
\* only, which must be one.
Active(w) == pc[w] \in {"rotate", "append"}
Inv == TypeOK /\ FilesWellFormed /\ \A w \in Writers : Active(w) => rec[w] > 0

LEMMA InitInv == Init => Inv
<1> SUFFICES ASSUME Init PROVE Inv
  OBVIOUS
<1>1. DOMAIN files = {}
  BY DEF Init
<1>2. pc \in [Writers -> PCs] /\ \A w \in Writers : ~Active(w)
  BY DEF Init, PCs, Active
<1>3. path \in [Writers -> Names] /\ \A w \in Writers : path[w].day <= today
  BY DEF Init, Names, Base
<1>4. today \in Nat /\ writes \in Nat /\ acked \subseteq 1 .. writes /\ rec \in [Writers -> 0 .. writes]
  BY DEF Init
<1> QED
  BY <1>1, <1>2, <1>3, <1>4 DEF Inv, TypeOK, FilesWellFormed

LEMMA InvAfterPut ==
    ASSUME Inv, NEW w \in Writers, NEW p, Puts(w, p) \/ Touches(w),
           UNCHANGED <<today, writes, path, rec>>, pc' \in [Writers -> PCs],
           \A v \in Writers : Active(v)' => Active(v),
           acked' \subseteq 1 .. writes
    PROVE  Inv'
<1>1. /\ DOMAIN files' = DOMAIN files \cup {path[w]}
      /\ \A n \in DOMAIN files' : files'[n] \in Seq(Seq(Pieces)) /\ WellFormed(files'[n])
  <2>1. CASE Puts(w, p)
    BY <2>1 DEF Puts, Grown, Intact
  <2>2. CASE Touches(w)
    <3>1. <<>> \in Seq(Seq(Pieces)) /\ WellFormed(<<>>)
      BY DEF WellFormed
    <3>2. \A n \in DOMAIN files : files[n] \in Seq(Seq(Pieces)) /\ WellFormed(files[n])
      BY DEF Inv, Active, TypeOK, FilesWellFormed
    <3> QED
      BY <2>2, <3>1, <3>2 DEF Touches
  <2> QED
    BY <2>1, <2>2
<1> QED
  BY <1>1 DEF Inv, Active, TypeOK, FilesWellFormed

LEMMA StepInv == Inv /\ [Next]_vars => Inv'
<1> SUFFICES ASSUME Inv, [Next]_vars PROVE Inv'
  OBVIOUS
<1> USE StoreAssumption
<1>1. CASE Midnight
  <2>1. \A n \in Names : n.day <= today => n.day <= today'
    BY <1>1 DEF Inv, TypeOK, Midnight, Names
  <2>2. today' \in Nat /\ UNCHANGED <<files, writes, pc, path, rec, acked>>
    BY <1>1 DEF Inv, TypeOK, Midnight
  <2>3. DOMAIN files \subseteq Names /\ \A w \in Writers : path[w] \in Names
    BY DEF Inv, TypeOK
  <2> QED
    BY <2>1, <2>2, <2>3 DEF Inv, Active, TypeOK, FilesWellFormed
<1>2. ASSUME NEW w \in Writers, BeginWrite(w) PROVE Inv'
  <2>1. files' = files
    BY <1>2 DEF BeginWrite
  <2>2. rec' \in [Writers -> 0 .. writes'] /\ writes' \in Nat /\ acked' \subseteq 1 .. writes'
    BY <1>2 DEF Inv, TypeOK, BeginWrite
  <2>3. pc' \in [Writers -> PCs] /\ path' \in [Writers -> Names] /\ today' \in Nat
        /\ \A v \in Writers : path'[v].day <= today'
    BY <1>2 DEF Inv, TypeOK, BeginWrite, PCs, Names, Base
  <2> QED
    BY <2>1, <2>2, <2>3, <1>2 DEF Inv, Active, TypeOK, FilesWellFormed, BeginWrite
<1>3. ASSUME NEW w \in Writers, Rotate(w) PROVE Inv'
  <2>1. PICK k \in 1 .. MaxWrites : path' = [path EXCEPT ![w] = [day |-> today, suffix |-> k]]
    BY <1>3 DEF Rotate
  <2>2. path' \in [Writers -> Names] /\ \A v \in Writers : path'[v].day <= today
    BY <2>1 DEF Inv, TypeOK, Names
  <2> QED
    BY <1>3, <2>2 DEF Inv, Active, TypeOK, FilesWellFormed, Rotate, PCs
<1>4. ASSUME NEW w \in Writers, WriteLine(w) PROVE Inv'
  <2>1. Puts(w, [rec |-> rec[w], end |-> "whole"])
    BY <1>4, Whole DEF Inv
  <2>2. acked' \subseteq 1 .. writes /\ pc' \in [Writers -> PCs]
    <3>1. rec[w] \in 1 .. writes
      BY <1>4 DEF Inv, TypeOK, Active, WriteLine
    <3> QED
      BY <1>4, <3>1 DEF Inv, TypeOK, WriteLine, PCs
  <2>3. \A v \in Writers : Active(v)' => Active(v)
    BY <1>4 DEF Inv, TypeOK, Active, WriteLine
  <2> QED
    BY <1>4, <2>1, <2>2, <2>3, InvAfterPut DEF WriteLine
<1>5. ASSUME NEW w \in Writers, WriteFails(w) \/ Crash(w) PROVE Inv'
  <2>1. /\ UNCHANGED <<today, writes, path, rec, acked>>
        /\ pc' \in [Writers -> PCs]
        /\ \A v \in Writers : Active(v)' => Active(v)
        /\ UNCHANGED files \/ LeavesBehind(w)
    BY <1>5 DEF Inv, Active, TypeOK, WriteFails, Crash, PCs
  <2>2. CASE UNCHANGED files
    BY <2>1, <2>2 DEF Inv, TypeOK, FilesWellFormed
  <2>3. CASE LeavesBehind(w)
    <3>1. \E p : Puts(w, p) \/ Touches(w)
      BY <2>3, LeavingBehind DEF Inv
    <3>2. acked' \subseteq 1 .. writes
      BY <2>1 DEF Inv, TypeOK
    <3> QED
      BY <2>1, <3>1, <3>2, InvAfterPut
  <2> QED
    BY <2>1, <2>2, <2>3
<1>6. ASSUME NEW w \in Writers, Restart(w) PROVE Inv'
  BY <1>6 DEF Inv, Active, TypeOK, FilesWellFormed, Restart, PCs
<1>7. CASE UNCHANGED vars
  BY <1>7 DEF Inv, Active, TypeOK, FilesWellFormed, vars
<1> QED
  BY <1>1, <1>2, <1>3, <1>4, <1>5, <1>6, <1>7 DEF Next

\* Every variable has its type, dates of names never lie in the future, and
\* only begun writes are acknowledged.
THEOREM TypeCorrect == Spec => []TypeOK
<1>1. Inv => TypeOK
  BY DEF Inv
<1> QED
  BY <1>1, InitInv, StepInv, PTL DEF Spec

-----------------------------------------------------------------------------
Pending(n) == {w \in Writers : pc[w] = "append" /\ path[w] = n}

\* Room is tested when a file is chosen: the writers that have chosen it since
\* can add one record each.
Space ==
    \A n \in Names :
        /\ IsFiniteSet(Places(Lines(n)))
        /\ Size(n) + Cardinality(Pending(n)) <= MaxFileSize - 1 + Cardinality(Writers)

LEMMA PendingFinite ==
    ASSUME NEW n
    PROVE  /\ IsFiniteSet(Pending(n)) /\ Cardinality(Pending(n)) \in Nat
           /\ Cardinality(Pending(n)) <= Cardinality(Writers)
           /\ IsFiniteSet(Writers) /\ Cardinality(Writers) \in Nat
BY StoreAssumption, FS_Subset, FS_CardinalityType DEF Pending

\* The same, for the file and the writers as they are after a step.
LEMMA PendingFinite2 ==
    ASSUME NEW n
    PROVE  /\ IsFiniteSet(Pending(n)') /\ Cardinality(Pending(n)') \in Nat
           /\ Cardinality(Pending(n)') <= Cardinality(Writers)
<1>1. Pending(n)' \subseteq Writers
  BY DEF Pending
<1> QED
  BY <1>1, StoreAssumption, FS_Subset, FS_CardinalityType

LEMMA NotFullHasRoom ==
    ASSUME Space, NEW n \in Names, ~IsFull(n)
    PROVE  Size(n) <= MaxFileSize - 1 /\ Size(n) \in Nat
<1>1. Size(n) \in Nat
  BY FS_CardinalityType DEF Space, Size
<1>2. CASE Exists(n)
  BY <1>1, <1>2, StoreAssumption DEF IsFull
<1>3. CASE ~Exists(n)
  <2>1. Places(Lines(n)) = {}
    BY <1>3 DEF Lines, Places
  <2> QED
    BY <2>1, <1>1, StoreAssumption, FS_EmptySet DEF Size
<1> QED
  BY <1>2, <1>3

\* A file nobody adds to, and nobody comes to choose, keeps its room.
LEMMA SpaceKept ==
    ASSUME Space, NEW n \in Names, Lines(n)' = Lines(n), Pending(n)' \subseteq Pending(n)
    PROVE  /\ IsFiniteSet(Places(Lines(n))')
           /\ Size(n)' + Cardinality(Pending(n)') <= MaxFileSize - 1 + Cardinality(Writers)
<1>1. Size(n)' = Size(n) /\ Places(Lines(n))' = Places(Lines(n)) /\ Size(n) \in Nat
  BY FS_CardinalityType DEF Space, Size, Places
<1>2. Cardinality(Pending(n)') <= Cardinality(Pending(n))
  BY PendingFinite, FS_Subset
<1> QED
  BY <1>1, <1>2, PendingFinite, PendingFinite2, StoreAssumption DEF Space

\* A file that is chosen was not full.
LEMMA SpaceChosen ==
    ASSUME Space, NEW n \in Names, ~IsFull(n), UNCHANGED files
    PROVE  /\ IsFiniteSet(Places(Lines(n))')
           /\ Size(n)' + Cardinality(Pending(n)') <= MaxFileSize - 1 + Cardinality(Writers)
<1>1. Size(n)' = Size(n) /\ Places(Lines(n))' = Places(Lines(n))
  BY DEF Size, Places, Lines, Exists
<1> QED
  BY <1>1, NotFullHasRoom, PendingFinite, PendingFinite2, StoreAssumption DEF Space

\* A writer that adds a piece is no longer pending.
LEMMA SpaceUsed ==
    ASSUME Inv, Space, NEW w \in Writers, NEW p, Puts(w, p) \/ Touches(w),
           pc[w] = "append", pc' \in [Writers -> PCs], pc'[w] # "append",
           \A v \in Writers : pc'[v] = "append" => pc[v] = "append", UNCHANGED path
    PROVE  Space'
<1> DEFINE m == path[w]
<1> SUFFICES ASSUME NEW n \in Names
             PROVE  /\ IsFiniteSet(Places(Lines(n))')
                    /\ Size(n)' + Cardinality(Pending(n)') <= MaxFileSize - 1 + Cardinality(Writers)
  BY DEF Space
<1>1. Pending(n)' \subseteq Pending(n)
  BY DEF Pending
<1>2. CASE n # m \/ Touches(w)
  BY <1>1, <1>2, PutsLines, SpaceKept DEF Touches
<1>3. CASE n = m /\ Puts(w, p)
  <2>1. PICK q : Places(Lines(n)') = Places(Lines(n)) \cup {q}
    BY <1>3, PutsLines
  <2>2. /\ IsFiniteSet(Places(Lines(n)')) /\ Cardinality(Places(Lines(n)')) <= Size(n) + 1
        /\ Size(n) \in Nat /\ Cardinality(Places(Lines(n)')) \in Nat
    <3> DEFINE S == Places(Lines(n))
    <3> DEFINE T == S \cup {q}
    <3>1. IsFiniteSet(S) /\ Size(n) = Cardinality(S)
      BY DEF Space, Size
    <3> HIDE DEF S
    <3>0. Cardinality(S) \in Nat
      BY <3>1, FS_CardinalityType
    <3>5. IsFiniteSet(T) /\ (Cardinality(T) = Cardinality(S) \/ Cardinality(T) = Cardinality(S) + 1)
      BY <3>1, FS_AddElement, Zenon
    <3>2. IsFiniteSet(T) /\ Cardinality(T) <= Cardinality(S) + 1 /\ Cardinality(S) \in Nat
      BY <3>0, <3>5
    <3>3. Cardinality(T) \in Nat
      BY <3>2, FS_CardinalityType
    <3>4. Places(Lines(n)') = T
      BY <2>1 DEF S
    <3> QED
      BY <3>1, <3>2, <3>3, <3>4
  <2>3. Places(Lines(n))' = Places(Lines(n)')
    BY DEF Places
  <2>4. w \in Pending(n) /\ Pending(n)' \subseteq Pending(n) \ {w}
    BY <1>1, <1>3 DEF Pending
  <2>5. /\ IsFiniteSet(Pending(n) \ {w})
        /\ Cardinality(Pending(n) \ {w}) = Cardinality(Pending(n)) - 1
    BY <2>4, PendingFinite, FS_RemoveElement
  <2>6. Cardinality(Pending(n)') <= Cardinality(Pending(n)) - 1
    BY <2>4, <2>5, FS_Subset
  <2>7. Size(n)' = Cardinality(Places(Lines(n)'))
    BY <2>3 DEF Size
  <2> QED
    BY <2>2, <2>3, <2>6, <2>7, PendingFinite, PendingFinite2, StoreAssumption DEF Space
<1> QED
  BY <1>2, <1>3

LEMMA StepSpace == Inv /\ Inv' /\ Space /\ [Next]_vars => Space'
<1> SUFFICES ASSUME Inv, Inv', Space, [Next]_vars PROVE Space'
  OBVIOUS
<1>1. ASSUME UNCHANGED files, \A n \in Names : Pending(n)' \subseteq Pending(n) \/ ~IsFull(n)
      PROVE  Space'
  <2>1. \A n : Lines(n)' = Lines(n)
    BY <1>1 DEF Lines, Exists
  <2> QED
    BY <1>1, <2>1, SpaceKept, SpaceChosen DEF Space
<1>2. ASSUME NEW w \in Writers, BeginWrite(w) PROVE Space'
  <2>1. \A n \in Names : n # Base(today) => Pending(n)' \subseteq Pending(n)
    BY <1>2 DEF Inv, TypeOK, BeginWrite, Pending
  <2>2. IsFull(Base(today)) => Pending(Base(today))' \subseteq Pending(Base(today))
    BY <1>2 DEF Inv, TypeOK, BeginWrite, Pending
  <2> QED
    BY <1>1, <1>2, <2>1, <2>2 DEF BeginWrite
<1>3. ASSUME NEW w \in Writers, Rotate(w) PROVE Space'
  <2>1. PICK k \in 1 .. MaxWrites :
           /\ ~Exists([day |-> today, suffix |-> k])
           /\ path' = [path EXCEPT ![w] = [day |-> today, suffix |-> k]]
    BY <1>3 DEF Rotate
  <2> DEFINE m == [day |-> today, suffix |-> k]
  <2>2. \A n \in Names : n # m => Pending(n)' \subseteq Pending(n)
    BY <1>3, <2>1 DEF Inv, TypeOK, Rotate, Pending
  <2>3. ~IsFull(m)
    BY <2>1 DEF IsFull
  <2> QED
    BY <1>1, <1>3, <2>2, <2>3 DEF Rotate
<1>4. ASSUME NEW w \in Writers, WriteLine(w) PROVE Space'
  <2>1. Puts(w, [rec |-> rec[w], end |-> "whole"])
    BY <1>4, Whole DEF Inv
  <2>2. /\ pc[w] = "append" /\ pc'[w] # "append" /\ UNCHANGED path
        /\ pc' \in [Writers -> PCs]
        /\ \A v \in Writers : pc'[v] = "append" => pc[v] = "append"
    BY <1>4 DEF Inv, TypeOK, WriteLine, PCs
  <2> QED
    BY <2>1, <2>2, SpaceUsed
<1>5. ASSUME NEW w \in Writers, WriteFails(w) \/ Crash(w) PROVE Space'
  <2>1. /\ UNCHANGED path /\ pc'[w] # "append"
        /\ pc' \in [Writers -> PCs]
        /\ \A v \in Writers : pc'[v] = "append" => pc[v] = "append"
        /\ UNCHANGED files \/ (pc[w] = "append" /\ LeavesBehind(w))
    BY <1>5 DEF Inv, TypeOK, WriteFails, Crash, PCs
  <2>2. CASE UNCHANGED files
    BY <1>1, <2>1, <2>2 DEF Pending
  <2>3. CASE pc[w] = "append" /\ LeavesBehind(w)
    <3>1. \E p : Puts(w, p) \/ Touches(w)
      BY <2>3, LeavingBehind DEF Inv
    <3> QED
      BY <2>1, <2>3, <3>1, SpaceUsed
  <2> QED
    BY <2>1, <2>2, <2>3
<1>6. CASE Midnight \/ (\E w \in Writers : Restart(w)) \/ UNCHANGED vars
  BY <1>1, <1>6 DEF Inv, TypeOK, Midnight, Restart, vars, Pending
<1> QED
  BY <1>2, <1>3, <1>4, <1>5, <1>6 DEF Next

LEMMA InitSpace == Init => Space
<1> SUFFICES ASSUME Init, NEW n \in Names
             PROVE  /\ IsFiniteSet(Places(Lines(n)))
                    /\ Size(n) + Cardinality(Pending(n)) <= MaxFileSize - 1 + Cardinality(Writers)
  BY DEF Space
<1>1. Places(Lines(n)) = {}
  BY DEF Init, Lines, Exists, Places
<1>2. Pending(n) = {}
  BY DEF Init, Pending
<1>3. IsFiniteSet(Places(Lines(n))) /\ Size(n) = 0 /\ Cardinality(Pending(n)) = 0
  BY <1>1, <1>2, FS_EmptySet DEF Size
<1> QED
  BY <1>3, PendingFinite, StoreAssumption

\* With any number of writers and whatever fails, a file outgrows its limit by
\* less than one record per writer.
THEOREM SizeIsBounded == Spec => []SizeBounded
<1>1. Inv /\ Space => SizeBounded
  <2> SUFFICES ASSUME Inv, Space, NEW n \in DOMAIN files
               PROVE  Size(n) < MaxFileSize + Cardinality(Writers)
    BY DEF SizeBounded
  <2>1. n \in Names
    BY DEF Inv, TypeOK
  <2>2. Size(n) \in Nat
    BY <2>1, FS_CardinalityType DEF Space, Size
  <2> QED
    BY <2>1, <2>2, PendingFinite, StoreAssumption DEF Space
<1> QED
  BY <1>1, InitInv, StepInv, InitSpace, StepSpace, PTL DEF Spec

-----------------------------------------------------------------------------
PieceAt(n, i, j) == n \in DOMAIN files /\ i \in DOMAIN files[n] /\ j \in DOMAIN files[n][i]

\* What makes acknowledged records last: no piece without its line end is
\* acknowledged or still to be, and no two writers write the same record.
Fresh ==
    /\ \A w \in Writers : Active(w) => rec[w] \notin acked
    /\ \A v, w \in Writers : Active(v) /\ Active(w) /\ v # w => rec[v] # rec[w]
    /\ \A n, i, j : PieceAt(n, i, j) =>
          /\ files[n][i][j].rec <= writes
          /\ files[n][i][j].end # "whole" =>
                /\ files[n][i][j].rec \notin acked
                /\ \A w \in Writers : Active(w) => files[n][i][j].rec # rec[w]

LEMMA PiecesTyped ==
    ASSUME Inv, NEW n, NEW i, NEW j, PieceAt(n, i, j)
    PROVE  files[n][i][j] \in Pieces
BY DEF Inv, TypeOK, PieceAt

\* Every piece after a step of w is an old one or has the record of w.
LEMMA FreshAfter ==
    ASSUME Inv, Inv', Fresh, NEW w \in Writers, Active(w), UNCHANGED <<rec, writes>>,
           pc' = [pc EXCEPT ![w] = pc'[w]], pc'[w] \notin {"rotate", "append"},
           NEW p, \/ Puts(w, p) /\ p.rec = rec[w]
                  \/ Touches(w)
                  \/ UNCHANGED files,
           acked' = acked \/ (acked' = acked \cup {rec[w]} /\ Puts(w, p) /\ p.end = "whole")
    PROVE  Fresh'
<1>1. \A v \in Writers : Active(v)' => Active(v) /\ v # w
  BY DEF Active, Inv, TypeOK
<1>2. ASSUME NEW v \in Writers, Active(v)' PROVE rec'[v] \notin acked'
  BY <1>1, <1>2 DEF Fresh
<1>3. ASSUME NEW u \in Writers, NEW v \in Writers, Active(u)', Active(v)', u # v PROVE rec'[u] # rec'[v]
  BY <1>1, <1>3 DEF Fresh
<1>4. ASSUME NEW n, NEW i, NEW j, PieceAt(n, i, j)'
      PROVE  \/ PieceAt(n, i, j) /\ files'[n][i][j] = files[n][i][j]
             \/ Puts(w, p) /\ p.rec = rec[w] /\ files'[n][i][j] = p
  <2>1. CASE Puts(w, p) /\ p.rec = rec[w]
    <3>1. \A m \in DOMAIN files' : \A k \in DOMAIN files'[m] : \A l \in DOMAIN files'[m][k] :
             \/ files'[m][k][l] = p
             \/ /\ m \in DOMAIN files /\ k \in DOMAIN files[m] /\ l \in DOMAIN files[m][k]
                /\ files'[m][k][l] = files[m][k][l]
      BY <2>1 DEF Puts, Grown
    <3> QED
      BY <1>4, <2>1, <3>1 DEF PieceAt
  <2>2. CASE Touches(w)
    BY <1>4, <2>2 DEF Touches, PieceAt
  <2>3. CASE UNCHANGED files
    BY <1>4, <2>3 DEF PieceAt
  <2> QED
    BY <2>1, <2>2, <2>3
<1>5. ASSUME NEW n, NEW i, NEW j, PieceAt(n, i, j)'
      PROVE  /\ files'[n][i][j].rec <= writes'
             /\ files'[n][i][j].end # "whole" =>
                   /\ files'[n][i][j].rec \notin acked'
                   /\ \A v \in Writers : Active(v)' => files'[n][i][j].rec # rec'[v]
  <2>1. CASE PieceAt(n, i, j) /\ files'[n][i][j] = files[n][i][j]
    BY <1>1, <2>1 DEF Fresh
  <2>2. CASE Puts(w, p) /\ p.rec = rec[w] /\ files'[n][i][j] = p
    <3>1. rec[w] <= writes
      BY DEF Inv, TypeOK
    <3>2. p.end # "whole" => rec[w] \notin acked'
      BY DEF Fresh
    <3>3. \A v \in Writers : Active(v)' => rec[w] # rec'[v]
      BY <1>1 DEF Fresh
    <3> QED
      BY <2>2, <3>1, <3>2, <3>3
  <2> QED
    BY <1>4, <1>5, <2>1, <2>2
<1> QED
  BY <1>2, <1>3, <1>5 DEF Fresh

LEMMA StepFresh == Inv /\ Inv' /\ Fresh /\ [Next]_vars => Fresh'
<1> SUFFICES ASSUME Inv, Inv', Fresh, [Next]_vars PROVE Fresh'
  OBVIOUS
<1>1. ASSUME NEW w \in Writers, BeginWrite(w) PROVE Fresh'
  <2>1. /\ UNCHANGED <<files, acked>>
        /\ rec'[w] = writes + 1 /\ writes' = writes + 1 /\ writes \in Nat
        /\ \A v \in Writers : v # w => rec'[v] = rec[v]
        /\ \A v \in Writers : Active(v)' => v = w \/ Active(v)
        /\ \A v \in Writers : rec[v] <= writes
        /\ acked \subseteq 1 .. writes
    BY <1>1 DEF Inv, TypeOK, BeginWrite, Active
  <2>2. \A n, i, j : PieceAt(n, i, j)' <=> PieceAt(n, i, j)
    BY <2>1 DEF PieceAt
  <2>3. \A n, i, j : PieceAt(n, i, j) => files[n][i][j].rec \in Nat
    BY PiecesTyped DEF Pieces
  <2>4. writes + 1 \notin acked
    BY <2>1
  <2>5. \A v \in Writers : Active(v)' => rec'[v] \notin acked'
    BY <2>1, <2>4 DEF Fresh
  <2>6. \A u, v \in Writers : Active(u)' /\ Active(v)' /\ u # v => rec'[u] # rec'[v]
    <3> SUFFICES ASSUME NEW u \in Writers, NEW v \in Writers, Active(u)', Active(v)', u # v
                 PROVE  rec'[u] # rec'[v]
      OBVIOUS
    <3>1. \A x \in Writers : rec[x] \in 0 .. writes
      BY DEF Inv, TypeOK
    <3>2. CASE u = w \/ v = w
      BY <2>1, <3>1, <3>2
    <3>3. CASE u # w /\ v # w
      BY <2>1, <3>3 DEF Fresh
    <3> QED
      BY <3>2, <3>3
  <2>7. ASSUME NEW n, NEW i, NEW j, PieceAt(n, i, j)
        PROVE  /\ files[n][i][j].rec <= writes'
               /\ files[n][i][j].end # "whole" =>
                     /\ files[n][i][j].rec \notin acked
                     /\ \A v \in Writers : Active(v)' => files[n][i][j].rec # rec'[v]
    <3>1. files[n][i][j].rec \in Nat /\ files[n][i][j].rec <= writes
      BY <2>3, <2>7 DEF Fresh
    <3>2. files[n][i][j].rec # writes + 1 /\ files[n][i][j].rec <= writes'
      BY <2>1, <3>1
    <3> QED
      BY <2>1, <2>7, <3>2 DEF Fresh
  <2> QED
    BY <2>1, <2>2, <2>5, <2>6, <2>7 DEF Fresh
<1>2. ASSUME NEW w \in Writers, WriteLine(w) PROVE Fresh'
  <2> DEFINE p == [rec |-> rec[w], end |-> "whole"]
  <2>1. Puts(w, p) /\ p.rec = rec[w] /\ p.end = "whole"
    BY <1>2, Whole DEF Inv
  <2>2. /\ Active(w) /\ UNCHANGED <<rec, writes>> /\ acked' = acked \cup {rec[w]}
        /\ pc' = [pc EXCEPT ![w] = pc'[w]] /\ pc'[w] \notin {"rotate", "append"}
    BY <1>2 DEF Inv, TypeOK, WriteLine, Active
  <2> HIDE DEF p
  <2> QED
    BY <2>1, <2>2, FreshAfter
<1>3. ASSUME NEW w \in Writers, WriteFails(w) \/ Crash(w) PROVE Fresh'
  <2>1. /\ Active(w) /\ UNCHANGED <<rec, writes, acked>>
        /\ pc' = [pc EXCEPT ![w] = pc'[w]] /\ pc'[w] \notin {"rotate", "append"}
        /\ UNCHANGED files \/ LeavesBehind(w)
    BY <1>3 DEF Inv, TypeOK, WriteFails, Crash, Active
  <2>2. (\E p : Puts(w, p) /\ p.rec = rec[w]) \/ Touches(w) \/ UNCHANGED files
    <3>1. CASE UNCHANGED files
      BY <3>1
    <3>2. CASE Touches(w)
      BY <3>2
    <3>3. ASSUME NEW end \in {"part", "unended"}, Puts(w, [rec |-> rec[w], end |-> end])
          PROVE  \E p : Puts(w, p) /\ p.rec = rec[w]
      <4>1. [rec |-> rec[w], end |-> end].rec = rec[w]
        OBVIOUS
      <4> QED
        BY <3>3, <4>1
    <3> QED
      BY <2>1, <3>1, <3>2, <3>3, LeavingBehind DEF Inv
  <2> QED
    BY <2>1, <2>2, FreshAfter
<1>4. CASE Midnight \/ (\E w \in Writers : Rotate(w) \/ Restart(w)) \/ UNCHANGED vars
  <2>1. /\ UNCHANGED <<files, acked, rec, writes>>
        /\ \A v \in Writers : Active(v)' => Active(v)
    BY <1>4 DEF Inv, TypeOK, Midnight, Rotate, Restart, vars, Active
  <2>2. \A n, i, j : PieceAt(n, i, j)' <=> PieceAt(n, i, j)
    BY <2>1 DEF PieceAt
  <2> QED
    BY <2>1, <2>2 DEF Fresh
<1> QED
  BY <1>1, <1>2, <1>3, <1>4 DEF Next

LEMMA InitFresh == Init => Fresh
BY DEF Init, Fresh, Active, PieceAt

-----------------------------------------------------------------------------
\* A file, a line and whether a record stands at its end.
EndsWith(n, i, r) ==
    /\ n \in DOMAIN files /\ i \in DOMAIN files[n]
    /\ Last(files[n][i]) = [rec |-> r, end |-> "whole"]

Kept == \A r \in acked : \E n, i : EndsWith(n, i, r)

LEMMA StepKept == Inv /\ Kept /\ [Next]_vars => Kept'
<1> SUFFICES ASSUME Inv, Kept, [Next]_vars PROVE Kept'
  OBVIOUS
<1>1. ASSUME NEW w \in Writers, NEW p, Puts(w, p) \/ Touches(w)
      PROVE  \A n, i, r : EndsWith(n, i, r) => EndsWith(n, i, r)'
  <2> SUFFICES ASSUME NEW n, NEW i, NEW r, EndsWith(n, i, r) PROVE EndsWith(n, i, r)'
    OBVIOUS
  <2>1. n \in DOMAIN files /\ i \in DOMAIN files[n] /\ Last(files[n][i]).end = "whole"
    BY DEF EndsWith
  <2>2. n \in DOMAIN files' /\ i \in DOMAIN files'[n] /\ files'[n][i] = files[n][i]
    BY <1>1, <2>1 DEF Puts, Grown, Touches
  <2> QED
    BY <2>2 DEF EndsWith, Last
<1>2. ASSUME NEW w \in Writers, WriteLine(w) PROVE Kept'
  <2> DEFINE p == [rec |-> rec[w], end |-> "whole"]
  <2>1. Puts(w, p)
    BY <1>2, Whole DEF Inv
  <2>2. ASSUME NEW n, NEW r, n = path[w], r = rec[w] PROVE \E i : EndsWith(n, i, r)'
    <3>1. PICK i \in DOMAIN files'[n] : Last(files'[n][i]) = p
      BY <2>1, <2>2 DEF Puts, Grown
    <3>2. n \in DOMAIN files'
      BY <2>1, <2>2 DEF Puts, Grown
    <3> QED
      BY <2>2, <3>1, <3>2 DEF EndsWith, Last
  <2>3. acked' = acked \cup {rec[w]}
    BY <1>2 DEF WriteLine
  <2> QED
    BY <1>1, <2>1, <2>2, <2>3 DEF Kept
<1>3. ASSUME NEW w \in Writers, WriteFails(w) \/ Crash(w) PROVE Kept'
  <2>1. UNCHANGED acked /\ (UNCHANGED files \/ LeavesBehind(w))
    BY <1>3 DEF WriteFails, Crash
  <2>2. CASE UNCHANGED files
    BY <2>1, <2>2 DEF Kept, EndsWith, Last
  <2>3. CASE LeavesBehind(w)
    <3>1. \E p : Puts(w, p) \/ Touches(w)
      BY <2>3, LeavingBehind DEF Inv
    <3> QED
      BY <1>1, <2>1, <3>1 DEF Kept
  <2> QED
    BY <2>1, <2>2, <2>3
<1>4. CASE Midnight \/ (\E w \in Writers : BeginWrite(w) \/ Rotate(w) \/ Restart(w)) \/ UNCHANGED vars
  <2>1. UNCHANGED <<files, acked>>
    BY <1>4 DEF Midnight, BeginWrite, Rotate, Restart, vars
  <2> QED
    BY <2>1 DEF Kept, EndsWith, Last
<1> QED
  BY <1>2, <1>3, <1>4 DEF Next

LEMMA InitKept == Init => Kept
BY DEF Init, Kept

\* For any number of writers, files and failures: an acknowledged record is in
\* its file for good, and only remains of failed writes can stand before it.
THEOREM AcknowledgedIsKept == Spec => []AckedIsKept
<1>1. Inv /\ Fresh /\ Kept => AckedIsKept
  <2> SUFFICES ASSUME Inv, Fresh, Kept, NEW r \in acked
               PROVE  \E n \in DOMAIN files : \E i \in DOMAIN files[n] :
                         /\ files[n][i] # <<>>
                         /\ files[n][i][Len(files[n][i])] = [rec |-> r, end |-> "whole"]
                         /\ \A j \in 1 .. Len(files[n][i]) - 1 :
                               files[n][i][j].end # "whole" /\ files[n][i][j].rec \notin acked
    BY DEF AckedIsKept
  <2>1. PICK n, i : EndsWith(n, i, r)
    BY DEF Kept
  <2>2. n \in DOMAIN files /\ i \in DOMAIN files[n]
    BY <2>1 DEF EndsWith
  <2>3. files[n] \in Seq(Seq(Pieces)) /\ WellFormed(files[n])
    BY <2>2 DEF Inv, TypeOK, FilesWellFormed
  <2>4. files[n][i] \in Seq(Pieces) /\ files[n][i] # <<>>
    BY <2>2, <2>3 DEF WellFormed
  <2>5. files[n][i][Len(files[n][i])] = [rec |-> r, end |-> "whole"]
    BY <2>1 DEF EndsWith, Last
  <2>6. ASSUME NEW j \in 1 .. Len(files[n][i]) - 1
        PROVE  files[n][i][j].end # "whole" /\ files[n][i][j].rec \notin acked
    <3>1. j \in DOMAIN files[n][i] /\ j < Len(files[n][i])
      BY <2>4
    <3>2. files[n][i][j].end # "whole"
      BY <2>2, <2>3, <3>1 DEF WellFormed
    <3>3. PieceAt(n, i, j)
      BY <2>2, <3>1 DEF PieceAt
    <3> QED
      BY <3>2, <3>3 DEF Fresh
  <2> QED
    BY <2>2, <2>4, <2>5, <2>6
<1> QED
  BY <1>1, InitInv, StepInv, InitFresh, StepFresh, InitKept, StepKept, PTL DEF Spec

-----------------------------------------------------------------------------
(* The evidence store is an append-only store. *)

InBounds ==
    /\ today \in 0 .. MaxDay
    /\ writes \in 0 .. MaxWrites
    /\ path \in [Writers -> [day : 0 .. MaxDay, suffix : 0 .. MaxWrites]]

\* Whole records have been acknowledged.
WholeIsAcked ==
    \A n, i, j : PieceAt(n, i, j) /\ files[n][i][j].end = "whole" => files[n][i][j].rec \in acked

LEMMA StepInBounds == Inv /\ InBounds /\ [Next]_vars => InBounds'
<1> SUFFICES ASSUME Inv, InBounds, [Next]_vars PROVE InBounds'
  OBVIOUS
<1> USE StoreAssumption
<1>1. CASE Midnight
  BY <1>1 DEF InBounds, Midnight
<1>2. ASSUME NEW w \in Writers, BeginWrite(w) PROVE InBounds'
  <2>1. Base(today) \in [day : 0 .. MaxDay, suffix : 0 .. MaxWrites]
    BY DEF InBounds, Base
  <2> QED
    BY <1>2, <2>1 DEF InBounds, BeginWrite
<1>3. ASSUME NEW w \in Writers, Rotate(w) PROVE InBounds'
  <2>1. PICK k \in 1 .. MaxWrites : path' = [path EXCEPT ![w] = [day |-> today, suffix |-> k]]
    BY <1>3 DEF Rotate
  <2>2. [day |-> today, suffix |-> k] \in [day : 0 .. MaxDay, suffix : 0 .. MaxWrites]
    BY DEF InBounds
  <2> QED
    BY <1>3, <2>1, <2>2 DEF InBounds, Rotate
<1>4. ASSUME NEW w \in Writers, WriteLine(w) \/ WriteFails(w) \/ Crash(w) \/ Restart(w)
      PROVE  InBounds'
  BY <1>4 DEF InBounds, WriteLine, WriteFails, Crash, Restart
<1>5. CASE UNCHANGED vars
  BY <1>5 DEF InBounds, vars
<1> QED
  BY <1>1, <1>2, <1>3, <1>4, <1>5 DEF Next

LEMMA StepWholeIsAcked == Inv /\ WholeIsAcked /\ [Next]_vars => WholeIsAcked'
<1> SUFFICES ASSUME Inv, WholeIsAcked, [Next]_vars,
                    NEW n, NEW i, NEW j, PieceAt(n, i, j)', files'[n][i][j].end = "whole"
             PROVE  files'[n][i][j].rec \in acked'
  BY DEF WholeIsAcked
<1>1. ASSUME NEW w \in Writers, NEW p, Puts(w, p) \/ Touches(w)
      PROVE  \/ PieceAt(n, i, j) /\ files'[n][i][j] = files[n][i][j]
             \/ Puts(w, p) /\ files'[n][i][j] = p
  <2>1. CASE Puts(w, p)
    BY <2>1 DEF Puts, Grown, PieceAt
  <2>2. CASE Touches(w)
    BY <2>2 DEF Touches, PieceAt
  <2> QED
    BY <1>1, <2>1, <2>2
<1>2. ASSUME NEW w \in Writers, WriteLine(w) PROVE files'[n][i][j].rec \in acked'
  <2> DEFINE p == [rec |-> rec[w], end |-> "whole"]
  <2>1. Puts(w, p) /\ p.rec = rec[w] /\ acked' = acked \cup {rec[w]}
    BY <1>2, Whole DEF Inv, WriteLine
  <2> HIDE DEF p
  <2> QED
    BY <1>1, <2>1 DEF WholeIsAcked
<1>3. ASSUME NEW w \in Writers, LeavesBehind(w), UNCHANGED acked
      PROVE  files'[n][i][j].rec \in acked'
  <2>1. \/ Touches(w)
        \/ \E end \in {"part", "unended"} : Puts(w, [rec |-> rec[w], end |-> end])
    BY <1>3, LeavingBehind DEF Inv
  <2>2. PieceAt(n, i, j) /\ files'[n][i][j] = files[n][i][j]
    BY <1>1, <2>1
  <2> QED
    BY <1>3, <2>2 DEF WholeIsAcked
<1>4. CASE UNCHANGED <<files, acked>>
  BY <1>4 DEF WholeIsAcked, PieceAt
<1>5. \/ UNCHANGED <<files, acked>>
      \/ \E w \in Writers : WriteLine(w) \/ (LeavesBehind(w) /\ UNCHANGED acked)
  BY DEF Next, vars, Midnight, BeginWrite, Rotate, WriteFails, Crash, Restart
<1> QED
  BY <1>2, <1>3, <1>4, <1>5

LEMMA StepStore ==
    Inv /\ Fresh /\ WholeIsAcked /\ InBounds /\ [Next]_vars
        => Store!Next \/ UNCHANGED <<acked, Unended(files), Returned>>
<1> SUFFICES ASSUME Inv, Fresh, WholeIsAcked, InBounds, [Next]_vars
             PROVE  Store!Next \/ UNCHANGED <<acked, Unended(files), Returned>>
  OBVIOUS
<1>1. Intact(files)
  BY DEF Inv, TypeOK, FilesWellFormed, Intact
<1>2. \A n : Lines(n) = LinesIn(files, n)
  BY DEF Lines, LinesIn, Exists
<1>3. ASSUME NEW w \in Writers, Active(w), NEW p \in Pieces, p.rec = rec[w]
      PROVE  Unknown(acked, files, p)
  <2>1. rec[w] \notin acked
    BY <1>3 DEF Fresh
  <2>2. ASSUME NEW n \in DOMAIN files, NEW i \in DOMAIN files[n], NEW j \in DOMAIN files[n][i]
        PROVE  /\ files[n][i][j].rec # rec[w]
               /\ files[n][i][j].end # "whole" => files[n][i][j].rec \notin acked
    <3>1. PieceAt(n, i, j)
      BY <2>2 DEF PieceAt
    <3> QED
      BY <1>3, <2>1, <3>1 DEF Fresh, WholeIsAcked
  <2> QED
    BY <1>3, <2>1, <2>2 DEF Unknown
<1>4. ASSUME NEW w \in Writers, WriteLine(w) PROVE Store!Next
  <2> DEFINE p == [rec |-> rec[w], end |-> "whole"]
  <2> DEFINE m == path[w]
  <2>1. /\ p \in Pieces /\ p.rec = rec[w] /\ p.end = "whole" /\ Active(w)
        /\ files' = Appended(files, m, p)
        /\ acked' = acked \cup {rec[w]} /\ rec[w] \notin acked
    <3>1. p \in Pieces
      BY DEF Inv, TypeOK, Pieces, Ends
    <3>2. Active(w) /\ acked' = acked \cup {rec[w]}
      BY <1>4 DEF Active, WriteLine
    <3>3. files' = Appended(files, m, p)
      BY <1>2, <1>4 DEF WriteLine, AppendTo, Appended
    <3> QED
      BY <3>1, <3>2, <3>3 DEF Fresh
  <2>2. /\ m \in [day : 0 .. MaxDay, suffix : 0 .. MaxWrites]
        /\ rec[w] \in 1 .. MaxWrites
    BY <2>1, StoreAssumption DEF InBounds, Inv, TypeOK
  <2> HIDE DEF p, m
  <2>3. Unknown(acked, files, p)
    BY <1>3, <2>1
  <2>4. IF m \in Unended(files)
        THEN /\ Unended(files)' = Unended(files) \ {m}
             /\ Returned' = Returned
        ELSE /\ Unended(files)' = Unended(files)
             /\ Returned' = Returned \cup {rec[w]}
    BY <1>1, <2>1, <2>3, AcknowledgedAppend DEF Returned
  <2>5. Store!Acknowledge(rec[w])
    BY <2>1 DEF Store!Acknowledge
  <2>6. Store!Keep(m, rec[w]) \/ Store!Lose(m, rec[w])
    BY <2>4, <2>5 DEF Store!Keep, Store!Lose
  <2> QED
    BY <2>2, <2>6 DEF Store!Next
<1>5. ASSUME NEW w \in Writers, Active(w), LeavesBehind(w), UNCHANGED <<acked>>
      PROVE  Store!Next \/ UNCHANGED <<acked, Unended(files), Returned>>
  <2>1. CASE AppendTo(path[w], Lines(path[w]))
    <3>1. files' = [n \in DOMAIN files \cup {path[w]} |->
                       IF n = path[w] THEN LinesIn(files, path[w]) ELSE files[n]]
      BY <1>2, <2>1 DEF AppendTo
    <3>2. Unended(files') = Unended(files) /\ ReadableOf(acked, files') = ReadableOf(acked, files)
      BY <3>1, NothingAppended
    <3>3. Unended(files)' = Unended(files') /\ Returned' = ReadableOf(acked, files')
      BY <1>5 DEF Returned
    <3> QED
      BY <1>5, <3>2, <3>3 DEF Returned
  <2>2. ASSUME NEW end \in {"part", "unended"},
               AppendTo(path[w], WithPiece(Lines(path[w]), [rec |-> rec[w], end |-> end]))
        PROVE  Store!Next \/ UNCHANGED <<acked, Unended(files), Returned>>
    <3> DEFINE p == [rec |-> rec[w], end |-> end]
    <3> DEFINE m == path[w]
    <3>1. p \in Pieces /\ p.rec = rec[w] /\ p.end # "whole" /\ files' = Appended(files, m, p)
      BY <1>2, <2>2 DEF Inv, TypeOK, Pieces, Ends, AppendTo, Appended
    <3>2. m \in [day : 0 .. MaxDay, suffix : 0 .. MaxWrites]
      BY DEF InBounds
    <3> HIDE DEF p, m
    <3>3. Unknown(acked, files, p)
      BY <1>3, <1>5, <3>1
    <3>4. Unended(files') = Unended(files) \cup {m} /\ ReadableOf(acked, files') = ReadableOf(acked, files)
      BY <1>1, <3>1, <3>3, FailedAppend
    <3>5. Unended(files)' = Unended(files') /\ Returned' = Returned
      BY <1>5, <3>4 DEF Returned
    <3>6. CASE m \in Unended(files)
      BY <1>5, <3>4, <3>5, <3>6
    <3>7. CASE m \notin Unended(files)
      <4>1. Store!Fail(m)
        BY <1>5, <3>4, <3>5, <3>7 DEF Store!Fail
      <4> QED
        BY <3>2, <4>1 DEF Store!Next
    <3> QED
      BY <3>6, <3>7
  <2> QED
    BY <1>5, <2>1, <2>2 DEF LeavesBehind, Remains
<1>6. CASE UNCHANGED <<files, acked>>
  BY <1>6 DEF Returned, Unended, ReadableOf
<1>7. \/ UNCHANGED <<files, acked>>
      \/ \E w \in Writers : WriteLine(w) \/ (Active(w) /\ LeavesBehind(w) /\ UNCHANGED <<acked>>)
  BY DEF Next, vars, Midnight, BeginWrite, Rotate, WriteFails, Crash, Restart, Active
<1> QED
  BY <1>4, <1>5, <1>6, <1>7

\* For any number of writers, files and failures: what is read and lost of
\* acknowledged records is what an append-only store allows.
THEOREM StoreImplementsAppendOnly == Spec => ImplementsAppendOnly
<1>1. Init => InBounds /\ WholeIsAcked /\ Store!Init
  <2> SUFFICES ASSUME Init PROVE InBounds /\ WholeIsAcked /\ Store!Init
    OBVIOUS
  <2>1. DOMAIN files = {} /\ acked = {}
    BY DEF Init
  <2>2. InBounds
    BY StoreAssumption DEF Init, InBounds, Base
  <2>3. WholeIsAcked
    BY <2>1 DEF WholeIsAcked, PieceAt
  <2>4. Store!Init
    BY <2>1 DEF Store!Init, Unended, Returned, ReadableOf
  <2> QED
    BY <2>2, <2>3, <2>4
<1>2. Inv /\ Fresh /\ WholeIsAcked /\ InBounds /\ [Next]_vars
          => [Store!Next]_<<acked, Unended(files), Returned>>
  BY StepStore
<1> QED
  BY <1>1, <1>2, InitInv, StepInv, InitFresh, StepFresh, StepWholeIsAcked, StepInBounds, PTL
  DEF Spec, ImplementsAppendOnly, Store!Spec, Store!vars

-----------------------------------------------------------------------------
(* Days that are over.  Of PastIsStable this is all but the sorting of the  *)
(* names and the concatenation of the files.                                *)

\* The step leaves the files of past days alone, and what joins them comes
\* behind them in the order in which they are read.
PastRests ==
    /\ Over \subseteq Over'
    /\ \A n \in Over : files'[n] = files[n]
    /\ \A m \in Over, n \in Over' \ Over : NameBefore(m, n)

LEMMA AppendsOnlyToday ==
    ASSUME Inv, [Next]_vars
    PROVE  /\ today <= today'
           /\ DOMAIN files \subseteq DOMAIN files'
           /\ \A n \in DOMAIN files' :
                 \/ n \in DOMAIN files /\ files'[n] = files[n]
                 \/ \E w \in Writers : pc[w] = "append" /\ n = path[w]
           /\ \A w \in Writers : pc'[w] = "append" =>
                 \/ pc[w] = "append" /\ path'[w] = path[w]
                 \/ path'[w].day = today
<1>1. ASSUME NEW w \in Writers, pc[w] = "append", NEW lines, AppendTo(path[w], lines)
      PROVE  /\ DOMAIN files \subseteq DOMAIN files'
             /\ \A n \in DOMAIN files' :
                   (n \in DOMAIN files /\ files'[n] = files[n]) \/ n = path[w]
  BY <1>1 DEF AppendTo
<1>2. CASE Midnight \/ UNCHANGED vars
  BY <1>2 DEF Inv, TypeOK, Midnight, vars
<1>3. ASSUME NEW w \in Writers, BeginWrite(w) \/ Rotate(w)
      PROVE  /\ today' = today /\ files' = files
             /\ \A v \in Writers : pc'[v] = "append" =>
                   (pc[v] = "append" /\ path'[v] = path[v]) \/ path'[v].day = today
  <2>1. today' = today /\ files' = files
    BY <1>3 DEF BeginWrite, Rotate
  <2>2. \A v \in Writers : v # w => pc'[v] = pc[v] /\ path'[v] = path[v]
    BY <1>3 DEF Inv, TypeOK, BeginWrite, Rotate
  <2>3. path'[w].day = today
    <3>1. ASSUME Rotate(w) PROVE \E k : path' = [path EXCEPT ![w] = [day |-> today, suffix |-> k]]
      BY <3>1 DEF Rotate
    <3>2. ASSUME BeginWrite(w) PROVE path' = [path EXCEPT ![w] = [day |-> today, suffix |-> 0]]
      BY <3>2 DEF BeginWrite, Base
    <3> QED
      BY <1>3, <3>1, <3>2 DEF Inv, TypeOK
  <2> QED
    BY <2>1, <2>2, <2>3
<1>4. ASSUME NEW w \in Writers, WriteLine(w) \/ WriteFails(w) \/ Crash(w) \/ Restart(w)
      PROVE  /\ UNCHANGED <<today, path>>
             /\ \A v \in Writers : pc'[v] = "append" => pc[v] = "append"
             /\ \/ UNCHANGED files
                \/ pc[w] = "append" /\ \E lines : AppendTo(path[w], lines)
  <2>1. UNCHANGED <<today, path>> /\ \A v \in Writers : pc'[v] = "append" => pc[v] = "append"
    BY <1>4 DEF Inv, TypeOK, WriteLine, WriteFails, Crash, Restart
  <2>2. UNCHANGED files \/ (pc[w] = "append" /\ \E lines : AppendTo(path[w], lines))
    BY <1>4 DEF WriteLine, WriteFails, Crash, Restart, LeavesBehind
  <2> QED
    BY <2>1, <2>2
<1>5. today \in Nat
  BY DEF Inv, TypeOK
<1> QED
  BY <1>1, <1>2, <1>3, <1>4, <1>5 DEF Next

\* Whatever writers do, and at any time: nothing is written to a day that is
\* over, and no file joins it.
THEOREM PastDaysRest == Spec => [][PastRests]_vars
<1>1. Inv /\ [Next]_vars => PastRests
  <2> SUFFICES ASSUME Inv, [Next]_vars PROVE PastRests
    OBVIOUS
  <2>1. /\ today \in Nat /\ today' \in Nat
        /\ \A n \in DOMAIN files : n.day \in Nat
        /\ \A w \in Writers : path[w].day \in Nat
    BY StepInv DEF Inv, TypeOK, Names
  <2>2. /\ today <= today'
        /\ DOMAIN files \subseteq DOMAIN files'
        /\ \A n \in DOMAIN files' :
              \/ n \in DOMAIN files /\ files'[n] = files[n]
              \/ \E w \in Writers : pc[w] = "append" /\ n = path[w]
        /\ \A w \in Writers : pc'[w] = "append" =>
              (pc[w] = "append" /\ path'[w] = path[w]) \/ path'[w].day = today
    BY AppendsOnlyToday
  <2>3. ASSUME NEW n \in Over PROVE n \in Over' /\ files'[n] = files[n]
    <3>1. /\ n \in DOMAIN files /\ n.day < today
          /\ \A w \in Writers : pc[w] = "append" => path[w].day > n.day
      BY DEF Over
    <3>2. \A w \in Writers : pc[w] = "append" => n # path[w]
      BY <2>1, <3>1
    <3>3. \A w \in Writers : pc'[w] = "append" => path'[w].day > n.day
      BY <2>1, <2>2, <3>1
    <3>4. n.day < today'
      BY <2>1, <2>2, <3>1
    <3> QED
      BY <2>2, <3>1, <3>2, <3>3, <3>4 DEF Over
  <2>4. ASSUME NEW m \in Over, NEW n \in Over', n \notin Over PROVE m.day < n.day
    <3>1. /\ m \in DOMAIN files /\ m.day < today
          /\ \A w \in Writers : pc[w] = "append" => path[w].day > m.day
      BY DEF Over
    <3>2. n \in DOMAIN files'
      BY DEF Over
    <3>3. CASE n \in DOMAIN files
      <4>1. n.day >= today \/ \E w \in Writers : pc[w] = "append" /\ path[w].day <= n.day
        BY <2>1, <2>4, <3>3 DEF Over
      <4> QED
        BY <2>1, <3>1, <3>3, <4>1
    <3>4. CASE n \notin DOMAIN files
      BY <2>2, <3>1, <3>2, <3>4
    <3> QED
      BY <3>3, <3>4
  <2> QED
    BY <2>3, <2>4 DEF PastRests, NameBefore
<1> QED
  BY <1>1, InitInv, StepInv, PTL DEF Spec

-----------------------------------------------------------------------------
(* The key file. *)

KeyTypes ==
    /\ keys \in Nat /\ forced \in 0 .. MaxForced
    /\ step \in [Procs -> Steps] /\ command \in [Procs -> Commands]
    /\ keyFile \in {NoFile, Torn} \cup (1 .. keys)
    /\ saved \subseteq 1 .. keys
    /\ key \in [Procs -> 0 .. keys]
    /\ \A p \in Procs : step[p] = "save" => key[p] > 0

Writing == {p \in Procs : step[p] = "open"}

\* Once there is a key file there is one for good.
Counted ==
    /\ keyFile = NoFile => keys = 0
    /\ keys + Cardinality(Writing) <= Cardinality(Procs) + forced

IInv == KeyTypes /\ Counted

LEMMA WritingFinite ==
    /\ IsFiniteSet(Writing) /\ Cardinality(Writing) \in Nat
    /\ Cardinality(Writing) <= Cardinality(Procs) /\ Cardinality(Procs) \in Nat
BY LogAssumption, FS_Subset, FS_CardinalityType DEF Writing

LEMMA WritingFiniteNext ==
    /\ IsFiniteSet(Writing') /\ Cardinality(Writing') \in Nat
    /\ Cardinality(Writing') <= Cardinality(Procs)
<1>1. Writing' \subseteq Procs
  BY DEF Writing
<1> QED
  BY <1>1, LogAssumption, FS_Subset, FS_CardinalityType

LEMMA InitIInv == LogInit => IInv
<1> SUFFICES ASSUME LogInit PROVE IInv
  OBVIOUS
<1>1. KeyTypes
  BY LogAssumption DEF LogInit, KeyTypes, Steps, Commands
<1>2. Writing = {}
  BY DEF LogInit, Writing
<1>3. Cardinality(Writing) = 0
  BY <1>2, FS_EmptySet
<1> QED
  BY <1>1, <1>3, WritingFinite DEF LogInit, IInv, Counted

LEMMA StepTypes == IInv /\ [LogNext]_logVars => KeyTypes'
<1> SUFFICES ASSUME IInv, [LogNext]_logVars PROVE KeyTypes'
  OBVIOUS
<1> USE DEF IInv, KeyTypes, Steps, Commands
<1>1. CASE Tick \/ UNCHANGED logVars
  BY <1>1 DEF Tick, logVars
<1>2. ASSUME NEW p \in Procs, Start(p) PROVE KeyTypes'
  BY <1>2 DEF Start, fileVars
<1>3. ASSUME NEW p \in Procs, StartKeygen(p) PROVE KeyTypes'
  BY <1>3, LogAssumption DEF StartKeygen
<1>4. ASSUME NEW p \in Procs, LoadKey(p) PROVE KeyTypes'
  <2>1. keyFile # NoFile /\ keyFile # Torn => keyFile \in 0 .. keys
    OBVIOUS
  <2>2. CASE keyFile = Torn
    BY <1>4, <2>2 DEF LoadKey, fileVars
  <2>3. CASE keyFile = NoFile
    BY <1>4, <2>3 DEF LoadKey, fileVars, NoFile, Torn
  <2>4. CASE keyFile \in 1 .. keys
    BY <1>4, <2>4 DEF LoadKey, fileVars, Torn
  <2> QED
    BY <2>2, <2>3, <2>4
<1>5. ASSUME NEW p \in Procs, OpenKeyFile(p) PROVE KeyTypes'
  BY <1>5 DEF OpenKeyFile, fileVars
<1>6. ASSUME NEW p \in Procs, SaveKey(p) PROVE KeyTypes'
  <2>1. key[p] \in 1 .. keys
    BY <1>6 DEF SaveKey
  <2> QED
    BY <1>6, <2>1 DEF SaveKey, fileVars
<1>7. ASSUME NEW p \in Procs, CreateLeaf(p) \/ AppendLeaf(p) \/ AppendFails(p) \/ Killed(p)
      PROVE  KeyTypes'
  BY <1>7 DEF CreateLeaf, AppendLeaf, AppendFails, Killed, keyVars
<1> QED
  BY <1>1, <1>2, <1>3, <1>4, <1>5, <1>6, <1>7 DEF LogNext

\* A process that goes on to write a key, and one that has begun to.
LEMMA OneMore ==
    ASSUME NEW p \in Procs, Writing' \subseteq Writing \cup {p}
    PROVE  Cardinality(Writing') <= Cardinality(Writing) + 1
<1>1. IsFiniteSet(Writing \cup {p}) /\ Cardinality(Writing \cup {p}) <= Cardinality(Writing) + 1
  <2>1. \/ Cardinality(Writing \cup {p}) = Cardinality(Writing)
        \/ Cardinality(Writing \cup {p}) = Cardinality(Writing) + 1
    BY WritingFinite, FS_AddElement, Zenon
  <2>2. IsFiniteSet(Writing \cup {p})
    BY WritingFinite, FS_AddElement, Zenon
  <2> QED
    BY <2>1, <2>2, WritingFinite
<1>2. Cardinality(Writing') <= Cardinality(Writing \cup {p}) /\ Cardinality(Writing \cup {p}) \in Nat
  BY <1>1, FS_Subset, FS_CardinalityType
<1> QED
  BY <1>1, <1>2, WritingFinite, WritingFiniteNext

LEMMA OneLess ==
    ASSUME NEW p \in Writing, Writing' \subseteq Writing \ {p}
    PROVE  Cardinality(Writing') + 1 <= Cardinality(Writing)
<1>1. IsFiniteSet(Writing \ {p}) /\ Cardinality(Writing \ {p}) = Cardinality(Writing) - 1
  BY WritingFinite, FS_RemoveElement
<1>2. Cardinality(Writing') <= Cardinality(Writing \ {p})
  BY <1>1, FS_Subset
<1> QED
  BY <1>1, <1>2, WritingFinite, WritingFiniteNext

LEMMA NoMore ==
    ASSUME Writing' \subseteq Writing
    PROVE  Cardinality(Writing') <= Cardinality(Writing)
BY WritingFinite, FS_Subset

LEMMA StepCounted == IInv /\ [LogNext]_logVars => Counted'
<1> SUFFICES ASSUME IInv, [LogNext]_logVars PROVE Counted'
  OBVIOUS
<1>0. keys \in Nat /\ forced \in Nat
  BY LogAssumption DEF IInv, KeyTypes
<1>1. ASSUME Writing' \subseteq Writing, UNCHANGED <<keys, keyFile>>,
             forced' \in Nat, forced' >= forced
      PROVE  Counted'
  BY <1>0, <1>1, NoMore, WritingFinite, WritingFiniteNext DEF IInv, Counted
<1>2. ASSUME NEW p \in Procs, Start(p) PROVE Counted'
  <2>1. UNCHANGED <<keys, keyFile, forced>>
    BY <1>2 DEF Start, fileVars
  <2>2. CASE keyFile = NoFile
    BY <1>0, <2>1, <2>2, WritingFiniteNext, WritingFinite DEF IInv, Counted
  <2>3. CASE keyFile # NoFile
    <3>1. Writing' \subseteq Writing
      BY <1>2, <2>3 DEF IInv, KeyTypes, Start, Writing
    <3> QED
      BY <1>0, <1>1, <2>1, <3>1
  <2> QED
    BY <2>2, <2>3
<1>3. ASSUME NEW p \in Procs, StartKeygen(p) PROVE Counted'
  <2>1. UNCHANGED <<keys, keyFile>>
    BY <1>3 DEF StartKeygen
  <2>2. CASE keyFile = NoFile /\ UNCHANGED forced
    BY <1>0, <2>1, <2>2, WritingFiniteNext, WritingFinite DEF IInv, Counted
  <2>3. CASE keyFile # NoFile /\ forced' = forced + 1
    <3>1. Writing' \subseteq Writing \cup {p}
      BY <1>3 DEF IInv, KeyTypes, StartKeygen, Writing
    <3> QED
      BY <1>0, <2>1, <2>3, <3>1, OneMore, WritingFinite, WritingFiniteNext DEF IInv, Counted
  <2> QED
    BY <1>3, <2>2, <2>3 DEF StartKeygen
<1>4. ASSUME NEW p \in Procs, OpenKeyFile(p) PROVE Counted'
  <2>1. keys' = keys + 1 /\ keyFile' = Torn /\ forced' = forced
    BY <1>4 DEF OpenKeyFile, fileVars
  <2>2. p \in Writing /\ Writing' \subseteq Writing \ {p}
    BY <1>4 DEF IInv, KeyTypes, OpenKeyFile, Writing
  <2> QED
    BY <1>0, <2>1, <2>2, OneLess, WritingFinite, WritingFiniteNext DEF IInv, Counted, NoFile, Torn
<1>5. ASSUME NEW p \in Procs, SaveKey(p) PROVE Counted'
  <2>1. UNCHANGED <<keys, forced>> /\ keyFile' # NoFile
    BY <1>5 DEF IInv, KeyTypes, SaveKey, fileVars, NoFile
  <2>2. Writing' \subseteq Writing
    BY <1>5 DEF IInv, KeyTypes, SaveKey, Writing
  <2> QED
    BY <1>0, <2>1, <2>2, NoMore, WritingFinite, WritingFiniteNext DEF IInv, Counted
<1>6. ASSUME NEW p \in Procs,
             LoadKey(p) \/ CreateLeaf(p) \/ AppendLeaf(p) \/ AppendFails(p) \/ Killed(p)
      PROVE  Counted'
  <2>1. UNCHANGED <<keys, keyFile, forced>>
    BY <1>6 DEF LoadKey, CreateLeaf, AppendLeaf, AppendFails, Killed, keyVars, fileVars
  <2>2. Writing' \subseteq Writing
    BY <1>6 DEF IInv, KeyTypes, LoadKey, CreateLeaf, AppendLeaf, AppendFails, Killed, Writing
  <2> QED
    BY <1>0, <1>1, <2>1, <2>2
<1>7. CASE Tick \/ UNCHANGED logVars
  <2>1. UNCHANGED <<keys, keyFile, forced, step>>
    BY <1>7 DEF Tick, logVars
  <2>2. Writing' \subseteq Writing
    BY <2>1 DEF Writing
  <2> QED
    BY <1>0, <1>1, <2>1, <2>2
<1> QED
  BY <1>2, <1>3, <1>4, <1>5, <1>6, <1>7 DEF LogNext

\* For any number of processes and crashes: the number of keys is bounded by
\* the processes that can race for the first one, and the forced ones.
THEOREM KeyCount == LogSpec => []KeysAreFew
<1>1. IInv => KeysAreFew
  BY WritingFinite, LogAssumption DEF IInv, KeyTypes, Counted, KeysAreFew
<1>2. IInv /\ [LogNext]_logVars => IInv'
  BY StepTypes, StepCounted DEF IInv
<1> QED
  BY <1>1, <1>2, InitIInv, PTL DEF LogSpec

-----------------------------------------------------------------------------
\* Whoever signs has a key that has been in the key file; a process loads only
\* when there is a file, and files do not go away.
Records == [key : Nat, at : Int]

Signing ==
    /\ keyFile \in {NoFile, Torn} \cup saved
    /\ \A p \in Procs : step[p] = "load" => keyFile # NoFile
    /\ \A p \in Procs : step[p] = "sign" => key[p] \in saved
    /\ leaves \in Seq(Records)
    /\ \A n \in DOMAIN leaves : leaves[n].key \in saved

\* The key of a leaf has been in the key file.
SignedOnDisk == \A n \in DOMAIN leaves : leaves[n].key \in saved

LEMMA StepSigning == IInv /\ now \in Int /\ Signing /\ [LogNext]_logVars => Signing'
<1> SUFFICES ASSUME IInv, now \in Int, Signing, [LogNext]_logVars PROVE Signing'
  OBVIOUS
<1> USE DEF Signing
<1>0. step \in [Procs -> Steps] /\ key \in [Procs -> 0 .. keys]
  BY DEF IInv, KeyTypes
<1>1. CASE Tick \/ UNCHANGED logVars
  BY <1>1 DEF Tick, logVars
<1>2. ASSUME NEW p \in Procs, Start(p) \/ StartKeygen(p) PROVE Signing'
  BY <1>0, <1>2 DEF Start, StartKeygen, fileVars
<1>3. ASSUME NEW p \in Procs, LoadKey(p) PROVE Signing'
  <2>1. keyFile # NoFile /\ (keyFile # Torn => keyFile \in saved)
    BY <1>3 DEF LoadKey
  <2> QED
    BY <1>0, <1>3, <2>1 DEF LoadKey, fileVars
<1>4. ASSUME NEW p \in Procs, OpenKeyFile(p) PROVE Signing'
  BY <1>0, <1>4 DEF OpenKeyFile, fileVars, NoFile, Torn
<1>5. ASSUME NEW p \in Procs, SaveKey(p) PROVE Signing'
  <2>1. /\ saved' = saved \cup {key[p]} /\ keyFile' = key[p] /\ key' = key /\ leaves' = leaves
        /\ step' = [step EXCEPT ![p] = IF command[p] = "append" THEN "sign" ELSE "start"]
    BY <1>5 DEF SaveKey, fileVars
  <2>2. key[p] # NoFile
    BY <1>5 DEF IInv, KeyTypes, SaveKey, NoFile
  <2> QED
    BY <1>0, <2>1, <2>2
<1>6. ASSUME NEW p \in Procs, CreateLeaf(p) PROVE Signing'
  <2>1. /\ UNCHANGED <<keyFile, saved, key>> /\ step[p] = "sign"
        /\ step' = [step EXCEPT ![p] = step'[p]] /\ step'[p] \in {"append", "start"}
        /\ leaves' = leaves \/ leaves' = Append(leaves, [key |-> key[p], at |-> now])
    BY <1>0, <1>6 DEF CreateLeaf, keyVars
  <2>2. key[p] \in Nat /\ key[p] \in saved
    BY <1>0, <2>1 DEF IInv, KeyTypes
  <2>3. leaves' \in Seq(Records) /\ \A n \in DOMAIN leaves' : leaves'[n].key \in saved
    <3>1. CASE leaves' = leaves
      BY <3>1
    <3>2. CASE leaves' = Append(leaves, [key |-> key[p], at |-> now])
      <4> DEFINE e == [key |-> key[p], at |-> now]
      <4>1. e \in Records /\ e.key \in saved
        BY <2>2 DEF Records
      <4>2. leaves' = Append(leaves, e)
        BY <3>2
      <4> HIDE DEF e
      <4> QED
        BY <4>1, <4>2
    <3> QED
      BY <2>1, <3>1, <3>2
  <2> QED
    BY <1>0, <2>1, <2>3
<1>7. ASSUME NEW p \in Procs, AppendLeaf(p) \/ AppendFails(p) \/ Killed(p) PROVE Signing'
  BY <1>0, <1>7 DEF AppendLeaf, AppendFails, Killed, keyVars
<1> QED
  BY <1>1, <1>2, <1>3, <1>4, <1>5, <1>6, <1>7 DEF LogNext

LEMMA NowIsInt == LogSpec => [](now \in Int)
<1>1. LogInit => now \in Int
  BY LogAssumption DEF LogInit
<1>2. now \in Int /\ [LogNext]_logVars => (now \in Int)'
  <2> SUFFICES ASSUME now \in Int, [LogNext]_logVars PROVE now' \in Int
    OBVIOUS
  <2>1. now' = now \/ now' = now + 1
    BY DEF LogNext, logVars, Tick, Start, StartKeygen, LoadKey, OpenKeyFile, SaveKey,
           CreateLeaf, AppendLeaf, AppendFails, Killed, fileVars, keyVars
  <2> QED
    BY <2>1
<1> QED
  BY <1>1, <1>2, PTL DEF LogSpec

\* No leaf is ever signed with a key that was not saved before: a consumer can
\* have been given the key of every leaf.
THEOREM KeysAreSavedFirst == LogSpec => []SignedOnDisk
<1>1. LogInit => Signing
  BY DEF LogInit, Signing
<1>2. Signing => SignedOnDisk
  BY DEF Signing, SignedOnDisk
<1>3. IInv /\ [LogNext]_logVars => IInv'
  BY StepTypes, StepCounted DEF IInv
<1> QED
  BY <1>1, <1>2, <1>3, InitIInv, StepSigning, NowIsInt, PTL DEF LogSpec

-----------------------------------------------------------------------------
(* The log. *)

Leaf == [key : Nat, at : Nat]

\* What lines and leaves are: time starts with the first whole day and a leaf
\* has the time it was created at; the records of a line are leaves, and the
\* line that an append has returned for ends with its leaf.
LogInv ==
    /\ now \in Nat /\ DayLength <= now /\ (now <= MaxTime \/ now = DayLength)
    /\ leaves \in Seq(Leaf)
    /\ \A n \in DOMAIN leaves : DayLength <= leaves[n].at /\ leaves[n].at <= now
    /\ step \in [Procs -> Steps]
    /\ leaf \in [Procs -> 0 .. Len(leaves)]
    /\ \A p \in Procs : step[p] = "append" => leaf[p] # 0
    /\ appended \subseteq DOMAIN leaves
    /\ Intact(log)
    /\ \A f \in DOMAIN log : \A i \in DOMAIN log[f] : \A j \in DOMAIN log[f][i] :
          log[f][i][j].rec \in DOMAIN leaves

\* File f of a directory has a line that ends with the whole record of leaf n.
Stands(dir, f, n) ==
    f \in DOMAIN dir /\ \E i \in DOMAIN dir[f] : Last(dir[f][i]) = [rec |-> n, end |-> "whole"]

AllAppended == \A n \in appended : Stands(log, LogFile(leaves[n].at), n)

\* An append of some piece of leaf n to its file, or of nothing.
LogStep(n, end) ==
    \/ Grown(log, log', LogFile(leaves[n].at), [rec |-> n, end |-> end])
    \/ /\ end # "whole"
       /\ DOMAIN log' = DOMAIN log \cup {LogFile(leaves[n].at)}
       /\ \A f \in DOMAIN log : log'[f] = log[f]
       /\ \A f \in DOMAIN log' : f \notin DOMAIN log => log'[f] = <<>>

LEMMA AppendingPiece ==
    ASSUME LogInv, NEW n \in DOMAIN leaves, NEW end \in Ends,
           AppendToLog(LogFile(leaves[n].at),
                       WithPiece(LogLines(LogFile(leaves[n].at)), [rec |-> n, end |-> end]))
    PROVE  Grown(log, log', LogFile(leaves[n].at), [rec |-> n, end |-> end])
<1> DEFINE f == LogFile(leaves[n].at)
<1>1. [rec |-> n, end |-> end] \in Pieces
  BY DEF LogInv, Pieces
<1>2. LogLines(f) = LinesIn(log, f)
  BY DEF LogLines, LinesIn
<1>3. Intact(log)
  BY DEF LogInv
<1>4. log' = [g \in DOMAIN log \cup {f} |->
                 IF g = f THEN WithPiece(LinesIn(log, f), [rec |-> n, end |-> end]) ELSE log[g]]
  BY <1>2 DEF AppendToLog
<1> HIDE DEF f
<1>5. Grown(log, log', f, [rec |-> n, end |-> end])
  BY <1>1, <1>3, <1>4, AppendGrows
<1> QED
  BY <1>5 DEF f

LEMMA LogSteps ==
    ASSUME LogInv, NEW p \in Procs, AppendLeaf(p) \/ AppendFails(p)
    PROVE  /\ leaf[p] \in DOMAIN leaves
           /\ AppendLeaf(p) => LogStep(leaf[p], "whole")
           /\ AppendFails(p) => \E end \in {"part", "unended"} : LogStep(leaf[p], end)
<1>1. leaf[p] \in DOMAIN leaves
  BY DEF LogInv, AppendLeaf, AppendFails
<1>2. ASSUME AppendLeaf(p) PROVE LogStep(leaf[p], "whole")
  BY <1>1, <1>2, AppendingPiece DEF AppendLeaf, LogStep, Ends
<1>3. ASSUME AppendFails(p) PROVE \E end \in {"part", "unended"} : LogStep(leaf[p], end)
  <2> DEFINE f == LogFile(leaves[leaf[p]].at)
  <2>1. PICK lines \in Remains(LogLines(f), leaf[p]) : AppendToLog(f, lines)
    BY <1>3 DEF AppendFails
  <2>2. CASE lines = LogLines(f)
    <3>1. LogStep(leaf[p], "part")
      BY <2>1, <2>2 DEF LogStep, AppendToLog, LogLines
    <3> QED
      BY <3>1
  <2>3. ASSUME NEW end \in {"part", "unended"},
               lines = WithPiece(LogLines(f), [rec |-> leaf[p], end |-> end])
        PROVE  LogStep(leaf[p], end)
    BY <1>1, <2>1, <2>3, AppendingPiece DEF LogStep, Ends
  <2> QED
    BY <2>1, <2>2, <2>3 DEF Remains
<1> QED
  BY <1>1, <1>2, <1>3

LEMMA InitLog == LogInit => LogInv /\ AllAppended
<1> SUFFICES ASSUME LogInit PROVE LogInv /\ AllAppended
  OBVIOUS
<1>1. DOMAIN log = {}
  BY DEF LogInit
<1>2. leaves \in Seq(Leaf) /\ DOMAIN leaves = {} /\ appended = {}
  BY DEF LogInit
<1> QED
  BY <1>1, <1>2, LogAssumption DEF LogInit, LogInv, AllAppended, Intact, Steps

LEMMA StepLog == IInv /\ LogInv /\ [LogNext]_logVars => LogInv'
<1> SUFFICES ASSUME IInv, LogInv, [LogNext]_logVars PROVE LogInv'
  OBVIOUS
<1>1. ASSUME NEW p \in Procs, AppendLeaf(p) \/ AppendFails(p) PROVE LogInv'
  <2>1. /\ UNCHANGED <<now, leaves, leaf>> /\ appended' \subseteq appended \cup {leaf[p]}
        /\ step' = [step EXCEPT ![p] = "start"]
    BY <1>1 DEF AppendLeaf, AppendFails, keyVars
  <2>2. leaf[p] \in DOMAIN leaves /\ \E end \in Ends : LogStep(leaf[p], end)
    BY <1>1, LogSteps DEF Ends
  <2>3. PICK end \in Ends : LogStep(leaf[p], end)
    BY <2>2
  <2>4. Intact(log')
    <3>1. <<>> \in Seq(Seq(Pieces)) /\ WellFormed(<<>>)
      BY DEF WellFormed
    <3>2. \A f \in DOMAIN log : log[f] \in Seq(Seq(Pieces)) /\ WellFormed(log[f])
      BY DEF LogInv, Intact
    <3> QED
      BY <2>3, <3>1, <3>2 DEF LogStep, Grown, Intact
  <2>5. ASSUME NEW f \in DOMAIN log', NEW i \in DOMAIN log'[f], NEW j \in DOMAIN log'[f][i]
        PROVE  log'[f][i][j].rec \in DOMAIN leaves
    <3>1. CASE Grown(log, log', LogFile(leaves[leaf[p]].at), [rec |-> leaf[p], end |-> end])
      BY <2>2, <2>5, <3>1 DEF Grown, LogInv
    <3>2. CASE ~Grown(log, log', LogFile(leaves[leaf[p]].at), [rec |-> leaf[p], end |-> end])
      <4>1. log'[f] = log[f] /\ f \in DOMAIN log
        BY <2>3, <2>5, <3>2 DEF LogStep
      <4> QED
        BY <2>5, <4>1 DEF LogInv
    <3> QED
      BY <3>1, <3>2
  <2>6. step' \in [Procs -> Steps] /\ \A q \in Procs : step'[q] = "append" => leaf'[q] # 0
    BY <2>1 DEF LogInv, Steps
  <2> QED
    BY <2>1, <2>2, <2>4, <2>5, <2>6 DEF LogInv, Intact
<1>2. ASSUME NEW p \in Procs, CreateLeaf(p) PROVE LogInv'
  <2>1. /\ UNCHANGED <<now, log, appended>> /\ now \in Nat /\ DayLength <= now
        /\ key[p] \in Nat
    BY <1>2 DEF CreateLeaf, keyVars, IInv, KeyTypes, LogInv
  <2>2. step' \in [Procs -> Steps] /\ step' = [step EXCEPT ![p] = step'[p]]
    BY <1>2 DEF CreateLeaf, LogInv, Steps
  <2>3. CASE UNCHANGED <<leaves, leaf>> /\ step'[p] = "start"
    BY <2>1, <2>2, <2>3 DEF LogInv, Intact
  <2>4. CASE /\ leaves' = Append(leaves, [key |-> key[p], at |-> now])
             /\ leaf' = [leaf EXCEPT ![p] = Len(leaves) + 1]
    <3> DEFINE e == [key |-> key[p], at |-> now]
    <3>1. e \in Leaf /\ e.at = now
      BY <2>1 DEF Leaf
    <3>2. leaves' = Append(leaves, e) /\ leaves \in Seq(Leaf)
      BY <2>4 DEF LogInv
    <3> HIDE DEF e
    <3>3. /\ leaves' \in Seq(Leaf) /\ Len(leaves') = Len(leaves) + 1
          /\ DOMAIN leaves \subseteq DOMAIN leaves'
          /\ \A n \in DOMAIN leaves' : DayLength <= leaves'[n].at /\ leaves'[n].at <= now
      BY <3>1, <3>2, <2>1 DEF LogInv
    <3>4. leaf' \in [Procs -> 0 .. Len(leaves')] /\ \A q \in Procs : step'[q] = "append" => leaf'[q] # 0
      BY <2>2, <2>4, <3>3 DEF LogInv
    <3> QED
      BY <2>1, <2>2, <3>3, <3>4 DEF LogInv, Intact
  <2> QED
    BY <1>2, <2>3, <2>4 DEF CreateLeaf, LogInv
<1>3. CASE Tick
  <2>1. /\ UNCHANGED <<leaves, log, appended, leaf, step>>
        /\ now' \in Nat /\ now' <= MaxTime /\ now <= now' /\ DayLength <= now'
    BY <1>3, LogAssumption DEF Tick, LogInv
  <2>2. ASSUME NEW n \in DOMAIN leaves PROVE leaves[n].at <= now'
    <3>0. leaves[n] \in Leaf
      BY DEF LogInv
    <3>1. leaves[n].at \in Nat /\ leaves[n].at <= now /\ now \in Nat
      BY <3>0 DEF LogInv, Leaf
    <3> QED
      BY <2>1, <3>1
  <2> QED
    BY <2>1, <2>2 DEF LogInv, Intact
<1>4. ASSUME NEW p \in Procs,
             Start(p) \/ StartKeygen(p) \/ LoadKey(p) \/ OpenKeyFile(p) \/ SaveKey(p) \/ Killed(p)
      PROVE  LogInv'
  <2>1. /\ UNCHANGED <<now, leaves, log, appended, leaf>>
        /\ step' = [step EXCEPT ![p] = step'[p]] /\ step'[p] \in Steps \ {"append"}
    BY <1>4 DEF Start, StartKeygen, LoadKey, OpenKeyFile, SaveKey, Killed,
               fileVars, keyVars, LogInv, Steps
  <2> QED
    BY <2>1 DEF LogInv, Intact
<1>5. CASE UNCHANGED logVars
  BY <1>5 DEF logVars, LogInv, Intact
<1> QED
  BY <1>1, <1>2, <1>3, <1>4, <1>5 DEF LogNext

\* A line that ends with the whole record of a leaf stays as it is.
LEMMA LineStays ==
    ASSUME LogInv, NEW n \in DOMAIN leaves, NEW end \in Ends, LogStep(n, end),
           NEW f, NEW m, Stands(log, f, m)
    PROVE  Stands(log', f, m)
<1>1. PICK i \in DOMAIN log[f] : Last(log[f][i]) = [rec |-> m, end |-> "whole"]
  BY DEF Stands
<1>2. f \in DOMAIN log /\ Last(log[f][i]).end = "whole"
  BY <1>1 DEF Stands
<1>3. f \in DOMAIN log' /\ i \in DOMAIN log'[f] /\ log'[f][i] = log[f][i]
  BY <1>2 DEF LogStep, Grown
<1> QED
  BY <1>1, <1>3 DEF Stands

LEMMA StepAppended == LogInv /\ AllAppended /\ [LogNext]_logVars => AllAppended'
<1> SUFFICES ASSUME LogInv, AllAppended, [LogNext]_logVars, NEW n \in appended'
             PROVE  Stands(log', LogFile(leaves'[n].at), n)
  BY DEF AllAppended, LogFile, Stands
<1>1. ASSUME n \in appended, leaves'[n] = leaves[n],
             \A f : Stands(log, f, n) => Stands(log', f, n)
      PROVE  Stands(log', LogFile(leaves'[n].at), n)
  BY <1>1 DEF AllAppended
<1>2. ASSUME NEW p \in Procs, AppendLeaf(p) \/ AppendFails(p)
      PROVE  Stands(log', LogFile(leaves'[n].at), n)
  <2>1. leaves' = leaves
    BY <1>2 DEF AppendLeaf, AppendFails
  <2>2. leaf[p] \in DOMAIN leaves /\ \E end \in Ends : LogStep(leaf[p], end)
    BY <1>2, LogSteps DEF Ends
  <2>3. \A f : Stands(log, f, n) => Stands(log', f, n)
    BY <2>2, LineStays
  <2>4. CASE n \in appended
    BY <1>1, <2>1, <2>3, <2>4
  <2>5. CASE n \notin appended
    <3>1. AppendLeaf(p) /\ n = leaf[p]
      BY <1>2, <2>5 DEF AppendLeaf, AppendFails
    <3>2. Grown(log, log', LogFile(leaves[n].at), [rec |-> n, end |-> "whole"])
      BY <3>1, LogSteps DEF LogStep
    <3>3. Stands(log', LogFile(leaves[n].at), n)
      BY <3>2 DEF Grown, Stands
    <3> QED
      BY <2>1, <3>3
  <2> QED
    BY <2>4, <2>5
<1>3. CASE UNCHANGED <<log, appended>> /\ \A m \in DOMAIN leaves : leaves'[m] = leaves[m]
  <2>1. n \in appended /\ leaves'[n] = leaves[n]
    BY <1>3 DEF LogInv
  <2> QED
    BY <1>1, <1>3, <2>1
<1>4. ASSUME NEW p \in Procs,
             \/ Start(p) \/ StartKeygen(p) \/ LoadKey(p) \/ OpenKeyFile(p) \/ SaveKey(p)
             \/ CreateLeaf(p) \/ Killed(p)
      PROVE  UNCHANGED <<log, appended>> /\ \A m \in DOMAIN leaves : leaves'[m] = leaves[m]
  <2>1. CASE CreateLeaf(p)
    <3>1. UNCHANGED <<log, appended>>
      BY <2>1 DEF CreateLeaf
    <3>2. leaves' = leaves \/ leaves' = Append(leaves, [key |-> key[p], at |-> now])
      BY <2>1 DEF CreateLeaf
    <3>3. ASSUME NEW e PROVE \A m \in DOMAIN leaves : Append(leaves, e)[m] = leaves[m]
      BY DEF LogInv
    <3> QED
      BY <3>1, <3>2, <3>3
  <2>2. CASE ~CreateLeaf(p)
    BY <1>4, <2>2 DEF Start, StartKeygen, LoadKey, OpenKeyFile, SaveKey, Killed, fileVars, keyVars
  <2> QED
    BY <2>1, <2>2
<1>5. CASE Tick \/ UNCHANGED logVars
  BY <1>3, <1>5 DEF Tick, logVars
<1> QED
  BY <1>2, <1>3, <1>4, <1>5 DEF LogNext

\* The leaves of one key take different lines of their file, and each of those
\* lines is valid or damaged.
LEMMA CountedLines ==
    ASSUME LogInv, AllAppended, NEW f \in DOMAIN log, NEW k
    PROVE  LET mine == {n \in appended : leaves[n].key = k /\ LogFile(leaves[n].at) = f}
               damaged == {i \in DOMAIN log[f] : ~IsReadable(log[f][i])}
               result == VerifyLogFile(f, k)
           IN  /\ Cardinality(mine) <= result.valid + Cardinality(damaged)
               /\ Cardinality(damaged) <= result.invalid
               /\ CanRead(f) => mine \subseteq ReadLogFile(f)
<1> DEFINE lines == log[f]
<1> DEFINE mine == {n \in appended : leaves[n].key = k /\ LogFile(leaves[n].at) = f}
<1> DEFINE damaged == {i \in DOMAIN lines : ~IsReadable(lines[i])}
<1> DEFINE valid == {i \in DOMAIN lines : IsReadable(lines[i]) /\ leaves[lines[i][1].rec].key = k}
<1> DEFINE place == [n \in mine |-> 
                       CHOOSE i \in DOMAIN lines : Last(lines[i]) = [rec |-> n, end |-> "whole"]]
<1>1. LogLines(f) = lines /\ lines \in Seq(Seq(Pieces))
  BY DEF LogLines, LogInv, Intact
<1>2. ASSUME NEW n \in mine
      PROVE  place[n] \in DOMAIN lines /\ Last(lines[place[n]]).rec = n
  <2>1. \E i \in DOMAIN lines : Last(lines[i]) = [rec |-> n, end |-> "whole"]
    BY DEF AllAppended, Stands
  <2>2. place[n] \in DOMAIN lines /\ Last(lines[place[n]]) = [rec |-> n, end |-> "whole"]
    BY <2>1
  <2> QED
    BY <2>2
<1> HIDE DEF place
<1>3. ASSUME NEW n \in mine, IsReadable(lines[place[n]]) PROVE lines[place[n]][1].rec = n
  <2>1. Len(lines[place[n]]) = 1
    BY <1>3 DEF IsReadable
  <2> QED
    BY <1>2, <2>1 DEF Last
<1>4. \A n \in mine : place[n] \in valid \cup damaged
  BY <1>2, <1>3
<1>5. /\ IsFiniteSet(DOMAIN lines) /\ Cardinality(DOMAIN lines) = Len(lines)
  <2>1. DOMAIN lines = 1 .. Len(lines) /\ Len(lines) \in Nat
    BY <1>1
  <2> QED
    BY <2>1, FS_Interval
<1>6. /\ IsFiniteSet(valid) /\ IsFiniteSet(damaged)
      /\ Cardinality(valid) \in Nat /\ Cardinality(damaged) \in Nat
  BY <1>5, FS_Subset, FS_CardinalityType
<1>7. /\ IsFiniteSet(valid \cup damaged)
      /\ Cardinality(valid \cup damaged) = Cardinality(valid) + Cardinality(damaged)
  <2>1. valid \cap damaged = {}
    OBVIOUS
  <2> HIDE DEF valid, damaged
  <2>2. Cardinality(valid \cap damaged) = 0
    BY <2>1, FS_EmptySet
  <2>3. /\ IsFiniteSet(valid \cup damaged)
        /\ Cardinality(valid \cup damaged)
             = Cardinality(valid) + Cardinality(damaged) - Cardinality(valid \cap damaged)
    BY <1>6, FS_Union, Zenon
  <2> QED
    BY <1>6, <2>2, <2>3
<1>8. Cardinality(valid) + Cardinality(damaged) <= Len(lines)
  <2>1. valid \cup damaged \subseteq DOMAIN lines
    OBVIOUS
  <2> HIDE DEF valid, damaged
  <2> QED
    BY <1>5, <1>7, <2>1, FS_Subset
<1>9. Cardinality(mine) <= Cardinality(valid \cup damaged)
  <2>1. \A m, n \in mine : place[m] = place[n] => m = n
    BY <1>2
  <2>2. place \in Injection(mine, valid \cup damaged)
    BY <1>4, <2>1 DEF Injection, IsInjective, place
  <2> HIDE DEF place, mine, valid, damaged
  <2> QED
    BY <1>7, <2>2, FS_Injection
<1>10. CanRead(f) => mine \subseteq ReadLogFile(f)
  <2> SUFFICES ASSUME CanRead(f), NEW n \in mine PROVE n \in ReadLogFile(f)
    OBVIOUS
  <2>1. IsReadable(lines[place[n]])
    BY <1>1, <1>2 DEF CanRead
  <2> QED
    BY <1>1, <1>2, <1>3, <2>1 DEF ReadLogFile
<1>11. VerifyLogFile(f, k) = [valid |-> Cardinality(valid), invalid |-> Len(lines) - Cardinality(valid)]
  BY <1>1 DEF VerifyLogFile
<1> HIDE DEF valid, damaged, mine, lines
<1>12. Len(lines) \in Nat
  BY <1>1
<1>13. /\ Cardinality(mine) <= VerifyLogFile(f, k).valid + Cardinality(damaged)
       /\ Cardinality(damaged) <= VerifyLogFile(f, k).invalid
  BY <1>6, <1>7, <1>8, <1>9, <1>11, <1>12
<1> QED
  BY <1>10, <1>13 DEF mine, damaged, lines

\* For any number of processes, and whatever is cut off: an acknowledged leaf
\* verifies under its key, or the verification reports the line it is lost on.
THEOREM AppendedAreAccounted == LogSpec => []AcknowledgedIsAccounted
<1>1. LogInv /\ AllAppended => AcknowledgedIsAccounted
  BY CountedLines DEF AcknowledgedIsAccounted
<1>2. IInv /\ [LogNext]_logVars => IInv'
  BY StepTypes, StepCounted DEF IInv
<1> QED
  BY <1>1, <1>2, InitIInv, InitLog, StepLog, StepAppended, PTL DEF LogSpec

-----------------------------------------------------------------------------
\* A whole number of days moves the quotient by as much.
LEMMA WholeDays ==
    ASSUME NEW d \in Int, NEW z \in Int, NEW b \in Nat \ {0}
    PROVE  (d * b + z) \div b = d + (z \div b)
OBVIOUS

\* A zone is at most a day from UTC.
LEMMA ZoneDays ==
    ASSUME NEW t \in Nat, NEW b \in Nat \ {0}, NEW z \in -b .. b
    PROVE  (t + z) \div b - (z \div b) - (t \div b) \in -1 .. 1
OBVIOUS

\* A log file is the one of a single date: moving by whole days moves its name
\* by as many, and the name of a moment is at most a day from that of its date.
THEOREM LeafDates == LogSpec => []LeafHasOneDate
<1>1. LogInv => LeafHasOneDate
  <2> SUFFICES ASSUME LogInv, NEW n \in appended
               PROVE  LET dates == {d \in 0 .. DateOf(MaxTime) + 2 :
                                       FileOf(d) = LogFile(leaves[n].at)}
                      IN  /\ Cardinality(dates) = 1
                          /\ \A d \in dates : d - DateOf(leaves[n].at) \in -1 .. 1
    BY DEF LeafHasOneDate
  <2> DEFINE at == leaves[n].at
  <2> DEFINE dates == {d \in 0 .. DateOf(MaxTime) + 2 : FileOf(d) = LogFile(at)}
  <2> DEFINE date == LogFile(at) - (Zone \div DayLength)
  <2>1. at \in Nat /\ DayLength <= at /\ (at <= MaxTime \/ at = DayLength)
    <3>1. n \in DOMAIN leaves /\ leaves[n] \in Leaf
      BY DEF LogInv
    <3> QED
      BY <3>1, LogAssumption DEF LogInv, Leaf
  <2> HIDE DEF at
  <2>2. DayLength \in Nat \ {0} /\ Zone \in -DayLength .. DayLength /\ MaxTime \in Nat
    BY LogAssumption
  <2>3. Zone \div DayLength \in Int /\ LogFile(at) \in Int
    BY <2>1, <2>2 DEF LogFile
  <2>4. ASSUME NEW d \in Nat PROVE FileOf(d) = d + (Zone \div DayLength)
    <3>1. Zone \in Int /\ d \in Int
      BY <2>2
    <3>2. (d * DayLength + Zone) \div DayLength = d + (Zone \div DayLength)
      BY <2>2, <3>1, WholeDays, Zenon
    <3> QED
      BY <3>2 DEF FileOf, LogFile
  <2>5. date - DateOf(at) \in -1 .. 1
    <3>1. LogFile(at) - (Zone \div DayLength) - DateOf(at) \in -1 .. 1
      BY <2>1, <2>2, ZoneDays DEF LogFile, DateOf
    <3> QED
      BY <3>1
  <2>6. DateOf(at) \in 1 .. DateOf(MaxTime) + 1
    <3>1. DateOf(at) \in Nat /\ 1 <= DateOf(at) /\ DateOf(MaxTime) \in Nat
      BY <2>1, <2>2 DEF DateOf
    <3>2. CASE at = DayLength
      BY <2>2, <3>1, <3>2 DEF DateOf
    <3>3. CASE at <= MaxTime
      BY <2>1, <2>2, <3>1, <3>3 DEF DateOf
    <3> QED
      BY <2>1, <3>2, <3>3
  <2>7. date \in 0 .. DateOf(MaxTime) + 2
    <3>1. date \in Int /\ DateOf(MaxTime) \in Nat
      BY <2>2, <2>3 DEF DateOf
    <3> HIDE DEF date
    <3> QED
      BY <2>5, <2>6, <3>1
  <2>8. dates = {date}
    <3>1. ASSUME NEW d \in 0 .. DateOf(MaxTime) + 2
          PROVE  FileOf(d) = LogFile(at) <=> d = date
      <4>1. d \in Nat
        BY <2>2 DEF DateOf
      <4>2. FileOf(d) = d + (Zone \div DayLength)
        BY <2>4, <4>1
      <4> QED
        BY <2>3, <4>1, <4>2
    <3> HIDE DEF date
    <3> QED
      BY <2>7, <3>1
  <2>9. Cardinality(dates) = 1
    <3> HIDE DEF dates, date
    <3> QED
      BY <2>8, FS_Singleton
  <2>10. \A d \in dates : d - DateOf(at) \in -1 .. 1
    <3> HIDE DEF dates, date
    <3> QED
      BY <2>5, <2>8
  <2> QED
    BY <2>9, <2>10 DEF at
<1>2. IInv /\ [LogNext]_logVars => IInv'
  BY StepTypes, StepCounted DEF IInv
<1> QED
  BY <1>1, <1>2, InitIInv, InitLog, StepLog, PTL DEF LogSpec

-----------------------------------------------------------------------------
LEMMA SeqOfOthers ==
    ASSUME NEW S, NEW T, NEW s \in Seq(S), \A i \in DOMAIN s : s[i] \in T
    PROVE  s \in Seq(T)
OBVIOUS

\* Every variable of the log has its type: leaves name saved keys, and lines
\* name leaves.
THEOREM LogTypes == LogSpec => []LogTypeOK
<1>1. IInv /\ Signing /\ LogInv => LogTypeOK
  <2> SUFFICES ASSUME IInv, Signing, LogInv PROVE LogTypeOK
    OBVIOUS
  <2>1. ASSUME NEW n \in DOMAIN leaves PROVE leaves[n] \in [key : saved, at : 0 .. now]
    <3>1. leaves[n] \in Leaf /\ leaves[n].key \in saved
      BY DEF LogInv, Signing
    <3>2. leaves[n].at \in 0 .. now
      BY <3>1 DEF LogInv, Leaf
    <3> QED
      BY <3>1, <3>2 DEF Leaf
  <2>2. leaves \in Seq([key : saved, at : 0 .. now])
    BY <2>1, SeqOfOthers DEF LogInv
  <2>3. ASSUME NEW f \in DOMAIN log PROVE log[f] \in Seq(Seq([rec : DOMAIN leaves, end : Ends]))
    <3>1. log[f] \in Seq(Seq(Pieces))
      BY DEF LogInv, Intact
    <3>2. ASSUME NEW i \in DOMAIN log[f] PROVE log[f][i] \in Seq([rec : DOMAIN leaves, end : Ends])
      <4>1. log[f][i] \in Seq(Pieces)
        BY <3>1
      <4>2. ASSUME NEW j \in DOMAIN log[f][i]
            PROVE  log[f][i][j] \in [rec : DOMAIN leaves, end : Ends]
        <5>1. log[f][i][j] \in Pieces /\ log[f][i][j].rec \in DOMAIN leaves
          BY <4>1 DEF LogInv
        <5> QED
          BY <5>1 DEF Pieces
      <4> QED
        BY <4>1, <4>2, SeqOfOthers
    <3> QED
      BY <3>1, <3>2, SeqOfOthers
  <2> QED
    BY <2>2, <2>3 DEF IInv, KeyTypes, Signing, LogInv, LogTypeOK
<1>2. LogInit => Signing
  BY DEF LogInit, Signing
<1>3. IInv /\ [LogNext]_logVars => IInv'
  BY StepTypes, StepCounted DEF IInv
<1> QED
  BY <1>1, <1>2, <1>3, InitIInv, StepSigning, NowIsInt, InitLog, StepLog, PTL DEF LogSpec

-----------------------------------------------------------------------------
(* The log is an append-only store. *)

\* No leaf is appended twice, and a piece without its end is of none that has
\* been acknowledged or still may be.
LogFresh ==
    /\ Len(leaves) <= MaxLeaves
    /\ \A p \in Procs : step[p] = "append" => leaf[p] \notin appended
    /\ \A p, q \in Procs : step[p] = "append" /\ step[q] = "append" /\ p # q => leaf[p] # leaf[q]
    /\ \A f \in DOMAIN log : \A i \in DOMAIN log[f] : \A j \in DOMAIN log[f][i] :
          /\ log[f][i][j].rec \in appended <=> log[f][i][j].end = "whole"
          /\ \A p \in Procs : step[p] = "append" => log[f][i][j].rec # leaf[p]

LEMMA StepLogFresh == IInv /\ LogInv /\ LogFresh /\ [LogNext]_logVars => LogFresh'
<1> SUFFICES ASSUME IInv, LogInv, LogFresh, [LogNext]_logVars PROVE LogFresh'
  OBVIOUS
<1>1. ASSUME NEW p \in Procs, AppendLeaf(p) \/ AppendFails(p) PROVE LogFresh'
  <2>1. /\ UNCHANGED <<leaves, leaf>> /\ step[p] = "append"
        /\ \A q \in Procs : step'[q] = "append" => step[q] = "append" /\ q # p
    BY <1>1 DEF AppendLeaf, AppendFails, LogInv
  <2>2. leaf[p] \in DOMAIN leaves /\ leaf[p] \notin appended
    BY <1>1, <2>1, LogSteps DEF LogFresh
  <2>3. PICK end \in Ends : /\ LogStep(leaf[p], end)
                            /\ appended' = IF end = "whole" THEN appended \cup {leaf[p]} ELSE appended
    <3>1. CASE AppendLeaf(p)
      BY <3>1, LogSteps DEF AppendLeaf, Ends
    <3>2. CASE AppendFails(p)
      BY <3>2, LogSteps DEF AppendFails, Ends
    <3> QED
      BY <1>1, <3>1, <3>2
  <2>4. \A q \in Procs : step'[q] = "append" => leaf'[q] \notin appended'
    BY <2>1, <2>3 DEF LogFresh
  <2>5. ASSUME NEW f \in DOMAIN log', NEW i \in DOMAIN log'[f], NEW j \in DOMAIN log'[f][i]
        PROVE  /\ log'[f][i][j].rec \in appended' <=> log'[f][i][j].end = "whole"
               /\ \A q \in Procs : step'[q] = "append" => log'[f][i][j].rec # leaf[q]
    <3> DEFINE new == [rec |-> leaf[p], end |-> end]
    <3>1. \/ log'[f][i][j] = new
          \/ /\ f \in DOMAIN log /\ i \in DOMAIN log[f] /\ j \in DOMAIN log[f][i]
             /\ log'[f][i][j] = log[f][i][j]
      <4>1. CASE Grown(log, log', LogFile(leaves[leaf[p]].at), new)
        BY <2>5, <4>1 DEF Grown
      <4>2. CASE ~Grown(log, log', LogFile(leaves[leaf[p]].at), new)
        <5>1. log'[f] = log[f] /\ f \in DOMAIN log
          BY <2>3, <2>5, <4>2 DEF LogStep
        <5> QED
          BY <2>5, <5>1
      <4> QED
        BY <4>1, <4>2
    <3>2. CASE log'[f][i][j] = new
      BY <2>1, <2>2, <2>3, <3>2 DEF LogFresh
    <3>3. CASE /\ f \in DOMAIN log /\ i \in DOMAIN log[f] /\ j \in DOMAIN log[f][i]
               /\ log'[f][i][j] = log[f][i][j]
      BY <2>1, <2>3, <3>3 DEF LogFresh
    <3> QED
      BY <3>1, <3>2, <3>3
  <2> QED
    BY <2>1, <2>4, <2>5 DEF LogFresh
<1>2. ASSUME NEW p \in Procs, CreateLeaf(p) PROVE LogFresh'
  <2>1. UNCHANGED <<log, appended>> /\ step' = [step EXCEPT ![p] = step'[p]]
    BY <1>2 DEF CreateLeaf, LogInv, Steps
  <2>2. CASE UNCHANGED <<leaves, leaf>> /\ step'[p] = "start"
    BY <2>1, <2>2 DEF LogInv, LogFresh
  <2>3. CASE /\ Len(leaves) < MaxLeaves
             /\ leaves' = Append(leaves, [key |-> key[p], at |-> now])
             /\ leaf' = [leaf EXCEPT ![p] = Len(leaves) + 1]
    <3>1. Len(leaves') = Len(leaves) + 1 /\ Len(leaves) \in Nat /\ DOMAIN leaves = 1 .. Len(leaves)
      BY <2>3 DEF LogInv
    <3>2. Len(leaves') <= MaxLeaves
      BY <2>3, <3>1, LogAssumption
    <3>3. Len(leaves) + 1 \notin DOMAIN leaves
      BY <3>1
    <3>4. /\ leaf'[p] = Len(leaves) + 1
          /\ \A q \in Procs : q # p => leaf'[q] = leaf[q] /\ (step'[q] = "append" => step[q] = "append")
          /\ \A q \in Procs : step[q] = "append" => leaf[q] \in DOMAIN leaves
      BY <2>1, <2>3, <3>1 DEF LogInv
    <3>5. \A q \in Procs : step'[q] = "append" => leaf'[q] \notin appended'
      BY <2>1, <3>3, <3>4 DEF LogInv, LogFresh
    <3>6. \A q, r \in Procs :
             step'[q] = "append" /\ step'[r] = "append" /\ q # r => leaf'[q] # leaf'[r]
      BY <3>3, <3>4 DEF LogFresh
    <3>7. \A f \in DOMAIN log : \A i \in DOMAIN log[f] : \A j \in DOMAIN log[f][i] :
             \A q \in Procs : step'[q] = "append" => log[f][i][j].rec # leaf'[q]
      BY <3>3, <3>4 DEF LogInv, LogFresh
    <3> QED
      BY <2>1, <3>2, <3>5, <3>6, <3>7 DEF LogFresh
  <2> QED
    BY <1>2, <2>2, <2>3 DEF CreateLeaf, LogInv
<1>3. ASSUME NEW p \in Procs,
             Start(p) \/ StartKeygen(p) \/ LoadKey(p) \/ OpenKeyFile(p) \/ SaveKey(p) \/ Killed(p)
      PROVE  LogFresh'
  <2>1. /\ UNCHANGED <<leaves, log, appended, leaf>>
        /\ step' = [step EXCEPT ![p] = step'[p]] /\ step'[p] # "append"
    BY <1>3 DEF Start, StartKeygen, LoadKey, OpenKeyFile, SaveKey, Killed,
               fileVars, keyVars, LogInv, Steps
  <2>2. \A q \in Procs : step'[q] = "append" => step[q] = "append"
    BY <2>1 DEF LogInv
  <2> QED
    BY <2>1, <2>2 DEF LogFresh
<1>4. CASE Tick \/ UNCHANGED logVars
  BY <1>4 DEF Tick, logVars, LogFresh
<1> QED
  BY <1>1, <1>2, <1>3, <1>4 DEF LogNext

LEMMA StepLogStore ==
    LogInv /\ LogFresh /\ [LogNext]_logVars
        => LogStore!Next \/ UNCHANGED <<appended, Unended(log), ReadableOf(appended, log)>>
<1> DEFINE InLog == ReadableOf(appended, log)
<1> SUFFICES ASSUME LogInv, LogFresh, [LogNext]_logVars
             PROVE  LogStore!Next \/ UNCHANGED <<appended, Unended(log), InLog>>
  OBVIOUS
<1>1. Intact(log) /\ \A f : LogLines(f) = LinesIn(log, f)
  BY DEF LogInv, LogLines, LinesIn
<1>2. ASSUME NEW p \in Procs, step[p] = "append", NEW new \in Pieces, new.rec = leaf[p]
      PROVE  Unknown(appended, log, new)
  BY <1>2 DEF LogFresh, Unknown
<1>3. ASSUME NEW p \in Procs, step[p] = "append"
      PROVE  /\ leaf[p] \in 1 .. MaxLeaves /\ leaf[p] \in Nat
             /\ LogFile(leaves[leaf[p]].at) \in {LogFile(t) : t \in DayLength .. DayLength + MaxTime}
  <2>1. leaf[p] \in DOMAIN leaves /\ DOMAIN leaves = 1 .. Len(leaves) /\ Len(leaves) \in Nat
    BY <1>3 DEF LogInv
  <2>2. leaf[p] \in 1 .. MaxLeaves
    BY <2>1, LogAssumption DEF LogFresh
  <2>3. leaves[leaf[p]] \in Leaf
    BY <2>1 DEF LogInv
  <2>4. leaves[leaf[p]].at \in DayLength .. DayLength + MaxTime
    BY <2>1, <2>3, LogAssumption DEF LogInv, Leaf
  <2> QED
    BY <2>2, <2>4
<1>4. ASSUME NEW p \in Procs, AppendLeaf(p) PROVE LogStore!Next
  <2> DEFINE new == [rec |-> leaf[p], end |-> "whole"]
  <2> DEFINE f == LogFile(leaves[leaf[p]].at)
  <2>1. step[p] = "append" /\ leaf[p] \notin appended /\ appended' = appended \cup {leaf[p]}
    BY <1>4 DEF AppendLeaf, LogFresh
  <2>2. new \in Pieces /\ new.rec = leaf[p] /\ new.end = "whole"
    BY <1>3, <2>1 DEF Pieces, Ends
  <2>3. log' = Appended(log, f, new)
    BY <1>1, <1>4 DEF AppendLeaf, AppendToLog, Appended
  <2>4. f \in {LogFile(t) : t \in DayLength .. DayLength + MaxTime} /\ leaf[p] \in 1 .. MaxLeaves
    BY <1>3, <2>1
  <2> HIDE DEF new, f
  <2>5. Unknown(appended, log, new)
    BY <1>2, <2>1, <2>2
  <2>6. IF f \in Unended(log)
        THEN /\ Unended(log)' = Unended(log) \ {f}
             /\ InLog' = InLog
        ELSE /\ Unended(log)' = Unended(log)
             /\ InLog' = InLog \cup {leaf[p]}
    BY <1>1, <2>1, <2>2, <2>3, <2>5, AcknowledgedAppend
  <2>7. LogStore!Acknowledge(leaf[p])
    BY <2>1 DEF LogStore!Acknowledge
  <2>8. LogStore!Keep(f, leaf[p]) \/ LogStore!Lose(f, leaf[p])
    BY <2>6, <2>7 DEF LogStore!Keep, LogStore!Lose
  <2> QED
    BY <2>4, <2>8 DEF LogStore!Next
<1>5. ASSUME NEW p \in Procs, AppendFails(p)
      PROVE  LogStore!Next \/ UNCHANGED <<appended, Unended(log), InLog>>
  <2> DEFINE f == LogFile(leaves[leaf[p]].at)
  <2>1. step[p] = "append" /\ appended' = appended
    BY <1>5 DEF AppendFails
  <2>2. f \in {LogFile(t) : t \in DayLength .. DayLength + MaxTime} /\ leaf[p] \in Nat
    BY <1>3, <2>1
  <2>3. PICK lines \in Remains(LogLines(f), leaf[p]) : AppendToLog(f, lines)
    BY <1>5 DEF AppendFails
  <2> HIDE DEF f
  <2>4. CASE lines = LogLines(f)
    <3>1. log' = [g \in DOMAIN log \cup {f} |-> IF g = f THEN LinesIn(log, f) ELSE log[g]]
      BY <1>1, <2>3, <2>4 DEF AppendToLog
    <3>2. Unended(log') = Unended(log) /\ ReadableOf(appended, log') = ReadableOf(appended, log)
      BY <3>1, NothingAppended
    <3> QED
      BY <2>1, <3>2
  <2>5. ASSUME NEW end \in {"part", "unended"},
               lines = WithPiece(LogLines(f), [rec |-> leaf[p], end |-> end])
        PROVE  LogStore!Next \/ UNCHANGED <<appended, Unended(log), InLog>>
    <3> DEFINE new == [rec |-> leaf[p], end |-> end]
    <3>1. new \in Pieces /\ new.rec = leaf[p] /\ new.end # "whole"
      BY <2>2 DEF Pieces, Ends
    <3>2. log' = Appended(log, f, new)
      BY <1>1, <2>3, <2>5 DEF AppendToLog, Appended
    <3> HIDE DEF new
    <3>3. Unknown(appended, log, new)
      BY <1>2, <2>1, <3>1
    <3>4. Unended(log') = Unended(log) \cup {f} /\ ReadableOf(appended, log') = ReadableOf(appended, log)
      BY <1>1, <3>1, <3>2, <3>3, FailedAppend
    <3>5. Unended(log)' = Unended(log) \cup {f} /\ InLog' = InLog
      BY <2>1, <3>4
    <3>6. CASE f \in Unended(log)
      BY <2>1, <3>5, <3>6
    <3>7. CASE f \notin Unended(log)
      <4>1. LogStore!Fail(f)
        BY <2>1, <3>5, <3>7 DEF LogStore!Fail
      <4> QED
        BY <2>2, <4>1 DEF LogStore!Next
    <3> QED
      BY <3>6, <3>7
  <2> QED
    BY <2>3, <2>4, <2>5 DEF Remains
<1>6. CASE UNCHANGED <<log, appended>>
  BY <1>6 DEF Unended, ReadableOf
<1>7. \/ UNCHANGED <<log, appended>>
      \/ \E p \in Procs : AppendLeaf(p) \/ AppendFails(p)
  BY DEF LogNext, logVars, Tick, Start, StartKeygen, LoadKey, OpenKeyFile, SaveKey, Killed,
         CreateLeaf, fileVars, keyVars
<1> QED
  BY <1>4, <1>5, <1>6, <1>7

\* For any number of processes, days, keys and failures: what is acknowledged
\* and what of it is lost is what an append-only store allows.
THEOREM LogImplementsAppendOnly == LogSpec => LogIsAppendOnly
<1>1. LogInit => LogFresh /\ LogStore!Init
  <2> SUFFICES ASSUME LogInit PROVE LogFresh /\ LogStore!Init
    OBVIOUS
  <2>1. DOMAIN log = {} /\ appended = {} /\ Len(leaves) = 0 /\ \A p \in Procs : step[p] # "append"
    BY DEF LogInit
  <2>2. LogFresh
    BY <2>1, LogAssumption DEF LogFresh
  <2>3. LogStore!Init
    BY <2>1 DEF LogStore!Init, Unended, ReadableOf
  <2> QED
    BY <2>2, <2>3
<1>2. IInv /\ [LogNext]_logVars => IInv'
  BY StepTypes, StepCounted DEF IInv
<1>3. LogInv /\ LogFresh /\ [LogNext]_logVars
          => [LogStore!Next]_<<appended, Unended(log), ReadableOf(appended, log)>>
  BY StepLogStore
<1> QED
  BY <1>1, <1>2, <1>3, InitIInv, InitLog, StepLog, StepLogFresh, PTL
  DEF LogSpec, LogIsAppendOnly, LogStore!Spec, LogStore!vars
=============================================================================
