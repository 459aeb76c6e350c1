---------------------------- MODULE EvidenceStore ----------------------------
(***************************************************************************)
(* The evidence store (packages/evidence-store/src/store.ts): findings and *)
(* action results as lines of JSON in one file per day, with further files *)
(* once the day's first one is full.                                       *)
(*                                                                         *)
(* Writers are worker processes on one data directory (a new one starts    *)
(* while the old one is still in a cycle).  Each call of the file system   *)
(* is a step; LineFiles says what an append does, and what it leaves       *)
(* behind when it fails.                                                   *)
(*                                                                         *)
(* A record is the number of its write; sizes are counted in records.      *)
(* Records are valid: validateOnWrite turns the others away before any     *)
(* file is touched.                                                        *)
(***************************************************************************)
EXTENDS LineFiles

CONSTANTS
    Writers,      \* worker processes
    MaxFileSize,  \* EVIDENCE_MAX_FILE_SIZE, in records
    MaxDay,       \* bound: days
    MaxWrites     \* bound: calls of writeFinding and writeActionResult

ASSUME StoreAssumption ==
    /\ IsFiniteSet(Writers)
    /\ MaxFileSize \in Nat \ {0}
    /\ MaxDay \in Nat
    /\ MaxWrites \in Nat

VARIABLES
    today,   \* the date of new Date(), in days
    files,   \* the directory: lines of each file that exists, by name
    writes,  \* writes begun so far
    pc,      \* per writer: the call it comes to next
    path,    \* per writer: name of the file it has chosen
    rec,     \* per writer: the record it writes
    acked    \* records whose write has returned success

vars == <<today, files, writes, pc, path, rec, acked>>

\* evidence-<day>.jsonl and evidence-<day>-<suffix>.jsonl; suffix 0 is none.
Names == [day : Nat, suffix : Nat]
Base(d) == [day |-> d, suffix |-> 0]

PCs == {"idle", "rotate", "append", "dead"}

Init ==
    /\ today = 0
    /\ files = [n \in {} |-> <<>>]
    /\ writes = 0
    /\ pc = [w \in Writers |-> "idle"]
    /\ path = [w \in Writers |-> Base(0)]
    /\ rec = [w \in Writers |-> 0]
    /\ acked = {}

-----------------------------------------------------------------------------
(* Writing. *)

Exists(n) == n \in DOMAIN files

Lines(n) == IF Exists(n) THEN files[n] ELSE <<>>

\* statSync(path).size
Size(n) == Cardinality(Places(Lines(n)))

IsFull(n) == Exists(n) /\ Size(n) >= MaxFileSize

\* appendFileSync creates the file if need be.
AppendTo(n, lines) == files' = [m \in DOMAIN files \cup {n} |-> IF m = n THEN lines ELSE files[m]]

Midnight ==
    /\ today < MaxDay
    /\ today' = today + 1
    /\ UNCHANGED <<files, writes, pc, path, rec, acked>>

\* writeFinding or writeActionResult: the file of the day, unless it is full.
BeginWrite(w) ==
    /\ pc[w] = "idle"
    /\ writes < MaxWrites
    /\ writes' = writes + 1
    /\ rec' = [rec EXCEPT ![w] = writes + 1]
    /\ path' = [path EXCEPT ![w] = Base(today)]
    /\ pc' = [pc EXCEPT ![w] = IF IsFull(Base(today)) THEN "rotate" ELSE "append"]
    /\ UNCHANGED <<today, files, acked>>

\* Faulty: a full file is kept in use for as long as there is no other.
RotateToLast(w) ==
    /\ pc[w] = "rotate"
    /\ \E k \in 0 .. MaxWrites :
        /\ Exists([day |-> today, suffix |-> k]) \/ k = 0
        /\ ~Exists([day |-> today, suffix |-> k + 1])
        /\ \A j \in 1 .. k : Exists([day |-> today, suffix |-> j])
        /\ path' = [path EXCEPT ![w] = [day |-> today, suffix |-> k]]
    /\ pc' = [pc EXCEPT ![w] = "append"]
    /\ UNCHANGED <<today, files, writes, rec, acked>>

\* The first suffix without a file; the date is taken anew.
Rotate(w) ==
    /\ pc[w] = "rotate"
    /\ \E k \in 1 .. MaxWrites :
        /\ ~Exists([day |-> today, suffix |-> k])
        /\ \A j \in 1 .. k - 1 : Exists([day |-> today, suffix |-> j])
        /\ path' = [path EXCEPT ![w] = [day |-> today, suffix |-> k]]
    /\ pc' = [pc EXCEPT ![w] = "append"]
    /\ UNCHANGED <<today, files, writes, rec, acked>>

\* appendFileSync has written record and line end: success.
WriteLine(w) ==
    /\ pc[w] = "append"
    /\ AppendTo(path[w], WithPiece(Lines(path[w]), [rec |-> rec[w], end |-> "whole"]))
    /\ acked' = acked \cup {rec[w]}
    /\ pc' = [pc EXCEPT ![w] = "idle"]
    /\ UNCHANGED <<today, writes, path, rec>>

\* What an append that does not come to its end leaves behind.
LeavesBehind(w) == \E lines \in Remains(Lines(path[w]), rec[w]) : AppendTo(path[w], lines)

\* Faulty: the exception is swallowed.
WriteFailsUnnoticed(w) ==
    /\ pc[w] = "append"
    /\ LeavesBehind(w)
    /\ acked' = acked \cup {rec[w]}
    /\ pc' = [pc EXCEPT ![w] = "idle"]
    /\ UNCHANGED <<today, writes, path, rec>>

\* It throws, the disk being full: the caller is told and goes on.
WriteFails(w) ==
    /\ pc[w] = "append"
    /\ LeavesBehind(w)
    /\ pc' = [pc EXCEPT ![w] = "idle"]
    /\ UNCHANGED <<today, writes, path, rec, acked>>

\* The process is killed, before the append or in the middle of it.
Crash(w) ==
    /\ pc[w] \in {"rotate", "append"}
    /\ UNCHANGED files \/ (pc[w] = "append" /\ LeavesBehind(w))
    /\ pc' = [pc EXCEPT ![w] = "dead"]
    /\ UNCHANGED <<today, writes, path, rec, acked>>

Restart(w) ==
    /\ pc[w] = "dead"
    /\ pc' = [pc EXCEPT ![w] = "idle"]
    /\ UNCHANGED <<today, files, writes, path, rec, acked>>

Next ==
    \/ Midnight
    \/ \E w \in Writers :
        \/ BeginWrite(w) \/ Rotate(w) \/ WriteLine(w)
        \/ WriteFails(w) \/ Crash(w) \/ Restart(w)

Spec == Init /\ [][Next]_vars

-----------------------------------------------------------------------------
(* Reading. *)

\* readFile, and the schema that query applies to each line.
ReadFile(n) == LET good == SelectSeq(files[n], IsReadable)
               IN  [i \in DOMAIN good |-> good[i][1].rec]

\* Suffixes below 100 in the order of their digits: 1, 10, 11, ..., 2, 20, ...
SuffixOrder(k) == IF k < 10 THEN 11 * k ELSE 11 * (k \div 10) + (k % 10) + 1

\* localeCompare of two file names: by day, and within a day the names with
\* a suffix first ('-' comes before '.').
NameBefore(m, n) ==
    \/ m.day < n.day
    \/ /\ m.day = n.day
       /\ m.suffix # 0
       /\ n.suffix = 0 \/ SuffixOrder(m.suffix) < SuffixOrder(n.suffix)

\* Faulty: the newest files come first.
EvidenceFilesNewestFirst(N) == SetToSortSeq(N, LAMBDA m, n : NameBefore(n, m))

\* getEvidenceFiles
EvidenceFiles(N) == SetToSortSeq(N, NameBefore)

\* query without filters on the given files.
Query(N) == FlattenSeq([i \in 1 .. Cardinality(N) |-> ReadFile(EvidenceFiles(N)[i])])

-----------------------------------------------------------------------------
TypeOK ==
    /\ today \in Nat
    /\ DOMAIN files \subseteq Names /\ \A n \in DOMAIN files : n.day <= today
    /\ \A n \in DOMAIN files : files[n] \in Seq(Seq(Pieces))
    /\ writes \in Nat
    /\ pc \in [Writers -> PCs]
    /\ path \in [Writers -> Names] /\ \A w \in Writers : path[w].day <= today
    /\ rec \in [Writers -> 0 .. writes]
    /\ acked \subseteq 1 .. writes

\* maxFileSizeBytes is tested before the append, and for the day's first file
\* only: a file grows past it by no more than the other writers can add that
\* have chosen it at the same time.
SizeBounded == \A n \in DOMAIN files : Size(n) < MaxFileSize + Cardinality(Writers)

\* A write that has been acknowledged can be read back, unless the line it
\* was put on begins with the remains of a write that was cut off, and then
\* it is the only acknowledged one on that line: each failed or crashed write
\* costs at most one acknowledged record.
AckedIsKept ==
    \A r \in acked : \E n \in DOMAIN files : \E i \in DOMAIN files[n] :
        LET line == files[n][i]
        IN  /\ line # <<>>
            /\ line[Len(line)] = [rec |-> r, end |-> "whole"]
            /\ \A j \in 1 .. Len(line) - 1 : line[j].end # "whole" /\ line[j].rec \notin acked

\* What queries return of the acknowledged records.
Returned == ReadableOf(acked, files)

Store == INSTANCE AppendOnly WITH
    Files <- [day : 0 .. MaxDay, suffix : 0 .. MaxWrites], Records <- 1 .. MaxWrites,
    acknowledged <- acked, unended <- Unended(files), kept <- Returned

\* Whichever writers, files, rotations and failures: the directory is an
\* append-only store, in which a failed write costs at most the next record
\* and a query never loses what an earlier one has returned.
ImplementsAppendOnly == Store!Spec

\* Days that are over, and to whose files nobody is about to write.
Over == {n \in DOMAIN files :
            n.day < today /\ \A w \in Writers :
                pc[w] = "append" => path[w].day > n.day}

\* Offset and limit page through past days reliably: what a query returns of
\* them only grows at its end as days go by, and nothing moves in front of it.
PastIsStable == [][Over \subseteq Over' /\ IsPrefix(Query(Over), Query(Over)')]_<<files, today>>
=============================================================================
