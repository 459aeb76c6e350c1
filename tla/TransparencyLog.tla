---------------------------- MODULE TransparencyLog ----------------------------
(***************************************************************************)
(* The transparency log of the watchtower and the key its leaves are       *)
(* signed with (watchtower-core/src/transparency, signing/keys.ts), as     *)
(* written by the commands keygen and transparency:append and by the start *)
(* of the read API, and as read by transparency:verify and the API.        *)
(*                                                                         *)
(* Every command is a process of its own; each call of the file system is  *)
(* a step.  writeFileSync empties the key file before it writes it.        *)
(* Hashes and signatures are ideal: a leaf verifies under the key that     *)
(* signed it and under no other.                                           *)
(*                                                                         *)
(* A leaf is the number of its creation.  Times are parts of a day; Zone   *)
(* is what the local time is ahead of UTC, in the same unit.               *)
(***************************************************************************)
EXTENDS LineFiles

CONSTANTS
    Procs,      \* processes at a time
    Zone,       \* local time ahead of UTC
    DayLength,  \* parts of a day
    MaxTime,    \* bound: time
    MaxLeaves,  \* bound: leaves created
    MaxForced   \* bound: uses of keygen --force

ASSUME LogAssumption ==
    /\ IsFiniteSet(Procs)
    /\ DayLength \in Nat \ {0}
    /\ Zone \in -DayLength .. DayLength
    /\ {MaxTime, MaxLeaves, MaxForced} \subseteq Nat

VARIABLES
    now,      \* UTC
    keyFile,  \* the key in the key file, or NoFile or Torn
    saved,    \* keys that have been in the key file
    keys,     \* keys generated so far
    forced,   \* uses of --force so far
    log,      \* lines of each log file that exists
    leaves,   \* key and writtenAt of each leaf
    appended, \* leaves whose append has returned
    step,     \* per process: the call it comes to next
    command,  \* per process: the command it executes
    key,      \* per process: its key pair
    leaf      \* per process: the leaf it appends

logVars == <<now, keyFile, saved, keys, forced, log, leaves, appended, step, command, key, leaf>>
fileVars == <<now, forced, log, leaves, appended, leaf>>
keyVars == <<now, keyFile, saved, keys, forced, command, key>>

NoFile == 0
Torn == -1

Commands == {"append", "keygen", "serve"}
Steps == {"start", "load", "open", "save", "sign", "append"}

LogInit ==
    /\ now = DayLength
    /\ keyFile = NoFile
    /\ saved = {}
    /\ keys = 0
    /\ forced = 0
    /\ log = [f \in {} |-> <<>>]
    /\ leaves = <<>>
    /\ appended = {}
    /\ step = [p \in Procs |-> "start"]
    /\ command = [p \in Procs |-> "append"]
    /\ key = [p \in Procs |-> 0]
    /\ leaf = [p \in Procs |-> 0]

-----------------------------------------------------------------------------
(* Names of log files. *)

\* Faulty: the name has the month but not the day.
LogFileMonthly(t) == (t + Zone) \div (31 * DayLength)

\* logFilePath: the date of a moment, in local time.
LogFile(t) == (t + Zone) \div DayLength

\* The file that is read for a date: that of its beginning in UTC.
FileOf(date) == LogFile(date * DayLength)

\* toISOString().slice(0, 10)
DateOf(t) == t \div DayLength

-----------------------------------------------------------------------------
(* The key file. *)

\* Faulty: a key file that does not parse is taken for none.
StartLenient(p) ==
    /\ step[p] = "start"
    /\ \E c \in {"append", "serve"} :
        /\ command' = [command EXCEPT ![p] = c]
        /\ step' = [step EXCEPT ![p] = IF keyFile \in {NoFile, Torn} THEN "open" ELSE "load"]
    /\ UNCHANGED <<keyFile, saved, keys, key>> /\ UNCHANGED fileVars

\* transparency:append and the API server: ensureKeyPair asks for the file.
Start(p) ==
    /\ step[p] = "start"
    /\ \E c \in {"append", "serve"} :
        /\ command' = [command EXCEPT ![p] = c]
        /\ step' = [step EXCEPT ![p] = IF keyFile = NoFile THEN "open" ELSE "load"]
    /\ UNCHANGED <<keyFile, saved, keys, key>> /\ UNCHANGED fileVars

\* keygen ends if there is a file, without --force.
StartKeygen(p) ==
    /\ step[p] = "start"
    /\ \/ keyFile = NoFile /\ UNCHANGED forced
       \/ keyFile # NoFile /\ forced < MaxForced /\ forced' = forced + 1
    /\ command' = [command EXCEPT ![p] = "keygen"]
    /\ step' = [step EXCEPT ![p] = "open"]
    /\ UNCHANGED <<now, keyFile, saved, keys, log, leaves, appended, key, leaf>>

\* loadKeyPair; a file that does not parse ends the process.
LoadKey(p) ==
    /\ step[p] = "load"
    /\ IF keyFile = Torn
       THEN step' = [step EXCEPT ![p] = "start"] /\ UNCHANGED key
       ELSE /\ key' = [key EXCEPT ![p] = keyFile]
            /\ step' = [step EXCEPT ![p] = IF command[p] = "append" THEN "sign" ELSE "start"]
    /\ UNCHANGED <<keyFile, saved, keys, command>> /\ UNCHANGED fileVars

\* generateKeyPair, and writeFileSync empties the file.
OpenKeyFile(p) ==
    /\ step[p] = "open"
    /\ keys' = keys + 1
    /\ key' = [key EXCEPT ![p] = keys + 1]
    /\ keyFile' = Torn
    /\ step' = [step EXCEPT ![p] = "save"]
    /\ UNCHANGED <<saved, command>> /\ UNCHANGED fileVars

SaveKey(p) ==
    /\ step[p] = "save"
    /\ keyFile' = key[p]
    /\ saved' = saved \cup {key[p]}
    /\ step' = [step EXCEPT ![p] = IF command[p] = "append" THEN "sign" ELSE "start"]
    /\ UNCHANGED <<keys, command, key>> /\ UNCHANGED fileVars

-----------------------------------------------------------------------------
(* The log. *)

LogLines(f) == IF f \in DOMAIN log THEN log[f] ELSE <<>>

AppendToLog(f, lines) == log' = [g \in DOMAIN log \cup {f} |-> IF g = f THEN lines ELSE log[g]]

\* createLeaf, of the latest report; without a report the command ends.
CreateLeaf(p) ==
    /\ step[p] = "sign"
    /\ \/ /\ Len(leaves) < MaxLeaves
          /\ leaves' = Append(leaves, [key |-> key[p], at |-> now])
          /\ leaf' = [leaf EXCEPT ![p] = Len(leaves) + 1]
          /\ step' = [step EXCEPT ![p] = "append"]
       \/ step' = [step EXCEPT ![p] = "start"] /\ UNCHANGED <<leaves, leaf>>
    /\ UNCHANGED <<log, appended>> /\ UNCHANGED keyVars

\* Faulty: every line but the first begins with a line end, none has one.
AppendLeafUnended(p) ==
    LET f == LogFile(leaves[leaf[p]].at)
    IN  /\ step[p] = "append"
        /\ AppendToLog(f, WithPiece(LogLines(f), [rec |-> leaf[p], end |-> "unended"]))
        /\ appended' = appended \cup {leaf[p]}
        /\ step' = [step EXCEPT ![p] = "start"]
        /\ UNCHANGED <<leaves, leaf>> /\ UNCHANGED keyVars

AppendLeaf(p) ==
    LET f == LogFile(leaves[leaf[p]].at)
    IN  /\ step[p] = "append"
        /\ AppendToLog(f, WithPiece(LogLines(f), [rec |-> leaf[p], end |-> "whole"]))
        /\ appended' = appended \cup {leaf[p]}
        /\ step' = [step EXCEPT ![p] = "start"]
        /\ UNCHANGED <<leaves, leaf>> /\ UNCHANGED keyVars

\* The append throws, or the process is killed in it.
AppendFails(p) ==
    LET f == LogFile(leaves[leaf[p]].at)
    IN  /\ step[p] = "append"
        /\ \E lines \in Remains(LogLines(f), leaf[p]) : AppendToLog(f, lines)
        /\ step' = [step EXCEPT ![p] = "start"]
        /\ UNCHANGED <<leaves, appended, leaf>> /\ UNCHANGED keyVars

\* Killed anywhere else; the key file may be left empty.
Killed(p) ==
    /\ step[p] \in {"load", "open", "save", "sign"}
    /\ step' = [step EXCEPT ![p] = "start"]
    /\ UNCHANGED <<log, leaves, appended, leaf>> /\ UNCHANGED keyVars

Tick ==
    /\ now < MaxTime
    /\ now' = now + 1
    /\ UNCHANGED <<keyFile, saved, keys, forced, log, leaves, appended, step, command, key, leaf>>

LogNext ==
    \/ Tick
    \/ \E p \in Procs :
        \/ Start(p) \/ StartKeygen(p) \/ LoadKey(p) \/ OpenKeyFile(p) \/ SaveKey(p)
        \/ CreateLeaf(p) \/ AppendLeaf(p) \/ AppendFails(p) \/ Killed(p)

LogSpec == LogInit /\ [][LogNext]_logVars

-----------------------------------------------------------------------------
(* Reading. *)

\* verifyLogFile: a line counts as valid if it parses and verifies under k.
VerifyLogFile(f, k) ==
    LET lines == LogLines(f)
        valid == {i \in DOMAIN lines :
                     IsReadable(lines[i]) /\ leaves[lines[i][1].rec].key = k}
    IN  [valid |-> Cardinality(valid), invalid |-> Len(lines) - Cardinality(valid)]

\* readLogFile throws on the first line that does not parse.
CanRead(f) == \A i \in DOMAIN LogLines(f) : IsReadable(LogLines(f)[i])

ReadLogFile(f) == {LogLines(f)[i][1].rec : i \in DOMAIN LogLines(f)}

-----------------------------------------------------------------------------
LogTypeOK ==
    /\ now \in Nat /\ keys \in Nat /\ forced \in 0 .. MaxForced
    /\ keyFile \in {NoFile, Torn} \cup saved /\ saved \subseteq 1 .. keys
    /\ leaves \in Seq([key : saved, at : 0 .. now])
    /\ \A f \in DOMAIN log : log[f] \in Seq(Seq([rec : DOMAIN leaves, end : Ends]))
    /\ appended \subseteq DOMAIN leaves
    /\ step \in [Procs -> Steps] /\ command \in [Procs -> Commands]
    /\ key \in [Procs -> 0 .. keys]
    /\ leaf \in [Procs -> 0 .. Len(leaves)]

\* A key pair is generated at most once by each process that was there before
\* the first key file, and once by every forced keygen: whatever is cut off,
\* nobody else changes the key that consumers have been given.
KeysAreFew == keys <= Cardinality(Procs) + forced

\* Each failed append costs at most one acknowledged leaf: the others verify
\* under the key that signed them, whatever key there is by now, and what is
\* lost is a line that the verification reports.
AcknowledgedIsAccounted ==
    \A f \in DOMAIN log : \A k \in saved :
        LET mine == {n \in appended : leaves[n].key = k /\ LogFile(leaves[n].at) = f}
            damaged == {i \in DOMAIN log[f] : ~IsReadable(log[f][i])}
            result == VerifyLogFile(f, k)
        IN  /\ Cardinality(mine) <= result.valid + Cardinality(damaged)
            /\ Cardinality(damaged) <= result.invalid
            /\ CanRead(f) => mine \subseteq ReadLogFile(f)

\* A leaf is returned for exactly one date, and that is the date it was
\* written on, or a neighbour of it where local time is not UTC.
LeafHasOneDate ==
    \A n \in appended :
        LET dates == {d \in 0 .. DateOf(MaxTime) + 2 : FileOf(d) = LogFile(leaves[n].at)}
        IN  Cardinality(dates) = 1 /\ \A d \in dates : d - DateOf(leaves[n].at) \in -1 .. 1

LogStore == INSTANCE AppendOnly WITH
    Files <- {LogFile(t) : t \in DayLength .. DayLength + MaxTime}, Records <- 1 .. MaxLeaves,
    acknowledged <- appended, unended <- Unended(log), kept <- ReadableOf(appended, log)

\* Whichever keys, processes, days and failures: the log is an append-only
\* store, in which a failed append costs at most the next leaf.
LogIsAppendOnly == LogStore!Spec
=============================================================================
