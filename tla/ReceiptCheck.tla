----------------------------- MODULE ReceiptCheck -----------------------------
(***************************************************************************)
(* The behaviour ingest: a solver's evidence manifest is read, the files   *)
(* it lists are verified, and the result becomes signals                   *)
(* (watchtower-core/src/behavior).  It runs in the commands ingest-receipt *)
(* and verify-receipt on the run directory the solver writes, and in the   *)
(* read API on a directory of its own that has only the manifest.          *)
(*                                                                         *)
(* Each call of the file system is a step, between two of them the solver  *)
(* may change any file.  A hash stands for the content it is of.           *)
(***************************************************************************)
EXTENDS Integers, Sequences, FiniteSets

CONSTANTS
    Paths,      \* paths of artifacts
    Unsafe,     \* those of them that lead out of the run directory
    Contents,   \* what an artifact may contain
    Size,       \* the bytes of each content
    NoFile,     \* no content
    MaxBytes,   \* maxArtifactBytes
    Claims,     \* lists of artifacts that manifests have
    MaxChanges  \* bound: changes of files during a check

Inside == Paths \ Unsafe

Artifact == [path : Paths, sha256 : Contents, bytes : Nat]

ASSUME ReceiptAssumption ==
    /\ Unsafe \subseteq Paths
    /\ NoFile \notin Contents
    /\ Size \in [Contents -> Nat]
    /\ Claims \subseteq Seq(Artifact) /\ <<>> \in Claims
    /\ {MaxBytes, MaxChanges} \subseteq Nat

\* A manifest file: none, no JSON, not of the schema, or one with artifacts.
\* It is big when it has more than maxManifestBytes.
Forms == {"none", "torn", "alien", "manifest"}
Manifests == [form : Forms, artifacts : Claims, big : BOOLEAN]
ManifestFiles ==
    {m \in Manifests :
        /\ m.form # "manifest" => m.artifacts = <<>>
        /\ m.form \in {"none", "torn"} => ~m.big}
NoManifest == [form |-> "none", artifacts |-> <<>>, big |-> FALSE]

VARIABLES
    manifest,  \* evidence/manifest.json of the run directory
    file,      \* content of each path inside the run directory
    changes,   \* changes during this check
    private,   \* is the run directory the API's own?
    quiet,     \* has no file changed and no call failed in this check?
    held,      \* per path inside: contents it has had during this check
    call,      \* the call the check comes to next
    receipt,   \* the manifest that was read first
    next,      \* the artifact that is verified
    links,     \* artifacts the result links as evidence
    failures   \* failures found: code and path

rcVars == <<manifest, file, changes, private, quiet, held, call, receipt, next, links, failures>>
disk == <<manifest, file, changes, private, held>>

Codes == {"ARTIFACT_HASH_MISMATCH", "ARTIFACT_NOT_FOUND", "ARTIFACT_SIZE_MISMATCH",
          "ARTIFACT_TOO_LARGE", "DELIVERED_MISMATCH", "MANIFEST_HASH_MISMATCH",
          "MANIFEST_NOT_FOUND", "MANIFEST_PARSE_FAIL", "MANIFEST_READ_ERROR",
          "MANIFEST_SCHEMA_INVALID", "MANIFEST_TOO_LARGE", "UNSAFE_PATH"}

ManifestPath == "evidence/manifest.json"

RCCalls == {"idle", "find", "measure", "read", "findArtifact", "measureArtifact",
            "readArtifact", "done"}

\* Between two checks.
Idle ==
    /\ changes = 0 /\ private = FALSE /\ quiet = TRUE
    /\ held = [p \in Inside |-> {}]
    /\ call = "idle" /\ receipt = NoManifest /\ next = 1
    /\ links = {} /\ failures = {}

RCInit ==
    /\ manifest \in ManifestFiles
    /\ file \in [Inside -> Contents \cup {NoFile}]
    /\ Idle

-----------------------------------------------------------------------------
(* The beginning of ingestReceipt. *)

\* The manifest is parsed: without one there is nothing to verify.
Begin(m) ==
    /\ receipt' = m
    /\ call' = IF m.form = "manifest" THEN "find" ELSE "done"
    /\ quiet' = TRUE
    /\ UNCHANGED <<changes, next, links, failures>>

\* ingest-receipt and verify-receipt: the path that is given is that of the
\* manifest in the run directory, or of any other file.
StartOnRun ==
    /\ call = "idle"
    /\ \E m \in ManifestFiles : m.form # "none" /\ Begin(m)
    /\ held' = [p \in Inside |-> {file[p]}]
    /\ UNCHANGED <<manifest, file, private>>

\* POST /v1/receipts/ingest: the body, that is JSON and of less than the limit,
\* is the only file of a new directory.
StartOnBody ==
    /\ call = "idle"
    /\ \E m \in ManifestFiles :
        /\ m.form \in {"alien", "manifest"} /\ ~m.big
        /\ manifest' = m
        /\ Begin(m)
    /\ file' = [p \in Inside |-> NoFile]
    /\ held' = [p \in Inside |-> {NoFile}]
    /\ private' = TRUE

-----------------------------------------------------------------------------
(* verifyEvidence: the manifest. *)

Failure(code, path) == [code |-> code, path |-> path]

\* buildResult and an early return.
Return(code) ==
    /\ failures' = failures \cup {Failure(code, ManifestPath)}
    /\ call' = "done"
    /\ UNCHANGED <<receipt, next, links>>

\* A call that fails throws, or says that there is no file.
MayFail(fails) == quiet' = (quiet /\ ~fails)

FindManifest ==
    /\ call = "find"
    /\ \E fails \in BOOLEAN :
        /\ MayFail(fails)
        /\ IF fails \/ manifest.form = "none"
           THEN Return("MANIFEST_NOT_FOUND")
           ELSE call' = "measure" /\ UNCHANGED <<receipt, next, links, failures>>
    /\ UNCHANGED disk

MeasureManifest ==
    /\ call = "measure"
    /\ \E fails \in BOOLEAN :
        /\ MayFail(fails)
        /\ IF fails \/ manifest.form = "none" THEN Return("MANIFEST_READ_ERROR")
           ELSE IF manifest.big THEN Return("MANIFEST_TOO_LARGE")
           ELSE call' = "read" /\ UNCHANGED <<receipt, next, links, failures>>
    /\ UNCHANGED disk

PathsOf(m) == [i \in DOMAIN m.artifacts |-> m.artifacts[i].path]

\* Faulty: the hash is compared last.
CodeOfLate(m) ==
    IF m.form = "torn" THEN "MANIFEST_PARSE_FAIL"
    ELSE IF m.form = "alien" THEN "MANIFEST_SCHEMA_INVALID"
    ELSE IF PathsOf(m) # PathsOf(receipt) THEN "DELIVERED_MISMATCH"
    ELSE IF m # receipt THEN "MANIFEST_HASH_MISMATCH"
    ELSE "none"

\* Of the bytes that were read: the hash, the JSON, the schema, the paths.
CodeOf(m) ==
    IF m # receipt THEN "MANIFEST_HASH_MISMATCH"
    ELSE IF m.form = "torn" THEN "MANIFEST_PARSE_FAIL"
    ELSE IF m.form = "alien" THEN "MANIFEST_SCHEMA_INVALID"
    ELSE IF PathsOf(m) # PathsOf(receipt) THEN "DELIVERED_MISMATCH"
    ELSE "none"

ToArtifact(n) == IF n <= Len(receipt.artifacts) THEN "findArtifact" ELSE "done"

\* DELIVERED_MISMATCH has no path and does not return.
ReadManifest ==
    /\ call = "read"
    /\ \E fails \in BOOLEAN :
        /\ MayFail(fails)
        /\ LET code == CodeOf(manifest)
           IN  IF fails \/ manifest.form = "none" THEN Return("MANIFEST_READ_ERROR")
               ELSE IF code \notin {"none", "DELIVERED_MISMATCH"} THEN Return(code)
               ELSE /\ failures' = failures \cup {Failure(c, "none") : c \in {code} \ {"none"}}
                    /\ call' = ToArtifact(1)
                    /\ UNCHANGED <<receipt, next, links>>
    /\ UNCHANGED disk

-----------------------------------------------------------------------------
(* verifyEvidence: the artifacts. *)

Current == receipt.artifacts[next]

Found(code) == failures' = failures \cup {Failure(code, Current.path)}

Continue ==
    /\ next' = next + 1
    /\ call' = ToArtifact(next + 1)

\* validateRelativePath, safeJoin, existsSync.
FindArtifact ==
    /\ call = "findArtifact"
    /\ \E fails \in BOOLEAN :
        /\ MayFail(fails)
        /\ IF Current.path \in Unsafe THEN Found("UNSAFE_PATH") /\ Continue
           ELSE IF fails \/ file[Current.path] = NoFile
           THEN Found("ARTIFACT_NOT_FOUND") /\ Continue
           ELSE call' = "measureArtifact" /\ UNCHANGED <<next, failures>>
    /\ UNCHANGED <<receipt, links>> /\ UNCHANGED disk

\* Faulty: an artifact of the largest size is too large.
IsTooLargeAt(bytes) == bytes >= MaxBytes

IsTooLarge(bytes) == bytes > MaxBytes

\* A wrong size does not keep the artifact from being read.
MeasureArtifact ==
    /\ call = "measureArtifact"
    /\ \E fails \in BOOLEAN :
        /\ MayFail(fails)
        /\ IF fails \/ file[Current.path] = NoFile
           THEN Found("ARTIFACT_NOT_FOUND") /\ Continue
           ELSE IF IsTooLarge(Size[file[Current.path]])
           THEN Found("ARTIFACT_TOO_LARGE") /\ Continue
           ELSE /\ IF Size[file[Current.path]] # Current.bytes
                   THEN Found("ARTIFACT_SIZE_MISMATCH")
                   ELSE UNCHANGED failures
                /\ call' = "readArtifact"
                /\ UNCHANGED next
    /\ UNCHANGED <<receipt, links>> /\ UNCHANGED disk

\* Faulty: an artifact that is gone by now has been found before.
ReadArtifactLenient ==
    /\ call = "readArtifact"
    /\ \E fails \in BOOLEAN :
        /\ MayFail(fails)
        /\ IF fails \/ file[Current.path] = NoFile
           THEN UNCHANGED failures /\ links' = links \cup {next}
           ELSE /\ IF file[Current.path] # Current.sha256
                   THEN Found("ARTIFACT_HASH_MISMATCH")
                   ELSE UNCHANGED failures
                /\ links' = links \cup {next}
        /\ Continue
    /\ UNCHANGED receipt /\ UNCHANGED disk

\* An artifact that was read is linked, whatever its hash.
ReadArtifact ==
    /\ call = "readArtifact"
    /\ \E fails \in BOOLEAN :
        /\ MayFail(fails)
        /\ IF fails \/ file[Current.path] = NoFile
           THEN Found("ARTIFACT_NOT_FOUND") /\ UNCHANGED links
           ELSE /\ IF file[Current.path] # Current.sha256
                   THEN Found("ARTIFACT_HASH_MISMATCH")
                   ELSE UNCHANGED failures
                /\ links' = links \cup {next}
        /\ Continue
    /\ UNCHANGED receipt /\ UNCHANGED disk

-----------------------------------------------------------------------------
(* The result. *)

\* Faulty: a wrong size has no signal of its own either.
SignalOfFew ==
    [c \in Codes \ {"ARTIFACT_TOO_LARGE", "ARTIFACT_SIZE_MISMATCH"} |->
        IF c = "MANIFEST_READ_ERROR" THEN "MANIFEST_PARSE_FAIL" ELSE c]

\* SIGNAL_DEFS: every code but one has a signal, and two share one.  A signal
\* is named after its code.
SignalOf ==
    [c \in Codes \ {"ARTIFACT_TOO_LARGE"} |->
        IF c = "MANIFEST_READ_ERROR" THEN "MANIFEST_PARSE_FAIL" ELSE c]

\* deriveBehaviorSignals, and what ingestReceipt has without a manifest.
Signals ==
    IF receipt.form # "manifest" THEN {"RECEIPT_SCHEMA_INVALID"}
    ELSE IF failures = {} THEN {"VERIFIED_OK"}
    ELSE {SignalOf[f.code] : f \in {g \in failures : g.code \in DOMAIN SignalOf}}

\* The command ends; the API removes its directory.
Finish ==
    /\ call = "done"
    /\ changes' = 0 /\ private' = FALSE /\ quiet' = TRUE
    /\ held' = [p \in Inside |-> {}]
    /\ call' = "idle" /\ receipt' = NoManifest /\ next' = 1
    /\ links' = {} /\ failures' = {}
    /\ IF private
       THEN manifest' = NoManifest /\ file' = [p \in Inside |-> NoFile]
       ELSE UNCHANGED <<manifest, file>>

-----------------------------------------------------------------------------
(* The solver writes, replaces and removes what it likes. *)

ChangeManifest ==
    /\ call \notin {"idle", "done"} /\ ~private /\ changes < MaxChanges
    /\ manifest' \in ManifestFiles \ {manifest}
    /\ changes' = changes + 1
    /\ quiet' = FALSE
    /\ UNCHANGED <<file, private, held, call, receipt, next, links, failures>>

ChangeArtifact ==
    /\ call \notin {"idle", "done"} /\ ~private /\ changes < MaxChanges
    /\ \E p \in Inside, c \in Contents \cup {NoFile} :
        /\ c # file[p]
        /\ file' = [file EXCEPT ![p] = c]
        /\ held' = [held EXCEPT ![p] = @ \cup {c}]
    /\ changes' = changes + 1
    /\ quiet' = FALSE
    /\ UNCHANGED <<manifest, private, call, receipt, next, links, failures>>

RCNext ==
    \/ StartOnRun \/ StartOnBody
    \/ FindManifest \/ MeasureManifest \/ ReadManifest
    \/ FindArtifact \/ MeasureArtifact \/ ReadArtifact
    \/ Finish
    \/ ChangeManifest \/ ChangeArtifact

RCSpec == RCInit /\ [][RCNext]_rcVars

-----------------------------------------------------------------------------
Verified == call = "done" /\ receipt.form = "manifest" /\ failures = {}

\* However the solver changes its files between the calls: when a receipt is
\* verified, each artifact had the content the manifest claims at some moment
\* of the check, had a size within the limit that is the one claimed, and is
\* linked as evidence.
VerifiedWasThere ==
    Verified =>
        \A i \in DOMAIN receipt.artifacts :
            LET a == receipt.artifacts[i]
            IN  /\ a.path \notin Unsafe
                /\ a.sha256 \in held[a.path]
                /\ \E c \in held[a.path] \ {NoFile} : Size[c] = a.bytes /\ a.bytes <= MaxBytes
                /\ i \in links

\* The manifest is the receipt and every artifact is as it claims.
Intact ==
    /\ manifest = receipt /\ ~manifest.big
    /\ \A i \in DOMAIN receipt.artifacts :
        LET a == receipt.artifacts[i]
        IN  a.path \notin Unsafe /\ file[a.path] = a.sha256 /\ Size[a.sha256] = a.bytes
            /\ a.bytes <= MaxBytes

\* In a run directory that rests, the early returns and the steps that go on
\* after a failure come to exactly this: verified if and only if intact.
VerdictIsExact == call = "done" /\ quiet /\ receipt.form = "manifest" => (failures = {} <=> Intact)

\* The manifest is read twice, and the hash is compared before anything else:
\* the two parses cannot differ.
ReadTwiceAlike ==
    \A f \in failures :
        f.code \notin {"MANIFEST_PARSE_FAIL", "MANIFEST_SCHEMA_INVALID", "DELIVERED_MISMATCH"}

\* A check that fails is seen in the score of the agent: it has a signal other
\* than that of success, except where artifacts are too large and nothing else
\* is wrong; then it has none.
FailureIsSignalled ==
    call = "done" /\ failures # {} =>
        /\ "VERIFIED_OK" \notin Signals
        /\ Signals = {} => \A f \in failures : f.code = "ARTIFACT_TOO_LARGE"
=============================================================================
