----------------------------- MODULE IngestProofs -----------------------------
(***************************************************************************)
(* Proofs about the two places where the behaviour of an agent comes in:   *)
(* the check of a receipt (ReceiptCheck), for any manifests and artifacts  *)
(* and a solver that changes them between any two calls of a check, and    *)
(* the syncs of its transactions (ContextSync), for any number of syncs,   *)
(* any transactions, limits and depth of reorgs.                           *)
(***************************************************************************)
EXTENDS ContextSync, ReceiptCheck, FiniteSetTheorems, TLAPS

-----------------------------------------------------------------------------
(* Receipts. *)

OfManifest == {"find", "measure", "read"}
OfArtifact == {"findArtifact", "measureArtifact", "readArtifact"}

\* Where a check stands, and what it has at that point.
CheckTypes ==
    /\ manifest \in ManifestFiles /\ receipt \in ManifestFiles
    /\ file \in [Inside -> Contents \cup {NoFile}]
    /\ held \in [Inside -> SUBSET (Contents \cup {NoFile})]
    /\ private \in BOOLEAN /\ quiet \in BOOLEAN
    /\ call \in {"idle", "done"} \cup OfManifest \cup OfArtifact
    /\ next \in Nat \ {0}
    /\ call \in OfManifest \cup OfArtifact => receipt.form = "manifest"
    /\ call \in {"idle"} \cup OfManifest => next = 1 /\ links = {} /\ failures = {}
    /\ call \in OfArtifact => next \in DOMAIN receipt.artifacts
    /\ call \in {"measureArtifact", "readArtifact"} => Current.path \in Inside
    /\ call # "idle" => \A p \in Inside : file[p] \in held[p]

\* The codes that the check can come to.
Occurring == Codes \ {"MANIFEST_PARSE_FAIL", "MANIFEST_SCHEMA_INVALID", "DELIVERED_MISMATCH"}

CodeInv ==
    /\ \A f \in failures : f.code \in Occurring
    /\ receipt.form # "manifest" => failures = {}

\* What VerifiedWasThere says of artifact i.
WasThere(i) ==
    LET a == receipt.artifacts[i]
    IN  /\ a.path \notin Unsafe
        /\ a.sha256 \in held[a.path]
        /\ \E c \in held[a.path] \ {NoFile} : Size[c] = a.bytes /\ a.bytes <= MaxBytes
        /\ i \in links

ThereInv ==
    failures = {} =>
        /\ call \in OfArtifact \cup {"done"} =>
              \A i \in DOMAIN receipt.artifacts : i < next => WasThere(i)
        /\ call = "readArtifact" =>
              \E c \in held[Current.path] \ {NoFile} :
                  Size[c] = Current.bytes /\ Current.bytes <= MaxBytes
        /\ call = "done" => \A i \in DOMAIN receipt.artifacts : i < next

\* What Intact says of artifact i.
IntactAt(i) ==
    LET a == receipt.artifacts[i]
    IN  /\ a.path \notin Unsafe /\ file[a.path] = a.sha256 /\ Size[a.sha256] = a.bytes
        /\ a.bytes <= MaxBytes

IntactUpTo(n) == \A i \in DOMAIN receipt.artifacts : i < n => IntactAt(i)

\* While nothing moves, the failures are what is wrong with the part that has
\* been looked at.
ExactInv ==
    quiet /\ receipt.form = "manifest" =>
        /\ call = "read" => ~manifest.big
        /\ call \in OfArtifact => manifest = receipt /\ ~manifest.big
        /\ call \in {"findArtifact", "measureArtifact"} => (failures = {} <=> IntactUpTo(next))
        /\ call \in {"measureArtifact", "readArtifact"} => file[Current.path] # NoFile
        /\ call = "readArtifact" =>
              /\ Size[file[Current.path]] <= MaxBytes
              /\ failures = {} <=> IntactUpTo(next) /\ Size[file[Current.path]] = Current.bytes
        /\ call = "done" => (failures = {} <=> Intact)

CheckInv == CheckTypes /\ CodeInv /\ ThereInv /\ ExactInv

LEMMA ManifestTypes ==
    ASSUME NEW m \in ManifestFiles
    PROVE  /\ m.artifacts \in Seq(Artifact) /\ m.artifacts \in Claims
           /\ m.form \in Forms /\ m.big \in BOOLEAN
BY ReceiptAssumption DEF ManifestFiles, Manifests

LEMMA NoManifestIsOne == NoManifest \in ManifestFiles /\ NoManifest.form = "none"
BY ReceiptAssumption DEF NoManifest, ManifestFiles, Manifests, Forms

LEMMA ArtifactTypes ==
    ASSUME CheckTypes, NEW i \in DOMAIN receipt.artifacts
    PROVE  /\ receipt.artifacts[i].path \in Paths
           /\ receipt.artifacts[i].sha256 \in Contents
           /\ receipt.artifacts[i].bytes \in Nat
           /\ i \in Nat /\ Len(receipt.artifacts) \in Nat
           /\ DOMAIN receipt.artifacts = 1 .. Len(receipt.artifacts)
<1>1. receipt.artifacts \in Seq(Artifact)
    BY ManifestTypes DEF CheckTypes
<1>2. receipt.artifacts[i] \in Artifact
    BY <1>1
<1> QED BY <1>1, <1>2 DEF Artifact

LEMMA OneMoreFailure ==
    ASSUME NEW code \in Occurring, NEW path, \A f \in failures : f.code \in Occurring
    PROVE  LET new == failures \cup {Failure(code, path)}
           IN  new # {} /\ \A f \in new : f.code \in Occurring
<1>1. Failure(code, path).code \in Occurring
    BY DEF Failure
<1> QED BY <1>1

LEMMA InitCheck == RCInit => CheckInv
<1> SUFFICES ASSUME RCInit PROVE CheckInv
    OBVIOUS
<1>1. /\ manifest \in ManifestFiles /\ receipt \in ManifestFiles /\ receipt.form = "none"
      /\ file \in [Inside -> Contents \cup {NoFile}]
      /\ call = "idle" /\ next = 1 /\ links = {} /\ failures = {}
    BY NoManifestIsOne DEF RCInit, Idle
<1>2. held \in [Inside -> SUBSET (Contents \cup {NoFile})]
    BY DEF RCInit, Idle
<1>3. private \in BOOLEAN /\ quiet \in BOOLEAN
    BY DEF RCInit, Idle
<1>4. CheckTypes
    BY <1>1, <1>2, <1>3 DEF CheckTypes, OfManifest, OfArtifact
<1> QED BY <1>1, <1>4 DEF CheckInv, CodeInv, ThereInv, ExactInv, OfManifest, OfArtifact

LEMMA StartCheck ==
    ASSUME CheckInv, StartOnRun \/ StartOnBody
    PROVE  CheckInv'
<1> USE DEF CheckInv, CheckTypes
<1>1. /\ receipt' \in ManifestFiles /\ manifest' \in ManifestFiles
      /\ call' = IF receipt'.form = "manifest" THEN "find" ELSE "done"
      /\ next' = 1 /\ links' = {} /\ failures' = {} /\ quiet' = TRUE
    BY DEF StartOnRun, StartOnBody, Begin
<1>2. /\ file' \in [Inside -> Contents \cup {NoFile}]
      /\ held' \in [Inside -> SUBSET (Contents \cup {NoFile})]
      /\ private' \in BOOLEAN
      /\ \A p \in Inside : file'[p] \in held'[p]
    <2>1. CASE StartOnRun
        <3>1. file' = file /\ private' = private /\ held' = [p \in Inside |-> {file[p]}]
            BY <2>1 DEF StartOnRun
        <3> QED BY <3>1
    <2>2. CASE StartOnBody
        <3>1. /\ file' = [p \in Inside |-> NoFile] /\ private' = TRUE
              /\ held' = [p \in Inside |-> {NoFile}]
            BY <2>2 DEF StartOnBody
        <3> QED BY <3>1
    <2> QED BY <2>1, <2>2
<1>3. /\ call' \in {"find", "done"}
      /\ call' = "find" => receipt'.form = "manifest"
      /\ call' = "done" => receipt'.form # "manifest"
    BY <1>1
<1>4. receipt'.form # "manifest" => DOMAIN receipt'.artifacts = {}
    <2>1. receipt'.form # "manifest" => receipt'.artifacts = <<>>
        BY <1>1 DEF ManifestFiles
    <2> QED BY <2>1
<1>5. CheckTypes'
    <2>1. /\ call' \in {"idle", "done"} \cup OfManifest \cup OfArtifact
          /\ call' \in OfManifest \cup OfArtifact => receipt'.form = "manifest"
          /\ call' \notin OfArtifact /\ call' \notin {"measureArtifact", "readArtifact"}
        BY <1>3 DEF OfManifest, OfArtifact
    <2> QED BY <1>1, <1>2, <2>1
<1>6. ThereInv'
    BY <1>1, <1>3, <1>4 DEF ThereInv, OfArtifact
<1>7. CodeInv'
    BY <1>1 DEF CodeInv
<1>8. ExactInv'
    BY <1>1, <1>3 DEF ExactInv, OfArtifact
<1> QED BY <1>5, <1>6, <1>7, <1>8

\* An early return: the check is over with a failure.
LEMMA ReturnCheck ==
    ASSUME CheckInv, call \in OfManifest, NEW code \in Occurring, Return(code), UNCHANGED disk,
           quiet' \in BOOLEAN, quiet' => ~Intact
    PROVE  CheckInv'
<1>1. failures' # {} /\ \A f \in failures' : f.code \in Occurring
    BY OneMoreFailure DEF Return, CheckInv, CodeInv
<1>2. CheckTypes'
    BY DEF CheckInv, CheckTypes, Return, disk, OfManifest, OfArtifact, Current
<1>3. Intact' = Intact
    BY DEF Intact, Return, disk
<1>4. receipt'.form = "manifest" /\ call' = "done"
    BY DEF CheckInv, CheckTypes, Return
<1> QED BY <1>1, <1>2, <1>3, <1>4 DEF CheckInv, CodeInv, ThereInv, ExactInv, OfArtifact

\* A call after which the check is still at the manifest.
LEMMA OnwardCheck ==
    ASSUME CheckInv, call \in OfManifest, call' \in OfManifest, UNCHANGED disk,
           UNCHANGED <<receipt, next, links, failures>>,
           quiet' \in BOOLEAN, quiet' /\ call' = "read" => ~manifest.big
    PROVE  CheckInv'
<1>1. UNCHANGED <<manifest, file, private, held>>
    BY DEF disk
<1>2. /\ call \notin {"idle", "done"} /\ call' \notin {"idle", "done"}
      /\ call \notin OfArtifact /\ call' \notin OfArtifact
      /\ call' \notin {"findArtifact", "measureArtifact", "readArtifact"}
    BY DEF OfManifest, OfArtifact
<1>3. CheckTypes'
    BY <1>1, <1>2 DEF CheckInv, CheckTypes
<1>4. CodeInv' /\ ThereInv'
    BY <1>1, <1>2 DEF CheckInv, CodeInv, ThereInv
<1>5. ExactInv'
    BY <1>1, <1>2 DEF ExactInv
<1> QED BY <1>3, <1>4, <1>5 DEF CheckInv

LEMMA FindManifestCheck ==
    ASSUME CheckInv, FindManifest
    PROVE  CheckInv'
<1>1. PICK fails \in BOOLEAN :
        /\ MayFail(fails)
        /\ IF fails \/ manifest.form = "none"
           THEN Return("MANIFEST_NOT_FOUND")
           ELSE call' = "measure" /\ UNCHANGED <<receipt, next, links, failures>>
    BY DEF FindManifest
<1>2. call = "find" /\ UNCHANGED disk /\ call \in OfManifest /\ receipt.form = "manifest"
    BY DEF FindManifest, OfManifest, CheckInv, CheckTypes
<1>3. quiet' \in BOOLEAN /\ (quiet' => quiet /\ ~fails)
    BY <1>1 DEF MayFail, CheckInv, CheckTypes
<1>4. CASE fails \/ manifest.form = "none"
    <2>1. quiet' => ~Intact
        BY <1>2, <1>3, <1>4 DEF Intact
    <2>2. Return("MANIFEST_NOT_FOUND") /\ "MANIFEST_NOT_FOUND" \in Occurring
        BY <1>1, <1>4 DEF Occurring, Codes
    <2> QED BY <1>2, <1>3, <2>1, <2>2, ReturnCheck
<1>5. CASE ~(fails \/ manifest.form = "none")
    <2>1. /\ call' = "measure" /\ UNCHANGED <<receipt, next, links, failures>>
          /\ call' \in OfManifest
        BY <1>1, <1>5 DEF OfManifest
    <2> QED BY <1>2, <1>3, <2>1, OnwardCheck
<1> QED BY <1>4, <1>5

LEMMA MeasureManifestCheck ==
    ASSUME CheckInv, MeasureManifest
    PROVE  CheckInv'
<1>1. PICK fails \in BOOLEAN :
        /\ MayFail(fails)
        /\ IF fails \/ manifest.form = "none" THEN Return("MANIFEST_READ_ERROR")
           ELSE IF manifest.big THEN Return("MANIFEST_TOO_LARGE")
           ELSE call' = "read" /\ UNCHANGED <<receipt, next, links, failures>>
    BY DEF MeasureManifest
<1>2. call = "measure" /\ UNCHANGED disk /\ call \in OfManifest /\ receipt.form = "manifest"
    BY DEF MeasureManifest, OfManifest, CheckInv, CheckTypes
<1>3. quiet' \in BOOLEAN /\ (quiet' => quiet /\ ~fails)
    BY <1>1 DEF MayFail, CheckInv, CheckTypes
<1>4. CASE fails \/ manifest.form = "none" \/ manifest.big
    <2>1. quiet' => ~Intact
        BY <1>2, <1>3, <1>4 DEF Intact
    <2>2. \E code \in {"MANIFEST_READ_ERROR", "MANIFEST_TOO_LARGE"} : Return(code)
        BY <1>1, <1>4
    <2>3. \A code \in {"MANIFEST_READ_ERROR", "MANIFEST_TOO_LARGE"} : code \in Occurring
        BY DEF Occurring, Codes
    <2> QED BY <1>2, <1>3, <2>1, <2>2, <2>3, ReturnCheck
<1>5. CASE ~(fails \/ manifest.form = "none" \/ manifest.big)
    <2>1. /\ call' = "read" /\ UNCHANGED <<receipt, next, links, failures>>
          /\ call' \in OfManifest
        BY <1>1, <1>5 DEF OfManifest
    <2> QED BY <1>2, <1>3, <1>5, <2>1, OnwardCheck
<1> QED BY <1>4, <1>5

\* The hash is compared first: nothing else can be wrong with the same manifest.
LEMMA CodeOfTheReceipt ==
    ASSUME receipt.form = "manifest", NEW m
    PROVE  /\ m = receipt => CodeOf(m) = "none"
           /\ m # receipt => CodeOf(m) = "MANIFEST_HASH_MISMATCH"
BY DEF CodeOf

LEMMA ReadManifestCheck ==
    ASSUME CheckInv, ReadManifest
    PROVE  CheckInv'
<1>1. PICK fails \in BOOLEAN :
        /\ MayFail(fails)
        /\ LET code == CodeOf(manifest)
           IN  IF fails \/ manifest.form = "none" THEN Return("MANIFEST_READ_ERROR")
               ELSE IF code \notin {"none", "DELIVERED_MISMATCH"} THEN Return(code)
               ELSE /\ failures' = failures \cup {Failure(c, "none") : c \in {code} \ {"none"}}
                    /\ call' = ToArtifact(1)
                    /\ UNCHANGED <<receipt, next, links>>
    BY DEF ReadManifest
<1>2. call = "read" /\ UNCHANGED disk /\ call \in OfManifest /\ receipt.form = "manifest"
    BY DEF ReadManifest, OfManifest, CheckInv, CheckTypes
<1>3. quiet' \in BOOLEAN /\ (quiet' => quiet /\ ~fails)
    BY <1>1 DEF MayFail, CheckInv, CheckTypes
<1>4. CASE fails \/ manifest.form = "none" \/ manifest # receipt
    <2>1. quiet' => ~Intact
        BY <1>2, <1>3, <1>4 DEF Intact
    <2>2. \E code \in {"MANIFEST_READ_ERROR", "MANIFEST_HASH_MISMATCH"} : Return(code)
        BY <1>1, <1>2, <1>4, CodeOfTheReceipt
    <2>3. \A code \in {"MANIFEST_READ_ERROR", "MANIFEST_HASH_MISMATCH"} : code \in Occurring
        BY DEF Occurring, Codes
    <2> QED BY <1>2, <1>3, <2>1, <2>2, <2>3, ReturnCheck
<1>5. CASE ~fails /\ manifest = receipt
    <2>1. /\ failures' = {} /\ failures = {} /\ next = 1 /\ links = {}
          /\ call' = ToArtifact(1)
          /\ UNCHANGED <<receipt, next, links, manifest, file, private, held>>
        <3>1. CodeOf(manifest) = "none" /\ manifest.form # "none"
            BY <1>2, <1>5, CodeOfTheReceipt
        <3>2. failures = {} /\ next = 1 /\ links = {}
            BY <1>2 DEF CheckInv, CheckTypes
        <3>3. {Failure(c, "none") : c \in {"none"} \ {"none"}} = {}
            OBVIOUS
        <3> QED BY <1>1, <1>2, <1>5, <3>1, <3>2, <3>3 DEF disk
    <2>2. /\ DOMAIN receipt.artifacts = 1 .. Len(receipt.artifacts)
          /\ Len(receipt.artifacts) \in Nat
        <3>1. receipt.artifacts \in Seq(Artifact)
            BY ManifestTypes DEF CheckInv, CheckTypes
        <3> QED BY <3>1
    <2>3. \/ call' = "findArtifact" /\ 1 \in DOMAIN receipt.artifacts
          \/ call' = "done" /\ DOMAIN receipt.artifacts = {}
        BY <2>1, <2>2 DEF ToArtifact
    <2>4. CheckTypes'
        <3>1. /\ call' \in {"findArtifact", "done"} /\ call' # "idle"
              /\ call' \notin OfManifest /\ call' \notin {"measureArtifact", "readArtifact"}
              /\ call' \in OfArtifact => 1 \in DOMAIN receipt.artifacts
            BY <2>3 DEF OfManifest, OfArtifact
        <3>2. /\ call' \in {"idle", "done"} \cup OfManifest \cup OfArtifact
              /\ call # "idle"
            BY <1>2, <3>1 DEF OfArtifact
        <3> QED BY <1>2, <1>3, <2>1, <3>1, <3>2 DEF CheckInv, CheckTypes
    <2>5. \A i \in DOMAIN receipt.artifacts : i >= 1
        BY <2>2
    <2>6. CodeInv' /\ ThereInv'
        <3>1. call' # "readArtifact" /\ \A i \in DOMAIN receipt.artifacts : ~(i < 1)
            BY <2>2, <2>3
        <3>2. call' = "done" => DOMAIN receipt.artifacts = {}
            BY <2>3
        <3> QED BY <2>1, <3>1, <3>2 DEF CodeInv, ThereInv
    <2>7. quiet' => ~manifest.big
        BY <1>2, <1>3 DEF CheckInv, ExactInv
    <2>8. ExactInv'
        <3>1. Intact' = Intact /\ IntactUpTo(next)' = IntactUpTo(next)
            BY <2>1 DEF Intact, IntactUpTo, IntactAt
        <3>2. IntactUpTo(next)
            BY <2>1, <2>5, <2>2 DEF IntactUpTo
        <3>3. DOMAIN receipt.artifacts = {} /\ quiet' => Intact
            BY <1>5, <2>7 DEF Intact
        <3> QED BY <1>5, <2>1, <2>3, <2>7, <3>1, <3>2, <3>3 DEF ExactInv, OfArtifact
    <2> QED BY <2>4, <2>6, <2>8 DEF CheckInv
<1> QED BY <1>4, <1>5

\* A file that is there has been there in this check; what is known of the
\* artifact at hand.
LEMMA ArtifactAtHand ==
    ASSUME CheckInv, call \in OfArtifact
    PROVE  /\ receipt.form = "manifest" /\ next \in DOMAIN receipt.artifacts
           /\ Current \in Artifact
           /\ MaxBytes \in Nat
           /\ \A c \in Contents : Size[c] \in Nat /\ c # NoFile
           /\ Current.path \notin Unsafe =>
                 /\ Current.path \in Inside
                 /\ file[Current.path] \in Contents \cup {NoFile}
                 /\ file[Current.path] \in held[Current.path]
<1>1. receipt.form = "manifest" /\ next \in DOMAIN receipt.artifacts /\ call # "idle"
    BY DEF CheckInv, CheckTypes, OfArtifact
<1>2. Current \in Artifact
    <2>1. receipt.artifacts \in Seq(Artifact)
        BY ManifestTypes DEF CheckInv, CheckTypes
    <2> QED BY <1>1, <2>1 DEF Current
<1>3. Current.path \notin Unsafe => Current.path \in Inside
    BY <1>2 DEF Artifact, Inside
<1>4. /\ file \in [Inside -> Contents \cup {NoFile}]
      /\ \A p \in Inside : file[p] \in held[p]
    BY <1>1 DEF CheckInv, CheckTypes
<1>5. MaxBytes \in Nat /\ \A c \in Contents : Size[c] \in Nat /\ c # NoFile
    BY ReceiptAssumption
<1> QED BY <1>1, <1>2, <1>3, <1>4, <1>5

\* An artifact is done with: right if it is what it claims, and if it was.
LEMMA ContinueCheck ==
    ASSUME CheckInv, call \in OfArtifact, Continue, UNCHANGED disk, UNCHANGED receipt,
           NEW n, n = next,
           quiet' \in BOOLEAN, quiet' => quiet,
           \A f \in failures' : f.code \in Occurring,
           links \subseteq links',
           failures' = {} => failures = {} /\ WasThere(n)',
           quiet' => (failures' = {} <=> IntactUpTo(n) /\ IntactAt(n))
    PROVE  CheckInv'
<1>1. UNCHANGED <<manifest, file, private, held, receipt>>
    BY DEF disk
<1>2. /\ receipt.form = "manifest" /\ n \in Nat \ {0} /\ n <= Len(receipt.artifacts)
      /\ DOMAIN receipt.artifacts = 1 .. Len(receipt.artifacts)
      /\ Len(receipt.artifacts) \in Nat
    <2>1. receipt.artifacts \in Seq(Artifact)
        BY ManifestTypes DEF CheckInv, CheckTypes
    <2>2. receipt.form = "manifest" /\ n \in DOMAIN receipt.artifacts
        BY ArtifactAtHand
    <2> QED BY <2>1, <2>2
<1>3. /\ next' = n + 1
      /\ \/ call' = "findArtifact" /\ n + 1 <= Len(receipt.artifacts)
         \/ call' = "done" /\ n = Len(receipt.artifacts)
    BY <1>2 DEF Continue, ToArtifact
<1>4. CheckTypes'
    <2>1. /\ call' \in {"idle", "done"} \cup OfManifest \cup OfArtifact
          /\ call' # "idle" /\ call' \notin OfManifest
          /\ call' \notin {"measureArtifact", "readArtifact"}
          /\ call # "idle"
        BY <1>3 DEF OfManifest, OfArtifact
    <2>2. next' \in Nat \ {0}
        BY <1>2, <1>3
    <2>3. call' \in OfArtifact => next' \in DOMAIN receipt'.artifacts
        BY <1>1, <1>2, <1>3 DEF OfArtifact
    <2> QED BY <1>1, <1>2, <2>1, <2>2, <2>3 DEF CheckInv, CheckTypes
<1>5. \A i \in DOMAIN receipt.artifacts : i < n + 1 <=> i < n \/ i = n
    BY <1>2
<1>6. call' # "idle" /\ call' \in OfArtifact \cup {"done"} /\ call' # "readArtifact"
      /\ call' \notin {"read", "measureArtifact", "readArtifact"}
    BY <1>3 DEF OfArtifact
<1>7. CodeInv'
    BY <1>1, <1>2 DEF CodeInv
<1>8. ThereInv'
    <2> SUFFICES ASSUME failures' = {}
                 PROVE  /\ \A i \in DOMAIN receipt.artifacts : i < n + 1 => WasThere(i)'
                        /\ call' = "done" => \A i \in DOMAIN receipt.artifacts : i < n + 1
        BY <1>1, <1>3, <1>6 DEF ThereInv
    <2>1. \A i \in DOMAIN receipt.artifacts : i < n => WasThere(i)
        BY DEF CheckInv, ThereInv
    <2>2. ASSUME NEW i, WasThere(i) PROVE WasThere(i)'
        BY <1>1, <2>2 DEF WasThere
    <2>3. call' = "done" => \A i \in DOMAIN receipt.artifacts : i < n + 1
        BY <1>2, <1>3
    <2> QED BY <1>5, <2>1, <2>2, <2>3
<1>9. ExactInv'
    <2> SUFFICES ASSUME quiet'
                 PROVE  /\ call' = "findArtifact" =>
                              manifest' = receipt' /\ ~manifest'.big
                        /\ call' = "findArtifact" => (failures' = {} <=> IntactUpTo(next)')
                        /\ call' = "done" => (failures' = {} <=> Intact')
        BY <1>3 DEF ExactInv, OfArtifact
    <2>1. manifest = receipt /\ ~manifest.big
        BY <1>2 DEF CheckInv, ExactInv
    <2>2. IntactUpTo(next)' <=> IntactUpTo(n) /\ IntactAt(n)
        <3>1. IntactUpTo(next)' <=> \A i \in DOMAIN receipt.artifacts : i < n + 1 => IntactAt(i)
            BY <1>1, <1>3 DEF IntactUpTo, IntactAt
        <3>2. n \in DOMAIN receipt.artifacts
            BY <1>2
        <3> QED BY <3>1, <3>2, <1>5 DEF IntactUpTo
    <2>3. call' = "done" => (Intact' <=> IntactUpTo(next)')
        <3>1. call' = "done" => \A i \in DOMAIN receipt.artifacts : i < n + 1
            BY <1>2, <1>3
        <3> QED BY <1>1, <1>3, <2>1, <3>1 DEF Intact, IntactUpTo, IntactAt
    <2> QED BY <1>1, <2>1, <2>2, <2>3
<1> QED BY <1>4, <1>7, <1>8, <1>9 DEF CheckInv

\* What the three calls do of the artifact at hand when it is wrong.
LEMMA FoundCheck ==
    ASSUME CheckInv, call \in OfArtifact, NEW code \in Occurring, Found(code), Continue,
           UNCHANGED disk, UNCHANGED <<receipt, links>>,
           quiet' \in BOOLEAN, quiet' => quiet, quiet' => ~IntactAt(next)
    PROVE  CheckInv'
<1>1. PICK n : n = next
    OBVIOUS
<1>2. failures' # {} /\ \A f \in failures' : f.code \in Occurring
    BY OneMoreFailure DEF Found, CheckInv, CodeInv
<1> QED BY <1>1, <1>2, ContinueCheck

LEMMA FindArtifactCheck ==
    ASSUME CheckInv, FindArtifact
    PROVE  CheckInv'
<1>1. PICK fails \in BOOLEAN :
        /\ MayFail(fails)
        /\ IF Current.path \in Unsafe THEN Found("UNSAFE_PATH") /\ Continue
           ELSE IF fails \/ file[Current.path] = NoFile
           THEN Found("ARTIFACT_NOT_FOUND") /\ Continue
           ELSE call' = "measureArtifact" /\ UNCHANGED <<next, failures>>
    BY DEF FindArtifact
<1>2. call = "findArtifact" /\ UNCHANGED disk /\ UNCHANGED <<receipt, links>> /\ call \in OfArtifact
    BY DEF FindArtifact, OfArtifact
<1>3. quiet' \in BOOLEAN /\ (quiet' => quiet /\ ~fails)
    BY <1>1 DEF MayFail, CheckInv, CheckTypes
<1>4. CASE Current.path \in Unsafe \/ fails \/ file[Current.path] = NoFile
    <2>1. quiet' => ~IntactAt(next)
        BY <1>2, <1>3, <1>4, ArtifactAtHand DEF IntactAt, Current, Artifact
    <2>2. \E code \in {"UNSAFE_PATH", "ARTIFACT_NOT_FOUND"} : Found(code) /\ Continue
        BY <1>1, <1>4
    <2>3. \A code \in {"UNSAFE_PATH", "ARTIFACT_NOT_FOUND"} : code \in Occurring
        BY DEF Occurring, Codes
    <2> QED BY <1>2, <1>3, <2>1, <2>2, <2>3, FoundCheck
<1>5. CASE ~(Current.path \in Unsafe \/ fails \/ file[Current.path] = NoFile)
    <2>1. /\ call' = "measureArtifact"
          /\ UNCHANGED <<manifest, file, private, held, receipt, next, links, failures>>
        BY <1>1, <1>2, <1>5 DEF disk
    <2>2. Current' = Current /\ Current.path \in Inside
        BY <1>2, <1>5, <2>1, ArtifactAtHand DEF Current
    <2>3. CheckTypes'
        BY <1>2, <1>3, <2>1, <2>2 DEF CheckInv, CheckTypes, OfManifest, OfArtifact
    <2>4. CodeInv' /\ ThereInv'
        <3>1. \A i : WasThere(i)' <=> WasThere(i)
            BY <2>1 DEF WasThere
        <3>2. call' \notin {"readArtifact", "done"}
            BY <2>1
        <3> QED BY <1>2, <2>1, <3>1, <3>2 DEF CheckInv, CodeInv, ThereInv
    <2>5. ExactInv'
        <3>1. IntactUpTo(next)' <=> IntactUpTo(next)
            BY <2>1 DEF IntactUpTo, IntactAt
        <3> QED BY <1>2, <1>3, <1>5, <2>1, <2>2, <3>1 DEF CheckInv, ExactInv, OfArtifact
    <2> QED BY <2>3, <2>4, <2>5 DEF CheckInv
<1> QED BY <1>4, <1>5

LEMMA MeasureArtifactCheck ==
    ASSUME CheckInv, MeasureArtifact
    PROVE  CheckInv'
<1>1. PICK fails \in BOOLEAN :
        /\ MayFail(fails)
        /\ IF fails \/ file[Current.path] = NoFile
           THEN Found("ARTIFACT_NOT_FOUND") /\ Continue
           ELSE IF IsTooLarge(Size[file[Current.path]])
           THEN Found("ARTIFACT_TOO_LARGE") /\ Continue
           ELSE /\ IF Size[file[Current.path]] # Current.bytes
                   THEN Found("ARTIFACT_SIZE_MISMATCH")
                   ELSE UNCHANGED failures
                /\ call' = "readArtifact"
                /\ UNCHANGED next
    BY DEF MeasureArtifact
<1>2. /\ call = "measureArtifact" /\ UNCHANGED disk /\ UNCHANGED <<receipt, links>>
      /\ call \in OfArtifact
    BY DEF MeasureArtifact, OfArtifact
<1>3. quiet' \in BOOLEAN /\ (quiet' => quiet /\ ~fails)
    BY <1>1 DEF MayFail, CheckInv, CheckTypes
<1>4. Current.path \in Inside /\ Current.path \notin Unsafe
    BY <1>2 DEF CheckInv, CheckTypes, Inside
<1>5. CASE fails \/ file[Current.path] = NoFile \/ IsTooLarge(Size[file[Current.path]])
    <2>1. quiet' => ~IntactAt(next)
        BY <1>2, <1>3, <1>5, ArtifactAtHand DEF IntactAt, Current, Artifact, IsTooLarge
    <2>2. \E code \in {"ARTIFACT_TOO_LARGE", "ARTIFACT_NOT_FOUND"} : Found(code) /\ Continue
        BY <1>1, <1>5
    <2>3. \A code \in {"ARTIFACT_TOO_LARGE", "ARTIFACT_NOT_FOUND"} : code \in Occurring
        BY DEF Occurring, Codes
    <2> QED BY <1>2, <1>3, <2>1, <2>2, <2>3, FoundCheck
<1>6. CASE ~(fails \/ file[Current.path] = NoFile \/ IsTooLarge(Size[file[Current.path]]))
    <2>1. /\ call' = "readArtifact"
          /\ UNCHANGED <<manifest, file, private, held, receipt, next, links>>
          /\ \/ Size[file[Current.path]] # Current.bytes /\ Found("ARTIFACT_SIZE_MISMATCH")
             \/ Size[file[Current.path]] = Current.bytes /\ UNCHANGED failures
        BY <1>1, <1>2, <1>6 DEF disk
    <2>2. Current' = Current
        BY <2>1 DEF Current
    <2>3. /\ \A f \in failures' : f.code \in Occurring
          /\ failures' = {} <=> failures = {} /\ Size[file[Current.path]] = Current.bytes
        <3>1. "ARTIFACT_SIZE_MISMATCH" \in Occurring
            BY DEF Occurring, Codes
        <3> QED BY <2>1, <3>1, OneMoreFailure DEF Found, CheckInv, CodeInv
    <2>4. /\ file[Current.path] \in held[Current.path] \ {NoFile}
          /\ Size[file[Current.path]] <= MaxBytes
        <3>1. /\ file[Current.path] \in held[Current.path]
              /\ Size[file[Current.path]] \in Nat /\ MaxBytes \in Nat
            BY <1>2, <1>4, <1>6, ArtifactAtHand
        <3> QED BY <1>6, <3>1 DEF IsTooLarge
    <2>5. CheckTypes'
        BY <1>2, <1>3, <2>1, <2>2 DEF CheckInv, CheckTypes, OfManifest, OfArtifact
    <2>6. CodeInv'
        BY <1>2, <2>1, <2>3, ArtifactAtHand DEF CodeInv
    <2>7. ThereInv'
        <3>1. \A i : WasThere(i)' <=> WasThere(i)
            BY <2>1 DEF WasThere
        <3> QED BY <1>2, <2>1, <2>2, <2>3, <2>4, <3>1 DEF CheckInv, ThereInv
    <2>8. ExactInv'
        <3>1. IntactUpTo(next)' <=> IntactUpTo(next)
            BY <2>1 DEF IntactUpTo, IntactAt
        <3> QED BY <1>2, <1>3, <1>6, <2>1, <2>2, <2>3, <2>4, <3>1
                DEF CheckInv, ExactInv, OfArtifact
    <2> QED BY <2>5, <2>6, <2>7, <2>8 DEF CheckInv
<1> QED BY <1>5, <1>6

LEMMA ReadArtifactCheck ==
    ASSUME CheckInv, ReadArtifact
    PROVE  CheckInv'
<1>1. PICK fails \in BOOLEAN :
        /\ MayFail(fails)
        /\ IF fails \/ file[Current.path] = NoFile
           THEN Found("ARTIFACT_NOT_FOUND") /\ UNCHANGED links
           ELSE /\ IF file[Current.path] # Current.sha256
                   THEN Found("ARTIFACT_HASH_MISMATCH")
                   ELSE UNCHANGED failures
                /\ links' = links \cup {next}
        /\ Continue
    BY DEF ReadArtifact
<1>2. call = "readArtifact" /\ UNCHANGED disk /\ UNCHANGED receipt /\ call \in OfArtifact
    BY DEF ReadArtifact, OfArtifact
<1>3. quiet' \in BOOLEAN /\ (quiet' => quiet /\ ~fails)
    BY <1>1 DEF MayFail, CheckInv, CheckTypes
<1>4. Current.path \in Inside /\ Current.path \notin Unsafe
    BY <1>2 DEF CheckInv, CheckTypes, Inside
<1>5. PICK n : n = next
    OBVIOUS
<1>6. IntactAt(n) <=> /\ file[Current.path] = Current.sha256
                      /\ Size[Current.sha256] = Current.bytes /\ Current.bytes <= MaxBytes
    BY <1>4, <1>5 DEF IntactAt, Current
<1>7. links \subseteq links' /\ Continue
    BY <1>1
<1>8. CASE fails \/ file[Current.path] = NoFile \/ file[Current.path] # Current.sha256
    <2>1. quiet' => ~IntactAt(n)
        BY <1>2, <1>3, <1>6, <1>8, ArtifactAtHand DEF Artifact
    <2>2. \E code \in {"ARTIFACT_HASH_MISMATCH", "ARTIFACT_NOT_FOUND"} : Found(code)
        BY <1>1, <1>8
    <2>3. \A code \in {"ARTIFACT_HASH_MISMATCH", "ARTIFACT_NOT_FOUND"} : code \in Occurring
        BY DEF Occurring, Codes
    <2>4. failures' # {} /\ \A f \in failures' : f.code \in Occurring
        BY <2>2, <2>3, OneMoreFailure DEF Found, CheckInv, CodeInv
    <2> QED BY <1>2, <1>3, <1>5, <1>7, <2>1, <2>4, ContinueCheck
<1>9. CASE ~(fails \/ file[Current.path] = NoFile \/ file[Current.path] # Current.sha256)
    <2>1. failures' = failures /\ n \in links' /\ UNCHANGED <<held, receipt>>
        BY <1>1, <1>2, <1>5, <1>9 DEF disk
    <2>2. failures' = {} => failures = {} /\ WasThere(n)'
        <3>1. Current.sha256 \in held[Current.path]
            BY <1>2, <1>4, <1>9, ArtifactAtHand
        <3>2. failures = {} => \E c \in held[Current.path] \ {NoFile} :
                                    Size[c] = Current.bytes /\ Current.bytes <= MaxBytes
            BY <1>2 DEF CheckInv, ThereInv
        <3>3. WasThere(n)' <=> /\ Current.sha256 \in held[Current.path]
                               /\ \E c \in held[Current.path] \ {NoFile} :
                                    Size[c] = Current.bytes /\ Current.bytes <= MaxBytes
            BY <1>4, <1>5, <2>1 DEF WasThere, Current
        <3> QED BY <2>1, <3>1, <3>2, <3>3
    <2>3. \A f \in failures' : f.code \in Occurring
        BY <2>1 DEF CheckInv, CodeInv
    <2>4. quiet' => (failures' = {} <=> IntactUpTo(n) /\ IntactAt(n))
        <3>1. quiet' => /\ Size[file[Current.path]] <= MaxBytes
                        /\ failures = {} <=>
                              IntactUpTo(n) /\ Size[file[Current.path]] = Current.bytes
            BY <1>2, <1>3, <1>5, ArtifactAtHand DEF CheckInv, ExactInv
        <3> QED BY <1>6, <1>9, <2>1, <3>1
    <2> QED BY <1>2, <1>3, <1>5, <1>7, <2>2, <2>3, <2>4, ContinueCheck
<1> QED BY <1>8, <1>9

LEMMA FinishCheck ==
    ASSUME CheckInv, Finish
    PROVE  CheckInv'
<1>1. /\ call' = "idle" /\ next' = 1 /\ links' = {} /\ failures' = {}
      /\ receipt' = NoManifest /\ private' = FALSE /\ quiet' = TRUE
      /\ held' = [p \in Inside |-> {}]
    BY DEF Finish
<1>2. manifest' \in ManifestFiles /\ file' \in [Inside -> Contents \cup {NoFile}]
    <2>1. CASE private
        <3>1. manifest' = NoManifest /\ file' = [p \in Inside |-> NoFile]
            BY <2>1 DEF Finish
        <3>2. file' \in [Inside -> Contents \cup {NoFile}]
            BY <3>1
        <3> QED BY <3>1, <3>2, NoManifestIsOne
    <2>2. CASE ~private
        BY <2>2 DEF Finish, CheckInv, CheckTypes
    <2> QED BY <2>1, <2>2
<1>3. receipt' \in ManifestFiles /\ receipt'.form # "manifest"
    BY <1>1, NoManifestIsOne
<1>4. held' \in [Inside -> SUBSET (Contents \cup {NoFile})]
    BY <1>1
<1>5. CheckTypes'
    <2>1. /\ call' \in {"idle", "done"} \cup OfManifest \cup OfArtifact
          /\ call' \notin OfManifest /\ call' \notin OfArtifact
          /\ call' \notin {"measureArtifact", "readArtifact"}
        BY <1>1 DEF OfManifest, OfArtifact
    <2>2. private' \in BOOLEAN /\ quiet' \in BOOLEAN
        BY DEF Finish
    <2>3. next' \in Nat \ {0}
        BY <1>1
    <2> QED BY <1>1, <1>2, <1>3, <1>4, <2>1, <2>2, <2>3 DEF CheckTypes
<1>6. CodeInv' /\ ThereInv' /\ ExactInv'
    BY <1>1, <1>3 DEF CodeInv, ThereInv, ExactInv, OfArtifact
<1> QED BY <1>5, <1>6 DEF CheckInv

\* What the solver changes counts for nothing that the check has found: files
\* only gain contents that they have had.
LEMMA ChangeCheck ==
    ASSUME CheckInv, ChangeManifest \/ ChangeArtifact
    PROVE  CheckInv'
<1>1. UNCHANGED <<private, call, receipt, next, links, failures>> /\ quiet' = FALSE
    BY DEF ChangeManifest, ChangeArtifact
<1>2. manifest' \in ManifestFiles
    BY DEF CheckInv, CheckTypes, ChangeManifest, ChangeArtifact
<1>3. /\ file' \in [Inside -> Contents \cup {NoFile}]
      /\ held' \in [Inside -> SUBSET (Contents \cup {NoFile})]
      /\ \A p \in Inside : held[p] \subseteq held'[p]
      /\ call # "idle" => \A p \in Inside : file'[p] \in held'[p]
    <2>0. /\ file \in [Inside -> Contents \cup {NoFile}]
          /\ held \in [Inside -> SUBSET (Contents \cup {NoFile})]
          /\ call # "idle" => \A p \in Inside : file[p] \in held[p]
        BY DEF CheckInv, CheckTypes
    <2>1. CASE ChangeManifest
        <3>1. UNCHANGED <<file, held>>
            BY <2>1 DEF ChangeManifest
        <3> QED BY <2>0, <3>1
    <2>2. CASE ChangeArtifact
        <3>1. PICK p \in Inside, c \in Contents \cup {NoFile} :
                /\ file' = [file EXCEPT ![p] = c]
                /\ held' = [held EXCEPT ![p] = @ \cup {c}]
            BY <2>2 DEF ChangeArtifact
        <3>2. held[p] \cup {c} \in SUBSET (Contents \cup {NoFile})
            BY <2>0
        <3> QED BY <2>0, <3>1, <3>2
    <2> QED BY <2>1, <2>2
<1>4. CheckTypes'
    BY <1>1, <1>2, <1>3 DEF CheckInv, CheckTypes, Current
<1>5. CodeInv' /\ ExactInv'
    BY <1>1 DEF CheckInv, CodeInv, ExactInv
<1>6. ThereInv'
    <2>0. call \in OfArtifact \cup {"done"} => call # "idle"
        BY DEF OfArtifact
    <2>1. ASSUME NEW i \in DOMAIN receipt.artifacts, WasThere(i) PROVE WasThere(i)'
        <3>1. receipt.artifacts[i].path \in Inside
            BY <2>1, ArtifactTypes DEF CheckInv, WasThere, Inside
        <3>2. held[receipt.artifacts[i].path] \subseteq held'[receipt.artifacts[i].path]
            BY <1>3, <3>1
        <3> QED BY <1>1, <2>1, <3>2 DEF WasThere
    <2>2. call = "readArtifact" => /\ Current' = Current
                                 /\ held[Current.path] \subseteq held'[Current.path]
        BY <1>1, <1>3 DEF CheckInv, CheckTypes, Current
    <2> QED BY <1>1, <2>1, <2>2 DEF CheckInv, ThereInv
<1> QED BY <1>4, <1>5, <1>6 DEF CheckInv

LEMMA NextCheck == CheckInv /\ [RCNext]_rcVars => CheckInv'
<1> SUFFICES ASSUME CheckInv, [RCNext]_rcVars PROVE CheckInv'
    OBVIOUS
<1>1. CASE StartOnRun \/ StartOnBody
    BY <1>1, StartCheck
<1>2. CASE FindManifest
    BY <1>2, FindManifestCheck
<1>3. CASE MeasureManifest
    BY <1>3, MeasureManifestCheck
<1>4. CASE ReadManifest
    BY <1>4, ReadManifestCheck
<1>5. CASE FindArtifact
    BY <1>5, FindArtifactCheck
<1>6. CASE MeasureArtifact
    BY <1>6, MeasureArtifactCheck
<1>7. CASE ReadArtifact
    BY <1>7, ReadArtifactCheck
<1>8. CASE Finish
    BY <1>8, FinishCheck
<1>9. CASE ChangeManifest \/ ChangeArtifact
    BY <1>9, ChangeCheck
<1>10. CASE UNCHANGED rcVars
    BY <1>10 DEF rcVars, CheckInv, CheckTypes, CodeInv, ThereInv, WasThere, ExactInv, IntactUpTo,
                 IntactAt, Intact, Current
<1> QED BY <1>1, <1>2, <1>3, <1>4, <1>5, <1>6, <1>7, <1>8, <1>9, <1>10 DEF RCNext

LEMMA AlwaysCheck == RCSpec => []CheckInv
<1> QED BY InitCheck, NextCheck, PTL DEF RCSpec

\* However the solver moves its files between the calls of ingestReceipt: when
\* it says verified, each artifact of the manifest had the content and the
\* size that are claimed at some moment of the check, and is linked.
THEOREM VerifiedArtifactsWereThere == RCSpec => []VerifiedWasThere
<1>1. CheckInv => VerifiedWasThere
    BY DEF CheckInv, ThereInv, WasThere, VerifiedWasThere, Verified
<1> QED BY <1>1, AlwaysCheck, PTL

\* While no file changes and no call fails, verifyEvidence finds no failure if
\* and only if the manifest is the receipt and each artifact is as it claims.
THEOREM RestingVerdictIsExact == RCSpec => []VerdictIsExact
<1>1. CheckInv => VerdictIsExact
    BY DEF CheckInv, ExactInv, VerdictIsExact
<1> QED BY <1>1, AlwaysCheck, PTL

\* The hash that verifyEvidence compares first leaves the second parse, the
\* second look at the schema and the comparison of the paths nothing to find.
THEOREM SecondReadFindsNothing == RCSpec => []ReadTwiceAlike
<1>1. CheckInv => ReadTwiceAlike
    BY DEF CheckInv, CodeInv, Occurring, ReadTwiceAlike
<1> QED BY <1>1, AlwaysCheck, PTL

\* deriveBehaviorSignals gives a check that failed a signal that is not that of
\* success, unless all that is wrong is the size of artifacts.
THEOREM FailuresHaveSignals == RCSpec => []FailureIsSignalled
<1>1. ASSUME CheckInv PROVE FailureIsSignalled
    <2> SUFFICES ASSUME failures # {}
                 PROVE  /\ "VERIFIED_OK" \notin Signals
                        /\ Signals = {} => \A f \in failures : f.code = "ARTIFACT_TOO_LARGE"
        BY DEF FailureIsSignalled
    <2>1. /\ receipt.form = "manifest" /\ \A f \in failures : f.code \in Codes
        BY <1>1 DEF CheckInv, CodeInv, Occurring
    <2>2. Signals = {SignalOf[f.code] : f \in {g \in failures : g.code \in DOMAIN SignalOf}}
        BY <2>1 DEF Signals
    <2>3. DOMAIN SignalOf = Codes \ {"ARTIFACT_TOO_LARGE"}
        BY DEF SignalOf
    <2>4. \A c \in DOMAIN SignalOf : SignalOf[c] # "VERIFIED_OK"
        BY DEF SignalOf, Codes
    <2> QED BY <2>1, <2>2, <2>3, <2>4
<1> QED BY <1>1, AlwaysCheck, PTL

-----------------------------------------------------------------------------
(* Syncs. *)

HasRange(p) == pc[p] \in {"txs", "prior", "cursor"}
HasGot(p) == pc[p] \in {"prior", "cursor"}

\* Types, and that no transaction is in the first block.
SyncTypes ==
    /\ TypeOK
    /\ steady \in [Syncs -> BOOLEAN]
    /\ signals = [p \in Syncs |-> signals[p]]
    /\ \A x \in Txs : minedAt[x] # 0
    /\ \A p \in Syncs : to[p] <= MaxHeight /\ (HasRange(p) => to[p] - from[p] <= MaxBlocks)

LEMMA RangeIsBounded ==
    ASSUME NEW f \in Nat, NEW t \in Nat, ~IsEmpty(f, t)
    PROVE  /\ EffectiveTo(f, t) \in f .. t
           /\ EffectiveTo(f, t) - f <= MaxBlocks
BY ContextAssumption DEF IsEmpty, EffectiveTo

LEMMA RangeOfSync ==
    ASSUME SyncTypes, NEW p \in Syncs, ~IsEmpty(FromBlock(asked[p], tip), ToBlock(asked[p], tip))
    PROVE  LET f == FromBlock(asked[p], tip)
               t == EffectiveTo(f, ToBlock(asked[p], tip))
           IN  f \in Nat /\ t \in Nat /\ f <= t /\ t <= MaxHeight /\ t - f <= MaxBlocks
<1> DEFINE f == FromBlock(asked[p], tip)
<1> DEFINE t == ToBlock(asked[p], tip)
<1>1. /\ asked[p].from \in Nothing .. MaxHeight /\ asked[p].to \in Nothing .. MaxHeight
      /\ asked[p].cursor \in Nat /\ tip \in 1 .. MaxHeight
      /\ MaxBlocks \in Nat \ {0} /\ MaxHeight \in Nat
  BY ContextAssumption DEF SyncTypes, TypeOK
<1>2. f \in Nat
  BY <1>1 DEF FromBlock, Nothing
<1>3. t \in 0 .. MaxHeight
  BY <1>1 DEF ToBlock, Nothing
<1> HIDE DEF f, t
<1>4. EffectiveTo(f, t) \in f .. t /\ EffectiveTo(f, t) - f <= MaxBlocks
  BY <1>2, <1>3, RangeIsBounded DEF f, t
<1>5. f \in Nat /\ EffectiveTo(f, t) \in Nat /\ f <= EffectiveTo(f, t) /\ EffectiveTo(f, t) <= MaxHeight
  BY <1>1, <1>2, <1>3, <1>4
<1> QED
  BY <1>4, <1>5 DEF f, t

\* A sync that ends leaves nothing.
LEMMA EndTypes ==
    ASSUME SyncTypes, NEW p \in Syncs, End(p), UNCHANGED chainVars,
           {cursor', base'} \subseteq 0 .. MaxHeight, counted' \subseteq Txs
    PROVE  SyncTypes'
<1>1. NotAsked \in [cursor : Nat, from : Nothing .. MaxHeight, to : Nothing .. MaxHeight]
  BY ContextAssumption DEF NotAsked, Nothing
<1>2. pc' \in [Syncs -> PCs] /\ \A q \in Syncs : HasRange(q)' => q # p /\ HasRange(q)
  BY DEF SyncTypes, TypeOK, End, PCs, HasRange
<1>3. /\ MaxHeight \in Nat /\ overrides' = overrides
      /\ asked' = [asked EXCEPT ![p] = NotAsked] /\ got' = [got EXCEPT ![p] = {}]
      /\ series' = [series EXCEPT ![p] = 0]
      /\ from' = [from EXCEPT ![p] = 0] /\ to' = [to EXCEPT ![p] = 0]
      /\ signals' = [signals EXCEPT ![p] = {}] /\ steady' = [steady EXCEPT ![p] = FALSE]
  BY ContextAssumption DEF End
<1>4. /\ from' \in [Syncs -> Nat] /\ to' \in [Syncs -> Nat]
      /\ \A q \in Syncs : from'[q] <= to'[q] /\ to'[q] <= MaxHeight
      /\ \A q \in Syncs : HasRange(q)' => to'[q] - from'[q] <= MaxBlocks
  BY <1>2, <1>3 DEF SyncTypes, TypeOK
<1>5. /\ asked' \in [Syncs -> [cursor : Nat, from : Nothing .. MaxHeight, to : Nothing .. MaxHeight]]
      /\ got' \in [Syncs -> SUBSET Txs] /\ steady' \in [Syncs -> BOOLEAN]
      /\ series' \in [Syncs -> 0 .. MaxHeight]
  BY <1>1, <1>3 DEF SyncTypes, TypeOK
<1>6. signals' = [q \in Syncs |-> signals'[q]]
  BY <1>3 DEF SyncTypes
<1> QED
  BY <1>2, <1>3, <1>4, <1>5, <1>6 DEF SyncTypes, TypeOK, chainVars

LEMMA StepSyncTypes == SyncTypes /\ [Next]_vars => SyncTypes'
<1> SUFFICES ASSUME SyncTypes, [Next]_vars PROVE SyncTypes'
  OBVIOUS
<1>0. MaxHeight \in Nat \ {0} /\ {MaxReorg, MaxReorgs, MaxOverrides} \subseteq Nat
  BY ContextAssumption
<1>1. ASSUME NEW S \in SUBSET Txs, NewBlock(S) PROVE SyncTypes'
  <2>1. UNCHANGED <<everRead, reorgs, cursor, counted, base, overrides, pc, asked, series, from, to, got, signals>>
    BY <1>1 DEF NewBlock, dbVars, syncVars
  <2>2. /\ tip' \in 1 .. MaxHeight /\ minedAt' \in [Txs -> Nothing .. tip']
        /\ \A x \in Txs : minedAt'[x] # 0
    BY <1>0, <1>1 DEF NewBlock, SyncTypes, TypeOK, Nothing
  <2>3. late' \subseteq Txs /\ steady' \in [Syncs -> BOOLEAN]
    BY <1>1 DEF NewBlock, SyncTypes, TypeOK
  <2> QED
    BY <2>1, <2>2, <2>3 DEF SyncTypes, TypeOK, HasRange
<1>2. CASE AnyReorg
  <2>1. PICK depth \in 1 .. MaxReorg, new \in [Txs -> Nothing .. MaxHeight] : Reorg(depth, new)
    BY <1>2 DEF AnyReorg
  <2>2. /\ UNCHANGED <<tip, everRead, cursor, counted, base, overrides, pc, asked, series, from, to, got, signals>>
        /\ minedAt' = new
    BY <2>1 DEF Reorg, dbVars, syncVars
  <2>3. ASSUME NEW x \in Txs PROVE new[x] \in Nothing .. tip /\ new[x] # 0
    <3>1. minedAt[x] \in Nothing .. tip /\ minedAt[x] # 0 /\ tip \in Nat
      BY DEF SyncTypes, TypeOK
    <3>2. new[x] = Nothing \/ new[x] \in tip - depth + 1 .. tip \/ new[x] = minedAt[x]
      BY <2>1 DEF Reorg
    <3>3. depth \in Nat /\ depth < tip
      BY <1>0, <2>1 DEF Reorg
    <3> QED
      BY <3>1, <3>2, <3>3 DEF Nothing
  <2>4. minedAt' \in [Txs -> Nothing .. tip]
    BY <2>2, <2>3
  <2>5. late' \subseteq Txs /\ steady' \in [Syncs -> BOOLEAN] /\ reorgs' \in 0 .. MaxReorgs
    BY <1>0, <2>1 DEF Reorg, SyncTypes, TypeOK
  <2> QED
    BY <2>2, <2>3, <2>4, <2>5 DEF SyncTypes, TypeOK, HasRange
<1>3. ASSUME NEW p \in Syncs, Start(p) PROVE SyncTypes'
  <2>1. /\ UNCHANGED <<from, to, got, signals, steady>> /\ UNCHANGED chainVars /\ UNCHANGED dbVars
        /\ pc' = [pc EXCEPT ![p] = "tip"]
    BY <1>3 DEF Start
  <2>2. PICK f \in Nothing .. MaxHeight, t \in Nothing .. MaxHeight :
           /\ overrides' = overrides \/ (overrides < MaxOverrides /\ overrides' = overrides + 1)
           /\ asked' = [asked EXCEPT ![p] = [cursor |-> cursor, from |-> f, to |-> t]]
           /\ series' = [series EXCEPT ![p] = base]
    BY <1>3 DEF Start
  <2>3. /\ overrides' \in 0 .. MaxOverrides
        /\ asked' \in [Syncs -> [cursor : Nat, from : Nothing .. MaxHeight, to : Nothing .. MaxHeight]]
        /\ series' \in [Syncs -> 0 .. MaxHeight]
    BY <1>0, <2>2 DEF SyncTypes, TypeOK
  <2>4. pc' \in [Syncs -> PCs] /\ \A q \in Syncs : HasRange(q)' => HasRange(q)
    BY <2>1 DEF SyncTypes, TypeOK, PCs, HasRange
  <2> QED
    BY <2>1, <2>3, <2>4 DEF SyncTypes, TypeOK, chainVars, dbVars
<1>4. ASSUME NEW p \in Syncs, ReadTip(p) PROVE SyncTypes'
  <2> DEFINE f == FromBlock(asked[p], tip)
  <2> DEFINE t == ToBlock(asked[p], tip)
  <2> DEFINE e == EffectiveTo(f, t)
  <2>1. UNCHANGED chainVars /\ UNCHANGED dbVars
    BY <1>4 DEF ReadTip
  <2>2. CASE IsEmpty(f, t)
    BY <1>4, <2>1, <2>2, EndTypes DEF ReadTip, dbVars, SyncTypes, TypeOK
  <2>3. CASE ~IsEmpty(f, t)
    <3>1. f \in Nat /\ e \in Nat /\ f <= e /\ e <= MaxHeight /\ e - f <= MaxBlocks
      BY <2>3, RangeOfSync
    <3>2. /\ from' = [from EXCEPT ![p] = f] /\ to' = [to EXCEPT ![p] = e]
          /\ steady' = [steady EXCEPT ![p] = TRUE] /\ pc' = [pc EXCEPT ![p] = "txs"]
          /\ series' = [series EXCEPT ![p] = IF Opens(asked[p]) THEN f ELSE @]
          /\ asked' = [asked EXCEPT ![p] = NotAsked] /\ UNCHANGED <<overrides, got, signals>>
      BY <1>4, <2>3 DEF ReadTip
    <3> HIDE DEF f, e
    <3>3. pc' \in [Syncs -> PCs] /\ \A q \in Syncs : HasRange(q)' => q = p \/ HasRange(q)
      BY <3>2 DEF SyncTypes, TypeOK, PCs, HasRange
    <3>4. /\ from' \in [Syncs -> Nat] /\ to' \in [Syncs -> Nat]
          /\ \A q \in Syncs : from'[q] <= to'[q] /\ to'[q] <= MaxHeight
          /\ \A q \in Syncs : (HasRange(q)' => to'[q] - from'[q] <= MaxBlocks)
      BY <3>1, <3>2, <3>3 DEF SyncTypes, TypeOK
    <3>5. f \in 0 .. MaxHeight
      BY <1>0, <3>1
    <3>6. series' \in [Syncs -> 0 .. MaxHeight]
      BY <3>2, <3>5 DEF SyncTypes, TypeOK
    <3>7. NotAsked \in [cursor : Nat, from : Nothing .. MaxHeight, to : Nothing .. MaxHeight]
      BY <1>0 DEF NotAsked, Nothing
    <3>8. asked' \in [Syncs -> [cursor : Nat, from : Nothing .. MaxHeight, to : Nothing .. MaxHeight]]
      BY <3>2, <3>7 DEF SyncTypes, TypeOK
    <3> QED
      BY <2>1, <3>2, <3>3, <3>4, <3>6, <3>8 DEF SyncTypes, TypeOK, chainVars, dbVars
  <2> QED
    BY <2>2, <2>3
<1>5. ASSUME NEW p \in Syncs, ReadTransactions(p) PROVE SyncTypes'
  <2>1. /\ UNCHANGED <<tip, minedAt, late, reorgs, cursor, counted, base, overrides, asked, series, from, to, signals, steady>>
        /\ got' = [got EXCEPT ![p] = Between(from[p], to[p])]
        /\ everRead' = everRead \cup from[p] .. to[p]
        /\ pc' = [pc EXCEPT ![p] = "prior"] /\ pc[p] = "txs"
    BY <1>5 DEF ReadTransactions, dbVars
  <2>2. got' \in [Syncs -> SUBSET Txs]
    BY <2>1 DEF SyncTypes, TypeOK, Between
  <2>3. everRead' \subseteq 0 .. MaxHeight
    <3>1. from[p] \in Nat /\ to[p] \in Nat /\ to[p] <= MaxHeight
      BY DEF SyncTypes, TypeOK
    <3>2. from[p] .. to[p] \subseteq 0 .. MaxHeight
      BY <1>0, <3>1
    <3> QED
      BY <2>1, <3>2 DEF SyncTypes, TypeOK
  <2>4. pc' \in [Syncs -> PCs] /\ \A q \in Syncs : HasRange(q)' => HasRange(q)
    BY <2>1 DEF SyncTypes, TypeOK, PCs, HasRange
  <2> QED
    BY <2>1, <2>2, <2>3, <2>4 DEF SyncTypes, TypeOK
<1>6. ASSUME NEW p \in Syncs, StoreSnapshot(p) PROVE SyncTypes'
  <2>1. /\ UNCHANGED chainVars
        /\ UNCHANGED <<cursor, base, overrides, asked, series, from, to, got, steady>>
        /\ counted' \subseteq Txs
    BY <1>6 DEF StoreSnapshot, SyncTypes, TypeOK
  <2>2. pc' \in [Syncs -> PCs] /\ \A q \in Syncs : HasRange(q)' => HasRange(q)
    BY <1>6 DEF StoreSnapshot, SyncTypes, TypeOK, PCs, HasRange
  <2>3. signals' = [q \in Syncs |-> signals'[q]]
    BY <1>6 DEF StoreSnapshot, SyncTypes
  <2> QED
    BY <2>1, <2>2, <2>3 DEF SyncTypes, TypeOK, chainVars
<1>7. ASSUME NEW p \in Syncs, SetCursor(p) PROVE SyncTypes'
  <2>1. {cursor', base'} \subseteq 0 .. MaxHeight
    <3>1. from[p] \in Nat /\ to[p] \in Nat /\ from[p] <= to[p] /\ to[p] <= MaxHeight
      BY DEF SyncTypes, TypeOK
    <3> QED
      BY <1>0, <1>7, <3>1 DEF SetCursor, SeriesAfter, SyncTypes, TypeOK
  <2> QED
    BY <1>7, <2>1, EndTypes DEF SetCursor, SyncTypes, TypeOK
<1>8. ASSUME NEW p \in Syncs, Crash(p) PROVE SyncTypes'
  BY <1>8, EndTypes DEF Crash, dbVars, SyncTypes, TypeOK
<1>9. CASE UNCHANGED vars
  BY <1>9 DEF vars, chainVars, dbVars, syncVars, SyncTypes, TypeOK, HasRange
<1> QED
  BY <1>1, <1>2, <1>3, <1>4, <1>5, <1>6, <1>7, <1>8, <1>9 DEF Next

LEMMA InitSyncTypes == Init => SyncTypes
<1> SUFFICES ASSUME Init PROVE SyncTypes
  OBVIOUS
<1>1. /\ MaxHeight \in Nat \ {0} /\ MaxBlocks \in Nat /\ {MaxReorgs, MaxOverrides} \subseteq Nat
      /\ NotAsked \in [cursor : Nat, from : Nothing .. MaxHeight, to : Nothing .. MaxHeight]
  BY ContextAssumption DEF NotAsked, Nothing
<1>2. pc \in [Syncs -> PCs] /\ \A p \in Syncs : ~HasRange(p)
  BY DEF Init, PCs, HasRange
<1>3. /\ tip \in 1 .. MaxHeight /\ minedAt \in [Txs -> Nothing .. tip] /\ \A x \in Txs : minedAt[x] # 0
  BY <1>1 DEF Init, Nothing
<1> QED
  BY <1>1, <1>2, <1>3 DEF Init, SyncTypes, TypeOK

\* Every variable of the syncs has its type, and no range passes the highest
\* block, whatever a sync is given.
THEOREM SyncTypesCorrect == Spec => []TypeOK
<1>1. SyncTypes => TypeOK
  BY DEF SyncTypes
<1> QED
  BY <1>1, InitSyncTypes, StepSyncTypes, PTL DEF Spec

-----------------------------------------------------------------------------
\* The blocks f .. t have been read, and a transaction in them is in S or has
\* come to a block that had been read.  The first block may stay unread: no
\* transaction is in it.
Covers(S, f, t, read, mined, came) ==
    /\ \A b \in f .. t : b = 0 \/ b \in read
    /\ \A x \in Txs : f <= mined[x] /\ mined[x] <= t => x \in S \cup came

Covered(S, f, t) == Covers(S, f, t, everRead, minedAt, late)

\* What sync p relies on: the blocks from where its series began up to the
\* cursor it has read, then up to its range, and the range itself once read,
\* which it counts before it moves the cursor.
SyncCovered(p) ==
    /\ pc[p] = "tip" /\ ~Opens(asked[p]) => Covered(counted, series[p], asked[p].cursor)
    /\ HasRange(p) => Covered(counted, series[p], from[p] - 1)
    /\ HasGot(p) => Covered(got[p], from[p], to[p])
    /\ pc[p] = "cursor" => got[p] \subseteq counted

Coverage ==
    Covered(counted, base, cursor) /\ \A p \in Syncs : SyncCovered(p)

SyncInv == SyncTypes /\ Coverage

\* Whatever the chain does: blocks stay read, and what comes to one of them
\* is late.
LEMMA ChainSteps ==
    ASSUME SyncTypes, [Next]_vars
    PROVE  /\ everRead \subseteq everRead' /\ late \subseteq late' /\ counted \subseteq counted'
           /\ \A x \in Txs : minedAt'[x] \in everRead => minedAt'[x] = minedAt[x] \/ x \in late'
<1>1. ASSUME NEW S \in SUBSET Txs, NewBlock(S)
      PROVE  /\ everRead' = everRead /\ late \subseteq late' /\ counted' = counted
             /\ \A x \in Txs : minedAt'[x] \in everRead => minedAt'[x] = minedAt[x] \/ x \in late'
  BY <1>1 DEF NewBlock, dbVars, SyncTypes, TypeOK
<1>2. ASSUME AnyReorg
      PROVE  /\ everRead' = everRead /\ late \subseteq late' /\ counted' = counted
             /\ \A x \in Txs : minedAt'[x] \in everRead => minedAt'[x] = minedAt[x] \/ x \in late'
  BY <1>2 DEF AnyReorg, Reorg, dbVars
<1>3. ASSUME NEW p \in Syncs,
             \/ Start(p) \/ ReadTip(p) \/ ReadTransactions(p) \/ StoreSnapshot(p)
             \/ SetCursor(p) \/ Crash(p)
      PROVE  /\ everRead \subseteq everRead' /\ UNCHANGED <<late, minedAt>>
             /\ counted \subseteq counted'
  BY <1>3 DEF Start, ReadTip, ReadTransactions, StoreSnapshot, SetCursor, Crash,
              chainVars, dbVars
<1>4. CASE UNCHANGED vars
  BY <1>4 DEF vars, chainVars, dbVars
<1> QED
  BY <1>1, <1>2, <1>3, <1>4 DEF Next

LEMMA CoverStays ==
    ASSUME SyncTypes, SyncTypes', [Next]_vars, NEW f \in Nat, NEW t \in Int, NEW S, NEW T,
           S \subseteq T, Covered(S, f, t)
    PROVE  Covers(T, f, t, everRead', minedAt', late')
<1>1. \A b \in f .. t : b = 0 \/ b \in everRead'
  BY ChainSteps DEF Covered, Covers
<1>2. ASSUME NEW x \in Txs, f <= minedAt'[x], minedAt'[x] <= t PROVE x \in T \cup late'
  <2>1. minedAt'[x] \in Int /\ minedAt'[x] # 0
    BY DEF SyncTypes, TypeOK, Nothing
  <2>2. minedAt'[x] \in everRead
    BY <1>2, <2>1 DEF Covered, Covers
  <2> QED
    BY <1>2, <2>2, ChainSteps DEF Covered, Covers
<1> QED
  BY <1>1, <1>2 DEF Covers

\* Two covered stretches that meet or overlap make one.
LEMMA CoverJoins ==
    ASSUME NEW S, NEW T, T \subseteq S, NEW f \in Nat, NEW g \in Nat, NEW h \in Int, NEW t \in Nat,
           g <= h + 1, NEW read, NEW mined, NEW came, \A x \in Txs : mined[x] \in Int,
           Covers(S, f, h, read, mined, came), Covers(T, g, t, read, mined, came)
    PROVE  Covers(S, f, t, read, mined, came)
<1>1. ASSUME NEW b \in f .. t PROVE b \in f .. h \/ b \in g .. t
  BY <1>1
<1> QED
  BY <1>1 DEF Covers

\* A step in which sync q does nothing keeps what q relies on.
LEMMA OthersCovered ==
    ASSUME SyncTypes, SyncTypes', [Next]_vars, NEW q \in Syncs, SyncCovered(q),
           \/ Free(q)'
           \/ /\ pc'[q] = pc[q] /\ asked'[q] = asked[q] /\ series'[q] = series[q]
              /\ from'[q] = from[q] /\ to'[q] = to[q] /\ got'[q] = got[q]
    PROVE  SyncCovered(q)'
<1>1. CASE Free(q)'
  BY <1>1 DEF SyncCovered, Free, HasRange, HasGot
<1>2. CASE /\ pc'[q] = pc[q] /\ asked'[q] = asked[q] /\ series'[q] = series[q]
           /\ from'[q] = from[q] /\ to'[q] = to[q] /\ got'[q] = got[q]
  <2>1. /\ series[q] \in Nat /\ asked[q].cursor \in Nat /\ from[q] \in Nat /\ to[q] \in Nat
        /\ from[q] - 1 \in Int
    BY ContextAssumption DEF SyncTypes, TypeOK
  <2>2. counted \subseteq counted'
    BY ChainSteps
  <2>3. ASSUME pc[q] = "tip", ~Opens(asked[q])
        PROVE  Covers(counted', series[q], asked[q].cursor, everRead', minedAt', late')
    BY <2>1, <2>2, <2>3, CoverStays DEF SyncCovered
  <2>4. ASSUME HasRange(q)
        PROVE  Covers(counted', series[q], from[q] - 1, everRead', minedAt', late')
    BY <2>1, <2>2, <2>4, CoverStays DEF SyncCovered
  <2>5. ASSUME HasGot(q)
        PROVE  Covers(got[q], from[q], to[q], everRead', minedAt', late')
    BY <2>1, <2>5, CoverStays DEF SyncCovered
  <2> QED
    BY <1>2, <2>2, <2>3, <2>4, <2>5 DEF SyncCovered, Covered, HasRange, HasGot, Opens
<1> QED
  BY <1>1, <1>2

\* The stored cursor, after a step that leaves it alone.
LEMMA StoredCovered ==
    ASSUME SyncTypes, SyncTypes', Coverage, [Next]_vars, UNCHANGED <<base, cursor>>
    PROVE  Covered(counted, base, cursor)'
<1>1. base \in Nat /\ cursor \in Nat /\ counted \subseteq counted'
  BY ChainSteps, ContextAssumption DEF SyncTypes, TypeOK
<1>2. Covers(counted', base, cursor, everRead', minedAt', late')
  BY <1>1, CoverStays DEF Coverage
<1> QED
  BY <1>2 DEF Covered

\* A sync p that has its range and goes on to its next call.
LEMMA SyncGoesOn ==
    ASSUME SyncInv, SyncTypes', [Next]_vars, NEW p \in Syncs, HasRange(p)', pc'[p] # "tip",
           UNCHANGED <<base, cursor>>, pc' = [pc EXCEPT ![p] = pc'[p]],
           \A q \in Syncs : q # p =>
                /\ asked'[q] = asked[q] /\ series'[q] = series[q]
                /\ from'[q] = from[q] /\ to'[q] = to[q] /\ got'[q] = got[q],
           Covered(counted, series'[p], from'[p] - 1),
           HasGot(p)' => Covered(got[p], from[p], to[p])',
           pc'[p] = "cursor" => got'[p] \subseteq counted'
    PROVE  Coverage'
<1>1. Covered(counted, base, cursor)'
  BY StoredCovered DEF SyncInv
<1>2. ASSUME NEW q \in Syncs, q # p PROVE SyncCovered(q)'
  <2>1. pc'[q] = pc[q] /\ SyncCovered(q)
    BY <1>2 DEF SyncInv, Coverage, SyncTypes, TypeOK
  <2> QED
    BY <1>2, <2>1, OthersCovered DEF SyncInv
<1>3. SyncCovered(p)'
  <2>1. series'[p] \in Nat /\ from'[p] - 1 \in Int /\ counted \subseteq counted'
    BY ChainSteps, ContextAssumption DEF SyncInv, SyncTypes, TypeOK
  <2>2. Covers(counted', series'[p], from'[p] - 1, everRead', minedAt', late')
    BY <2>1, CoverStays DEF SyncInv
  <2> QED
    BY <2>2 DEF SyncCovered, Covered
<1> QED
  BY <1>1, <1>2, <1>3 DEF Coverage

\* A sync that ends: the others keep what they rely on.
LEMMA SyncEnds ==
    ASSUME SyncInv, SyncTypes', [Next]_vars, NEW p \in Syncs, End(p),
           Covered(counted, base, cursor)'
    PROVE  Coverage'
<1>1. SyncCovered(p)'
  BY DEF End, SyncCovered, HasRange, HasGot, SyncInv, SyncTypes, TypeOK
<1>2. ASSUME NEW q \in Syncs, q # p PROVE SyncCovered(q)'
  <2>1. /\ pc'[q] = pc[q] /\ asked'[q] = asked[q] /\ series'[q] = series[q]
        /\ from'[q] = from[q] /\ to'[q] = to[q] /\ got'[q] = got[q]
    BY <1>2 DEF End, SyncInv, SyncTypes, TypeOK
  <2>2. SyncCovered(q)
    BY DEF SyncInv, Coverage
  <2> QED
    BY <2>1, <2>2, OthersCovered DEF SyncInv
<1> QED
  BY <1>1, <1>2 DEF Coverage

\* The cursor comes to stand for what the sync has read, with what it stood for
\* before where the two meet, and with the series of the sync where they do not.
LEMMA CursorCovered ==
    ASSUME SyncInv, NEW p \in Syncs, SetCursor(p)
    PROVE  Covered(counted, base, cursor)'
<1>1. /\ UNCHANGED <<counted, everRead, minedAt, late>> /\ cursor' = to[p] /\ pc[p] = "cursor"
      /\ base' = IF from[p] \in base .. cursor + 1 THEN base ELSE series[p]
  BY DEF SetCursor, SeriesAfter, chainVars
<1>2. /\ base \in Nat /\ cursor \in Nat /\ from[p] \in Nat /\ to[p] \in Nat
      /\ series[p] \in Nat /\ from[p] - 1 \in Int /\ from[p] <= (from[p] - 1) + 1
      /\ \A x \in Txs : minedAt[x] \in Int
  BY ContextAssumption DEF SyncInv, SyncTypes, TypeOK, Nothing
<1>3. Covered(counted, base, cursor) /\ SyncCovered(p)
  BY DEF SyncInv, Coverage
<1>4. /\ got[p] \subseteq counted /\ Covered(got[p], from[p], to[p])
      /\ Covered(counted, series[p], from[p] - 1)
  BY <1>1, <1>3 DEF SyncCovered, HasGot, HasRange
<1>5. CASE from[p] \in base .. cursor + 1
  <2>1. Covers(counted, base, to[p], everRead, minedAt, late)
    BY <1>2, <1>3, <1>4, <1>5, CoverJoins DEF Covered
  <2> QED
    BY <1>1, <1>5, <2>1 DEF Covered
<1>6. CASE from[p] \notin base .. cursor + 1
  <2>1. Covers(counted, series[p], to[p], everRead, minedAt, late)
    BY <1>2, <1>4, CoverJoins DEF Covered
  <2> QED
    BY <1>1, <1>6, <2>1 DEF Covered
<1> QED
  BY <1>5, <1>6

LEMMA StepCoverage == SyncInv /\ SyncTypes' /\ [Next]_vars => Coverage'
<1> SUFFICES ASSUME SyncInv, SyncTypes', [Next]_vars PROVE Coverage'
  OBVIOUS
<1>1. ASSUME UNCHANGED dbVars, UNCHANGED syncVars PROVE Coverage'
  <2>1. Covered(counted, base, cursor)'
    BY <1>1, StoredCovered DEF SyncInv, dbVars
  <2>2. ASSUME NEW q \in Syncs PROVE SyncCovered(q)'
    BY <1>1, OthersCovered DEF SyncInv, Coverage, dbVars, syncVars
  <2> QED
    BY <2>1, <2>2 DEF Coverage
<1>2. ASSUME NEW p \in Syncs, Start(p) PROVE Coverage'
  <2>1. /\ UNCHANGED <<from, to, got, base, cursor, counted>>
        /\ pc' = [pc EXCEPT ![p] = "tip"] /\ series' = [series EXCEPT ![p] = base]
    BY <1>2 DEF Start, dbVars
  <2>2. PICK f, t : asked' = [asked EXCEPT ![p] = [cursor |-> cursor, from |-> f, to |-> t]]
    BY <1>2 DEF Start
  <2>3. Covered(counted, base, cursor)'
    BY <2>1, StoredCovered DEF SyncInv
  <2>4. pc'[p] = "tip" /\ asked'[p].cursor = cursor /\ series'[p] = base
    BY <2>1, <2>2 DEF SyncInv, SyncTypes, TypeOK
  <2>5. SyncCovered(p)'
    BY <2>1, <2>3, <2>4 DEF SyncCovered, HasRange, HasGot, Covered
  <2>6. ASSUME NEW q \in Syncs, q # p PROVE SyncCovered(q)'
    <3>1. pc'[q] = pc[q] /\ asked'[q] = asked[q] /\ series'[q] = series[q] /\ SyncCovered(q)
      BY <2>1, <2>2, <2>6 DEF SyncInv, Coverage, SyncTypes, TypeOK
    <3> QED
      BY <2>1, <3>1, OthersCovered DEF SyncInv
  <2> QED
    BY <2>3, <2>5, <2>6 DEF Coverage
<1>3. ASSUME NEW p \in Syncs, ReadTip(p) PROVE Coverage'
  <2> DEFINE f == FromBlock(asked[p], tip)
  <2>1. UNCHANGED <<base, cursor>> /\ pc[p] = "tip" /\ SyncCovered(p)
    BY <1>3 DEF ReadTip, dbVars, SyncInv, Coverage
  <2>2. CASE End(p)
    BY <2>1, <2>2, StoredCovered, SyncEnds DEF SyncInv
  <2>3. CASE ~End(p)
    <3>1. /\ from' = [from EXCEPT ![p] = f] /\ to' = [to EXCEPT ![p] = to'[p]]
          /\ pc' = [pc EXCEPT ![p] = "txs"] /\ asked' = [asked EXCEPT ![p] = NotAsked]
          /\ series' = [series EXCEPT ![p] = IF Opens(asked[p]) THEN f ELSE @] /\ got' = got
      BY <1>3, <2>3 DEF ReadTip, SyncInv, SyncTypes, TypeOK
    <3>2. /\ pc'[p] = "txs" /\ from'[p] = f /\ f \in Nat
          /\ series'[p] = IF Opens(asked[p]) THEN f ELSE series[p]
          /\ \A q \in Syncs : q # p =>
                /\ asked'[q] = asked[q] /\ series'[q] = series[q]
                /\ from'[q] = from[q] /\ to'[q] = to[q] /\ got'[q] = got[q]
      <4>1. from'[p] \in Nat
        BY DEF SyncTypes, TypeOK
      <4> HIDE DEF f
      <4> QED
        BY <3>1, <4>1 DEF SyncInv, SyncTypes, TypeOK
    <3>3. Covered(counted, series'[p], from'[p] - 1)
      <4>1. CASE Opens(asked[p])
        <5>1. \A b \in f .. f - 1 : FALSE
          BY <3>2
        <5>2. \A x \in Txs : ~(f <= minedAt[x] /\ minedAt[x] <= f - 1)
          BY <3>2 DEF SyncInv, SyncTypes, TypeOK, Nothing
        <5> HIDE DEF f
        <5> QED
          BY <3>2, <4>1, <5>1, <5>2 DEF Covered, Covers
      <4>2. CASE ~Opens(asked[p])
        <5>1. f - 1 = asked[p].cursor
          BY <4>2 DEF Opens, FromBlock, SyncInv, SyncTypes, TypeOK
        <5> HIDE DEF f
        <5> QED
          BY <2>1, <3>2, <4>2, <5>1 DEF SyncCovered
      <4> QED
        BY <4>1, <4>2
    <3> QED
      BY <2>1, <3>1, <3>2, <3>3, SyncGoesOn DEF HasRange, HasGot
  <2> QED
    BY <2>2, <2>3
<1>4. ASSUME NEW p \in Syncs, ReadTransactions(p) PROVE Coverage'
  <2>1. /\ UNCHANGED <<minedAt, late, base, cursor, asked, series, from, to>> /\ pc[p] = "txs"
        /\ got' = [got EXCEPT ![p] = Between(from[p], to[p])]
        /\ everRead' = everRead \cup from[p] .. to[p]
        /\ pc' = [pc EXCEPT ![p] = "prior"]
    BY <1>4 DEF ReadTransactions, dbVars
  <2>2. pc'[p] = "prior" /\ got'[p] = Between(from[p], to[p]) /\ \A q \in Syncs : q # p => got'[q] = got[q]
    BY <2>1 DEF SyncInv, SyncTypes, TypeOK
  <2>3. Covered(got[p], from[p], to[p])'
    BY <2>1, <2>2 DEF Covered, Covers, Between
  <2>4. Covered(counted, series[p], from[p] - 1)
    BY <2>1 DEF SyncInv, Coverage, SyncCovered, HasRange
  <2> QED
    BY <2>1, <2>2, <2>3, <2>4, SyncGoesOn DEF HasRange
<1>5. ASSUME NEW p \in Syncs, StoreSnapshot(p) PROVE Coverage'
  <2>1. /\ UNCHANGED <<base, cursor, asked, series, from, to, got, minedAt, late, everRead>>
        /\ pc[p] = "prior" /\ pc' = [pc EXCEPT ![p] = "cursor"] /\ got[p] \subseteq counted'
    BY <1>5 DEF StoreSnapshot, chainVars
  <2>2. pc'[p] = "cursor" /\ Covered(counted, series[p], from[p] - 1) /\ Covered(got[p], from[p], to[p])
    BY <2>1 DEF SyncInv, Coverage, SyncCovered, HasRange, HasGot, SyncTypes, TypeOK
  <2>3. Covered(got[p], from[p], to[p])'
    BY <2>1, <2>2 DEF Covered
  <2> QED
    BY <2>1, <2>2, <2>3, SyncGoesOn DEF HasRange
<1>6. ASSUME NEW p \in Syncs, SetCursor(p) PROVE Coverage'
  BY <1>6, CursorCovered, SyncEnds DEF SetCursor
<1>7. ASSUME NEW p \in Syncs, Crash(p) PROVE Coverage'
  <2>1. End(p) /\ UNCHANGED <<base, cursor>>
    BY <1>7 DEF Crash, dbVars
  <2> QED
    BY <2>1, StoredCovered, SyncEnds DEF SyncInv
<1>8. CASE (\E S \in SUBSET Txs : NewBlock(S)) \/ AnyReorg \/ UNCHANGED vars
  BY <1>1, <1>8 DEF NewBlock, AnyReorg, Reorg, vars
<1> QED
  BY <1>2, <1>3, <1>4, <1>5, <1>6, <1>7, <1>8 DEF Next

LEMMA InitSyncInv == Init => SyncInv
<1> SUFFICES ASSUME Init PROVE SyncInv
  OBVIOUS
<1>1. \A p \in Syncs : pc[p] \notin {"tip", "cursor"} /\ ~HasRange(p) /\ ~HasGot(p)
  BY DEF Init, HasRange, HasGot
<1>2. Covered(counted, base, cursor)
  BY DEF Init, Covered, Covers, Nothing
<1> QED
  BY <1>1, <1>2, InitSyncTypes DEF SyncInv, Coverage, SyncCovered

LEMMA StepSyncInv == SyncInv /\ [Next]_vars => SyncInv'
BY StepSyncTypes, StepCoverage DEF SyncInv

\* For any number of syncs, first ones among them, that overlap, die or are given
\* ranges, and for reorgs of any depth: from where the series that the cursor
\* ends began, no transaction up to the cursor is forgotten but one that came to
\* its block after that had been read.  The blocks between two series are not
\* spoken of: setContextCursor lets the cursor pass them unread.
THEOREM CursorSkipsNothing == Spec => []NothingIsSkipped
<1>1. SyncInv => NothingIsSkipped
  BY DEF SyncInv, Coverage, Covered, Covers, NothingIsSkipped
<1> QED
  BY <1>1, InitSyncInv, StepSyncInv, PTL DEF Spec

-----------------------------------------------------------------------------
\* S is what StoreSnapshot derives from the transactions W of the blocks f .. t.
Explained(W, f, t, S) ==
    \E kind \in FundingKinds(W) :
        S = ContextSignals(W, Count(Between(PriorFrom(f, t), PriorTo(f))), kind)

\* While the chain rests, what a sync has read is what there is, and so are
\* the signals that it has derived.
SyncSound(p) ==
    steady[p] /\ HasGot(p) =>
        /\ got[p] = Between(from[p], to[p])
        /\ pc[p] # "prior" =>
              \A W, f, t, S : W = got[p] /\ f = from[p] /\ t = to[p] /\ S = signals[p] =>
                  Explained(W, f, t, S)

AllSound == \A p \in Syncs : SyncSound(p)

LEMMA ExplainedStays ==
    ASSUME UNCHANGED minedAt, NEW W, NEW f, NEW t, NEW S, Explained(W, f, t, S)
    PROVE  Explained(W, f, t, S)'
<1>1. FundingKinds(W)' = FundingKinds(W)
  BY DEF FundingKinds, KindOf
<1>2. \A n, kind : ContextSignals(W, n, kind)' = ContextSignals(W, n, kind)
  BY DEF ContextSignals, DormantThenBurst
<1>3. Between(PriorFrom(f, t), PriorTo(f))' = Between(PriorFrom(f, t), PriorTo(f))
  BY DEF Between
<1> QED
  BY <1>1, <1>2, <1>3 DEF Explained

LEMMA SoundStays ==
    ASSUME SyncTypes, NEW q \in Syncs, SyncSound(q),
           \/ ~steady'[q] \/ ~HasGot(q)'
           \/ UNCHANGED minedAt /\ steady'[q] = steady[q] /\ pc'[q] = pc[q] /\ from'[q] = from[q]
              /\ to'[q] = to[q] /\ got'[q] = got[q] /\ signals'[q] = signals[q]
    PROVE  SyncSound(q)'
<1>1. CASE ~steady'[q] \/ ~HasGot(q)'
  BY <1>1 DEF SyncSound
<1>2. CASE UNCHANGED minedAt /\ steady'[q] = steady[q] /\ pc'[q] = pc[q] /\ from'[q] = from[q]
           /\ to'[q] = to[q] /\ got'[q] = got[q] /\ signals'[q] = signals[q]
  <2>1. ASSUME NEW W, NEW f, NEW t, NEW S, Explained(W, f, t, S)
        PROVE  Explained(W, f, t, S)'
    BY <1>2, <2>1, ExplainedStays
  <2>2. Between(from[q], to[q])' = Between(from[q], to[q])
    BY <1>2 DEF Between
  <2>3. HasGot(q)' <=> HasGot(q)
    BY <1>2 DEF HasGot
  <2> QED
    BY <1>2, <2>1, <2>2, <2>3 DEF SyncSound
<1> QED
  BY <1>1, <1>2

LEMMA StepSound == SyncTypes /\ AllSound /\ [Next]_vars => AllSound'
<1> SUFFICES ASSUME SyncTypes, AllSound, [Next]_vars PROVE AllSound'
  OBVIOUS
<1>1. ASSUME NEW S \in SUBSET Txs, NewBlock(S) PROVE AllSound'
  <2> SUFFICES ASSUME NEW q \in Syncs PROVE SyncSound(q)'
    BY DEF AllSound
  <2>1. UNCHANGED <<pc, from, to, got, signals>> /\ steady'[q] = (steady[q] /\ S = {})
    BY <1>1 DEF NewBlock, syncVars
  <2>2. steady[q] \in BOOLEAN
    BY DEF SyncTypes
  <2>3. CASE S = {}
    <3>1. minedAt' = minedAt
      BY <1>1, <2>3 DEF NewBlock, SyncTypes, TypeOK
    <3> QED
      BY <2>1, <2>2, <2>3, <3>1, SoundStays DEF AllSound
  <2>4. CASE S # {}
    BY <2>1, <2>4, SoundStays DEF AllSound
  <2> QED
    BY <2>3, <2>4
<1>2. CASE AnyReorg
  BY <1>2, SoundStays DEF AnyReorg, Reorg, AllSound
<1>3. ASSUME NEW p \in Syncs, UNCHANGED minedAt, SyncSound(p)',
             \A q \in Syncs : q # p =>
                 /\ steady'[q] = steady[q] /\ pc'[q] = pc[q] /\ from'[q] = from[q]
                 /\ to'[q] = to[q] /\ got'[q] = got[q] /\ signals'[q] = signals[q]
      PROVE  AllSound'
  BY <1>3, SoundStays DEF AllSound
<1>4. ASSUME NEW p \in Syncs, End(p), UNCHANGED chainVars PROVE AllSound'
  <2>1. /\ \A q \in Syncs : q # p =>
              /\ steady'[q] = steady[q] /\ pc'[q] = pc[q] /\ from'[q] = from[q]
              /\ to'[q] = to[q] /\ got'[q] = got[q] /\ signals'[q] = signals[q]
        /\ pc'[p] = "idle" /\ UNCHANGED minedAt
    BY <1>4 DEF End, chainVars, SyncTypes, TypeOK
  <2> QED
    BY <1>3, <2>1 DEF SyncSound, HasGot
<1>5. ASSUME NEW p \in Syncs, Start(p) PROVE AllSound'
  <2>1. /\ UNCHANGED <<minedAt, steady, from, to, got, signals>>
        /\ pc'[p] = "tip" /\ \A q \in Syncs : q # p => pc'[q] = pc[q]
    BY <1>5 DEF Start, chainVars, SyncTypes, TypeOK
  <2> QED
    BY <1>3, <2>1 DEF SyncSound, HasGot
<1>6. ASSUME NEW p \in Syncs, ReadTip(p) PROVE AllSound'
  <2>1. CASE End(p)
    BY <1>4, <1>6, <2>1 DEF ReadTip
  <2>2. CASE ~End(p)
    <3>1. /\ UNCHANGED <<minedAt, got, signals>>
          /\ pc'[p] = "txs"
          /\ \A q \in Syncs : q # p => /\ steady'[q] = steady[q] /\ pc'[q] = pc[q]
                                       /\ from'[q] = from[q] /\ to'[q] = to[q]
      BY <1>6, <2>2 DEF ReadTip, chainVars, SyncTypes, TypeOK
    <3> QED
      BY <1>3, <3>1 DEF SyncSound, HasGot
  <2> QED
    BY <2>1, <2>2
<1>7. ASSUME NEW p \in Syncs, ReadTransactions(p) PROVE AllSound'
  <2>1. /\ UNCHANGED <<minedAt, steady, from, to, signals>>
        /\ pc'[p] = "prior" /\ got'[p] = Between(from[p], to[p])
        /\ \A q \in Syncs : q # p => pc'[q] = pc[q] /\ got'[q] = got[q]
    BY <1>7 DEF ReadTransactions, SyncTypes, TypeOK
  <2>2. Between(from[p], to[p])' = Between(from[p], to[p])
    BY <2>1 DEF Between
  <2>3. SyncSound(p)'
    BY <2>1, <2>2 DEF SyncSound
  <2> QED
    BY <1>3, <2>1, <2>3
<1>8. ASSUME NEW p \in Syncs, StoreSnapshot(p) PROVE AllSound'
  <2>1. /\ UNCHANGED <<minedAt, steady, from, to, got>> /\ pc[p] = "prior"
        /\ \A q \in Syncs : q # p => pc'[q] = pc[q] /\ signals'[q] = signals[q]
    BY <1>8 DEF StoreSnapshot, chainVars, SyncTypes, TypeOK
  <2>2. Explained(got[p], from[p], to[p], signals'[p])
    BY <1>8 DEF StoreSnapshot, Explained, SyncTypes
  <2>3. ASSUME NEW W, NEW f, NEW t, NEW S, Explained(W, f, t, S)
        PROVE  Explained(W, f, t, S)'
    BY <2>1, <2>3, ExplainedStays
  <2>4. Between(from[p], to[p])' = Between(from[p], to[p])
    BY <2>1 DEF Between
  <2>5. SyncSound(p)'
    BY <2>1, <2>2, <2>3, <2>4 DEF SyncSound, AllSound, HasGot
  <2> QED
    BY <1>3, <2>1, <2>5
<1>9. ASSUME NEW p \in Syncs, SetCursor(p) \/ Crash(p) PROVE AllSound'
  BY <1>4, <1>9 DEF SetCursor, Crash
<1>10. CASE UNCHANGED vars
  BY <1>10, SoundStays DEF vars, chainVars, syncVars, AllSound
<1> QED
  BY <1>1, <1>2, <1>5, <1>6, <1>7, <1>8, <1>9, <1>10 DEF Next

LEMMA PriorWindow ==
    ASSUME SyncTypes, NEW f \in Nat, NEW t \in Nat, f <= t
    PROVE  Between(PriorFrom(f, t), PriorTo(f))
             = {x \in Txs : minedAt[x] \in 0 .. f - 1 /\ minedAt[x] + (t - f + 1) >= f}
<1>1. ASSUME NEW x \in Txs
      PROVE  PriorFrom(f, t) <= minedAt[x] /\ minedAt[x] <= PriorTo(f)
               <=> minedAt[x] \in 0 .. f - 1 /\ minedAt[x] + (t - f + 1) >= f
  <2>1. minedAt[x] \in Int /\ minedAt[x] # 0
    BY DEF SyncTypes, TypeOK, Nothing
  <2> QED
    BY <2>1 DEF PriorFrom, PriorTo
<1> QED
  BY <1>1 DEF Between

\* For any source, limits and ranges: while the chain rests, a snapshot is
\* about no more blocks than the limit allows, and says of its transactions
\* and of those in as many blocks before what the thresholds say.
THEOREM SnapshotsSound == Spec => []SnapshotsAreSound
<1>1. SyncTypes /\ AllSound => SnapshotsAreSound
  <2> SUFFICES ASSUME SyncTypes, AllSound, NEW p \in Syncs, pc[p] = "cursor", steady[p]
               PROVE  LET blocks == from[p] .. to[p]
                          size == Cardinality(blocks)
                          these == {x \in Txs : minedAt[x] \in blocks}
                          before == {x \in Txs : minedAt[x] \in 0 .. from[p] - 1
                                                     /\ minedAt[x] + size >= from[p]}
                      IN  /\ size <= MaxBlocks + 1
                          /\ \E kind \in FundingKinds(these) :
                                signals[p] = ContextSignals(these, Count(before), kind)
    BY DEF SnapshotsAreSound
  <2> DEFINE f == from[p]
  <2> DEFINE t == to[p]
  <2> DEFINE these == {x \in Txs : minedAt[x] \in f .. t}
  <2>1. f \in Nat /\ t \in Nat /\ f <= t /\ t - f <= MaxBlocks /\ MaxBlocks \in Nat
    BY ContextAssumption DEF SyncTypes, TypeOK, HasRange
  <2>2. got[p] = Between(f, t) /\ Explained(got[p], f, t, signals[p])
    BY DEF AllSound, SyncSound, HasGot
  <2> HIDE DEF f, t
  <2>3. Cardinality(f .. t) = t - f + 1
    BY <2>1, FS_Interval
  <2>4. Between(f, t) = these
    <3>1. \A x \in Txs : minedAt[x] \in Int
      BY DEF SyncTypes, TypeOK, Nothing
    <3> QED
      BY <2>1, <3>1 DEF Between
  <2> DEFINE before == {x \in Txs : minedAt[x] \in 0 .. f - 1 /\ minedAt[x] + (t - f + 1) >= f}
  <2>5. Between(PriorFrom(f, t), PriorTo(f)) = before
    BY <2>1, PriorWindow
  <2> HIDE DEF these, before
  <2>6. \E kind \in FundingKinds(these) : signals[p] = ContextSignals(these, Count(before), kind)
    BY <2>2, <2>4, <2>5 DEF Explained
  <2>7. Cardinality(f .. t) <= MaxBlocks + 1
    BY <2>1, <2>3
  <2> QED
    BY <2>3, <2>6, <2>7 DEF f, t, these, before
<1>2. Init => AllSound
  BY DEF Init, AllSound, SyncSound
<1> QED
  BY <1>1, <1>2, InitSyncTypes, StepSyncTypes, StepSound, PTL DEF Spec
=============================================================================
