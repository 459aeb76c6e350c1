--------------------------- MODULE ApiRoutesProofs ---------------------------
(***************************************************************************)
(* Proofs about ApiRoutes for any number of requests at a time, whatever   *)
(* they ask for and whatever fails.                                        *)
(***************************************************************************)
EXTENDS ApiRoutes, FiniteSetTheorems, TLAPS

Acting == {"build", "account", "lookup", "simulate", "sign", "send"}
Scanning == {"head", "time", "rules"}
PCs == Codes \cup Acting \cup Scanning

Asked == [kind : Kinds, on : Receipts \cup {Nothing.on}, sample : BOOLEAN]

ApiTypes ==
    /\ head \in Nat
    /\ postedAt \in [Receipts -> Nat] /\ \A r \in Receipts : postedAt[r] <= head
    /\ built \in Nat /\ cached \in Nat
    /\ pc \in [Requests -> PCs]
    /\ ask \in [Requests -> Asked]
    /\ signer \in [Requests -> Nat]
    /\ valid \in [Requests -> BOOLEAN] /\ before \in [Requests -> BOOLEAN]
    /\ block \in [Requests -> Nat] /\ \A p \in Requests : block[p] <= head
    /\ rules \in [Requests -> SUBSET Rules]
    /\ failed \in [Requests -> SUBSET Rules]
    /\ found \in [Requests -> SUBSET Receipts]

LEMMA NothingTypes == Nothing \in Asked /\ Nothing.kind = "status"
BY DEF Nothing, AskFor, Asked, Kinds

LEMMA InitTypes == Init => ApiTypes
BY NothingTypes DEF Init, ApiTypes, PCs, Codes, Acting, Scanning

\* The answer of a request, in whichever handler.
LEMMA AnswerTypes ==
    ASSUME ApiTypes, NEW p \in Requests, NEW code \in Codes, Answer(p, code)
    PROVE  /\ pc' \in [Requests -> PCs]
           /\ ask' \in [Requests -> Asked]
           /\ signer' \in [Requests -> Nat]
           /\ valid' \in [Requests -> BOOLEAN] /\ before' \in [Requests -> BOOLEAN]
           /\ rules' \in [Requests -> SUBSET Rules]
BY NothingTypes DEF ApiTypes, Answer, Goto, PCs

LEMMA AsksTypes ==
    ASSUME ApiTypes, NEW p \in Requests, Asks(p)
    PROVE  ApiTypes'
<1>1. ASSUME NEW a \in Asked, NEW label \in PCs, Begin(p, a, label),
             UNCHANGED signerVars, signer' \in [Requests -> Nat],
             rules' \in [Requests -> SUBSET Rules]
      PROVE  ApiTypes'
    <2>1. ask' \in [Requests -> Asked]
        BY <1>1 DEF Begin, ApiTypes
    <2> QED BY <1>1, <2>1 DEF Begin, ApiTypes, Goto, chainVars, signerVars
<1>a. ASSUME NEW kind \in Kinds, NEW r \in Receipts \cup {Nothing.on}
      PROVE  AskFor(kind, r) \in Asked
    BY <1>a DEF AskFor, Asked
<1>2. ASSUME NEW kind \in Kinds, NEW r \in Receipts \cup {Nothing.on}, GetSigner(p, kind, r)
      PROVE  ApiTypes'
    <2>1. signer' \in [Requests -> Nat] /\ UNCHANGED rules
        BY <1>2 DEF GetSigner, ApiTypes
    <2> QED BY <1>1, <1>2, <1>a, <2>1 DEF GetSigner, ApiTypes, PCs, Acting
<1>3. CASE StartScan(p)
    <2>1. signer' \in [Requests -> Nat] /\ UNCHANGED rules
        BY <1>3 DEF StartScan, ApiTypes
    <2> QED BY <1>1, <1>3, <1>a, <2>1 DEF StartScan, PCs, Scanning, Kinds, ApiTypes
<1>4. ASSUME NEW r \in Receipts, WorkerActs(p, r) PROVE ApiTypes'
    <2>1. signer' \in [Requests -> Nat] /\ UNCHANGED rules
        BY <1>4 DEF WorkerActs, ApiTypes
    <2> QED BY <1>1, <1>4, <1>a, <2>1 DEF WorkerActs, PCs, Acting, Kinds, ApiTypes
<1> QED BY <1>2, <1>3, <1>4 DEF Asks, OpenDispute, SubmitEvidence, Status, Kinds

LEMMA RequestStepTypes ==
    ASSUME ApiTypes, NEW p \in Requests, RequestStep(p)
    PROVE  ApiTypes'
<1> USE DEF ApiTypes, PCs, Codes, Acting, Scanning, Goto, chainVars, signerVars, actionVars,
            scanVars
<1>1. CASE BuildSigner(p) BY <1>1 DEF BuildSigner
<1>2. CASE GetAccount(p) BY <1>2, AnswerTypes DEF GetAccount
<1>3. CASE SignerFails(p) BY <1>3, AnswerTypes DEF SignerFails
<1>4. CASE Lookup(p) BY <1>4 DEF Lookup
<1>5. CASE NotFound(p) BY <1>5, AnswerTypes DEF NotFound
<1>6. CASE Simulate(p) BY <1>6 DEF Simulate
<1>7. CASE Sign(p) 
    <2>1. valid' \in [Requests -> BOOLEAN]
        BY <1>7 DEF Sign, KnowsAddress, RecoversToAccount
    <2> QED BY <1>7, <2>1 DEF Sign
<1>8. CASE Send(p) BY <1>8, AnswerTypes DEF Send
<1>9. CASE ActionFails(p) BY <1>9, AnswerTypes DEF ActionFails
<1>10. CASE ReadHead(p) BY <1>10 DEF ReadHead
<1>11. CASE ReadTimestamp(p)
    <2>1. PICK R \in AskedRules :
            /\ rules' = [rules EXCEPT ![p] = R]
            /\ ask' = [ask EXCEPT ![p].sample = "SAMPLE-001" \in R]
        BY <1>11 DEF ReadTimestamp
    <2>2. rules' \in [Requests -> SUBSET Rules]
        BY <2>1 DEF AskedRules
    <2>3. \A b \in BOOLEAN : [ask EXCEPT ![p].sample = b] \in [Requests -> Asked]
        BY DEF Asked
    <2>4. ask' \in [Requests -> Asked]
        BY <2>1, <2>3, ("SAMPLE-001" \in R) \in BOOLEAN
    <2> QED BY <1>11, <2>2, <2>4 DEF ReadTimestamp
<1>12. CASE ScanFails(p) BY <1>12, AnswerTypes DEF ScanFails
<1>13. CASE Evaluate(p) BY <1>13 DEF Evaluate, PostedIn
<1>14. CASE RuleFails(p) BY <1>14 DEF RuleFails
<1>15. CASE ScanReplies(p) BY <1>15, AnswerTypes DEF ScanReplies
<1> QED BY <1>1, <1>2, <1>3, <1>4, <1>5, <1>6, <1>7, <1>8, <1>9, <1>10, <1>11, <1>12,
           <1>13, <1>14, <1>15 DEF RequestStep

LEMMA ChainTypes ==
    ASSUME ApiTypes, MineBlock \/ (\E tx \in pending : Execute(tx)) \/ UNCHANGED vars
    PROVE  ApiTypes'
<1>1. CASE MineBlock
    BY <1>1 DEF MineBlock, ApiTypes, signerVars, actionVars, scanVars
<1>2. CASE UNCHANGED <<head, postedAt, signerVars, pc, actionVars, scanVars>>
    BY <1>2 DEF ApiTypes, signerVars, actionVars, scanVars
<1> QED BY <1>1, <1>2 DEF Execute, vars, chainVars

LEMMA ApiTyped == Spec => []ApiTypes
<1>1. ApiTypes /\ [Next]_vars => ApiTypes'
    BY AsksTypes, RequestStepTypes, ChainTypes DEF Next
<1> QED BY <1>1, InitTypes, PTL DEF Spec

-----------------------------------------------------------------------------
(* The signers.  Nobody begins to build one when there is one: those that   *)
(* still do have begun before the first.                                    *)

Building == {p \in Requests : pc[p] = "build"}

SignerInv ==
    /\ cached = 0 => built = 0
    /\ built + Cardinality(Building) <= Cardinality(Requests)

LEMMA BuildingFinite ==
    /\ IsFiniteSet(Building) /\ Cardinality(Building) \in Nat
    /\ Cardinality(Building) <= Cardinality(Requests) /\ Cardinality(Requests) \in Nat
BY ApiAssumption, FS_Subset, FS_CardinalityType DEF Building

LEMMA BuildingFiniteNext ==
    Cardinality(Building') \in Nat /\ Cardinality(Building') <= Cardinality(Requests)
<1>1. Building' \subseteq Requests
    BY DEF Building
<1> QED BY <1>1, ApiAssumption, FS_Subset, FS_CardinalityType

LEMMA SignerStep ==
    ASSUME ApiTypes, SignerInv, [Next]_vars
    PROVE  SignerInv'
<1> USE DEF ApiTypes
<1>1. ASSUME UNCHANGED <<built, cached>>, Building' \subseteq Building
      PROVE  SignerInv'
    <2>1. Cardinality(Building') <= Cardinality(Building)
        BY <1>1, BuildingFinite, FS_Subset
    <2> QED BY <1>1, <2>1, BuildingFinite, BuildingFiniteNext DEF SignerInv
<1>2. ASSUME NEW p \in Requests, BuildSigner(p) PROVE SignerInv'
    <2>1. p \in Building /\ Building' \subseteq Building \ {p}
        BY <1>2 DEF BuildSigner, Goto, Building
    <2>2. IsFiniteSet(Building \ {p}) /\ Cardinality(Building \ {p}) = Cardinality(Building) - 1
        BY <2>1, BuildingFinite, FS_RemoveElement
    <2>3. Cardinality(Building') <= Cardinality(Building) - 1
        BY <2>1, <2>2, FS_Subset
    <2>4. built' = built + 1 /\ cached' = built + 1
        BY <1>2 DEF BuildSigner
    <2> QED BY <2>3, <2>4, BuildingFinite, BuildingFiniteNext DEF SignerInv
<1>3. ASSUME NEW p \in Requests, Asks(p) PROVE SignerInv'
    <2>1. UNCHANGED <<built, cached>>
        BY <1>3
           DEF Asks, OpenDispute, SubmitEvidence, Status, GetSigner, StartScan, WorkerActs,
                    signerVars
    <2>2. CASE cached = 0
        BY <2>1, <2>2, BuildingFinite, BuildingFiniteNext DEF SignerInv
    <2>3. CASE cached # 0
        <3>1. Building' \subseteq Building
            BY <1>3, <2>3 DEF Asks, OpenDispute, SubmitEvidence, Status, GetSigner, StartScan,
                              WorkerActs, Begin, Goto, Building
        <3> QED BY <1>1, <2>1, <3>1
    <2> QED BY <2>2, <2>3
<1>4. ASSUME NEW p \in Requests, RequestStep(p), ~BuildSigner(p) PROVE SignerInv'
    <2>1. UNCHANGED <<built, cached>>
        BY <1>4
           DEF RequestStep, GetAccount, SignerFails, Lookup, NotFound, Simulate, Sign, Send,
                    ActionFails, ReadHead, ReadTimestamp, ScanFails, Evaluate, RuleFails,
                    ScanReplies, signerVars
    <2>2. Building' \subseteq Building
        BY <1>4
           DEF RequestStep, GetAccount, SignerFails, Lookup, NotFound, Simulate, Sign, Send,
                    ActionFails, ReadHead, ReadTimestamp, ScanFails, Evaluate, RuleFails,
                    ScanReplies, Answer, Goto, Building
    <2> QED BY <1>1, <2>1, <2>2
<1>5. CASE MineBlock \/ (\E tx \in pending : Execute(tx)) \/ UNCHANGED vars
    <2>1. UNCHANGED <<built, cached, pc>>
        BY <1>5 DEF MineBlock, Execute, vars, signerVars
    <2> QED BY <1>1, <2>1 DEF Building
<1> QED BY <1>2, <1>3, <1>4, <1>5 DEF Next

\* However many requests come, and in whatever order they are served, fail and
\* are asked again: no more signers are built than requests run at a time.
THEOREM FewSigners == Spec => []SignersAreFew
<1>1. Init => SignerInv
    BY BuildingFinite DEF Init, SignerInv
<1>2. ApiTypes /\ SignerInv => SignersAreFew
    BY BuildingFinite DEF ApiTypes, SignerInv, SignersAreFew
<1> QED BY <1>1, <1>2, ApiTyped, SignerStep, PTL DEF Spec

-----------------------------------------------------------------------------
(* The requests.  What one has seen of the chain stays so: a dispute stays   *)
(* open, the node keeps what it has taken, and the blocks that a scan reads  *)
(* get no receipts any more.                                                 *)

\* What SampleRule is to find for request p, and what the scan is to find.
Close(p) == {r \in PostedIn(FromBlock(block[p]), block[p]) : Approaching(r, block[p])}
Wanted(p) == IF ask[p].sample THEN Close(p) ELSE {}

\* A dispute that was there when the request began still is, so the
\* simulation has refused it.
NotLate(p) ==
    /\ before[p] => ask[p].on \in disputed
    /\ pc[p] \in {"sign", "send"} /\ ask[p].kind # "evidence" => ~before[p]

ScanInv(p) ==
    /\ pc[p] \in Scanning => ask[p].kind = "scan"
    /\ pc[p] \in Acting => ask[p].kind # "scan"
    /\ pc[p] \in {"head", "time"} => found[p] = {} /\ failed[p] = {}
    /\ pc[p] = "rules" =>
          \/ "SAMPLE-001" \in rules[p] /\ ask[p].sample
          \/ "SAMPLE-001" \notin rules[p] /\ ("SAMPLE-001" \in failed[p] \/ found[p] = Wanted(p))
    /\ pc[p] = "200" /\ ask[p].kind = "scan" /\ failed[p] = {} => found[p] = Wanted(p)

\* Of the answers only that of a sent transaction is a success.
Done(p) ==
    pc[p] = "200" /\ ask[p].kind \in {"open", "evidence", "worker"} => Tx(p) \in taken

RequestInv == \A p \in Requests : NotLate(p) /\ ScanInv(p) /\ Done(p)

\* No step takes back what the chain has, and the blocks up to a height keep
\* their receipts.
ChainGrows ==
    /\ disputed \subseteq disputed' /\ taken \subseteq taken' /\ head <= head'
    /\ \A r \in Receipts : postedAt'[r] = postedAt[r] \/ (postedAt[r] = 0 /\ postedAt'[r] > head)

LEMMA NextGrows ==
    ASSUME ApiTypes, [Next]_vars
    PROVE  ChainGrows
<1>1. ApiTypes'
    BY AsksTypes, RequestStepTypes, ChainTypes DEF Next
<1>2. CASE UNCHANGED chainVars
    BY <1>2 DEF ChainGrows, ApiTypes, chainVars
<1>3. CASE MineBlock
    BY <1>3 DEF MineBlock, ChainGrows, ApiTypes
<1>4. ASSUME NEW tx \in pending, Execute(tx) PROVE ChainGrows
    BY <1>4 DEF Execute, ChainGrows, ApiTypes
<1>5. ASSUME NEW p \in Requests, Send(p) PROVE ChainGrows
    BY <1>5 DEF Send, ChainGrows, ApiTypes
<1>6. ASSUME NEW p \in Requests, Asks(p) \/ RequestStep(p), ~Send(p) PROVE UNCHANGED chainVars
    BY <1>6 DEF Asks, OpenDispute, SubmitEvidence, Status, GetSigner, StartScan, WorkerActs,
                Begin, RequestStep, BuildSigner, GetAccount, SignerFails, Lookup, NotFound,
                Simulate, Sign, ActionFails, ReadHead, ReadTimestamp, ScanFails, Evaluate,
                RuleFails, ScanReplies, chainVars
<1> QED BY <1>2, <1>3, <1>4, <1>5, <1>6 DEF Next, vars, RequestStep

\* A request that does not move stays right while others do.
LEMMA OthersStay ==
    ASSUME ApiTypes, ChainGrows, NEW q \in Requests, NotLate(q) /\ ScanInv(q) /\ Done(q),
           pc'[q] = pc[q], ask'[q] = ask[q], before'[q] = before[q],
           block'[q] = block[q], rules'[q] = rules[q],
           failed'[q] = failed[q], found'[q] = found[q]
    PROVE  NotLate(q)' /\ ScanInv(q)' /\ Done(q)'
<1>1. Close(q)' = Close(q)
    <2>1. block[q] \in Nat /\ head \in Nat /\ block[q] <= head
        BY DEF ApiTypes
    <2>2. FromBlock(block[q]) \in Nat
        BY <2>1, ApiAssumption DEF FromBlock
    <2> QED BY <2>1, <2>2 DEF Close, PostedIn, Approaching, FromBlock, ChainGrows, ApiTypes
<1>2. Wanted(q)' = Wanted(q)
    BY <1>1 DEF Wanted
<1> QED BY <1>2 DEF NotLate, ScanInv, Done, Tx, ChainGrows

\* What stands of the request that does move.
Good(p) == NotLate(p) /\ ScanInv(p) /\ Done(p)

LEMMA AsksGood ==
    ASSUME ApiTypes, NEW p \in Requests, Good(p), Asks(p)
    PROVE  Good(p)'
<1>1. ASSUME NEW a, a.kind \in Kinds \ {"scan"}, NEW label \in {"account", "build", "simulate"},
             Begin(p, a, label)
      PROVE  Good(p)'
    <2>1. /\ pc'[p] = label /\ ask'[p] = a
          /\ before'[p] => a.on \in disputed
          /\ disputed' = disputed
        BY <1>1 DEF Begin, Goto, ApiTypes, chainVars
    <2> QED BY <2>1, <1>1 DEF Good, NotLate, ScanInv, Done, PCs, Codes, Acting, Scanning
<1>a. \A kind, r : AskFor(kind, r).kind = kind
    BY DEF AskFor
<1>2. ASSUME NEW kind \in Kinds \ {"scan"}, NEW r, GetSigner(p, kind, r) PROVE Good(p)'
    BY <1>1, <1>2, <1>a DEF GetSigner
<1>3. CASE StartScan(p)
    <2>1. /\ pc'[p] = "head" /\ ask'[p] = AskFor("scan", Nothing.on)
          /\ before'[p] => ask'[p].on \in disputed
          /\ disputed' = disputed
          /\ found'[p] = {} /\ failed'[p] = {}
        BY <1>3 DEF StartScan, Begin, Goto, ApiTypes, chainVars
    <2> QED BY <1>a, <2>1 DEF Good, NotLate, ScanInv, Done, PCs, Codes, Acting, Scanning
<1>4. ASSUME NEW r, WorkerActs(p, r) PROVE Good(p)'
    BY <1>1, <1>4, <1>a DEF WorkerActs, Kinds
<1> QED BY <1>2, <1>3, <1>4 DEF Asks, OpenDispute, SubmitEvidence, Status, Kinds

\* An answer with an error claims nothing.
LEMMA ErrorGood ==
    ASSUME ApiTypes, NEW p \in Requests, NEW code \in {"404", "500"}, Answer(p, code)
    PROVE  Good(p)'
<1>1. pc'[p] = code /\ before'[p] = FALSE
    BY DEF Answer, Goto, ApiTypes
<1> QED BY <1>1 DEF Good, NotLate, ScanInv, Done, PCs, Codes, Acting, Scanning

LEMMA SuccessGood ==
    ASSUME ApiTypes, NEW p \in Requests, Good(p), Answer(p, "200"),
           ask[p].kind = "scan" => found'[p] = Wanted(p)' \/ failed'[p] # {},
           ask[p].kind \in {"open", "evidence", "worker"} => Tx(p) \in taken'
    PROVE  Good(p)'
<1>1. pc'[p] = "200" /\ before'[p] = FALSE /\ ask'[p] = ask[p]
    BY DEF Answer, Goto, ApiTypes
<1> QED BY <1>1 DEF Good, NotLate, ScanInv, Done, PCs, Codes, Acting, Scanning, Tx

LEMMA StepGood ==
    ASSUME ApiTypes, ChainGrows, NEW p \in Requests, Good(p), RequestStep(p)
    PROVE  Good(p)'
<1> USE DEF Good, NotLate, ScanInv, Done, PCs, Codes, Acting, Scanning, Goto, ApiTypes,
            chainVars, signerVars, actionVars, scanVars
<1>1. CASE BuildSigner(p) BY <1>1 DEF BuildSigner
<1>2. CASE GetAccount(p)
    <2>1. CASE ask[p].kind = "status" BY <1>2, <2>1, SuccessGood DEF GetAccount
    <2>2. CASE ask[p].kind # "status" BY <1>2, <2>2 DEF GetAccount
    <2> QED BY <2>1, <2>2
<1>3. CASE SignerFails(p)
    <2>1. CASE ask[p].kind = "status" BY <1>3, <2>1, SuccessGood DEF SignerFails
    <2>2. CASE ask[p].kind # "status" BY <1>3, <2>2, ErrorGood DEF SignerFails
    <2> QED BY <2>1, <2>2
<1>4. CASE Lookup(p) BY <1>4 DEF Lookup
<1>5. CASE NotFound(p) BY <1>5, ErrorGood DEF NotFound
<1>6. CASE Simulate(p)
    <2>1. ask[p].kind # "evidence" => ask[p].on \notin disputed
        BY <1>6 DEF Simulate, Accepts, Tx
    <2> QED BY <1>6, <2>1 DEF Simulate
<1>7. CASE Sign(p) BY <1>7 DEF Sign
<1>8. CASE Send(p)
    <2>1. PICK code \in {"200", "500"} : Answer(p, code)
        BY <1>8 DEF Send
    <2>2. Tx(p) \in taken' /\ ask[p].kind # "scan"
        BY <1>8 DEF Send
    <2>3. CASE code = "200" BY <2>1, <2>2, <2>3, SuccessGood
    <2>4. CASE code = "500" BY <2>1, <2>4, ErrorGood
    <2> QED BY <2>3, <2>4
<1>9. CASE ActionFails(p) BY <1>9, ErrorGood DEF ActionFails
<1>10. CASE ReadHead(p) BY <1>10 DEF ReadHead
<1>11. CASE ReadTimestamp(p)
    <2>1. PICK R \in AskedRules :
            /\ rules' = [rules EXCEPT ![p] = R]
            /\ ask' = [ask EXCEPT ![p].sample = "SAMPLE-001" \in R]
        BY <1>11 DEF ReadTimestamp
    <2>2. /\ rules'[p] = R /\ ask'[p].sample = ("SAMPLE-001" \in R)
          /\ ask'[p].kind = ask[p].kind /\ ask'[p].on = ask[p].on
        BY <2>1 DEF Asked
    <2>3. pc'[p] = "rules" /\ found'[p] = {} /\ before' = before /\ disputed' = disputed
        BY <1>11 DEF ReadTimestamp
    <2>4. "SAMPLE-001" \notin R => found'[p] = Wanted(p)'
        BY <2>2, <2>3 DEF Wanted
    <2> QED BY <1>11, <2>2, <2>3, <2>4 DEF ReadTimestamp
<1>12. CASE ScanFails(p) BY <1>12, ErrorGood DEF ScanFails
<1>13. CASE Evaluate(p)
    <2>1. PICK rule \in rules[p] :
            /\ rules' = [rules EXCEPT ![p] = @ \ {rule}]
            /\ found' = [found EXCEPT ![p] = IF rule = "SAMPLE-001" THEN Close(p) ELSE @]
        BY <1>13 DEF Evaluate, Close
    <2>2. /\ pc[p] = "rules" /\ UNCHANGED <<pc, ask, before, disputed, failed, taken>>
          /\ Close(p)' = Close(p)
        BY <1>13 DEF Evaluate, Close, PostedIn, Approaching
    <2>3. Wanted(p)' = Wanted(p)
        BY <2>2 DEF Wanted
    <2>4. CASE rule = "SAMPLE-001"
        <3>1. ask[p].sample /\ found'[p] = Wanted(p) /\ "SAMPLE-001" \notin rules'[p]
            BY <2>1, <2>2, <2>4 DEF Wanted
        <3> QED BY <2>2, <2>3, <3>1
    <2>5. CASE rule # "SAMPLE-001"
        <3>1. found'[p] = found[p] /\ ("SAMPLE-001" \in rules'[p] <=> "SAMPLE-001" \in rules[p])
            BY <2>1, <2>5
        <3> QED BY <2>2, <2>3, <3>1
    <2> QED BY <2>4, <2>5
<1>14. CASE RuleFails(p)
    <2>1. "SAMPLE-001" \in failed'[p]
        BY <1>14 DEF RuleFails
    <2> QED BY <1>14, <2>1 DEF RuleFails
<1>15. CASE ScanReplies(p)
    <2>1. ask[p].kind = "scan" /\ ("SAMPLE-001" \in failed[p] \/ found[p] = Wanted(p))
        BY <1>15 DEF ScanReplies
    <2>2. UNCHANGED <<found, failed>> /\ Close(p)' = Close(p) /\ ask'[p] = ask[p]
        BY <1>15 DEF ScanReplies, Close, PostedIn, Approaching, Answer
    <2>3. Wanted(p)' = Wanted(p)
        BY <2>2 DEF Wanted
    <2> QED BY <1>15, <2>1, <2>2, <2>3, SuccessGood DEF ScanReplies
<1> QED BY <1>1, <1>2, <1>3, <1>4, <1>5, <1>6, <1>7, <1>8, <1>9, <1>10, <1>11, <1>12,
           <1>13, <1>14, <1>15 DEF RequestStep

LEMMA OnlyOneMoves ==
    ASSUME ApiTypes, NEW p \in Requests, Asks(p) \/ RequestStep(p), NEW q \in Requests \ {p}
    PROVE  /\ pc'[q] = pc[q] /\ ask'[q] = ask[q] /\ before'[q] = before[q]
           /\ block'[q] = block[q] /\ rules'[q] = rules[q]
           /\ failed'[q] = failed[q] /\ found'[q] = found[q]
<1> USE DEF ApiTypes, Goto, Answer, Begin, actionVars, scanVars
<1>1. CASE Asks(p)
    BY <1>1 DEF Asks, OpenDispute, SubmitEvidence, Status, GetSigner, StartScan, WorkerActs
<1>2. CASE RequestStep(p)
    BY <1>2 DEF RequestStep, BuildSigner, GetAccount, SignerFails, Lookup, NotFound, Simulate,
                Sign, Send, ActionFails, ReadHead, ReadTimestamp, ScanFails, Evaluate, RuleFails,
                ScanReplies
<1> QED BY <1>1, <1>2

LEMMA RequestInvariant == Spec => []RequestInv
<1>1. Init => RequestInv
    BY DEF Init, RequestInv, NotLate, ScanInv, Done, PCs, Codes, Acting, Scanning
<1>2. ApiTypes /\ RequestInv /\ [Next]_vars => RequestInv'
    <2> SUFFICES ASSUME ApiTypes, RequestInv, [Next]_vars PROVE RequestInv'
        OBVIOUS
    <2>0. ChainGrows
        BY NextGrows
    <2>1. ASSUME NEW p \in Requests, Asks(p) \/ RequestStep(p) PROVE RequestInv'
        <3>1. Good(p)'
            BY <2>0, <2>1, AsksGood, StepGood DEF RequestInv, Good
        <3>2. ASSUME NEW q \in Requests \ {p} PROVE Good(q)'
            BY <2>0, <2>1, OnlyOneMoves, OthersStay DEF RequestInv, Good
        <3> QED BY <3>1, <3>2 DEF RequestInv, Good
    <2>2. CASE UNCHANGED <<pc, actionVars, scanVars>>
        BY <2>0, <2>2, OthersStay DEF RequestInv, actionVars, scanVars
    <2> QED BY <2>1, <2>2 DEF Next, MineBlock, Execute, vars
<1> QED BY <1>1, <1>2, ApiTyped, PTL DEF Spec

\* Whoever asks at whatever time, and however many others ask for the same: a
\* dispute is not sent for a receipt that had one when the request began.
THEOREM NobodyIsLate == Spec => []NoLateDispute
<1>1. RequestInv => NoLateDispute
    BY DEF RequestInv, NotLate, NoLateDispute, Tx
<1> QED BY <1>1, RequestInvariant, PTL

\* A success is one: what was sent has been taken by the node, and a scan that
\* ran SampleRule has found what was to be found at its block, whatever is mined
\* meanwhile.  A scan of any other choice of rules, or of none, names no receipt.
THEOREM SuccessIsTrue == Spec => []RepliesAreTrue
<1>1. RequestInv => RepliesAreTrue
    BY DEF RequestInv, ScanInv, Done, Wanted, Close, RepliesAreTrue
<1> QED BY <1>1, RequestInvariant, PTL
=============================================================================
