------------------------------ MODULE ApiRoutes ------------------------------
(***************************************************************************)
(* The routes of the watchtower's HTTP API that go to the chain, and the   *)
(* signer they share.                                                      *)
(*                                                                         *)
(*   POST /scan                      runs the rules of its own engine       *)
(*   POST /actions/open-dispute      has no ledger: whoever asks, it sends  *)
(*   POST /actions/submit-evidence   the same for a dispute                 *)
(*   GET  /actions/status            is the signer healthy                  *)
(*                                                                         *)
(* Requests overlap at every await.  The worker, a process of its own,     *)
(* disputes receipts with the same key by the same client; it takes a slot *)
(* here from the moment its handler calls openDispute.  A dispute is named *)
(* by its receipt: the contract opens one for a receipt.                   *)
(***************************************************************************)
EXTENDS Integers, FiniteSets

CONSTANTS
    Requests,     \* slots for requests that run at the same time
    Receipts,     \* receipts that requests can name
    SignerType,   \* config.signer.type
    Window,       \* blocks from a receipt to its challenge deadline
    Soon,         \* blocks before the deadline in which SampleRule warns
    Lookback,     \* blocks a scan looks back
    MaxBlock      \* bound: height of the chain

ASSUME ApiAssumption ==
    /\ IsFiniteSet(Requests)
    /\ SignerType \in {"local", "gcp-kms"}
    /\ {Window, Soon, Lookback, MaxBlock} \subseteq Nat

VARIABLES
    head,       \* the height of the chain
    postedAt,   \* per receipt: its block, 0 while there is none
    disputed,   \* receipts with a dispute on the chain
    pending,    \* transactions the node has taken and not executed
    taken,      \* history: transactions the node ever took
    built,      \* signers that getSigner has built, numbered
    cached,     \* cachedSigner, 0 for null
    address,    \* signers that know their address
    pc,         \* per request: what it awaits, or its status code
    ask,        \* per request: what it asks for
    signer,     \* per request: the signer it has got
    valid,      \* per request: the signature recovers to the account
    before,     \* history, per request: a dispute was there when it began
    block,      \* per request: blockNumber of the scan
    rules,      \* per request: rules still to be evaluated
    failed,     \* per request: rules with an error
    found       \* per request: receipts of the findings

chainVars == <<head, postedAt, disputed, pending, taken>>
signerVars == <<built, cached, address>>
actionVars == <<ask, signer, valid, before>>
scanVars == <<block, rules, failed, found>>
vars == <<chainVars, signerVars, pc, actionVars, scanVars>>

Rules == {"SAMPLE-001", "MOCK-ALWAYS-FIND"}
Kinds == {"open", "evidence", "status", "scan", "worker"}
Codes == {"idle", "200", "404", "500"}

\* What a request asks for; for a scan, whether it runs SampleRule.
AskFor(kind, r) == [kind |-> kind, on |-> r, sample |-> FALSE]
Nothing == AskFor("status", CHOOSE r \in Receipts : TRUE)

Init ==
    /\ head = 1
    /\ postedAt = [r \in Receipts |-> 0]
    /\ disputed = {} /\ pending = {} /\ taken = {}
    /\ built = 0 /\ cached = 0 /\ address = {}
    /\ pc = [p \in Requests |-> "idle"]
    /\ ask = [p \in Requests |-> Nothing]
    /\ signer = [p \in Requests |-> 0]
    /\ valid = [p \in Requests |-> FALSE]
    /\ before = [p \in Requests |-> FALSE]
    /\ block = [p \in Requests |-> 0]
    /\ rules = [p \in Requests |-> {}]
    /\ failed = [p \in Requests |-> {}]
    /\ found = [p \in Requests |-> {}]

-----------------------------------------------------------------------------
(* The chain. *)

MineBlock ==
    /\ head < MaxBlock
    /\ head' = head + 1
    /\ \E new \in SUBSET {r \in Receipts : postedAt[r] = 0} :
        postedAt' = [r \in Receipts |-> IF r \in new THEN head' ELSE postedAt[r]]
    /\ UNCHANGED <<disputed, pending, taken, signerVars, pc, actionVars, scanVars>>

\* What the contract would do with a transaction: it opens one dispute for a
\* receipt, and takes evidence on a dispute.
Accepts(tx) ==
    IF tx.kind = "open" THEN postedAt[tx.on] # 0 /\ tx.on \notin disputed
    ELSE tx.on \in disputed

\* A pending transaction is executed; it reverts when it comes too late.
Execute(tx) ==
    /\ tx \in pending
    /\ pending' = pending \ {tx}
    /\ disputed' = IF tx.kind = "open" /\ Accepts(tx) THEN disputed \cup {tx.on} ELSE disputed
    /\ UNCHANGED <<head, postedAt, taken, signerVars, pc, actionVars, scanVars>>

-----------------------------------------------------------------------------
(* The beginning and the end of a request. *)

Free(p) == pc[p] \in Codes

Goto(p, label) == pc' = [pc EXCEPT ![p] = label]

\* A request begins; the answer that was in its slot is forgotten.
Begin(p, a, label) ==
    /\ Free(p)
    /\ Goto(p, label)
    /\ ask' = [ask EXCEPT ![p] = a]
    /\ before' = [before EXCEPT ![p] = a.on \in disputed]
    /\ block' = [block EXCEPT ![p] = 0]
    /\ failed' = [failed EXCEPT ![p] = {}]
    /\ found' = [found EXCEPT ![p] = {}]
    /\ UNCHANGED <<chainVars, valid>>

\* It is answered; what only served the way there is dropped.
Answer(p, code) ==
    /\ Goto(p, code)
    /\ ask' = [ask EXCEPT ![p] = IF code = "200" THEN @ ELSE Nothing]
    /\ signer' = [signer EXCEPT ![p] = 0]
    /\ valid' = [valid EXCEPT ![p] = FALSE]
    /\ before' = [before EXCEPT ![p] = FALSE]
    /\ rules' = [rules EXCEPT ![p] = {}]

-----------------------------------------------------------------------------
(* The signer. *)

\* A local key has its address with it, one of the key service asks for it.
KnowsAddress == SignerType = "local"

\* Faulty: cachedSigner is never looked at.
GetSignerAnew(p, kind, r) ==
    /\ Begin(p, AskFor(kind, r), "build")
    /\ signer' = [signer EXCEPT ![p] = 0]
    /\ UNCHANGED <<signerVars, rules>>

\* The handlers of /actions go to getSigner first: the cached one, or build.
GetSigner(p, kind, r) ==
    /\ Begin(p, AskFor(kind, r), IF cached # 0 THEN "account" ELSE "build")
    /\ signer' = [signer EXCEPT ![p] = cached]
    /\ UNCHANGED <<signerVars, rules>>

\* The imports are there and buildSigner returns; whoever built another one
\* in the meantime is overwritten.
BuildSigner(p) ==
    /\ pc[p] = "build"
    /\ built' = built + 1
    /\ cached' = built'
    /\ address' = IF KnowsAddress THEN address \cup {built'} ELSE address
    /\ signer' = [signer EXCEPT ![p] = built']
    /\ Goto(p, "account")
    /\ UNCHANGED <<chainVars, ask, valid, before, scanVars>>

\* getAccount has the address, of its own or from the key service.  For
\* /actions/status that is isHealthy, and the answer.
GetAccount(p) ==
    /\ pc[p] = "account"
    /\ address' = address \cup {signer[p]}
    /\ IF ask[p].kind = "status"
       THEN Answer(p, "200")
       ELSE Goto(p, "lookup") /\ UNCHANGED <<actionVars, rules>>
    /\ UNCHANGED <<chainVars, built, cached, block, failed, found>>

\* No signer, or no address: the catch of the handler.  /actions/status
\* answers with signerHealthy false.
SignerFails(p) ==
    /\ \/ pc[p] = "build"
       \/ pc[p] = "account" /\ signer[p] \notin address
    /\ Answer(p, IF ask[p].kind = "status" THEN "200" ELSE "500")
    /\ UNCHANGED <<chainVars, signerVars, block, failed, found>>

\* A signature as the key service gives it: s above half the order, the
\* point of r with an odd ordinate.  Either can be.
RawSignatures == [high : BOOLEAN, odd : BOOLEAN]

\* s is turned into the lower one; that mirrors the point.
LowS(sig) == [high |-> FALSE, odd |-> sig.odd # sig.high]

\* yParity is told from whether s was turned, and from nothing else.
ComputeRecoveryV(sig) == sig.high

\* The node recovers a sender from signature and parity.
RecoversToAccount(sig) == ComputeRecoveryV(sig) = LowS(sig).odd

-----------------------------------------------------------------------------
(* The rest of /actions/open-dispute and /actions/submit-evidence. *)

\* The handler of the worker, past its ledger, calls openDispute.
WorkerActs(p, r) ==
    /\ Begin(p, AskFor("worker", r), "simulate")
    /\ signer' = [signer EXCEPT ![p] = 0]
    /\ UNCHANGED <<signerVars, rules>>

Tx(p) == [kind |-> IF ask[p].kind = "evidence" THEN "evidence" ELSE "open", on |-> ask[p].on]

\* getReceipt and getDispute find what has a solver, and a challenger.
ReceiptExists(r) == postedAt[r] # 0
DisputeExists(r) == r \in disputed

\* Faulty: the check of the other route, copied.
LookupDispute(p) ==
    /\ pc[p] = "lookup"
    /\ DisputeExists(Tx(p).on)
    /\ Goto(p, "simulate")
    /\ UNCHANGED <<chainVars, signerVars, actionVars, scanVars>>

\* The handler finds what the request names.
Lookup(p) ==
    /\ pc[p] = "lookup"
    /\ IF Tx(p).kind = "open" THEN ReceiptExists(Tx(p).on) ELSE DisputeExists(Tx(p).on)
    /\ Goto(p, "simulate")
    /\ UNCHANGED <<chainVars, signerVars, actionVars, scanVars>>

\* There is none, or the query failed, which is not told apart.
NotFound(p) ==
    /\ pc[p] = "lookup"
    /\ Answer(p, "404")
    /\ UNCHANGED <<chainVars, signerVars, block, failed, found>>

\* Faulty: the transaction goes out without simulateContract.
SimulateNothing(p) ==
    /\ pc[p] = "simulate"
    /\ Goto(p, "sign")
    /\ UNCHANGED <<chainVars, signerVars, actionVars, scanVars>>

\* simulateContract: the contract would take it as things are.
Simulate(p) ==
    /\ pc[p] = "simulate"
    /\ Accepts(Tx(p))
    /\ Goto(p, "sign")
    /\ UNCHANGED <<chainVars, signerVars, actionVars, scanVars>>

\* writeContract has the transaction signed.
Sign(p) ==
    /\ pc[p] = "sign"
    /\ \E sig \in RawSignatures :
        valid' = [valid EXCEPT ![p] = KnowsAddress \/ RecoversToAccount(sig)]
    /\ Goto(p, "send")
    /\ UNCHANGED <<chainVars, signerVars, ask, signer, before, scanVars>>

\* The node takes it; the answer may get lost.
Send(p) ==
    /\ pc[p] = "send"
    /\ valid[p]
    /\ pending' = pending \cup {Tx(p)}
    /\ taken' = taken \cup {Tx(p)}
    /\ \E code \in {"200", "500"} : Answer(p, code)
    /\ UNCHANGED <<head, postedAt, disputed, signerVars, block, failed, found>>

\* The simulation reverts or the node does not answer, the signature fails
\* its check, the node refuses (another transaction has the nonce, the
\* sender it recovers has no funds): 500.
ActionFails(p) ==
    /\ pc[p] \in {"simulate", "sign", "send"}
    /\ Answer(p, "500")
    /\ UNCHANGED <<chainVars, signerVars, block, failed, found>>

-----------------------------------------------------------------------------
(* POST /scan. *)

StartScan(p) ==
    /\ Begin(p, AskFor("scan", Nothing.on), "head")
    /\ signer' = [signer EXCEPT ![p] = 0]
    /\ UNCHANGED <<signerVars, rules>>

\* getBlockNumber.
ReadHead(p) ==
    /\ pc[p] = "head"
    /\ block' = [block EXCEPT ![p] = head]
    /\ Goto(p, "time")
    /\ UNCHANGED <<chainVars, signerVars, actionVars, rules, failed, found>>

\* What the engine runs: of the ids that the body names the rules they belong
\* to, without those nobody knows, so possibly none; without ids, the rules
\* enabled by default, which is SampleRule.
AskedRules == SUBSET Rules

\* getBlockTimestamp; time is counted in blocks here.  Then the engine picks
\* the rules.
ReadTimestamp(p) ==
    /\ pc[p] = "time"
    /\ \E R \in AskedRules :
        /\ rules' = [rules EXCEPT ![p] = R]
        /\ ask' = [ask EXCEPT ![p].sample = "SAMPLE-001" \in R]
    /\ Goto(p, "rules")
    /\ UNCHANGED <<chainVars, signerVars, signer, valid, before, block, failed, found>>

\* Either query fails, or the ids are no list: 500 without findings.
ScanFails(p) ==
    /\ pc[p] \in {"head", "time"}
    /\ Answer(p, "500")
    /\ block' = [block EXCEPT ![p] = 0]
    /\ UNCHANGED <<chainVars, signerVars, failed, found>>

FromBlock(b) == IF b > Lookback THEN b - Lookback ELSE 0

\* Receipts posted from first to last.
PostedIn(first, last) == {r \in Receipts : postedAt[r] # 0 /\ postedAt[r] \in first .. last}

\* SampleRule: the deadline is less than Soon away at block b.
Approaching(r, b) == postedAt[r] + Window - b \in 1 .. Soon - 1

\* Faulty: the query has no upper end, so later blocks come in.
EvaluateToHead(p) ==
    /\ pc[p] = "rules"
    /\ \E rule \in rules[p] :
        /\ rules' = [rules EXCEPT ![p] = @ \ {rule}]
        /\ found' = [found EXCEPT ![p] = IF rule = "SAMPLE-001"
               THEN {r \in PostedIn(FromBlock(block[p]), head) : Approaching(r, block[p])} ELSE @]
    /\ UNCHANGED <<chainVars, signerVars, pc, actionVars, block, failed>>

\* A rule returns its findings; those of the mock rule name no receipt.
Evaluate(p) ==
    /\ pc[p] = "rules"
    /\ \E rule \in rules[p] :
        /\ rules' = [rules EXCEPT ![p] = @ \ {rule}]
        /\ found' = [found EXCEPT ![p] = IF rule = "SAMPLE-001"
               THEN {r \in PostedIn(FromBlock(block[p]), block[p]) : Approaching(r, block[p])} ELSE @]
    /\ UNCHANGED <<chainVars, signerVars, pc, actionVars, block, failed>>

\* Its query fails, or takes longer than ruleTimeoutMs; the others still run.
RuleFails(p) ==
    /\ pc[p] = "rules"
    /\ "SAMPLE-001" \in rules[p]
    /\ rules' = [rules EXCEPT ![p] = @ \ {"SAMPLE-001"}]
    /\ failed' = [failed EXCEPT ![p] = @ \cup {"SAMPLE-001"}]
    /\ UNCHANGED <<chainVars, signerVars, pc, actionVars, block, found>>

ScanReplies(p) ==
    /\ pc[p] = "rules"
    /\ rules[p] = {}
    /\ Answer(p, "200")
    /\ UNCHANGED <<chainVars, signerVars, block, failed, found>>

-----------------------------------------------------------------------------
RequestStep(p) ==
    \/ BuildSigner(p) \/ GetAccount(p) \/ SignerFails(p)
    \/ Lookup(p) \/ NotFound(p) \/ Simulate(p) \/ Sign(p) \/ Send(p) \/ ActionFails(p)
    \/ ReadHead(p) \/ ReadTimestamp(p) \/ ScanFails(p)
    \/ Evaluate(p) \/ RuleFails(p) \/ ScanReplies(p)

\* The handlers.
OpenDispute(p, r) == GetSigner(p, "open", r)
SubmitEvidence(p, r) == GetSigner(p, "evidence", r)
Status(p) == GetSigner(p, "status", Nothing.on)

Asks(p) ==
    \/ \E r \in Receipts : OpenDispute(p, r) \/ SubmitEvidence(p, r)
    \/ Status(p)
    \/ StartScan(p)
    \/ \E r \in Receipts : WorkerActs(p, r)

Next ==
    \/ MineBlock
    \/ \E tx \in pending : Execute(tx)
    \/ \E p \in Requests : Asks(p) \/ RequestStep(p)

Spec == Init /\ [][Next]_vars

\* Every await settles, by its time-out at the latest, and the chain
\* executes what it has (weak fairness).  Clients that want a dispute ask
\* again and again, and no call fails them every time (strong fairness): not
\* the build, the key service, the queries, nor the node; and signatures that
\* recover to the account come up as often as others.
Fairness ==
    /\ WF_vars(\E tx \in pending : Execute(tx))
    /\ \A p \in Requests : WF_vars(RequestStep(p))
    /\ \A r \in Receipts : SF_vars(\E p \in Requests : OpenDispute(p, r))
    /\ SF_vars(\E p \in Requests : ask[p].kind = "open" /\ (BuildSigner(p) \/ GetAccount(p)))
    /\ SF_vars(\E p \in Requests : ask[p].kind = "open" /\ Lookup(p))
    /\ SF_vars(\E p \in Requests : ask[p].kind = "open" /\ Simulate(p))
    /\ SF_vars(\E p \in Requests : ask[p].kind = "open" /\ Sign(p) /\ valid'[p])
    /\ SF_vars(\E p \in Requests : ask[p].kind = "open" /\ Send(p))

FairSpec == Spec /\ Fairness

-----------------------------------------------------------------------------
\* However many requests come, no more signers are built than run at once:
\* cachedSigner is tested before an await and set after it, so only the
\* requests that began before the first was built build one each.
SignersAreFew == built <= Cardinality(Requests)

\* Nobody sends a second dispute for a receipt that had one when the request,
\* or the handler of the worker, began.  The API keeps no ledger; it is the
\* simulation, several awaits later, that stops it.
NoLateDispute ==
    \A p \in Requests : pc[p] = "send" /\ Tx(p).kind = "open" => ~before[p]

\* A success is one: the node has taken a transaction for what was asked, and
\* a scan with success true that ran SampleRule has found every receipt that was
\* close to its deadline at one block, and no other, whatever was mined in the
\* meantime.  One that named only other rules, ids nobody knows or none also has
\* success true: it names no receipt, and its success says nothing of them.
RepliesAreTrue ==
    \A p \in Requests : pc[p] = "200" =>
        /\ ask[p].kind \in {"open", "evidence", "worker"} => Tx(p) \in taken
        /\ ask[p].kind = "scan" /\ failed[p] = {} =>
               found[p] = IF ask[p].sample
                          THEN {r \in PostedIn(FromBlock(block[p]), block[p]) : Approaching(r, block[p])}
                          ELSE {}

\* No failure sticks, to the cached signer least of all: who asks often
\* enough for a dispute on a receipt gets it, from the API or another.
AskedIsDisputed == \A r \in Receipts : postedAt[r] # 0 ~> r \in disputed
=============================================================================
