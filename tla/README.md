# IRSB Watchtower: specifications and proofs

TLA+ models of the watchtower, TLC configurations that check them on small
instances, and TLAPS proofs for every value of the constants. Source paths are
relative to the repository.

1. [The system](#1-the-system): components, state, interactions, what is hard
2. [The modules](#2-the-modules): which module models what, action by action
3. [The runs](#3-the-runs): what each one asks, its bounds and fairness
4. [The proofs](#4-the-proofs): theorems, invariants, assumptions
5. [What the code does otherwise than its documents say](#5-code-and-documents)
6. [What is not modelled, and the plan](#6-not-modelled-and-the-plan)

## 1. The system

The watchtower is a TypeScript monorepo. A **worker** watches one or more
chains for receipts whose challenge deadline has passed and opens disputes; an
**API server** does the same on request; a second pipeline (**watchtower-core**,
driven by the `wt` tool and a **read API**) collects identity, context and
behaviour signals of agents into SQLite, scores them, and signs what it reports
into a transparency log.

| Component | State it keeps | Operations | Interacts with |
|---|---|---|---|
| Chain watcher, `apps/worker/src/worker.ts` | timer; per cycle: block, findings | start a cycle, read head, run rules, execute actions, move cursor | one per chain; shares ledger, cursor, executor and client among its own cycles |
| Action executor, ledger, cursor, `packages/core/src/{actions,state}` | `entries` and its JSON file; `lastProcessedBlock` and its JSON file | `executeActions`, `hasActed`, `recordAction`, `update`, load, save | called by a cycle; handlers call the IRSB client |
| Rules and engine, `packages/core/src/{rules,engine.ts}` | none | evaluate, time out, collect errors | read events through the chain context |
| IRSB client, `packages/irsb-adapter` | wallet client | event queries, `openDispute`, `submitEvidence` = simulate and write | RPC node |
| Resilience, `packages/resilience` | circuit state, two counters, time of the last failure | `isAllowed`, `recordSuccess`, `recordFailure`, `reset`, `withRetry` | shared by all calls of one resilient client |
| Evidence store, `packages/evidence-store` | JSONL files per day, rotated by size | `writeFinding`, `writeActionResult`, `query` | worker cycle, API, tools: several processes on one directory |
| Webhook sink, `packages/webhook` | none between calls | `send` with timeout and retries, `verifySignature` | awaited by the cycles of all chains and by their heartbeat timers; a receiver elsewhere |
| API server, `apps/api` | cached signer | scan, open-dispute, submit-evidence, status | engine, signer, IRSB client; the same key as the worker |
| Signers, `packages/signers` | cached address | account, sign, recovery id | key service |
| Identity poller, `watchtower-core/src/identity` | `identity_events`, `identity_cursor` | poll a range, insert, set cursor | RPC node; SQLite shared with other processes |
| Identity cards, `watchtower-core/src/identity` | `identity_snapshots` | fetch a card, keep it, derive signals | servers and resolvers anywhere; the poller's table; risk store |
| Context sync, `watchtower-core/src/context` | `context_cursor` | range, transactions, signals, snapshot, cursor | source of transactions; risk store |
| Behaviour ingest, `watchtower-core/src/behavior` | none | read a manifest, verify the files it lists, derive signals | a solver's run directory; risk store |
| Risk store, `watchtower-core/src/storage` | agents, snapshots, alerts, reports | upsert, insert or ignore, latest | the three pipelines, the read API |
| Transparency log and keys, `watchtower-core/src/{transparency,signing}` | NDJSON file per day, key file | ensure key, create and append a leaf, read, verify | `wt`, read API |
| Read API, tools, providers, config, metrics | none of their own | | |

What makes this code hard to test:

* **Overlapping cycles and requests.** `setInterval` starts a cycle every
  interval, ended or not; `hasActed` is asked before the awaits of the action
  handler and `recordAction` runs after them. Requests of the API share one
  cached signer, and dispute the worker's receipts without its ledger.
* **Lost outcomes.** The node may take a transaction and its answer never
  arrive; the process may stop between submission and record; a JSON file torn
  by a crash is taken for an empty one; a request that was given up arrives.
* **Files that several processes append to.** An append that fails leaves part
  of a line for the next one; files rotate and days end under a writer's feet;
  the test for the key file and its creation are two calls.
* **Order of completion.** A cycle that started earlier may end later and move
  the cursor back; a call admitted in one state of the breaker reports in
  another one; an overlapping sync writes the cursor it had read about.
* **Several commits in a row.** A pipeline stores snapshot, report and alerts one
  by one, next to other processes, and keeps what exists.
* **Reorganisations.** The newest blocks are replaced under the readers' feet,
  and each of them is a new process every time: they overlap and die.
* **Others' files and servers.** A solver changes the run directory while it is
  verified; the server of a card answers anything, slowly, or never.
* **Progress.** Finding after finding fails, and the others must get their
  turn; an open circuit must close; a confirmed event must be stored; a send and
  a fetch must return.

The correctness of each part, in a line:

* watcher: no second transaction for a receipt unless the outcome of the first
  one was lost; only stale, undisputed receipts; each of them in the end;
* ledger and cursor: never claim what did not happen, never go back;
* evidence store: what is acknowledged is readable unless a failed write lies
  before it on its line, and then only the next record is lost; order of past
  days is stable;
* webhook: no attempt too old; success means accepted, and before any send that
  began after it had returned; every send returns;
* API: few signers, no dispute for a receipt that had one when it was asked for,
  a success is one;
* poller: no event missed, no row that a reorganisation has made wrong;
* cards: a signal says what has happened, and every run ends;
* context: no block skipped from one range to the next that goes on from it,
  signals are those of the blocks they name;
* behaviour: verified if and only if intact, and verified only what was there;
* breaker: counters and state agree whoever reports when; it recovers;
* risk store: when all is quiet, the report and the alerts that the latest
  snapshots call for are stored, whoever wrote them and whoever died;
* log: few keys, each known before it signs; every acknowledged leaf verified or
  its loss reported; one date for each.

## 2. The modules

| Module | Models | Proofs |
|---|---|---|
| `DisputeOnce` | abstract promise of the ledger: per receipt open, in flight, recorded, unknown | |
| `AppendOnly` | abstract promise of a directory of lines: acknowledged records, those that can be read, files without a line end | |
| `ScanWorker` | one chain watcher with its executor, ledger, cursor, rule and chain | `ScanWorkerProofs` |
| `ApiRoutes` | the API's scan and action routes, its signer, and the worker's submissions next to them | `ApiRoutesProofs` |
| `EvidenceStore` | writers of one evidence directory | `LineFileProofs` |
| `WebhookDelivery` | the worker's sends, any number at a time, and a receiver | `CallProofs` |
| `CircuitBreaker` | concurrent resilient calls that share one breaker | `CallProofs` |
| `IdentityPoller` | polls of one registry over one database and a chain with reorganisations | `IdentityPollerProofs` |
| `AgentCards` | runs of `id:fetch` next to the poller | `AgentCardsProofs` |
| `ContextSync` | syncs of one agent over a chain with reorganisations | `IngestProofs` |
| `ReceiptCheck` | one verification of a run directory that changes under it | `IngestProofs` |
| `RiskStore` | snapshots, reports and alerts of one agent, and the processes that ingest and score | `RiskStoreProofs` |
| `TransparencyLog` | processes that create the key, sign and append leaves | `LineFileProofs` |
| `LineFiles` | files of lines that are appended to, with what a failed append leaves; used by `EvidenceStore` and `TransparencyLog` | |
| `MC...` | values for TLC | |

How they compose: `ScanWorker` implements `DisputeOnce`; `EvidenceStore` and
`TransparencyLog` are built on `LineFiles` and implement `AppendOnly`; `ApiRoutes` holds the worker at the
grain at which the two meet, its submissions. `AgentCards`, `ContextSync` and
`ReceiptCheck` end where `RiskStore` begins, whose run is what all three do to
the risk store; `AgentCards` takes from the poller that it inserts events again.

A module of proofs may be about two components. It extends both, so one of each
pair has names that begin with `CB` (`CircuitBreaker`), `RC` (`ReceiptCheck`) or
`Log` (`TransparencyLog`) where the other has `Init`, `Next`, `Spec`, `vars` and
`TypeOK`. `LineFileProofs` needs it: the two stores share the facts about
`LineFiles`.

### ScanWorker

An action is what runs between two awaits of one cycle: JavaScript interleaves
nowhere else. `pc[s]` is the await at which cycle `s` stands.

| Action | Code |
|---|---|
| `StartScan` | tick of `setInterval`, or the first scan in `main` |
| `ReadHead`, `HeadFails` | `getBlockNumber`, `getBlockTimestamp`; `catch`/`finally` of the cycle |
| `ReadReceipts`, `ReadDisputes` | the two awaits of `ReceiptStaleRule.evaluate`; `Findings` is its filter |
| `RuleFails` | a query rejects or the engine's timeout fires: the error is the rule's result |
| `PickFinding`, `EndActions` | the loop of `executeActions` up to its next await |
| `HandlerFails`, `Submit`, `ReplyLost` | the `OPEN_DISPUTE` handler and `openDispute`: nothing submitted; submitted; submitted without an answer |
| `RecordAction`, `RecordActionUnsaved` | `recordAction` and its `save`; one that throws leaves the file as it was, or torn, since `writeFileSync` truncates it first |
| `UpdateCursor`, `CursorRefuses` | `cursor.update`, saved or not in the same way, with its throw, and the end of the cycle |
| `Stop`, `Boot` | the process ends anywhere, possibly inside `writeFileSync`; `load` of both files |
| `MineBlock` | the chain (external): new receipts and disputes, anybody's |

The code's data are abstracted to what its decisions depend on. Time is blocks:
a receipt of block b has its deadline at b + `Window`, so the challenge window
and the minimum age are numbers of blocks. A receipt id stands for one that
passes the allowlists; status filters of the rule are left out, since the
chain context always says `pending`. The findings of a cycle are a set worked
off oldest first, as the logs are ordered. `Heads` lets the node lag behind a
head it has named before. The evidence store, the webhook, the metrics and
`postFindingsToApi` change nothing a cycle reads and swallow their own errors;
their awaits only lengthen awaits the model has. Dry run is off: it
records nothing. `sent` counts submissions, `lost` and `txs` are history
variables, which no guard reads except the bound `MaxSent`. `Faults` says which
faults an instance has.

`process` is "down" between `Stop` and `Boot`; in between, `ledger` and
`cursor` already hold what the next process will load. Several chains run in
one process with separate state each; one watcher is modelled.

### ApiRoutes

`Requests` are slots for requests that run at the same time; the worker's handler
takes one as well from the moment it calls `openDispute` (`WorkerActs`).

| Action | Code |
|---|---|
| `OpenDispute`, `SubmitEvidence`, `Status` (= `GetSigner`) | a handler of `routes/actions.ts` up to `getSigner`'s test of `cachedSigner` |
| `BuildSigner`, `SignerFails` | the imports and `buildSigner`, which sets `cachedSigner` whatever it is by now; the handler's catch |
| `GetAccount` | the address, of a local key or from the key service; the answer of `/actions/status` |
| `Lookup`, `NotFound` | `getReceipt` or `getDispute`; both give null for an error of the node, so 404 |
| `Simulate`, `Sign`, `Send`, `ActionFails` | `simulateContract`, the signer, `sendRawTransaction` with an answer that may be lost; 500 |
| `StartScan`, `ReadHead`, `ReadTimestamp`, `ScanFails` | `/scan` up to the rules, which the engine picks by the body's `ruleIds` (`AskedRules`): any subset, none for an empty list or unknown ids |
| `Evaluate`, `RuleFails`, `ScanReplies` | the engine rule by rule, its catch and timeout, and the answer |
| `MineBlock`, `Execute` | the chain (external): new receipts; transactions executed or reverted |

A signature of the key service is abstracted to whether its s is above half the
order and whether its point has an odd ordinate: what `computeRecoveryV` should
tell apart. It returns a parity that depends on the first alone, so that about
half of the signatures recover to another account; the node refuses those, and
`ActionFails` is the 500 that follows. Nonces are no more than a reason for the
node to refuse.

### EvidenceStore

A writer is a process: `BeginWrite` is the test of the day's file, `Rotate` the
search for a free suffix, `WriteLine`, `WriteFails` and `Crash` the append with
what it may leave; several processes on one directory are the old and the new
worker around a restart, or worker and API. `Query` is the reading: the files in
the order of `localeCompare`, of each the lines that parse. A record is the
number of its write, sizes are counted in records.

`LineFiles` has a file as a sequence of lines, and a line as the pieces between
two line ends: a piece is a whole record, a part of one, or one without its end.

### WebhookDelivery

`Send`, `Post`, `TimesOut`, `ConnectionFails`, `Accepted`, `Rejected`, `Busy`,
`RetryOrReturn` and `Attempt` are `send` between its awaits and the answers it
tells apart (2xx; 4xx other than 429; 429, 5xx and errors). One sink serves the
cycles of all chains and the timers of their heartbeats (`worker.ts:521,570`), so
any number of sends run at a time; a cycle awaits each of its own, which is why
`earlier`, a history variable, keeps what had returned when a send began.
`flight` holds requests
whose sender may have given up; they can still arrive, or be `Lost`. The
receiver checks age with the code's own `verifySignature`, by a clock that is
`Skew` ahead. Timers are on time to the unit of the clock. The assumption that
attempts, pauses and skew fit into the receiver's limit on age holds for the
defaults (3 retries of 10 seconds, pauses of at most 30, an age of 300), not for
everything `webhookConfigSchema` accepts: 10 retries of 60 seconds do not fit.

### CircuitBreaker

`IsAllowed`, `RecordSuccess`, `RecordFailure` and `TransitionTo` are the
methods of the class; `Begin`, `Succeeds`, `BacksOff`, `TriesAgain` and `Fails`
are the steps of `resilient` and `withRetry` between awaits. The breaker is
consulted before the first attempt only and told after the last one only. The
failure counter and the time since the last failure are counted up to the
value the code compares them with.

### IdentityPoller

`StartPoll` reads the cursor, `ReadHead` computes the range, `ReadLogs` gets
its events, `InsertEvent` stores one of them (`INSERT OR IGNORE`),
`CommitCursor` writes `toBlock` unconditionally. Each is separate because
polls are processes of their own on one database, and every statement commits
by itself. `Crash` is a dying process or a rejected call between any two of
them. `Reorg` replaces the newest blocks, at most `MaxReorg`; events in them
move or drop out. Events are identified as their rows are, by transaction and
log index.

### AgentCards

A run of `id:fetch`: `Start` lists the agents, `NextAgent` takes one with its
latest event and the clock, `Resolve`, `Reply`, `Lookup` and `Body` are the
awaits of `fetchAgentCard` (DNS lookup, headers, DNS lookup of a redirect, body),
`TimerFires` its abort, `InsertIdentitySnapshot` and `DeriveIdentitySignals` the
two halves of what follows; `Crash` anywhere. The poller inserts events meanwhile
(`InsertIdentityEvent`). Servers answer anything. The abort ends a request or the
reading of a body at once, but not a lookup; the first lookup runs before the
timer is set. `TIMEOUT` and `SSRF_BLOCKED`, which give the signal that
`UNREACHABLE` gives, are not told apart from it, and rows without a card, which
only the show command reads, are left out. `knownSince` and `seen` are history
variables.

### ContextSync

`Start` reads the cursor, `ReadTip` computes the range, `ReadTransactions` queries
it; `StoreSnapshot` is the answer about the window before with the signals and the
insert, which await nothing, and `SetCursor` the cursor, whatever it is by now;
`Crash` anywhere. Syncs of all kinds overlap. The options `--from-block` and `--to-block` are part of `Start`. A
transaction of the model is a group of one block and one counterparty. Signals
are derived by the code's formulas (`Concentrated`, `Burst`, `DormantThenBurst`,
`FundingKinds`), with a block's height for its timestamp. A first sync and one
with `--from-block` open a series of ranges (`Opens`), every other goes on from the
cursor it has read; `base` is the block where the series that the cursor ends
began (`SeriesAfter`). Ranges that overlap or meet what the cursor ends join it;
others leave blocks between two series, see section 5. `base`, `series`, `everRead` and
`late` are history variables. The transfers of tokens are left out.

### ReceiptCheck

Each call of the file system in `verifyEvidence` is a step (`FindManifest`,
`MeasureManifest`, `ReadManifest`, `FindArtifact`, `MeasureArtifact`,
`ReadArtifact`) that may fail, with its early return or its `continue`; between
two of them the solver changes, creates or removes files (`ChangeManifest`,
`ChangeArtifact`). `StartOnRun` is the start of `ingest-receipt` and
`verify-receipt`, `StartOnBody` that of the read API, where the directory is the
request's own and has nothing but the manifest. A manifest is a form (none, no
JSON, another schema, a manifest) with a list of artifacts. `Signals` is what the
failures become by `SIGNAL_DEFS`; weights are in `RiskStore`. `held` and `quiet`
are history variables.

### RiskStore

The three pipelines (`ingestReceipt`, `fetchAndScoreIdentities`,
`syncAndScoreContext`) end in the same way, and `score-agent` is the second half
of it: a run of the model. Runs are processes on one SQLite file, each statement
commits by itself, so each is an action.

| Action | Code |
|---|---|
| `StartIngest`, `StartScore` | observe and derive signals, `observedAt` being the time of the start; `score-agent` when there are snapshots |
| `StoreSnapshot` | `upsertAgent` and `insertSnapshot` |
| `ReadSnapshots` | `getLatestSnapshots` and `scoreAgent` |
| `StoreReport`, `StoreAlerts` | `insertRiskReport`, `insertAlerts` (skipped without alerts) |
| `AddSnapshot` | `add-snapshot`: no scoring |
| `Crash` | the process dies or a statement fails, between any two of them |

Keys are what the code hashes: `SnapshotId` has the time of observation, since
the signals contain it, except for a snapshot without signals; a report is
identified by its content without `generatedAt`, an alert by its type and top
references. `Assess` keeps of a report what its hash depends on: how often each
signal occurs, and the confidence. A signal is a number, the place of its
evidence link among sorted ones; it carries one link. `Points` is severity
points times weight. The agent is registered; its status and labels, which only
output reads, are left out, as is the option `--limit`. Equal `observed_at` come
in the order of insertion, as the index on `(agent_id, observed_at DESC)` has
them. `generatedAt` is any time between the read and the insert. `unscored` is
a history variable: `add-snapshot`, or a run that died after its insert, may
have left the snapshots without scoring.

### TransparencyLog

A process runs one command after the other: `transparency:append`, `keygen`, or
the start of the read API (`Start`, `StartKeygen`). `LoadKey`, `OpenKeyFile` and
`SaveKey` are `ensureKeyPair` call by call, where `writeFileSync` empties the file
first; `CreateLeaf` signs, `AppendLeaf`, `AppendLeafUnended`, `AppendFails` and
`Killed` append or not.
`VerifyLogFile`, `CanRead` and `ReadLogFile` are the reading. A leaf verifies under
the key that signed it and no other. `Zone` is local time against UTC, since
the name of a file is made of local dates and the date asked for is taken in UTC.

### AppendOnly

A write of a record is acknowledged and the record kept (`Keep`), or acknowledged
and lost because its file lacks a line end, which it puts right (`Lose`), or not
acknowledged, leaving the file without a line end (`Fail`). Nothing is taken from
`kept`. Both stores map `unended` to the files whose last line lacks its end
(`Unended`), and `kept` to the acknowledged records that can be read
(`ReadableOf`): by `query`, or counted as valid by `verifyLogFile`. What this says
beyond `AckedIsKept` and `AcknowledgedIsAccounted` is when a record is lost: at its
own append or never, and only the first one after a failure in its file.

### DisputeOnce

What a caller may rely on: a transaction is submitted for a receipt only
while there is no record of an earlier one, one at a time, and an earlier one
is without a record only because its outcome was lost. `ScanWorker!RecordStatus`
is the refinement mapping.

## 3. The runs

Each property has a faulty variant of a definition of the model beside it (a
definition whose comment begins with "Faulty") under which the run fails.

| Run | Instance | Checks |
|---|---|---|
| `scan_watch` | one cycle after the other, 2 receipts, 4 blocks, cap 1, all faults, fairness | `LedgerSound`, `DisputedOnlyWhenStale`, `SubmissionsBounded`, `NoFindingForDisputed`, `CursorFileMonotone`, `ImplementsOnce`, `StaleIsDisputed` |
| `scan_acts_twice` | 2 overlapping cycles, no fault | a statement of the documents that the code does not keep, section 5 |
| `api_requests` | 2 requests at a time, 1 receipt, any choice of the two rules, key service, fairness | `SignersAreFew`, `NoLateDispute`, `RepliesAreTrue`, `AskedIsDisputed` |
| `evidence_written` | 2 writers, 3 writes, 3 days, files of one record | `SizeBounded`, `AckedIsKept`, `PastIsStable`, `ImplementsAppendOnly` |
| `webhook_slow` | 2 sends, at the same time or not, 2 retries, an age limit that timeouts, pauses and skew just reach, fairness | `StaysFresh`, `SuccessInOrder`, `SendReturns` |
| `breaker_shared` | 3 calls, 1 retry, thresholds 2, fairness | `CountsMatchState`, `HalfOpenIsQuiet`, `Recovers` |
| `identity_polled` | 2 polls, 2 events, 5 blocks, confirmations, overlap and reorganisations of 1, fairness | `NoGap`, `StoredIsFinal`, `ConfirmedIsStored` |
| `agent_cards` | 2 runs at a time, 3 in all, 1 agent with 2 locations, 2 cards, 3 seconds, 1 redirect, fairness | `ChurnIsReal`, `NewbornGrowsUp`, `RunsEnd` |
| `context_synced` | 2 syncs, 2 transactions, 3 blocks, ranges of 1, 1 reorganisation of 1 block, 1 override | `NothingIsSkipped`, `SnapshotsAreSound` |
| `receipt_checked` | 3 paths, 4 contents, 6 lists of artifacts, 2 changes | `VerifiedWasThere`, `VerdictIsExact`, `ReadTwiceAlike`, `FailureIsSignalled` |
| `risk_scored` | 2 runs, 2 signals (one critical), latest 2 of 3 snapshots, 2 seconds, crashes, fairness | `ReportIsStored`, `AlertsAreRaised`, `ScoredInTheEnd` |
| `log_shared` | 2 commands, 2 leaves, 1 forced key, 2 days west of UTC | `KeysAreFew`, `AcknowledgedIsAccounted`, `LeafHasOneDate`, `LogIsAppendOnly` |

**Bounds.**
*Watcher.* Two receipts with a cap of one make the rate limit bite and let one
finding starve another. With lookback 1, window 0 and minimum age 1, four blocks
take a receipt through all its phases: too new, stale, out of the lookback range;
a fifth adds more of the last. `MaxSent` bounds resubmissions after a loss, and
nothing else: once a receipt has a transaction, `StaleIsDisputed` holds of it.
Overlapping cycles are `scan_acts_twice` and the theorems, which hold for any
number of them: for `SubmissionsBounded` they give one transaction per
overlapping cycle, and that run shows it is reached. `DisputeOnce` is not
implemented when cycles overlap.
*API.* Two requests are what every race between them needs; a third adds one more
signer, by the bound that `SignersAreFew` states. `MaxBlock` 2 lets a receipt be
posted before and after the head that a scan reads.
*Files.* Files of one record rotate at once; two writers choose the same file,
the same suffix, and different days; three writes put a failed append before and
after an acknowledged one. Two leaves and two days do the same for the log, and
local time half a day behind UTC has leaves on both sides of both midnights.
*Webhook.* `MaxAge` is exactly what two retries with their timeouts and pauses
and the skew can take, so one unit more of any of them would show. Two sends are
what an order needs; `MaxTime` lets the second begin later than the first.
*Breaker.* Three calls are one more than either threshold.
*Poller.* Five blocks let the range start at, below and above its start block,
end at the batch and at the safe head. Deeper reorganisations, up to confirmations
plus overlap, are the theorem's.
*Cards.* Two locations and two cards let an agent move, come back and change its
card between two runs; the window, the age and the threshold are the smallest for
which some cards count and others do not; a third run meets both others' rows.
*Context.* Ranges of one block are bounded at the third block, and by the odd
bound at the first sync already; one reorganisation reaches the block that was read
(`MaxReorgs`). The override and two first syncs leave blocks between series, and
syncs take a series up again behind them.
*Receipts.* The lists have no artifact, one, two, one twice, one of a wrong size,
one too large and one outside; two changes can undo each other.
*Risk store.* A window smaller than the table lets snapshots leave it, two
seconds let them be stored out of the order of their times, and two references
in an alert tell a repeated critical signal from a single one; the code's 20
and 5 only make these cases longer.

**Fairness.** `ScanWorker`: weak fairness of a cycle's steps (the timer keeps
ticking, viem's transport answers or times out); strong fairness of the head,
event queries and submission, that is, a call repeated in cycle after cycle
succeeds at some time; and the process is up from some time on. Without the
last one, a process stopped each time before its second finding would starve
it; without strong fairness, an RPC node could refuse that one call for ever.
No fairness is assumed of other parties, of the chain, or of any fault.
`ApiRoutes`: every await settles and the chain executes what it has taken;
clients ask again and again, and no call of theirs fails every time, nor does
every signature recover to another account.
`WebhookDelivery` and `AgentCards`: time passes, timers fire and, in the latter,
resolvers give up in the end; nothing is asked of receivers and servers.
`IdentityPoller`: polls are started again and run to the end, and from some
time on no poll fails and no block is replaced. Without that a reorganisation
could remove the event each time before it is read. `CircuitBreaker`: somebody
keeps calling, calls end, time passes and the service is well in the end;
no fairness of `Reset`, so recovery does not depend on an operator.
`RiskStore`: somebody ingests or scores again, runs go on until they end, and
from some time on none dies; the commands are run from a shell or a timer
outside the repository, so this is a demand on the operator.
`CHECK_DEADLOCK` is off in `evidence_written`, `webhook_slow`, `log_shared` and
`agent_cards` only: there the numbers of writes, sends, leaves and runs are
bounded, and all may be done.

**What they show.** With one cycle after the other the watcher implements
`DisputeOnce` under all faults, and every stale receipt gets its dispute; with
overlapping ones the ledger is sound all the same, only stale receipts get
disputed, the saved cursor never goes back, and the price of the race is exactly
bounded. The API, which has no ledger, relies on the simulation: it stops whoever
asks for a receipt that was disputed when the request began, and two that ask at
the same time may both submit, of which one reverts. No failure sticks to the
cached signer. A scan says the truth about what its rules look for at its block,
and says nothing of receipts when it ran none that looks at them.

A send that succeeds was accepted before any that began after it had returned;
sends that run at the same time may be accepted in any order.

A failed append to the evidence store or the log costs the record itself and at
most the next one, never one that has been returned before. Files grow past
their limit by less than a record per writer, and queries page through past days
reliably, though not in the order of writing.

The poller misses nothing as long as confirmations plus overlap cover the
deepest reorganisation, although `setCursor` may move the cursor back (it never
moves it past what is stored), and rows are final when the confirmations alone
cover it. `ConfirmedIsStored` needs a batch of two blocks more than the overlap,
which `IdentityConfigSchema` does not ask for: with `batchSize <= overlapBlocks + 1`
a poll ends at the cursor at most, and the same range is read for ever. The context
sync, which has neither, skips within a series of ranges exactly what comes to a
block after it has been read, and the blocks between two series altogether.

In the risk store, whoever writes and dies: when nobody is at work and nothing
was left without scoring, report and alerts are those of the snapshots as they
are, and what was left is made up for by the next run, although nearly every
insert of it may find its row there already.

A receipt is verified only with files that had the right content and the right
size at some moment of the check; in a directory that rests the verdict is exact.
A failed check always has a signal, except for artifacts that are too large.

## 4. The proofs

Checked by `tlapm` (Z3, Zenon, LS4). Assumptions: the named `ASSUME`s on the
constants (`ParamAssumption`, `ApiAssumption`, `StoreAssumption`, `WebhookAssumption`,
`BreakerAssumption`, `ConfigAssumption`, `CardsAssumption`, `ContextAssumption`,
`ReceiptAssumption`, `LogAssumption`), which TLC evaluates in every run of their
modules, and the two hypotheses on `MaxReorg` below.

| Theorem | States | Inductive invariant |
|---|---|---|
| `TypeCorrect` (ScanWorker) | `TypeOK` | `TypeInv`: with `BelowCap`, a cycle in its handler is below the rate limit; without it `acted` could pass `MaxActions` |
| `SubmissionsAreBounded` | `SubmissionsBounded` | `AccountedFor`: for a receipt with neither record nor loss, each submission is one of a cycle still waiting for its answer, and each cycle waits for at most one |
| `LedgerIsSound` | `LedgerSound` | the same, as a cycle that waits for an answer has submitted |
| `OnlyStaleIsDisputed`, `DisputedIsLeftAlone` | `DisputedOnlyWhenStale`, `NoFindingForDisputed` | `WorkInv` = `ChainInv` (events lie at or below the head, disputes after their receipts) and `CycleInv` (what a cycle has read was true at its block and, staleness being monotone, still is) |
| `CursorFileIsMonotone` | `CursorFileMonotone` | `CursorAhead`: the file never names a later block than the memory |
| `WatcherImplementsOnce`, for cycles that do not overlap (`NoOverlap`) | `ImplementsOnce` | `OnceInv`: what a cycle has in hand has no record, and every receipt with a transaction is awaited, recorded or lost; each step is then a step of `DisputeOnce` or a stutter under `RecordStatus` |
| `FewSigners` (ApiRoutes) | `SignersAreFew` | `SignerInv`: signers built and requests that still build one are, together, at most the requests; as long as none is cached none has been built |
| `NobodyIsLate` | `NoLateDispute` | `NotLate` of `RequestInv`: the dispute of a receipt that had one when the request began is still there, and such a request never gets past the simulation |
| `SuccessIsTrue` | `RepliesAreTrue` | `ScanInv` and `Done` of `RequestInv`: the findings of a scan are those of its blocks, in which nothing is posted any more, once the rule has run without failing (`Wanted`: nothing, for a scan without `SampleRule`); an action answers 200 only with its transaction taken by the node |
| `SizeIsBounded` (EvidenceStore) | `SizeBounded` | `Space`: the size of a file and the number of writers that have chosen it and not yet appended stay, together, below the limit plus the writers |
| `AcknowledgedIsKept` | `AckedIsKept` | `FilesWellFormed` (a whole piece ends its line, and only the last line may lack its end) and `Fresh` (no piece without its end is acknowledged or still to be, and no two writers write one record) |
| `StoreImplementsAppendOnly` | `ImplementsAppendOnly` | `Fresh`, `WholeIsAcked` (a piece with its end has been acknowledged) and `InBounds`; each step is then a step of `AppendOnly` or a stutter |
| `PastDaysRest` | `PastRests`: no file of a past day changes or is added, and what follows comes behind it in the order of reading | `Inv`; what is written to today's files, or by somebody who chose earlier, is not of a day in `Over` |
| `AttemptsStayFresh` (WebhookDelivery) | `StaysFresh` | `Timing`: what an attempt or a pause is waiting for comes no later than all attempts so far and the pauses between them can take, `Budget` at the last one |
| `SuccessIsInOrder` | `SuccessInOrder` | itself with `Sent`: requests in flight and accepted ids belong to sends that have begun, and what had returned when a send began is neither new nor running |
| `KeyCount` (TransparencyLog) | `KeysAreFew` | `Counted`: the keys generated and the processes about to generate one are, together, at most the processes plus the forced uses; without a key file there is no key yet |
| `KeysAreSavedFirst` | `SignedOnDisk`: no leaf is signed with a key that was never in the key file | `Signing`: a process that signs has a key of `saved`, and the key file, once there, stays |
| `AppendedAreAccounted` | `AcknowledgedIsAccounted` | `LogInv` (the pieces of every line are of leaves that exist; only the last line may lack its end, and a whole piece ends its line) and `AllAppended` (each acknowledged leaf ends a line of its file). The leaves of a file are then mapped one to one to its lines, each of which is valid or counted as damaged (`CountedLines`) |
| `LogImplementsAppendOnly` | `LogIsAppendOnly` | `LogFresh`: no leaf is appended by two processes or again, and a piece of a leaf has its end if and only if the leaf is acknowledged |
| `LeafDates` | `LeafHasOneDate` | `LogInv`, and arithmetic of whole days and time zones (`WholeDays`, `ZoneDays`) |
| `LogTypes` | `LogTypeOK` | `IInv`, `LogInv` |
| `PollTypesCorrect` (IdentityPoller) | `TypeOK` | itself |
| `NothingIsMissed` | `MaxReorg <= Confirmations + OverlapBlocks => NoGap` | `GapInv`: cursor and every range under way are confirmed; every event of a range under way is stored, held, or still in blocks that a later poll reads again |
| `RowsAreFinal` | `MaxReorg <= Confirmations => StoredIsFinal` | `FinalInv`: what a poll holds is below any reorganisation |
| `ChurnStandsForCards` (AgentCards) | `ChurnIsReal` | `History`: the time of a row is one at which its card was received, and every card received has a row; then the cards counted lie between those received in the window for the first time and all received in it, and their numbers too |
| `NewbornEnds` | `NewbornGrowsUp` | `History`: the time of an event's row is that of its first insert |
| `SyncTypesCorrect` (ContextSync) | `TypeOK` | `SyncTypes`: it and what the range of a sync is (`RangeIsBounded`) |
| `CursorSkipsNothing` | `NothingIsSkipped` | `SyncInv` = `SyncTypes` and `Coverage`: the blocks from `base` up to the cursor, those from the beginning of a sync's series up to its range, and those a sync has read, are read, and their transactions counted (for a sync: held) or late. Syncs of any kind may overlap and move the cursor back |
| `SnapshotsSound` | `SnapshotsAreSound` | `AllSound`: while the chain rests, what a sync has read is all there is in its range, and its signals are those of it |
| `VerifiedArtifactsWereThere` (ReceiptCheck) | `VerifiedWasThere` | `ThereInv`: without a failure so far, every artifact before the one at hand was there with its content and its size, and has its link |
| `RestingVerdictIsExact`, `SecondReadFindsNothing` | `VerdictIsExact`, `ReadTwiceAlike` | `ExactInv`: while nothing is changed, there is a failure if and only if something is wrong with the part looked at, step by step through the calls |
| `FailuresHaveSignals` | `FailureIsSignalled` | `CodeInv`: which codes the check can come to |
| `BreakerTypesCorrect`, `CountersAgree`, `HalfOpenMeansQuiet` (CircuitBreaker) | `CBTypeOK`, `CountsMatchState`, `HalfOpenIsQuiet` | their conjunction: each transition of the breaker needs the other two |
| `StoreTypesCorrect`, `NothingStaysUnreported`, `NoAlertIsMissing` (RiskStore) | `TypeOK`, `ReportIsStored`, `AlertsAreRaised` | `StoreInv`: the current assessment is stored, or known to be missing, or a run will still read, or a run that has read it will still store it (`Covered`); a run comes to its alerts with its report stored |

EvidenceStore and AgentCards have a theorem `TypeCorrect` too. The number of
cycles, requests, receipts, writers, processes, pollers, syncs, sends, events,
transactions, paths, runs and calls, the cap, the lookback range, confirmations,
overlap, batch, length of a day, time zone, timeouts and thresholds are arbitrary
in all of them, and so are the faults.

What one append does to a directory, `AppendGrows`, is proved once and used for
both stores: the file grows by one piece, on its last line when that has no end,
else on a new one, and no other line or file changes. `AcknowledgedIsKept`
and `AppendedAreAccounted` rest on it. What it does to the files
without an end and to the records that can be read (`UnendedAfter`,
`ReadableAfter`) serves both refinements in the same way.

Every invariant that a run checks is proved, and every action property that is
not about progress except `PastIsStable`. It and the liveness properties are
only model-checked: `StaleIsDisputed`, `AskedIsDisputed`, `SendReturns`,
`Recovers`, `ConfirmedIsStored`, `RunsEnd` and `ScoredInTheEnd` need fairness and
`ENABLED`, which are out of the prover's reach; `PastIsStable` compares two
sequences sorted and put together by folds over files and lines, an induction
over data; `PastDaysRest` proves what the directory contributes to it.

## 5. Code and documents

| Run | Document | Code |
|---|---|---|
| `scan_acts_twice` | `000-docs/012-EPIC1-receipt-stale-autochallenge.md:60` "Never acts on the same receipt twice"; `000-docs/002-ARCH-runtime-model.md:103-104` "One scan at a time" | two cycles pass `hasActed` before either records (`actionExecutor.ts:102`, `worker.ts:510`) |

Other differences that the models follow the code in, without a run of their own:

* `012:54` "`MAX_ACTIONS_PER_SCAN` caps actions per cycle": only results that
  count as a success are counted (`actionExecutor.ts:111`), a submission whose
  answer is lost is not.
* `012:63` "Waits for N confirmations before processing": the setting reaches only
  `getStartBlock`, whose result is logged, and a rule that does not read it.
* `000-docs/019-AA-REPT-w2-behavior-lens.md:53` "snapshotId excludes observedAt":
  the hashed signals contain it (`deriveBehaviorSignals.ts:50`), so that a receipt
  ingested again in another second counts twice; a snapshot without signals is
  stored once for all.
* `watchtower-cli/src/cli.ts:191` "the latest risk report": a report whose content
  comes back (A, B, A) is ignored on insert (`reportStore.ts:6`), and the latest
  by `generated_at` is B. `ReportIsStored` says that A is there, not that it is
  the latest.
* Log files have local dates (`log.ts:10`), the read API asks by UTC dates
  (`routes/transparency.ts:21`): a leaf may be found under a neighbouring date.
* `ARTIFACT_TOO_LARGE` is in no row of `SIGNAL_DEFS` (`deriveBehaviorSignals.ts:14`):
  such a verification has failed and has no signal. `000-docs/017-PR-ADDM-w2-behavior-lens.md:94`
  has "Size checks before reading full content", but `ingestReceipt.ts:40` reads the manifest unmeasured.
  A manifest with artifacts that is posted to the read API is never verified, as
  its directory has no other file.
* Context: a range without a cursor, or bounded, has `maxBlocks + 1` or `maxBlocks`
  blocks (`ingestContext.ts:56,74`). `--to-block` may lie ahead of the chain; what
  is mined there later is `late` in `NothingIsSkipped`. Two first syncs of an agent
  at once, or one with `--from-block`, can end in ranges that do not meet:
  the cursor then passes the blocks between them, and no later sync without options
  reads them. The model does the same; `NothingIsSkipped` and its theorem speak of the
  blocks from `base`, where the series of ranges that the cursor ends began. Funding is
  classified by the first transfer in the window, not of the agent.
* `/scan` with rule ids that the registry does not know, or with an empty list,
  answers success without having looked at anything (`engine.ts:74`).
* Cards: the comment `deriveIdentitySignals.ts:26` has "more than
  config.churnThreshold", the code `>=`. The row of a card that returns keeps its
  first time, so that changes back and forth are undercounted: the upper half of
  `ChurnIsReal` is about cards that are new. A newer event of an agent makes it
  newborn again.
* The comment `gcpKmsSigner.ts:207-208` says that both recovery ids are checked;
  the code returns 28 if and only if s was turned, see `ApiRoutes`.
* `getReceipt` and `getDispute` return null for any error of the node, and the
  API answers 404.
* `resilience/src/index.ts:292` lets all callers through while half-open, where
  the comment above it says limited requests.

## 6. Not modelled, and the plan

Next, in this order:

1. An abstract circuit breaker, and an abstract table of events that
   `IdentityPoller` implements when reorganisations are no deeper than the
   confirmations, with the refinements proved as the others are.
2. `ScanWorker` and `ApiRoutes` with nonces, which two processes with one key
   share, and with the retries of `ResilientIrsbClient` once an application uses
   it: none does now, and it would submit again after a timeout.
3. The filters and limits of evidence queries, which select from what `Query`
   returns.

Left out for good: metrics, logging, configuration loading, argument parsing
and output of the tools, infrastructure; encodings, hashes and signatures as
such; what a card or a manifest says beyond being valid; the chain provider and
the tool in `apps/cli`, which read the chain and print; the delegation-payment
rule, which no application registers; the migrations of `db.ts`, whose inline
statements are idempotent; transfers of tokens in the context signals, which the
default configuration does not ask for.
