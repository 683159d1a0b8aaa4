# Formal models of the Codex trading engine

TLA+ models of the parts of the Codex trading engine that keep state, meet
failures or run concurrently, the TLC runs that check them, and the TLAPS
proofs of the properties that matter most.

Every definition that stands for code is listed in `PROJECT.json` under `map`
with the file and lines it stands for.

## 1. Inventory

The repository is a research engine that never moves capital. It has two kinds
of code: programs that run long, share files or talk to services, and many
deterministic builders and validators of JSON documents. The second kind is
modelled where documents outlive the check that approved them: a review that
expires, a hash that is refreshed, a result that is fed back as a state.

| Component | State it keeps | Operations | Interaction |
|---|---|---|---|
| Whale watcher (`omega_telemetry/whale_watcher.py`) | cursor and events in SQLite | poll, catch-up, native scan, token scans, save | awaits the RPC node and the price service; calls the dispatcher |
| Telemetry alert dispatcher (`omega_telemetry/alert_module.py`) | `alert_log`, an asyncio lock | dispatch: age, cooldown, budget, send, record | called by all watchers of the process; posts to Telegram and Discord |
| Sentiment tracker (`omega_telemetry/sentiment_tracker.py`) | seen items and events in SQLite, feed cursors | poll, process item, emit spikes | awaits feeds; calls the dispatcher |
| Context runner (`omega_telemetry/context_runner.py`) | worker tasks, health file | start, heartbeat, stop | supervises watcher, tracker, observer |
| Eve Q alert dispatcher (`eve_q/alert_dispatcher.py`) | in-memory deduplication window | send, retry with backoff | posts to three channels |
| Receipt lane (`eve_q/immutable_receipts.py`, `receipt_ledger_audit.py`, `receipt_merkle_*.py`, `capital_action_gate.py`, `ipfs_adapters.py`) | IPFS pins, the JSON-lines ledger | seal, audit, anchor, certify | separate processes that share the ledger file |
| Deployment gates (`eve_q/deployment_gates.py`) | tier and history in a JSON file | evaluate, record | separate processes that share the file and its `.tmp` name |
| Sepolia soak campaign (`eve_q/sepolia_soak_campaign.py`) | capture directories, summary | capture, persist, roll back, replay | wraps a capture adapter; reads kill switch and clock |
| Cross-repository ingestor (`eve_q/cross_repo_ingestor.py`) | target directory | validate, write, ask governance, unlink | governance service over HTTP |
| Fail-safe receipts (`eveq_failsafe_receipt.py`, `shadow_cycle_runner.py`) | trust state and its file | validate, increment, save, load | called once per shadow cycle |
| Gate 1 read-only runtime (`eve_q/gate1_readonly_runtime.py`) | the output directory | capture: resolve, pin, request, redirect, commit; replay | separate processes that may share an output directory; hostile DNS and servers |
| Gate 1 bounded soak (`gate1_source_review.py`, `gate1_soak_scaffold.py`, `gate1_soak_runner.py`) | review, plan, capture directories, rollback payload, summary | review, plan, run, rewrite the summary | documents edited by hand in between; an injected capture adapter; kill switch |
| Gate 1 capture launchers (`scripts/run_gate1_read_only_capture_v0_*.sh`, `gate1_hardening.py`, `live_read_only_telemetry.py`) | a run directory | preflight, capture, replay, verify, roll back: one process each | the resolver answers each step anew; launches may share a directory |
| Gate 1 failure campaign (`gate1_failure_campaign.py`) | counts per case | shuffle, run a case, summarize | drives the checks of the documents above |
| Gate 1 evidence reviews (`gate1_source_consensus.py`, `gate1a1_second_source_review.py`, `gate1a1_charity_target.py`, `gate1a1_evidence_convergence.py`) | packets, candidates, contracts, decision files | stamp, evaluate, review, draft, converge | operators edit documents and choose evaluation times |
| Gate descent and closure (`gate_descent.py`, `gate1_closure.py`) | proposal, threat model, closure packet | draft, edit, verify | the two documents change independently |
| Benchmark corpus (`gate1a1_benchmark_corpus.py`) | results per case | exact search, compare, conclude | samplers' runs are its input |
| ViV gauntlets (`viv_adversarial.py`, `viv_market_adversarial.py`, `gate1a1_viv_gauntlet.py`) | results per case | validate, mutate, conclude | attacks validators of other components |
| TTL policy and lattice (`ttl_policy.py`, `ttl_lattice.py`) | none of their own: the caller's mode or state, TTLs and clocks | evaluate | results are fed back; humans renew |
| Scroll protocol (`scroll_protocol.py`) | the registry of definitions | register, validate, deprecate, propose, compose, list | proposals and listings outlive changes of the registry |
| Hecate input gate (`hecate_input_gate.py`) | none of its own: the daemon's buffer, field and known payloads | evaluate an envelope in a context | contexts are snapshots |
| Strategy packet uplift (`strategy_packet_uplift.py`, with `hybrid_benchmark.py`, `flash_liquidity.py`, `delta_robustness.py`) | baseline, judged hints, receipt | consume, run, evaluate, write | hints come from a remote board of models |
| Merkle proofs (`eve_q/merkle_proofs.py`) | none | root, tree, proof, verify | used by the anchor |

The rest (delta research, the Rust verifier, the front door and the scripts) is
listed in `PROJECT.json` under `components` with the reason it is not modelled.

### What is hard here

* **Check-then-act on shared files.** The ledger, the graduation file and the
  ingestor's target directory are read, decided on, and then written by
  processes that know nothing of each other.
* **Awaits between a check and its record.** The dispatcher's lock exists only
  for this; the Eve Q dispatcher has none.
* **Lost answers.** A Telegram post, a Discord post or an IPFS pin may succeed
  and look like a failure.
* **Crashes** between an effect and its record: pin and ledger line, event and
  cursor, temporary file and rename.
* **Stale input**: audit packets, decisions, prices and RPC heights are used
  after the state they describe has moved.
* **Boundaries**: the catch-up bound, `ts > cutoff` windows, sequence numbers,
  expiry times, tolerances.
* **Documents edited between checks.** A review, a plan, a proposal or a
  contract is built by one command, edited by hand, and read by the next; its
  hash can be refreshed by whoever edits it.
* **Results fed back as inputs**: a reviewed candidate, a degraded mode, a held
  envelope are evaluated again, at times that callers choose.

`PROJECT.json` lists each one under `hazards` with its line and the properties
that would catch it.

### What makes each part correct

| Component | Correct when |
|---|---|
| Whale watcher | no transfer is lost without a recorded reason, the cursor never moves back, one transfer is not saved twice within the cooldown, the watcher catches up again without passing data it did not get (the last part fails, finding 5) |
| Telemetry dispatcher | cooldown and budget hold for what was delivered, no delivery is claimed that did not happen, a duplicate message goes back to an unrecorded delivery, calls return |
| Eve Q dispatcher | one admission per key and window, reports match the posts, acknowledged messages are never sent again |
| Receipt lane | entries name pinned objects, a valid audit commits to the whole ledger, certificates are for ledger receipts, anchors cover an auditable prefix |
| Deployment gates | each tier follows from the history it is stored with, serial calls are durable |
| Sepolia campaign | PASS only for a complete intact corpus, nothing is accepted after a failure, the kill switch stops it |
| Ingestor | every copy was approved or is a named fault's leftover, unsafe receipts are never stored |
| Read-only runtime | only global addresses of allowlisted hosts are contacted, redirects end, the bundle is committed once and whole |
| Bounded soak | an ok summary means an eligible review, the plan made from it, whole captures and no rollback; payloads are claimed when they exist |
| Capture launchers | a pass connected to an address its receipt records; at most one launch of each script passes in a directory, and the bundle there stays the one it captured (which fails when launches of both scripts share it, finding 6) |
| Failure campaign | whatever the shuffle and the cut, all nine cases run and are answered |
| Evidence reviews | accepted exactly when every source is usable and every two agree; lapsed reviews stay lapsed; READY is earned by the evidence and the contract it was copied from |
| Closure | a pass pins one threat model, before its expiry |
| Corpus and gauntlets | no case left out of a verdict; a mutation escapes only inside the tolerance of the validator that reads it |
| TTL policy and lattice | evaluations never raise authority |
| Scrolls | what is listed for a chain can be proposed on it |
| Hecate gate | what was stale or condemned once is never let in |
| Uplift | a positive receipt is earned by one whole hint, and its packet had not expired |

## 2. Plan

Modules are written so that they can be proved about: bounds are constants with
named assumptions, each operation is one action, invariants are conjunctions of
named parts, and no module has a RECURSIVE operator.

Done, in this order: `WhaleWatcher`, `AlertDispatch`, `ReceiptLedger`,
`GraduationStore`, `AlertRetry`, `CrossRepoIngest`, `SoakCampaign` with
`BoundedRun`, `ReadOnlyCapture` with `CommitOnce`; then the pilot of Gate 1
(`Gate1Documents`, `BoundedSoak`, `CaptureLaunch`, `FailureCampaign`), its
evidence (`SourceConsensus`, `SecondSource`, `BenchmarkCorpus`, `VivArtifacts`,
`VivGauntlet`, `EvidenceConvergence`, `GateClosure`), and the programs about
authority, signals and strategies (`TtlPolicy`, `TtlLattice`, `ScrollProtocol`,
`HecateGate`, `PlanningUplift`).

Next:

1. `SentimentTracker` and `ContextRunner`: feed polling, item deduplication,
   spike events; supervision, cancellation and the price cache.
2. `FailsafeTrust`: receipts, trust increments and decay, the state file.
3. Merkle trees as recursive functions against a reference definition; the
   charity router.

## 3. The modules

Each component has a module; the small ones are composed by `DirectoryWriters`,
`RacingCallers` or `EveQPrograms`. What is checked and proved on its own, a
component or a composition, has a module `MC...` with the values TLC uses and a
module `...Proofs`. Where a program awaits, reads a
file or can die between two statements, the model has two actions; code between
two such points is one action. Faults that may strike again and again share a
counter `faults`.

| Module | Stands for | State | Actions |
|---|---|---|---|
| `WhaleWatcher` | `whale_watcher.py`, the event and state tables of `db.py` | `cursor`, saved events, what was scanned or skipped and why, the poll in flight, `head` | one per await that returns (`AnswerHead`, `AnswerBlock`, `PriceNative`, `PriceToken`, `AnswerLogs`), `CallFails`, `SetCursor`, `Wake`, `Crash`, `Restart`; environment `Mine`, `Tick` |
| `AlertDispatch` | `alert_module.py`, `alert_log` of `db.py` | `alertLog`, `queue` and `holder` of the lock, per task `pc`, `job`, `results`; history `received` | `Call`, `Enter` (suppress or start), `SendEnds`, `LogResult`, `Cancel`, `Crash`, `Tick` |
| `AlertRetry` | `eve_q/alert_dispatcher.py` | `dedupe`, per task channel, attempt, backoff; history of the posts per channel | `SendDuplicate`, `SendAdmitted`, `PostEnds`, `Wake`, `Cancel`, `Crash`, `Tick` |
| `ReceiptLedger` | the receipt lane | `pinned`, `ledger`, `torn`, per sealer `pc` and `draft`; the operator's `packet`, `cert`, `merkle`, `anchors` | `Begin`, `Pin`, `Verify`, `ReadLength`, `AppendEntry`, `Fail`, `Unreadable`, `DieAppending`; `Audit`, `MerkleLeaves`, `MerkleAnchor`, `Certify` |
| `GraduationStore` | evaluator and state store of `deployment_gates.py` | the state file, the temporary file that all recorders share, what each recorder holds | `Decide`, `OpenTemp`, `WriteTemp`, `Replace`, `ReplaceFails`, `Leave`, `Die` |
| `CrossRepoIngest` | `cross_repo_ingestor.py` | `target`, `pending`, `querying`, `outcome`; histories `approved`, `refused`, `leftovers` | `StartBatch`, `Reject`, `Ingest`, `WriteFails`, `Approve`, `Deny`, `UnlinkFails`, `AnswerNotAnObject`, `Crash` |
| `SoakCampaign` | `sepolia_soak_campaign.py` | environment, `index`, `bundle`, `accepted`, `rollback`, `replayed`, `summary` | `Start`, `Check`, `Request`, `AdapterReturns`, `Accept`, `Refuse`, `PersistFails`, `ReplayOne`, `ReplayRaises`, `WriteSummary`, `Crash`; environment `Switch`, `Expire`, `Tamper` |
| `ReadOnlyCapture` | the capture command of `gate1_readonly_runtime.py` | per process `url`, `visited`, `hops`, `pinned`, `payload`, `staging`; the shared `target`; history `requests` | `Begin`, `Visit`, `Request`, `Redirect`, `Receive`, `Stage`, `WriteFile`, `Replace`, their failing counterparts, `Die` |
| `BoundedRun` | the promise of a fixed-count run (abstract) | `accepted`, `verdict` | `Accept`, `Pass`, `Hold` |
| `CommitOnce` | the promise of an atomic bundle (abstract) | `owner`, `outcome` | `Commit`, `End` |
| `Gate1Documents` | the documents of the pilot with their builders and validators | none: operators over records | |
| `BoundedSoak` | scaffold and runner of the bounded soak | `review`, `plan`, per capture `dir`, `stored`, `taken`; `accepted`, `trigger`, `rollback`, `summary` | `BuildReview`, `EditReview`, `BuildPlan`, `EditPlan`; `Start`, `Refuse`; per capture `Preflight`, `AdapterReturns`, `Validate`, `Persist`, `Accept` and their failing counterparts; `RollBack`, `Summarize`, `Reread`, `Die`; environment `Switch` |
| `CaptureLaunch` | the two launcher scripts, either version per launch | per launch `version`, `at`, what it `captured` and saw; the shared `receipt`, `payload`, snapshot directory (`makers`) and the files in it (`bundle`); the resolver's answer `dns` | `Launch`, `Preflight`, `Contact`; of v0.1 `MakeDirectory` and `WriteFile` once per file; of v0.2 `Stage` and `Replace`; `Replay`, `Verify`, `WriteRollback`, failures; environment `Move` |
| `FailureCampaign` | the synthetic campaign | `cycles`, `block`, `counts`, `passes` | `Begin`, `Refused`, `RunCase`, `Summarize` |
| `SourceConsensus` | the source evaluator | `packet`, `evaluatedAt`, `decision`, `text` | `Revise`, `Stamp`, `Evaluate`, `Summarize`, `SummaryLost` |
| `SecondSource` | the second-source review | `candidate`; history `lapsed` | `ReviewTerms`, `AttachReview`, `AttachCapture`, `Evaluate` |
| `EvidenceConvergence` | charity contract and convergence receipt | `evidence`, `contract`, its receipt, `certificate` and its text | `Draft`, `Review`, `CopyCharity`, `Converge`, `WriteText` |
| `GateClosure` | descent proposal and closure packet | `threat`, `proposal`; history `verified` | edits (`PassCheck`, `Attach`, `Refresh`, `Revise`, ...) and `Verify` |
| `BenchmarkCorpus` | the fixed corpus | `next`, `results`, `overall` | `EvaluateCase`, `Abort`, `Conclude` |
| `VivArtifacts`, `VivGauntlet` | artifacts, validators and mutators; the harness | `target`, `done`, `gauntlet` | `ValidateBaseline`, `RunCase`, `Conclude` |
| `TtlPolicy` | the policy evaluator and its caller | `mode`, `minutes`, `result` | `Evaluate`, `HardStop`, `Refuse`; human `Renew` |
| `TtlLattice` | the lattice evaluator and its caller | `state`, `clocks`, `lastReceipt` | `Evaluate`, `Observe`, `Drop`; human `Restore` |
| `ScrollProtocol` | the registry | `scrolls`, `composite`, `proposed`, `listing` | `Register`, `Validate`, `Deprecate`, `Propose`, `ProposeVersion`, `Compose`, `ProposeComposite`, `ListByChain` |
| `HecateGate` | the gate and a daemon around it | `moment`, `known`, `context`, `inbox`, `buffer`, `field`; history `barred` | `Present`, `Admit`, `Buffer`, `Return`, `Remember`, `BuildContext`, `Tick` |
| `PlanningUplift` | the consumer of strategy packets | `strategy`, `base`, `judged`, `uplift` | `Consume`, `Raise`, `RunBaseline`, `EvaluateHint`, `Write` |
| `DirectoryWriters` | `ReadOnlyCapture`, `SoakCampaign` and `CrossRepoIngest` side by side | theirs (the campaign's `pc` is `runner`, the ingestor's `target` is `copies` and its `faults` `ingestFaults`), and `program` | theirs |
| `RacingCallers` | `CaptureLaunch`, `GraduationStore` and `AlertRetry` side by side | theirs, and which one runs | theirs |
| `EveQPrograms` | the programs of the pilot, its evidence and authority side by side | theirs, and `program` | theirs |

`DirectoryWriters`, `RacingCallers` and `EveQPrograms` compose programs that share
document checks and no state. A behaviour runs one of them, chosen at the start, so that a run
checks each program on its own and no product of their states is built.
`BoundedSoak`, `CaptureLaunch` and `FailureCampaign` share the operators of
`Gate1Documents`: the campaign drives the very checks that the soak and the
launchers rely on.

Abstractions worth knowing:

* A CID is the sequence of receipts it commits to, since an envelope contains
  the CID of its predecessor; hashes are collision-free.
* A transfer is an asset and a block; amounts appear as "whale or not" and
  "price usable or not".
* A receipt file of the ingestor is a record of the verdicts its validators
  reach; a capture's evidence is whether it validates and why not.
* A URL is what `strict_validate_url` looks at; an address is global or not.
  Addresses are numbers in their sorted order, because the first one is pinned.
* A document is the record of the fields its checks read. Its `artifact_id` is
  "sealed" or not, and a reference by hash holds the document itself, so that an
  edit with a refreshed hash is another document.
* Energies, objectives and the profits of routes are integers, for which the
  code's tolerances of 1e-12 are exact comparisons; a fraction is a number of
  parts. Where a tolerance decides, it is modelled: the validators that the ViV
  gauntlets attack compare with `Close` (`math.isclose`: relative tolerance
  `1 / RelParts`, absolute tolerance `1 / AbsParts`) and `Truncated` (`int()`),
  and times of the strategy packet are counted in parts of a second, which
  the comparison with `ttl_seconds` truncates.
* Launches of one script share a run directory when they start in the same
  second. The default `RUN_ROOT` and `RUN_ID` of the two scripts differ, so
  launches of both share one only when both are given in the environment.
* The snapshot directory of a launch is its files, each with the launch that
  wrote it and what it captured; a write that failed leaves a file without a
  body, and a file that is being written may be read in part.
* `post_persist_hook` of the Sepolia campaign, which only tests pass, is left out.
* A payload that the Hecate gate screens is the set of findings it leads to.
* The process may die at every step. Power loss, which could also undo writes
  that had returned, is not modelled.

Definitions named `X_Something` and commented "Mutated form" are wrong versions
of `X`. They are used by no specification: `PROJECT.json` pairs each with the
property that refutes it.

## 4. The runs

`tlc -config <cfg> <module>`; all numbers are distinct states.

| Run | Module, cfg | States | Shows |
|---|---|---|---|
| `whale_watcher` | `MCWhaleWatcher`, `WhaleWatcher.cfg` | 570 000 | safety and catching up through failing calls, a block the node never serves, crashes |
| `whale_missing_block` | `MCWhaleWatcher`, `WhaleWatcherMissing.cfg` | violation | finding 5 |
| `alert_dispatch` | `MCAlertDispatch`, `AlertDispatch.cfg` | 170 000 | cooldown, budget, honest history, calls return |
| `receipt_safety` | `MCReceiptLedger`, `ReceiptLedger.cfg` | 236 000 | pins, audits, certificates and anchors under two racing sealers |
| `receipt_anchor_head` | `MCReceiptLedger`, `ReceiptLedgerAnchor.cfg` | violation | finding 1 |
| `racing_callers` | `MCRacingCallers`, `RacingCallers.cfg` | 716 000 | launches of either script that share a directory under a changing resolver and write it file by file, recorders that share a file and die anywhere, senders that share a window: drift is caught, files are lawful, reports and copies are right |
| `capture_overwrite` | `MCRacingCallers`, `RacingCallersOverwrite.cfg` | violation | finding 6 |
| `directory_writers` | `MCDirectoryWriters`, `DirectoryWriters.cfg` | 686 000 | the capture contacts public addresses and implements `CommitOnce`; the campaign earns its PASS and its replay claim and implements `BoundedRun`; the ingestor leaves approved copies over two batches with faults |
| `capture_replay` | `MCDirectoryWriters`, `DirectoryWritersReplay.cfg` | violation | finding 4 |
| `campaign_hold` | `MCDirectoryWriters`, `DirectoryWritersHold.cfg` | violation | finding 3 |
| `ingest_fails_closed` | `MCDirectoryWriters`, `DirectoryWritersClosed.cfg` | violation | finding 2 |
| `eve_q_programs` | `MCEveQPrograms`, `EveQPrograms.cfg` | 342 000 | what the offline programs certify is earned by the documents they read, whatever is edited, lapses or fails in between; authority only falls; the soak implements `BoundedRun` |

### Bounds

* **Whale watcher**: five heights with `MaxBlocksPerPoll = 2`, so that the
  catch-up bound leaves blocks out and the poison block 2 falls before, in and
  behind the range; one token beside the native asset; three clock readings
  with `Cooldown = 1`, so that an event can be younger, exactly as old and
  older than it. One counted fault; failures at the poison block are free.
* **Alert dispatch**: two tasks and two keys (one key shows the cooldown, the
  second the budget); four clock readings with cooldown and age limit 2, so
  that both sides of each boundary occur, events from the future and too old
  ones included. Two calls suffice for every hazard here, since each is about
  one call's check and another's row; the cooldown, the budget and
  the honesty of the history are proved for any number.
* **Receipt ledger**: two sealers race, and three seals let a fork be appended
  to; one fault. The proofs cover any number.
* **Racing callers**: two launches, each of either script version, of one
  source with two bodies, one of which ends in a line feed, so that files of two
  captures can be told apart; every file is written in a step of its own. Three
  addresses of which one is not global, and two changes of the resolver's
  answer, so that it can change and change back. Two recorders, three calls,
  death at any step (it is not counted, since a recorder that dies stays dead);
  the approval tiers of `config/deployment_tiers.json`. Two senders, two keys,
  two channels, a window of two ticks, two retries, one fault. All of
  it is proved for any number.
* **Directory writers**. Ingestor: three files, five kinds of receipts of which
  two share a `cycle_id`, two batches, one fault; `FailsClosed` is checked
  without faults. Campaign: three captures (first, middle, last), two faults so
  that an altered bundle and a failed write meet, two changes of the
  environment. Capture: two processes; three sound URLs for `MaxRedirects = 2`, so
  that a chain can reach the limit without a loop, and one URL for each reason to
  refuse; a private address that sorts before the public one and one after.
  Its steps need no bound: each process runs once. The two processes are
  symmetric.
* **Eve Q programs**: for every document one good instance and instances that
  differ from it in one field each, since every check is a conjunction of such
  conditions; a bound of one or two edits, so that a document changes after the
  check that approved it. Times are 0 to 2 with expiries inside, so that before,
  at and after occur.
  Soak: two captures (a first and a last), five bundles of which one is good,
  two changes by the operator or the pilot. Campaign: up to ten cycles, so that
  the second block of the nine cases is cut off. Consensus: eleven observations
  in packets of two or three, of which the outer two of three may be further
  apart than the tolerance. Corpus: all sequences of up to two of nine cases,
  of two variables each. Gauntlets: receipts of two or three scenarios and
  bundles of two sources, valid ones and broken ones, exact ones and ones inside a
  tolerance, all residues of the seeds modulo 6; `One = 4`, `RelParts = 10` and
  `AbsParts = 100` make values of a few units large enough for the relative
  tolerance and quarters fine enough for the truncation. Policies: the shipped chain
  of four modes and three broken ones; lattices: three states and two clocks.
  Scrolls: two versions of one family, one of them with two chain lists, and a
  second family. Hecate: four envelopes of three payloads. Uplift: all packets of
  one or two of six hints over three routes, and five broken packets; half seconds
  (`PartsOfSecond = 2`), so that a packet can live a fraction longer than its ttl.

`CHECK_DEADLOCK FALSE` is set where the system may really stop: the bounded
number of calls, batches or seals is used up, or the run has ended.

### Fairness

Two runs check liveness, and only what the scheduling of the code gives:

* `WhaleWatcher!FairSpec`: weak fairness of the watcher's own next step (the
  event loop runs a ready task, and RPC calls and the price service have
  timeouts, so that every await ends; a process that died is started again) and
  of `Mine` (the chain grows). No
  fairness of successful answers at the poison block: the node may never serve
  it. Faults are bounded, so "once faults stop" is every behaviour's end.
* `AlertDispatch!FairSpec`: weak fairness per task of entering the free lock
  when first in line, of the end of a send (HTTP timeouts) and of logging.
  `asyncio.Lock` grants in order of arrival, and the model's `queue` is that
  order. Nothing forces a call, a cancellation or a crash.

## 5. The proofs

`tlapm <module>Proofs.tla` checks them. They hold for every value of the
constants that satisfies the named assumptions: bounds and periods are natural
numbers (positive where the configuration loader requires it), the marker values
are no members of the sets they mark, `Listing` holds all sources, and
addresses are numbers; the channels of an alert are distinct; ranks are
integers, and no policy ranks a mode below `artifact_only`; what evidence
bundles and charity contracts state uses the vocabularies the validators know.
The documents have the shapes their builders give them: observations, versions,
shifts and expiry times are integers, packets are finite, a route has at least
one shift, the receipts and bundles that a gauntlet attacks have the fields
their builders write, the derived seeds are natural numbers, the test source of the
failure campaign has the fields `_spec` gives it, and a benchmark case has
integer coefficients over at least one variable.

* **`WhaleWatcherProofs`**: `TypeCorrect`, `CursorNeverOutrunsScan`,
  `OnlyOldBlocksJumped`, `CursorOnlyAdvances`, `SpacingHolds`. `NoSilentLoss`
  is not inductive, because `SetCursor` extends the covered range by what the
  poll in flight has scanned: `InFlight` describes that range in terms of the
  poll's place, and each answer is shown to keep it.
* **`AlertDispatchProofs`**: `HistoryKeepsCooldown`, `BudgetIsKept`,
  `RecordedMeansReceived`, `NoRecordedDuplicate`. Between the check and the
  row lie several awaits. `Exclusive` (who is past the check holds the lock)
  and `Checked` (the rows the holder saw as old are still all rows of its key)
  carry the check across them. For the budget, `Room` says that the delivered
  keys of other calls within the rate window leave room for one while a call is
  past its check; the rest is counting. For the honesty of the history, calls
  are numbered in the order they reached the lock (`Line`), rows and messages
  lie in that order (`Told`), and a result that says delivered has its message
  (`Backed`): of two messages of a key within the cooldown, the first left no
  row that says delivered.
* **`ReceiptLedgerProofs`**: `LedgerNamesPins`, `CertificatesSound`,
  `ResultsRecorded`, `SerialUseValid`, `AnchorsSound`, `AuditWorth`. `SafeInv` says that what
  a sealer has verified stays pinned and that the operator's packet, however
  old, names entries of an append-only ledger. `SerialInv` says what a lone
  sealer knows about the ledger between its steps. The lemmas are about
  auditable sequences: their prefixes are auditable, and one entry with the
  right number and predecessor keeps them so. `ChainInv` says that a CID extends
  the one its envelope names; in a valid ledger the i-th CID therefore commits
  to i receipts and begins every later one, so that the last commits to all.
* **`DirectoryWritersProofs`**. A behaviour of the composition is one of each of
  its programs (`CaptureRuns`, `CampaignRuns`, `IngestorRuns`), so each invariant
  is kept by the steps of its own program.
  * Ingestor: `CopiesAreApproved`, `SuccessBacked`, `NothingUnsafeStored`.
    `CopiesApproved` says nothing during a batch; what every step keeps is
    `Accounted` (an unapproved copy belongs to the query in flight or to a fault)
    and `Placed` (each copy lies under its own `cycle_id`).
  * Campaign: `PassSound`, `ReplayClaimSound`, `FirstFailureStops`,
    `KillSwitchHeeded`, `CampaignKeepsPromise`. The verdict compares counts. Only
    accepted captures have complete directories (`Stored`), so what replays is a
    subset of what was accepted (`Reread`), and equal counts of a finite set and
    its subset mean equality. The last theorem is the refinement of `BoundedRun`.
  * Capture: `CaptureTypes`, `RequestsPublic`, `RequestsLimited`,
    `CommitsAtomically`. `Walk` ties the requests sent to the redirects counted and
    to the URLs remembered, so that a request adds a URL that is new. `Store` says
    that a target that exists is the whole bundle of a process that has committed;
    with it each step maps to a step of `CommitOnce` or to a stutter. `Effects`
    sums up all actions for that argument.
* **`RacingCallersProofs`**: `DecisionsLawful`, `SerialCallsDurable`,
  `AdmissionsKeepWindow`, `AcknowledgedNotResent`, `PassesOwnBundles`,
  `DriftNeverPasses`, `ReportsAreTrue`. A draft and a file are lawful by what they hold
  (`LadderLawful`), so it does not matter which recorder's rename comes last;
  without overlap the temporary file belongs to the one call (`LadderSerial`).
  The window's entry of a key is the age of its last admission
  (`RetryMarked`), which holds because the key is marked before the first
  await. A channel that answered has left the route (`RetryRoutes`). The posts of a
  channel end in its only answer, and a report names the channels with an answer
  and no others (`RetryInv`). A launch
  past its preflight sees the answer its receipt records until the answer moves
  (`LaunchSees`). A directory has at most one maker of each script, since v0.1
  makes it only when it is absent and v0.2 replaces it only while it is empty
  (`LaunchMakers`); as long as a maker is alone, each file there is its own or not
  yet written (`Undisturbed`, `Wrote`), and whoever is past its commit owns the
  bundle unless it is v0.2 beside a v0.1 maker (`LaunchOwns`).
* **`EveQProgramsProofs`**. Each invariant is one of a single program, and the
  steps of the others leave it alone.
  * Authority: `BarredForGood` (`HecateInv`: age only grows, so what bars an
    envelope does not pass with time), `LapsesAreFinal` (`SecondInv`: the
    candidate carries the time of its last evaluation and an evaluation never
    goes back behind it), `AuthorityNeverRises` (a set of lattice states has a
    lowest one because the natural numbers are well-founded), `ListingsServe`
    (the registry keeps the highest version of what it lists).
  * Pilot: `SummariesAreTrue` (`SoakInv` ties the pilot's place to the review,
    the plan and the directories of the captures so far),
    `SoakKeepsItsPromise` (with it each step maps to a step of `BoundedRun` or to
    a stutter), `CampaignsPass` (the nine cases are refused or accepted by the
    checks they attack whatever the order), `PassesPinned` (`ClosureInv`: a
    bundle that passed verifies as it was then).
  * Evidence: `ConsensusIsExact` (the spread of a set bounds every two of its
    members and is reached by two), `ReadyIsEarned` (`ConvergenceInv`: a bundle
    whose charity section says complete came from a receipt of a valid contract,
    which drafting another contract does not change), `GauntletEscapesAtTolerance` (`GauntletInv`: for
    each mutation of each sound artifact a clause of its validator refuses it, or
    the number it moved is within the tolerance of that clause; `CloseMeans` says
    what `math.isclose` leaves open for integers).
  * Strategies: `UpliftIsEarned` (`PlanningInv`: whoever is past the packet read
    one that may be consumed, the truncation of whose life leaves less than a
    second, and a positive receipt rests on the class of one judged hint), `VerdictsAreEarned`. The latter needs
    induction over data, since the verdict rests on a product of value lists, an
    exhaustive search and a sum. The library's induction theorems are out of
    reach, so `InductionUpTo` argues by the least counterexample, and
    `RecursionUpTo` shows with it that a function defined by recursion up to
    `n` exists. From there: the assignments are all vectors of zeros and ones
    (`AssignmentsInOrder`), energies are integers (`SumIsInteger`), the search
    returns a least one (`ExactIsOptimal`), a list has an element of every rank
    (`RankedHasRank`), an improvement has a lower median (`ImprovesIsFaster`), and no
    case is left out (`CorpusInv`).

Proved and not run, since TLC would only repeat on a few states what holds for
all: `CursorOnlyAdvances`, `NothingUnsafeStored`, `RequestsLimited`,
`KillSwitchHeeded`, and the type invariants.

Every safety invariant and action property of the passing runs is proved. Only
model-checked are the liveness properties `CatchesUp` and `CallsReturn`: they rest
on fairness and ENABLED, which are out of the prover's reach. The findings are
counterexamples, which TLC gives and no proof is needed for.

## 6. Findings

Each is a run whose single property states a sentence of the repository and is
violated by what the code does.

1. **The Merkle audit reads the ledger twice** (`receipt_anchor_head`).
   `build_receipt_merkle_audit` takes its leaves from one read and `valid` and
   `latest_cid` from the audit's own read. A sealer that appends in between
   gives a valid, anchored packet whose `latest_cid` is beyond its last leaf.
   What still holds, and is proved: the root covers an auditable prefix.
2. **An answer that is no object leaves an unapproved copy**
   (`ingest_fails_closed`). The copy is written before the gate is asked, and
   JSON such as `[]` raises an exception nobody catches.
3. **A capture that fails to persist ends the campaign without a summary**
   (`campaign_hold`). The corpus replay also reads the incomplete directory and
   raises, where the document promises HOLD. `main` prints the exception as HOLD,
   but what the campaign leaves is a rollback receipt without a summary.
4. **A text payload that ends in a line feed does not replay**
   (`capture_replay`). One line feed is added on writing and all are stripped
   on reading, so the bundle fails the hash of its own payload.
5. **The catch-up bound steps over a block that was never served**
   (`whale_missing_block`). Every poll asks for the block and fails, which holds
   the cursor, until the chain is `max_blocks_per_poll` further; then the range
   begins behind the block and the cursor is set past it, with a warning in the
   log and no record. `PERCEPTION_THREAT_MODEL.md:22` promises to "fail without
   advancing past missing data"; the test for it makes a single poll. The same
   step is what lets the watcher catch up (`CatchesUp`): the code cannot keep
   both promises. `NoSilentLoss` says what is left, that a cursor passes only
   what was scanned, priced out or jumped by this bound.
6. **An accepted capture is written over** (`capture_overwrite`). The v0.1
   launcher makes the snapshot directory and then writes three files; the
   `os.replace` of v0.2 takes the place of a directory that is still empty. When
   launches of both scripts are given one `RUN_ROOT` and `RUN_ID`, v0.2 can put
   its bundle there, replay and verify it and pass, and v0.1 then writes its own
   files over it, replays them and passes as well. The threat model says
   "Accepted captures remain immutable and deterministically replayable". What
   still holds, and is proved (`PassesOwnBundles`): at most one launch of each script
   passes, a bundle that v0.1 passed stays as it is, and so does one that v0.2
   passed where no v0.1 launch made the directory.

### Observations without a run

What a reader of the code may want to know. None of these is a plain
contradiction of what the repository says, or the model leaves the part out.

* Two overlapping calls of `record_decision` share the name of the temporary
  file, so one can rename the other's truncated file into place:
  `LawfulHistory` and `SerialDurable` say what remains true.
* Validators that the ViV gauntlets attack have tolerances a mutation can hide
  in: `math.isclose` keeps its default relative tolerance of 1e-9, so a survival
  rate of 0.9999999995 may be inflated to 1.0 and among deltas of 1e9 the worst
  may be exchanged for a better one; `int(observed_value)` takes -0.5 and 0.5 for
  the same value. `EscapesAtTolerance` says that nothing escapes otherwise.
* A strategy packet may live up to a second longer than its `ttl_seconds` says,
  because the comparison with the timestamps drops the fraction. It is never
  consumed at or after `expires_at`.
* A denied file of the ingestor with the `cycle_id` of an approved one overwrites
  the approved copy, and unlinking it then removes it: what remains is never
  unapproved, but the earlier approved copy is lost.
* `HECATE_INPUT_GATE_v0_1.md` (lines 37 and 67) speaks of a held signal as one
  that matures, while age alone can only make it stale, for good.
* A charity completion certificate needs a source receipt CID, but the CID is
  not looked up in the ledger.
* A sealing whose answer was lost and that is repeated appends a second entry.
* The Eve Q dispatcher marks the key when the send begins: an alert whose every
  attempt fails is suppressed for the rest of the window.
* A composite of scrolls may be proposed after its members were deprecated, and
  `validate` makes a deprecated scroll active again.
* Nothing holds an envelope in the buffer until `held_until`, and two contexts
  built before the daemon records a payload let it through twice.
* `decimal_scale` takes a factor that is zero or negative.
* `stale_evidence` is typed into the evidence bundle by hand, so that READY may
  outlive its sources.
* A TTL of zero is shortened to one minute.
* A hint that raises discards the receipt of all hints before it.

## 7. Not modelled

`PROJECT.json` lists every component with its reason. In short: numerical
research code (samplers, calibration, liquidity, repricing, the offline slurper)
works on floating-point or exact decimal data and keeps no state; the remaining
document builders and validators are pure functions of one document, whose
verdicts appear as inputs of the models that call them; command lines, the
loopback HTTP surface, exporters and release scripts print or wrap what other
components do; the Rust verifier is a subprocess; vendored code is not this
project's. The sentiment tracker, the context runner, the fail-safe receipts and
the charity router are within reach and left for later (section 2).
