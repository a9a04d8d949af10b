# Verification of InvoiceOps

TLA+ models of the invoice workflow in `src/invoiceops_agent`: the modules, the TLC runs that check
them on small instances, and the theorems TLAPS proves for every value of the constants. Source
paths below are relative to `src/invoiceops_agent`.

## 1. The system

InvoiceOps accepts invoice documents over HTTP, runs each through a LangGraph state machine and
either approves it automatically or opens an exception for a human. Everything durable is in one
Postgres database (application tables and LangGraph's checkpoints) and one object store.

| Component | State it keeps | Operations | What makes it correct |
|---|---|---|---|
| Ingest service (`api/services/ingest.py`, `api/routes/invoices.py`, `webhook.py`, `api/middleware.py`) | invoice and run rows, raw documents, an in-memory Idempotency-Key store | accept, reject a duplicate, replay a stored response, schedule the pipeline | one invoice and one live run per content hash; an accepted invoice is processed |
| Graph runner (`graph/runner.py`, `graph/checkpoint.py`) | the thread's checkpoint | `run_invoice` (start, resume, return), `submit_decision`, failure hand-off | resuming never skips a node; only a decision passes the human interrupt; no failure is lost |
| Nodes and routing (`graph/nodes/pipeline.py`, `graph/routing.py`, `graph/builder.py`) | the in-memory `GraphState`, rows of invoices, runs, exceptions | ten nodes, four conditional edges | each node finds what it needs; auto-approval only after every check; one ledger entry per node |
| Retries and dead-letter queue (`graph/retries.py`, `graph/dlq.py`, `graph/dlq_replay.py`) | `dlq_entries`, attempts | retry, `record_failure`, `replay` | a failed run is visible and replayable; an entry is replayed once (section 6 shows it need not be) |
| Decision service (`api/services/decisions.py`) | decisions, exception assignee and status | `decide`, `_resume_graph` | one resolution per exception; four eyes; a resolution moves the graph on |
| Ledger (`ledger/api.py`, `ledger/model_calls.py`) | the append-only audit trail, one row per model round trip | `append`, the observer | dense per-run sequence, written with the change it records |
| Engines (`tools/validation.py`, `matching.py`, `policy.py`, `confidence_gate.py`, `exception_taxonomy.py`) | none | one pure function each | together they approve exactly what is payable, also at their bounds |
| Near-duplicate detector (`tools/near_dup.py`) | `embeddings` | find similar, store the own vector | a resubmission is flagged, with real evidence |
| Agents and gateway client (`agents/`, `gateway_client/`) | attempts, token budget, cassettes | `complete`, `embed` with retries and a corrective reply | bounded requests, nothing built on an answer the audit has not been handed, never a guess |
| Read services (`api/services/queue.py`, `trace.py`, `dashboard.py`) | none | queue, trace, provenance, dashboard | what they show agrees with what happened |
| Synthetic ERP (`data/erp.py`) | seeded reference data | generate orders, receipts, vendors and clean invoices | a generated clean invoice passes every check |
| Auth, health, evaluation, logging, console | none that the workflow reads | | outside the models |

How they interact: an upload commits the rows and then schedules `run_invoice` as a background task
of the API process. Each node runs its own database transactions and returns a state update;
LangGraph merges it, picks the next node and writes the checkpoint in the background. An exception
pauses the thread after `exception_triage`. A decision request commits the decision and then calls
`submit_decision`, which patches the checkpoint and resumes. A failure leaves `ainvoke`, is recorded
in the DLQ and can be replayed by an operator's CLI process, which drives the same thread. The
engines are called by the nodes; the read services query the tables and the checkpoint.

What is hard here: the node's commit and the checkpoint that says it is done are two writes with a
crash window between them; several processes may drive one thread (background task, decision
request, replay CLI); nothing takes row locks before it decides; several hand-offs happen after the
commit that promised them (schedule after accept, resume after decision, DLQ record after failure);
retry loops are nested four deep, the innermost inside the openai SDK; and a verdict is spread over five engines, four routing functions
and a threshold that two of them compare. `PROJECT.json` lists these places as hazards with the
properties that watch them.

## 2. The modules

| Module | Models | Builds on |
|---|---|---|
| `Pipeline` | runner, nodes, routing, retries, DLQ, the ingest service's two row transactions | |
| `HumanDecision` | the decision service, composed with the pipeline; specification, invariants, fairness | `Pipeline` |
| `OperatorView` | queue, trace, provenance and dashboard, composed with the whole workflow | `HumanDecision` |
| `Ingest` | uploads and emails, the key store, the object store write, the background task, restarts | |
| `Intake` | what the intake promises, without calls, locks, caches or failures | implemented by `Ingest` |
| `Validation`, `ThreeWayMatch`, `PolicyEngine`, `ConfidenceGate`, `ExceptionTaxonomy` | the engines, as operators | each other |
| `Verdict` | one invoice through the deterministic nodes, with the data the engines compare | `PolicyEngine`, `ConfidenceGate` |
| `PaymentRule` | when an invoice is payable, without findings, codes or nodes | implemented by `Verdict` |
| `SyntheticErp` | the orders the generator can emit and their clean invoices, composed with the verdict | `Verdict` |
| `ModelCalls` | one stage that calls a model: node retries, agent, gateway client, cassettes, observer | |
| `LedgerWriter` | concurrent appends under READ COMMITTED and the unique constraint | |
| `AuditLog` | an append-only log that grows by whole transactions | implemented by `LedgerWriter` |
| `NearDuplicate` | concurrent near-duplicate checks with failures, retries and replays | |
| `*Proofs` | theorems about the module of that name | that module, `TLAPS` |
| `OneExecutorProofs` | theorems about the workflow when one executor drives it | `OperatorViewProofs` |
| `MC*` | symmetry, constraints and the cases of an instance for TLC | the module of that name |

The modules meet at these points. `Ingest` ends where `Pipeline` begins: its `RunPipeline` is the
call of `run_invoice` that `Pipeline`'s `Accept` leaves in `exec[w]` (`Called`), and that an invoice
has one live run, which `Pipeline` takes from the unique index, is what `Ingest` establishes for
racing uploads. What `Pipeline` chooses nondeterministically (has the validation an ERROR? is there
a mismatch?) `Verdict` computes, with every node succeeding once unless its input makes it fail every
time; `Pipeline` has the failures of the same nodes. Where `Pipeline` appends to `ledger[r]` in one step, `LedgerWriter` has the read, the
insert and the commit of several transactions. An infrastructure or business failure of `extract`,
`policy` or triage in `Pipeline` is what `ModelCalls` raises at its end; the embedding transaction
of `policy`, one step in `Pipeline`, is `NearDuplicate`'s subject.

### Workflow: `Pipeline`, `HumanDecision`, `OperatorView`

State.

* `invoices`, `runs`, `exceptions`, `dlq`, `decisions` are the tables, with the columns the workflow
  reads. A row's id is its index. `ledger[r]` is run `r`'s audit entries in `seq` order; an entry is
  the event name and, where a property reads it, its outcome. `readModel` and `embeddings` are the
  rows written by the first transactions of `match3way` and `policy`.
* `checkpoint[i]` is the latest LangGraph snapshot of thread `invoice-i`: the next node and the
  `GraphState`.
* `exec[w]` is one asyncio task or CLI process that drives a thread: a program counter, the node,
  the in-memory `GraphState`, the attempt counter, and `saved`, which says that no checkpoint write
  is outstanding. A crash resets it.
* `requests[q]` is one decision request between its reads and its writes.

Steps. One database transaction is one step. A node is one step per transaction it makes (`Backfill`
then `Match3way`, `Embed` then `Policy`; all others have one). `Advance` is LangGraph's merge of the
node's update and its choice of the next node. `Persist` is the background checkpoint write, so
nodes may run several steps ahead of their checkpoint; leaving `ainvoke` (`Return`, `Raise`) waits
for the outstanding write, as LangGraph's loop does on exit.

`RunInvoice` reads the snapshot and decides; `Resume` and `Start` are the `ainvoke` that follows and
loads the checkpoint again, so another executor can move the thread in between. `InfraFailure`
restarts the node (also a node whose first transaction is committed) until the attempts are used up;
the replay CLI builds its runner without a retry policy and has one. `RecordFailure` reads
`run_db_id` from the snapshot, not from the failed execution; without one the insert uses run 0 and
the foreign key of migration `c3d4e5f6a7b8` refuses it (`RecordFailureRefused`). `ReplayRead` and
`ReplayClaim` are the two halves of `replay`: there is no lock between them, and the update has no
condition.

A decision request is `DecideRead`, `DecideClaim` (its own commit, also when the approval is then
refused), `DecideResolve` or `DecideEscalate`, and `DecideResume`. Later steps use the row read
first, as the session does (`expire_on_commit=False`).

The read services change nothing, so `OperatorView` has no steps: `ListInvoices`, `RunTrace`,
`Provenance` and `DashboardSummary` are operators on the state. A run's trace is read in two parts
(the run and its ledger, later the thread of its invoice), which `EarlierStatuses` stands for. Its
`stages` are the response's `node_trace`: the thread's completed nodes as a set, which `NodeTrace`
reads off the results they left in the `GraphState`.

`Rerun` is one more call of `run_invoice`, with the contract its docstring gives it ("Start, resume,
or return"). In the repository only the upload's background task (`api/routes/invoices.py:50`) and
`replay` (`graph/dlq.py:121`) call it; `Rerun` is what an operator would do for a run that nobody
else moves. `ExceptionTriage` appends "exception.opened" and, if the agent gave a verdict,
"triage.completed" in one transaction (`LedgerAppendBoth`).

### Intake: `Ingest`, `Intake`

`invoices[i]` is the document of invoice `i`, `runs[r]` the run as inserted, `stored` the object
store: these survive a restart. `cache` is the idempotency store per channel and key, `calls[c]` one
HTTP call with its program counter, its answer and its scheduled task, and `runner` says whether the
graph runner was built: these are the process's. `handed` lists the invoices that `run_invoice` was
called for.

A call is `Replay`, or `Receive`, then `Insert` and `CommitRows`, `PutObject`, `Respond`; or after a
lost race `Conflict`, `RecordDuplicate`, `Respond`. `Insert` is the flush that takes the
`content_hash`: it waits while another open transaction has inserted the same one, as Postgres does,
and raises if a committed row has it (`Conflict`). `RunPipeline` is the background task. `Intake` has
three actions: accept a document, reject a copy, start the pipeline; its variables are mapped to the
runs table and to `handed`, both with documents in place of ids.

### Engines and verdict

`Validation` (the extraction's schema and the checks), `ThreeWayMatch`, `PolicyEngine`,
`ConfidenceGate` and `ExceptionTaxonomy` have one operator per check, with the source's names.
Numbers are exact integers: quantities in tenths, prices in cents, amounts in tenths of a cent, taxes
in thousandths of a cent, confidences in percent, scores and drift ratios as fractions. Names,
IBANs and currencies are records of what the code compares after normalising (`party`, `account`,
`iso`), how they were written, and what the structural check says of them. A dictionary built from
rows is the last row of each key (`LastRow`), which is what the code's comprehensions keep.

`Verdict` walks `case` (an answer of the model, an ERP, near-duplicate hits) through `Extract`,
`Validate`, `Match3wayNode`, `Policy`, `Gate` and then `AutoApprove` or `ExceptionTriage`, along the
routing functions. `LoadPoRaises` is `_load_po_triple` for an order with several goods receipts:
`scalar_one_or_none` raises before the node writes anything. `PaymentRule` says in one formula, `Payable`, when the result may be AUTO: every
field given, everything adds up, every line covered by order and receipt, within the limits, and
least confidence and largest drift within 0.15 together. `SyntheticErp` adds the generator's orders,
every random draw a choice, and `CleanInvoiceFor`.

### Model calls

`ModelCalls` is one stage, `extract`, `triage` or `policy`. `setup` says how the client was built
(cassette mode, store, scenario, telemetry hook), whether the call is made inside a stage and what
guardrails or budget say of the content; all of it stays the same at a retry. `pc` follows the code
through four nested loops: `WithRetries` (node attempts), `Parse` (one corrective reply), `Backoff`
(transport) and `SdkRetry`, the openai SDK's own: `AsyncOpenAI` is built without `max_retries`
(`gateway_client/client.py:95`), so one `create()`, of a completion or an embedding, sends a request
that meets no connection, a 408, 409, 429 or a 5xx up to `SdkRetries` times again. The SDK is
external; its default is 2. An answer may come without content or without a choice: it is counted as
an answer, raises, and never reaches the observer. Each `Raise` names the exception type, and
`Classify` is what the node boundary makes of it. Counters record requests, answers, observed rows
and ledger entries.

### Ledger

`LedgerWriter` has the committed `table`, each writer's uncommitted rows `own`, and the steps of
`append`: `NextSeq` reads `max(seq)`, `Insert` waits for whoever holds the number uncommitted
(`WaitsFor`), `Conflict` is the violation of `uq_ledger_run_seq`. `Fail` is any other error before
the commit, `CommitUnacknowledged` a commit whose answer is lost. A writer with one attempt is a
request, one with several a node under `with_retries`. `AuditLog` has one action: append one
transaction's entries to one run's log.

### Near duplicates

In `NearDuplicate` a text and its vector are a similarity per pair, chosen initially. Each invoice's
`policy` node is `Begin`, `FindSimilar`, `StoreAndCommit`, `Report`; `Fail` may hit after any of
them, and `Replay` starts a failed one again. `BestOf` is the ordered, limited query; the order of
equals is the database's. `before` remembers what was committed when a check began.

### Abstractions

* In `Pipeline` what validation, matching, policy and the gate compute is a nondeterministic choice
  of what routing reads from it; `Verdict` computes it.
* A failing triage agent only drops the recommendation and the entry "triage.completed"; no later
  step reads either. A verdict that is an abstention has the entry too.
* The `reject` node is not modelled: the ingest node always returns `duplicate=False`.
* Requests that write nothing (unknown id, repeated decision, `ALREADY_DECIDED`) are not steps.
* Transactions that write the same run row serialise on its row lock, which is why each is one step.
  An attribute set to the value already loaded emits no UPDATE; the model writes it, which differs
  only if another request changed that column in between.
* `Accept` joins the row transaction, the object store write and the start of the background task. A
  crash in `call` stands for a task that never started. `Ingest` has them as separate steps.
* In `Ingest` a document stands for its SHA-256 and its object key; an invoice's id is its position
  in commit order; a run keeps the status it was inserted with, because what the pipeline does to it
  is `Pipeline`'s. Its ledger entry is written in the same transaction and left out. Calls that are
  refused before the key store is read are not steps.
* In the engines, free text of findings and evidence other than the approver's role is left out, and
  so is the rounding of the code's floats, of `amount_total` to the database's `NUMERIC(18, 4)` and
  of numbers with more decimals than the units above.
* In `ModelCalls` a commit either happens or raises; the lost acknowledgement is `LedgerWriter`'s.
* In `NearDuplicate` the database search is exact; the HNSW index of the migration may miss a
  neighbour.
* `ledger_entries` rows with `run_id` NULL belong to no run, have no sequence (all get 1) and are
  left out.
* External: LangGraph. The latest checkpoint is that of the last writer. `InterruptVisible` says
  whether a static `interrupt_after` shows up in `snapshot.tasks[*].interrupts`; as LangGraph raises
  it without an INTERRUPT write, `FALSE` is the likely answer, and then `run_invoice` on a paused
  thread resumes it (`past_the_human`). Every run uses `FALSE`, and the theorems hold for both values.

## 3. What the runs check

`tlc -config <cfg> <module>`; `PROJECT.json` lists each run with its properties. Every property of a
passing run has a mutant: a plausible bug in one mapped definition that makes TLC report that
property violated under the same configuration (the operators marked `Mutant` in the modules).

| Run | Instance | Properties |
|---|---|---|
| `recovery` | 1 executor, every kind of fault, 1 fault, 2 runs (a duplicate upload), 1 operator rerun, 1 decision request | `TypeOK`; `OneLiveRun`; `CheckpointBackedByLedger`: a checkpoint claims only committed work; `OnlyARerunPassesHuman`: nothing passes the human unless somebody calls `run_invoice` once more; `TraceShowsOneRun`: every stage a trace lists has its entry in the ledger of one run; `ProvenanceComplete`: exceptions and decisions have their entries |
| `concurrent` | 2 executors on one thread, failing nodes and checkpoint writes, 1 rerun | `SystemInv`; `NodesGetWhatTheyNeed`: no node meets a state it refuses; `AutoApprovalJustified`; `FailedRunIsReplayable` |
| `live` | 1 executor, 2 faults of nodes or rolled-back decisions, 2 runs, 1 request, fair | `NoForgottenRun`: unfinished runs have somebody or a visible row; `WorklistComplete`: every open exception is in the queue; `DashboardAgrees`; `RunningSettles`; `DecisionSettles` |
| `ingest` | 2 calls, 2 documents, 1 key per channel, 1 failure, 1 restart, fair | `IngestInv`; `OneRunPerDocument`; `AnswersTrue`: also the replayed ones; `PipelineFindsDocument`; `ImplementsIntake`; `CallsSettle`; `AcceptedUploadStarts` unless a restart or a boot without runner |
| `verdict` | generated orders; one clean invoice with every pair of edits at the engines' bounds, an order with several receipts | `TriageHasReason`; `PrimaryIsMostSevere`; `AuditRecomputes`: the verdict follows from the ledger alone; `CleanPassesEveryCheck`; `ImplementsPaymentRule` |
| `model_calls` | 2 node attempts, 2 transport retries, 2 SDK retries, every setup, fair | `BoundedRequests`; `AuditPerAnswer`: at most one answer of an attempt escapes the observer, and nothing is built on it; `OneEntryPerExtraction`; `BusinessIsFinal`; `Settles` |
| `ledger` | 3 transactions of one run (one of two entries, one without retry), 1 of another run, fair | `NoGaps`; `NobodyWaitsInACircle`; `DoneIsOnRecord`; `WritersSettle`; `ImplementsAuditLog` |
| `near_duplicate` | 3 invoices, similarities 90, 91, 95 around the threshold 90, `TOP_K` 1, 2 attempts, 3 failures | `EvidenceIsReal`: never itself, nor below the threshold, nor uncommitted; `BestEvidenceIsKept` |
| `auto_approve_twice` | 1 failing checkpoint write | `AutoApproveOnce` is violated |
| `dropped_failure` | 1 failing node | `FailureLandsInDLQ` is violated |
| `conflicting_decisions` | 3 requests of 2 users | `OneResolution` is violated |
| `past_the_human` | 2 executors, 1 failing node, no rerun | `ArchivedOnlyAfterDecision` is violated |

`CHECK_DEADLOCK FALSE` is set everywhere because every instance comes to an end: all uploads made,
all runs at rest, all transactions over. That this end is reached and is the right one is what the
liveness properties say.

Fairness:

* `HumanDecision.Fairness`: weak fairness of each worker's non-failing steps and of each request's
  steps after its read. asyncio runs a ready task, Postgres answers, and a handler that has started
  runs to its end. Uploads, decisions, replays and failures are not fair: they may never come.
* `IngestFairSpec`: weak fairness of each call after it was received, and of its background task.
* `LedgerFairSpec`: weak fairness of each transaction's next step. A writer that waits for another's
  uncommitted number is not enabled, so progress depends on the other ending.
* `ModelCalls`: weak fairness of the stage. Every call it makes has a timeout, so it answers or raises.

`OnlyARerunPassesHuman`, `WorklistComplete`, `DashboardAgrees` and `NoForgottenRun` are checked with
one executor: with two on one thread, or two operators on one DLQ entry, the code does not keep them
(section 6). `live` has no crashes and no failing checkpoint writes: after these a run stays where it
is until an operator acts.

What the properties do not say, although they stand near it: `FailedRunIsReplayable` allows a second
replay to set a finished run back to RUNNING; `NoGaps`, `DoneIsOnRecord` and `ImplementsAuditLog`
allow a batch that is appended twice after a lost acknowledgement; `AnswersTrue` allows two answers
for one key; `PipelineFindsDocument` allows a document that is never stored. The code does each of
these.

## 4. What is proved

TLAPS proves each theorem for every value of the constants, from the assumptions that the modules
name. TLC evaluates the same assumptions in the runs. A theorem that needs more says so in its own
hypotheses.

| Module | Theorems | Assumptions |
|---|---|---|
| `HumanDecisionProofs` | `SystemInvariant`, `TypeCorrect`, `OneRunPerInvoice`, `CheckpointSound`, `NodesReady`, `AutoApprovalSound`, `FailedIsReplayable` | `PipelineAssumption`, `DecisionAssumption` |
| `OperatorViewProofs` | `ViewInvariant`, `ProvenanceIsComplete`, `TraceOfOneRun` | the same |
| `OneExecutorProofs` | `ArchivedAfterDecision` (`OnlyARerunPassesHuman`) | the same, and `OneExecutor(w)` |
| | `DeskInvariant`, `WorklistIsComplete`, `DashboardIsRight`, `AutoApprovesOnce` | the same, `OneExecutor(w)` and `CheckpointsKept` |
| | `NothingForgotten` | the same, `OneExecutor(w)`, `NothingLost` and `NoReruns`; of behaviours with `[]OneResolution` |
| `IngestProofs` | `IngestInvariant`, `CopiesCollapse`, `ResponsesTrue`, `DocumentBeforePipeline`, `IntakeImplemented` | `IngestAssumption` |
| `LedgerWriterProofs` | `LedgerInvariant`, `LedgerTyped`, `LedgerNoGaps`, `LedgerOneWriter`, `LedgerNoCircle`, `LedgerKeepsItsWord`, `LedgerIsALog` | `WriterAssumption` |
| `NearDuplicateProofs` | `NearDupInvariant`, `NearDupEvidence`, `NearDupBest`, `NearDupFlagged` | `NearDupAssumption` |
| `ModelCallsProofs` | `CallsInvariant`, `CallsBounded`, `CallsAudited`, `CallsEntered`, `CallsNeverGuess`, `CallsOffline`, `CallsFinal` | `BudgetAssumption`, `AbsentAssumption` |
| `VerdictProofs` | `PrimaryNeverHides`, `TriageAlwaysHasReason`, `AuditorCanRecompute`, `CleanIsNeverHeldBack`, `VerdictImplementsRule` | `NothingAssumption`, `NoResultAssumption`, `NoRouteAssumption`, `CasesAssumption`; the first needs none |

The arguments:

* **Workflow.** None of the safety properties is inductive: an approval is justified only because the
  state that routed there was backed by the ledger, which after a crash comes from a checkpoint.
  `SystemInv` therefore ties every `GraphState`, in memory (`ExecOK`) and checkpointed
  (`CheckpointOK`), to the ledger of the one live run of its invoice (`StateOK`, `Backed`) and to the
  node it stands before (`Ready`). `RowsOK` keeps references between rows alive. Most steps touch one
  executor or one checkpoint; the lemmas `RunsKept`, `LedgerKept` and `Glue` carry the rest, because
  ledgers only grow and a run keeps its invoice.
* **Views.** `ProvenanceComplete` compares the sizes of sets of rows with numbers of ledger entries.
  `StepRows` sorts the steps by what they add: nothing, an exception with its entry, a decision with
  its entry, or another entry. `ViewInv` adds that rows refer to each other consistently and that a run
  which was ever started is the live one of its invoice, so the thread `trace.py` reads is its own.
  `PassedInv` says of every `GraphState`, in memory or checkpointed, that each node that has left a
  result in it has its entry in the ledger of the run it works for, which is what the listed stages
  need. A rejected duplicate has no entry of a stage and no thread of its own: its trace is the other run's.
* **One executor.** Some properties hold only while nobody else drives the thread (the code takes no
  lock; section 6), so their theorems name the hypothesis: `OneExecutor(w)` is `Workers = {w}`.
  Invoices, requests, users, faults, crashes and reruns stay unbounded. `ReplayInv`: the entry read
  by the replay in progress is still PENDING when it is claimed. `HumanInv`: an executor in
  `human_review`, a checkpoint that lets one in and a request that is about to resume all have a
  recorded decision behind them. Nothing is assumed of the interrupts: as long as nobody calls
  `run_invoice` once more, no thread that waits for a decision has anybody to call it (`QuietIn`: no
  executor on it, no PENDING entry, no upload to come), so whether the runner would recognise the
  pause does not matter. Only a rerun needs the recognition, which is why the property exempts it
  when `InterruptVisible` is false.
* **Queue and dashboard.** What the operator sees depends on how often a thread is routed: a node
  that is repeated after its commit approves or opens an exception a second time. `CheckpointsKept`
  (no `persist` and no `crash` fault) excludes the repetition; nodes may still fail, be retried,
  replayed and called again, and any number of decisions may race. `DeskInv` says of each thread,
  in memory or checkpointed, that a route is followed only by `human_review`, `archive` and the end
  (`Placed`), and that the invoice's row, its approvals in the ledgers and its exceptions are those
  of its route (`OnDesk`). Only `auto_approve` and `exception_triage` route a thread
  (`StepRoutes`). The dashboard's sums follow from one-to-one maps between invoices, ledger entries
  and exceptions; `AutoApprovesOnce` is the document's claim that section 6 refutes for a lost
  checkpoint, proved where none is lost.
* **Forgotten runs.** `NoForgottenRun` speaks of three tables and of the executor, and holds because
  they change together. `StagesIn` lists for each status of a live run where its thread may be and
  what the executor may be doing for the invoice (`StageIn`); `QueueIn` says that a PENDING entry is
  its FAILED run's only one, so a claim never takes a run from somebody at work; `CasesIn` that a
  thread waits exactly while its exception is OPEN or the resolution's request is about to resume it.
  `TrackInv` joins these to `DeskInv`, `ReplayInv` and `ViewInv`. A step moves one run to its next
  stage (`Moved`) and leaves the other threads alone (`MovedStages`). The hypotheses are the `live`
  run's: `NothingLost` excludes crashes and failing checkpoint, dead-letter and resume writes,
  `NoReruns` an operator's `run_invoice` on a thread in any state, and `OneResolution` a second
  resolution of one exception, whose resume would meet a thread that has moved on. With any of them
  dropped, TLC finds a run that is forgotten.
* **Intake.** `IngestInv` says for every point of a call what is committed and what its transaction
  holds (`CallOK`). At most one open transaction has inserted a document, and none while it is
  committed; an invoice without a started pipeline has at most one call or task that will start it.
  From this each step maps to a step of `Intake` or to a stutter.
* **Ledger.** `LInv` says where the uncommitted rows are: directly behind the committed ones of their
  run, held by one transaction. A reader with an outdated maximum then finds its number taken, or
  waits for one transaction that itself waits for nobody. A commit appends that transaction's rows at
  the end, which is `AuditLog`'s one action.
* **Near duplicates.** `NInv` carries an obligation through the program counter: what was committed
  before a check began still is, and after the query its hits outweigh each of these (`Outweighs`).
* **Model calls.** `MInv` bounds the requests by the loop counters (`Spent`): what earlier attempts
  may have sent, one transport budget if the reply is the corrective one, the tries of the current
  loop, each worth `SdkRetries + 1` requests, and the SDK's own counter. `Seen` says that each
  attempt leaves at most one answer unobserved, its last.
  `Over` says that an error of a deterministic kind is seen only where no request can follow.
* **Verdict, codes.** Every engine names only reasons the taxonomy maps, so each has a place in
  `CODE_PRECEDENCE`, along which severities never increase.
* **Verdict, route.** `RouteInv` says that the state holds what the engines make of the case as far
  as the run is, and that the node tells which of them had nothing against it. That needs the
  confidence to be a number, hence a largest drift ratio and a least critical confidence. `AuditInv`
  says the same of the facts in the ledger.
* **Sums and largest ratios.** The folds over lines are recursive functions. Induction over the
  naturals comes from the well-foundedness of `<` (`WFMin`): a set of numbers that is not empty has
  a least element, so a set that holds 0 and with every number the next one has no least number
  outside it. With it `SumIsInt`, `SameSum` and `WorstOfLines` hold for any number of lines.
* **Clean invoices.** `GroundTruth` lists what the generator guarantees of an order. From it each
  check is shown silent; the sums of the answer are the sums of the order's lines by `SameSum`.
* **Payment rule.** `PayableIff` splits the rule along the engines: `ChecksIff`, `MatchIff`,
  `PolicyIff` and `SureIff`, each valid where the earlier ones hold, as the nodes run in that order.
  `SureIff` is the arithmetic one: 0.4 f + 0.4 (1 - r) + 0.2 >= 0.85 for the least f and the largest
  ratio r exactly when it holds for every field and line. `VerdictStep` maps `AutoApprove` and
  `ExceptionTriage` to `Judge` and every other node to a stutter.

The proof of `CleanIsNeverHeldBack` showed that `GroundTruth` was too weak: an order without lines or
with an unknown tax code, which the generator never emits, has no clean invoice.

Only model-checked: liveness (`RunningSettles`, `DecisionSettles`, `CallsSettle`,
`AcceptedUploadStarts`, `Settles`, `WritersSettle`), because fairness is out of the prover's reach.

## 5. Bounds

| Bound | Where | Why it is enough |
|---|---|---|
| one invoice | `Pipeline` runs | workers, checkpoints and rows of different invoices share no state; `SystemInv` is proved for any number |
| `RetryAttempts` 2 | `Pipeline` runs | one retry that succeeds, one that exhausts the attempts |
| `MaxFaults` | `Pipeline` and `Ingest` runs | 1 leaves every gap between two writes open once; 2 in `live` fail a replay of a failed run |
| `MaxRuns`, `MaxReruns` | `Pipeline` runs | a duplicate adds a second run of the invoice; a rerun drives a thread that is paused or finished |
| `MaxLedger` 9 (`MCShortLedger`) | `concurrent` | an auto-approved invoice makes 9 entries when each node runs once, so one executor reaches the end of the graph; states with 10 entries are checked but not followed, because two executors repeating each other's nodes would add without end |
| `MaxRestarts` 1 | `Ingest` runs | the key store, tasks and open transactions are lost once, with any call at any point |
| 2 calls | `ingest` | two that race, or one and another that sees what it left; the safety properties are proved for any number |
| 2 attempts, 2 and 2 retries | `model_calls` | the code has 3 attempts; the transport and SDK retries are the code's, so `BoundedRequests` is 36 requests for an extraction (the code's 3 attempts make it 54), 18 for triage and 6 for an embedding; one attempt that is repeated shows every carry-over, and the theorems are for any number |
| 2 entries, 2 attempts | `ledger` | a conflict between two appends of one transaction, and one after a rollback |
| `MaxFailures` 3 | `near_duplicate` | every attempt of one invoice fails and another invoice fails once |
| cases of `MCVerdict` | `verdict` | each comparison has a case below, at and above its bound, and every two such edits are combined, so every two engines disagree about some document; `PrimaryIsMostSevere` is proved for any |

## 6. Disagreements and limits

These statements of the repository do not hold of the code, each with a run that shows it:

* `auto_approve_twice`: `docs/ARCHITECTURE.md` calls approval and payment idempotent on `run_id`.
  `auto_approve` commits before its checkpoint is written and does not look for an earlier approval.
* `dropped_failure`: "nothing is ever dropped silently" (`graph/dlq.py`). A failure before the first
  checkpoint names run 0, which the foreign key of `dlq_entries` refuses.
* `conflicting_decisions`: "a DIFFERENT decision after resolution is a 409"
  (`api/services/decisions.py`). Two decisions that both read the exception as OPEN are both recorded.
* `past_the_human`: "Waiting on a HITL decision — only submit_decision() resumes."
  (`graph/runner.py:54`). Two operators that read one DLQ entry as PENDING both replay it. The first
  thread pauses; the second `run_invoice` meets it paused, and `_paused_for_human` looks for the
  interrupts of the snapshot's tasks, of which a static `interrupt_after` leaves none: the invoice is
  archived without a decision.

Other behaviour the models made visible, and that the properties are stated around:

* *Past the human, otherwise.* One more `run_invoice` on a waiting thread does the same with a single
  executor (`recovery` exempts it: `OnlyARerunPassesHuman`). With `InterruptVisible = TRUE` the second
  replay still passes the human if it reads the snapshot before the thread pauses and loads the
  checkpoint after.
* *Double replay.* The claim is "the idempotency guard against double-replay" (`graph/dlq.py:7`), but
  its read and its update are apart: each of two replays appends "dlq.replayed" and sets the run to
  RUNNING, also a run that has finished by then, and nothing changes it back.
* *Trace of a duplicate.* `/trace` is "the ordered node timeline" of the run
  (`api/schemas/trace.py:24`). A rejected duplicate shares its invoice's thread with the original run,
  and its trace lists the original's stages next to its own ledger entries.
* *Unobserved answers.* "The gateway hands every completed model round-trip to an observer"
  (`ledger/model_calls.py:3`): an answer without content raises before the observer is called.
* *Later boot.* "uploads still queue runs; a later boot picks them up" (`api/main.py:52`): no code looks
  for QUEUED or RUNNING runs.
* *Put fails after accept.* "store failure → retry ×3 w/ backoff, then DLQ"
  (`docs/ARCHITECTURE.md:103`): the document is put once, after the rows are committed. If that fails
  the run stays QUEUED, and a repeated upload is answered as a duplicate of an invoice whose document
  is not there.
* *Forgotten decision.* When the resume after a committed decision does not happen, a repeated request
  returns the stored decision and does not resume; the run needs an operator.
* *Decision between commit and checkpoint.* A decision after `exception_triage`'s commit and before its
  checkpoint resumes the thread before that node, which opens the exception and the invoice again.
* *Escalation.* Who escalates an exception is no longer its assignee and may approve it afterwards.
* *Key race.* Two requests with one Idempotency-Key that both miss the store both ingest. With the same
  document one is answered 201 and the other 200 with status REJECTED; with different documents both
  get 201. The later response stays in the store, so a repetition may replay either, always with 201.
* *Several receipts.* An order with more than one goods receipt makes `_load_po_triple` raise at every
  attempt and every replay: its invoices never get past the match.
* *Email webhook.* It accepts an invoice without scheduling the pipeline; the repository's README has
  one that arrives by email extracted next.
* *Near duplicates that overlap* do not see each other: neither is flagged.
* *Repeated line numbers.* Each invoice line is compared with the whole receipt of its number, so two
  lines may together bill more than was received.
* *Missing numbers.* A line without quantity or price skips the checks that need it, and an invoice
  without lines matches its order. What stops such an invoice is the confidence gate, if the model
  reports a low confidence for the field. Confidences above 1 are not clamped.
* *Invoice detail.* Its "chronological, last 10" ledger entries are ordered by `seq` across the runs of
  an invoice, so with two runs they need not be the latest.
* *Replay without a store.* `embed` in replay mode with no cassette store goes to the network;
  `ReplayStaysOffline` is stated for a configured store.
* *Comments.* `gate_config.py` speaks of HIGH and above, `route_after_policy` tests HIGH only (no
  policy rule has a higher severity); `near_dup.py` writes `>=`, its query is strict; `ledger/api.py`
  speaks of a retry on conflict, which only a node's `with_retries` gives; `client.py:274` says that a
  4xx is never retried, but the SDK has by then tried a 408, 409 or 429 three times.
* *Read model.* When validation opens the exception, the queue's row has nothing from the extraction:
  only `match3way` fills it in.

## 7. Not modelled

* Authentication, health checks, error mapping, logging: stateless.
* The evaluation harness and the web console: they read the API or files and keep no state the
  workflow depends on.
* The invoice detail page, and sorting, paging and ageing of the queue: presentation of rows whose
  contents the models have.
* Writing generated data to the database and importing scanned documents: offline.
* Prompts and `salient_text` formatting: what the model answers, and how similar two texts are, is a
  choice in the models.
* The `reject` node: unreachable, the ingest node always returns `duplicate=False`.
* Ledger rows without a run, and the approximation of the HNSW index.

## 8. What is left

* An abstract lifecycle of an invoice (accepted, waiting, approved or archived), implemented by the
  workflow with one executor.
* `LedgerWriter` inside `Pipeline`: appends of one run by a node and a decision request as separate
  reads, inserts and commits.
