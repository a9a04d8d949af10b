------------------------------ MODULE Pipeline ------------------------------
(***************************************************************************)
(* The invoice pipeline: the LangGraph state machine of graph/builder.py   *)
(* executed by GraphRunner (graph/runner.py) over the nodes of             *)
(* graph/nodes/pipeline.py, with per-node retries (graph/retries.py), the  *)
(* dead-letter queue (graph/dlq.py) and the audit ledger (ledger/api.py).  *)
(*                                                                         *)
(* Postgres rows are the variables invoices .. ledger; checkpoint is the   *)
(* LangGraph checkpointer's latest snapshot per thread.  A worker is one   *)
(* asyncio task or CLI process driving a thread: exec[w] is its program    *)
(* counter and its in-memory GraphState, which a crash loses.              *)
(*                                                                         *)
(* One database transaction is one step.  A node commits its rows first;   *)
(* the checkpoint that says the node is done is written later (Persist),   *)
(* while the following nodes are already running.                          *)
(***************************************************************************)
EXTENDS Integers, Sequences, FiniteSets

CONSTANTS
    Invoices,          \* invoice ids (one per distinct content hash)
    Workers,           \* tasks / processes that can drive a graph thread
    NoInvoice, NoUser, \* Python None
    RetryAttempts,     \* settings.graph_retry_attempts
    InterruptVisible,  \* does LangGraph report a static interrupt_after in
                       \* snapshot.tasks[*].interrupts? (external library)
    Faults,            \* the kinds of fault the environment may inject
    MaxFaults,         \* bound: how many faults in one behaviour
    MaxRuns,           \* bound: rows of the runs table
    MaxReruns          \* bound: run_invoice calls by an operator

FaultKinds == {"infra", "business", "persist", "dlq", "crash", "decide", "update"}

ASSUME PipelineAssumption ==
    /\ NoInvoice \notin Invoices
    /\ RetryAttempts \in Nat \ {0}
    /\ InterruptVisible \in BOOLEAN
    /\ Faults \subseteq FaultKinds
    /\ MaxFaults \in Nat /\ MaxRuns \in Nat /\ MaxReruns \in Nat

VARIABLES
    invoices,    \* invoices.status per invoice
    runs,        \* runs table, run_id = index: [inv, status, route]
    exceptions,  \* exceptions table: [inv, run, status, assignee]
    dlq,         \* dlq_entries table: [inv, run, status]
    ledger,      \* ledger[run_id]: the run's audit entries in seq order
    readModel,   \* invoices whose denormalised columns are backfilled
    embeddings,  \* invoices whose near-duplicate embedding is stored
    checkpoint,  \* per thread: [next, st] of the latest snapshot
    exec,        \* per worker: see Execs
    faults,      \* faults injected so far
    reruns       \* operator calls of run_invoice so far

tables == <<invoices, runs, exceptions, dlq, ledger, readModel, embeddings>>
bounds == <<faults, reruns>>
pipelineVars == <<tables, checkpoint, exec, bounds>>

-----------------------------------------------------------------------------
(* Domains *)

NoRun == 0       \* run_db_id is None
NoDecision == 0  \* human_decision is None

InvoiceStatus == {"ABSENT", "RECEIVED", "AUTO_APPROVED", "EXCEPTION",
                  "DECISION_APPROVED", "RETURNED_TO_VENDOR"}
RunStatus == {"QUEUED", "RUNNING", "AWAITING_DECISION", "FAILED",
              "COMPLETED", "REJECTED"}
Routes == {"none", "AUTO", "EXCEPTION", "REJECT"}

Nodes == {"ingest", "extract", "validate", "match3way", "policy", "gate",
          "auto_approve", "exception_triage", "human_review", "archive"}

\* Findings are reduced to what routing reads: an ERROR among the validation
\* checks, the match outcome, a HIGH policy finding, the gate's side of tau.
GraphState ==
    [run : Nat, extraction : BOOLEAN,
     validation : {"none", "ok", "ERROR"},
     match : {"none", "MATCH", "MISMATCH"},
     policy : {"none", "clear", "HIGH"},
     gate : {"none", "AUTO", "EXCEPTION"},
     route : {"none", "AUTO", "EXCEPTION"},
     decision : Nat]

EmptyState ==
    [run |-> NoRun, extraction |-> FALSE, validation |-> "none",
     match |-> "none", policy |-> "none", gate |-> "none",
     route |-> "none", decision |-> NoDecision]

\* "new": the thread has no checkpoint; "end": snapshot.next is empty.
Checkpoints == [next : Nodes \cup {"new", "end"}, st : GraphState]

\* call: run_invoice entered; fresh/resume: its snapshot is read, ainvoke is
\* next; node: a node is executing; second: the first of a node's two
\* transactions is committed; returning: ainvoke flushes its checkpoints;
\* raised: ainvoke raised, the DLQ record is next; claim: a replay has read
\* its PENDING entry and not yet committed the claim.  saved: no checkpoint
\* write of this worker is outstanding.
PCs == {"idle", "call", "fresh", "resume", "node", "second", "returning",
        "raised", "claim"}
Execs == [pc : PCs, inv : Invoices \cup {NoInvoice},
          node : Nodes \cup {"new", "end"}, st : GraphState,
          saved : BOOLEAN, attempt : Nat, limit : Nat, entry : Nat]

Idle == [pc |-> "idle", inv |-> NoInvoice, node |-> "new", st |-> EmptyState,
         saved |-> TRUE, attempt |-> 1, limit |-> 1, entry |-> 0]

\* Ledger entries: the event and, where a property reads it, its outcome.
EventNames ==
    {"ingest.accepted", "ingest.duplicate", "run.started", "extract.completed",
     "validate.completed", "match.completed", "policy.evaluated", "gate.decided",
     "invoice.auto_approved", "exception.opened", "triage.completed",
     "human_review.completed", "run.archived", "run.failed", "dlq.replayed", "decision.recorded"}
Outcomes == {"none", "ok", "ERROR", "MATCH", "MISMATCH", "clear", "HIGH", "AUTO",
             "EXCEPTION", "decided", "undecided"}
Event == EventNames \X Outcomes

Ev(e) == <<e, "none">>

\* The run's ledger has an entry equal to e.
Logged(r, e) == \E k \in 1..Len(ledger[r]) : ledger[r][k] = e

-----------------------------------------------------------------------------
(* Routing: graph/routing.py and the edges of graph/builder.py *)

route_after_validate(st) ==
    IF st.validation = "ERROR" THEN "exception_triage" ELSE "match3way"

\* Mutant: a mismatch is a finding like any other and goes on to policy.
RouteAfterMatchAlwaysPolicy(st) == "policy"

route_after_match(st) ==
    IF st.match = "MISMATCH" THEN "exception_triage" ELSE "policy"

route_after_policy(st) ==
    IF st.policy = "HIGH" THEN "exception_triage" ELSE "gate"

\* Mutant: only a missing confidence abstains.
RouteAfterGateOnAnyScore(st) ==
    IF st.gate = "none" THEN "exception_triage" ELSE "auto_approve"

route_after_gate(st) ==
    IF st.gate # "AUTO" THEN "exception_triage" ELSE "auto_approve"

\* The graph's edges out of a completed node (state.duplicate is always False
\* when the ingest node is left, so route_after_ingest never says "reject").
NextNode(node, st) ==
    CASE node = "ingest" -> "extract"
      [] node = "extract" -> "validate"
      [] node = "validate" -> route_after_validate(st)
      [] node = "match3way" -> route_after_match(st)
      [] node = "policy" -> route_after_policy(st)
      [] node = "gate" -> route_after_gate(st)
      [] node = "auto_approve" -> "archive"
      [] node = "exception_triage" -> "human_review"
      [] node = "human_review" -> "archive"
      [] OTHER -> "end"

\* Mutant: the graph is compiled without interrupt_after.
InterruptNowhere == {}

\* interrupt_after: the node after which ainvoke returns and waits for a human.
InterruptAfter == {"exception_triage"}

-----------------------------------------------------------------------------
(* Writing the ledger *)

\* LedgerWriter.append inside the caller's transaction.
LedgerAppend(r, e) == ledger' = [ledger EXCEPT ![r] = Append(@, e)]

\* Two entries in one transaction.
LedgerAppendBoth(r, e, f) == ledger' = [ledger EXCEPT ![r] = Append(Append(@, e), f)]

\* Mutant: the run row is created without its ledger entry.
CreateRunUnaudited(i, status, route, e) ==
    /\ runs' = Append(runs, [inv |-> i, status |-> status, route |-> route])
    /\ UNCHANGED ledger

\* A run row is created together with its first ledger entry.
CreateRun(i, status, route, e) ==
    /\ runs' = Append(runs, [inv |-> i, status |-> status, route |-> route])
    /\ ledger' = Append(ledger, <<e>>)

-----------------------------------------------------------------------------
(* Ingest: the API's write path, api/services/ingest.py *)

Called(i, limit) == [Idle EXCEPT !.pc = "call", !.inv = i, !.limit = limit]

\* A new document: invoice, QUEUED run and ledger entry in one transaction,
\* then the background task _run_pipeline.
Accept(w, i) ==
    /\ exec[w].pc = "idle"
    /\ invoices[i] = "ABSENT"
    /\ Len(runs) < MaxRuns
    /\ invoices' = [invoices EXCEPT ![i] = "RECEIVED"]
    /\ CreateRun(i, "QUEUED", "none", Ev("ingest.accepted"))
    /\ exec' = [exec EXCEPT ![w] = Called(i, RetryAttempts)]
    /\ UNCHANGED <<exceptions, dlq, readModel, embeddings, checkpoint, bounds>>

\* Mutant: a duplicate upload queues its run again.
DuplicateQueued(i) ==
    /\ invoices[i] # "ABSENT"
    /\ Len(runs) < MaxRuns
    /\ CreateRun(i, "QUEUED", "none", Ev("ingest.duplicate"))
    /\ UNCHANGED <<invoices, exceptions, dlq, readModel, embeddings,
                   checkpoint, exec, bounds>>

\* The same bytes again: a REJECTED run on the original invoice.
Duplicate(i) ==
    /\ invoices[i] # "ABSENT"
    /\ Len(runs) < MaxRuns
    /\ CreateRun(i, "REJECTED", "REJECT", Ev("ingest.duplicate"))
    /\ UNCHANGED <<invoices, exceptions, dlq, readModel, embeddings,
                   checkpoint, exec, bounds>>

-----------------------------------------------------------------------------
(* GraphRunner.run_invoice *)

\* _paused_for_human: the snapshot shows an interrupt.
Paused(c) == InterruptVisible /\ c.next = "human_review" /\ c.st.decision = NoDecision

\* Reads the thread's snapshot and decides: return, resume or start.
RunInvoice(w) ==
    LET c == checkpoint[exec[w].inv]
    IN  /\ exec[w].pc = "call"
        /\ \/ /\ c.next = "end" \/ Paused(c)
              /\ exec' = [exec EXCEPT ![w] = Idle]
           \/ /\ c.next \in Nodes /\ ~Paused(c)
              /\ exec' = [exec EXCEPT ![w].pc = "resume"]
           \/ /\ c.next = "new"
              /\ exec' = [exec EXCEPT ![w].pc = "fresh"]
        /\ UNCHANGED <<tables, checkpoint, bounds>>

\* ainvoke(None): LangGraph loads the latest checkpoint and goes on there.
Resume(w) ==
    LET c == checkpoint[exec[w].inv]
    IN  /\ exec[w].pc = "resume"
        /\ exec' = IF c.next \in Nodes
                   THEN [exec EXCEPT ![w].pc = "node", ![w].node = c.next,
                                     ![w].st = c.st, ![w].saved = TRUE]
                   ELSE [exec EXCEPT ![w] = Idle]
        /\ UNCHANGED <<tables, checkpoint, bounds>>

\* ainvoke(state): the input is merged into the thread and START is taken.
Start(w) ==
    /\ exec[w].pc = "fresh"
    /\ exec' = [exec EXCEPT ![w].pc = "node", ![w].node = "ingest",
                            ![w].st = checkpoint[exec[w].inv].st,
                            ![w].saved = FALSE]
    /\ UNCHANGED <<tables, checkpoint, bounds>>

\* Somebody calls run_invoice for an accepted invoice again (its contract is
\* "start, resume, or return").
Rerun(w, i) ==
    /\ exec[w].pc = "idle"
    /\ invoices[i] # "ABSENT"
    /\ reruns < MaxReruns
    /\ reruns' = reruns + 1
    /\ exec' = [exec EXCEPT ![w] = Called(i, RetryAttempts)]
    /\ UNCHANGED <<tables, checkpoint, faults>>

-----------------------------------------------------------------------------
(* Nodes: graph/nodes/pipeline.py *)

At(w, node) == exec[w].pc = "node" /\ exec[w].node = node

\* The node returned: LangGraph merges its update and moves to the next task,
\* or leaves ainvoke at END and at the human interrupt.
Advance(w, st) ==
    LET node == exec[w].node
        next == NextNode(node, st)
    IN  exec' = [exec EXCEPT
            ![w].st = st, ![w].node = next, ![w].attempt = 1, ![w].saved = FALSE,
            ![w].pc = IF next = "end" \/ node \in InterruptAfter
                      THEN "returning" ELSE "node"]

RunsWith(i, status) ==
    {r \in 1..Len(runs) : runs[r].inv = i /\ runs[r].status = status}

\* The run the ingest node picks: the latest QUEUED, else the latest RUNNING.
IngestRuns(i) ==
    LET candidates == IF RunsWith(i, "QUEUED") # {} THEN RunsWith(i, "QUEUED")
                      ELSE RunsWith(i, "RUNNING")
    IN  {r \in candidates : \A s \in candidates : s <= r}

Ingest(w) ==
    LET i == exec[w].inv
    IN  /\ At(w, "ingest")
        /\ \E r \in IngestRuns(i) :
              /\ runs' = [runs EXCEPT ![r].status = "RUNNING"]
              /\ LedgerAppend(r, Ev("run.started"))
              /\ Advance(w, [exec[w].st EXCEPT !.run = r])
        /\ UNCHANGED <<invoices, exceptions, dlq, readModel, embeddings,
                       checkpoint, bounds>>

\* Mutant: the node returns before its ledger entry is committed.
LogOnlyUnaudited(w, node, e, st) ==
    /\ At(w, node)
    /\ Advance(w, st)
    /\ UNCHANGED <<tables, checkpoint, bounds>>

\* A node whose only transaction is one ledger entry.
LogOnly(w, node, e, st) ==
    /\ At(w, node)
    /\ LedgerAppend(exec[w].st.run, e)
    /\ Advance(w, st)
    /\ UNCHANGED <<invoices, runs, exceptions, dlq, readModel, embeddings,
                   checkpoint, bounds>>

Extract(w) ==
    LogOnly(w, "extract", Ev("extract.completed"),
            [exec[w].st EXCEPT !.extraction = TRUE])

Validate(w) ==
    \E v \in {"ok", "ERROR"} :
        LogOnly(w, "validate", <<"validate.completed", v>>,
                [exec[w].st EXCEPT !.validation = v])

\* match3way's first transaction: the invoice's read-model columns.
Backfill(w) ==
    /\ At(w, "match3way")
    /\ readModel' = readModel \cup {exec[w].inv}
    /\ exec' = [exec EXCEPT ![w].pc = "second"]
    /\ UNCHANGED <<invoices, runs, exceptions, dlq, ledger, embeddings,
                   checkpoint, bounds>>

\* policy's first transaction: query the corpus, store the own embedding.
Embed(w) ==
    /\ At(w, "policy")
    /\ embeddings' = embeddings \cup {exec[w].inv}
    /\ exec' = [exec EXCEPT ![w].pc = "second"]
    /\ UNCHANGED <<invoices, runs, exceptions, dlq, ledger, readModel,
                   checkpoint, bounds>>

\* Mutant: the second transaction is not committed.
SecondLogUnaudited(w, node, e, st) ==
    /\ exec[w].pc = "second" /\ exec[w].node = node
    /\ Advance(w, st)
    /\ UNCHANGED <<tables, checkpoint, bounds>>

\* The second transaction of match3way and policy: the ledger entry.
SecondLog(w, node, e, st) ==
    /\ exec[w].pc = "second" /\ exec[w].node = node
    /\ LedgerAppend(exec[w].st.run, e)
    /\ Advance(w, st)
    /\ UNCHANGED <<invoices, runs, exceptions, dlq, readModel, embeddings,
                   checkpoint, bounds>>

Match3way(w) ==
    \E m \in {"MATCH", "MISMATCH"} :
        SecondLog(w, "match3way", <<"match.completed", m>>,
                  [exec[w].st EXCEPT !.match = m])

Policy(w) ==
    \E p \in {"clear", "HIGH"} :
        SecondLog(w, "policy", <<"policy.evaluated", p>>,
                  [exec[w].st EXCEPT !.policy = p])

Gate(w) ==
    \E g \in {"AUTO", "EXCEPTION"} :
        LogOnly(w, "gate", <<"gate.decided", g>>,
                [exec[w].st EXCEPT !.gate = g])

AutoApprove(w) ==
    LET r == exec[w].st.run
    IN  /\ At(w, "auto_approve")
        /\ invoices' = [invoices EXCEPT ![exec[w].inv] = "AUTO_APPROVED"]
        /\ runs' = [runs EXCEPT ![r].route = "AUTO"]
        /\ LedgerAppend(r, Ev("invoice.auto_approved"))
        /\ Advance(w, [exec[w].st EXCEPT !.route = "AUTO"])
        /\ UNCHANGED <<exceptions, dlq, readModel, embeddings, checkpoint, bounds>>

\* What exception_triage needs to open an exception (else it raises
\* "routing bug").
HasFindings(st) ==
    \/ st.validation = "ERROR" \/ st.match = "MISMATCH" \/ st.policy = "HIGH"
    \/ st.gate = "EXCEPTION"

\* The exception record, both status columns and the ledger entries in one
\* transaction.  The triage agent's verdict has an entry of its own; without
\* an agent, or when it fails, only its recommendation is dropped.
ExceptionTriage(w) ==
    LET i == exec[w].inv
        r == exec[w].st.run
    IN  /\ At(w, "exception_triage")
        /\ HasFindings(exec[w].st)
        /\ exceptions' = Append(exceptions, [inv |-> i, run |-> r,
                                status |-> "OPEN", assignee |-> NoUser])
        /\ invoices' = [invoices EXCEPT ![i] = "EXCEPTION"]
        /\ runs' = [runs EXCEPT ![r].route = "EXCEPTION",
                                ![r].status = "AWAITING_DECISION"]
        /\ \/ LedgerAppend(r, Ev("exception.opened"))
           \/ LedgerAppendBoth(r, Ev("exception.opened"), Ev("triage.completed"))
        /\ Advance(w, [exec[w].st EXCEPT !.route = "EXCEPTION"])
        /\ UNCHANGED <<dlq, readModel, embeddings, checkpoint, bounds>>

HumanReview(w) ==
    LogOnly(w, "human_review",
            <<"human_review.completed",
              IF exec[w].st.decision = NoDecision THEN "undecided" ELSE "decided">>,
            exec[w].st)

Archive(w) ==
    LET st == exec[w].st
    IN  /\ At(w, "archive")
        /\ runs' = [runs EXCEPT ![st.run].status = "COMPLETED",
                                ![st.run].route =
                                    IF st.route = "none" THEN @ ELSE st.route]
        /\ LedgerAppend(st.run, Ev("run.archived"))
        /\ Advance(w, st)
        /\ UNCHANGED <<invoices, exceptions, dlq, readModel, embeddings,
                       checkpoint, bounds>>

-----------------------------------------------------------------------------
(* Checkpoints: langgraph's checkpointer, durability "async" *)

Live(w) == [next |-> exec[w].node, st |-> exec[w].st]

\* Completes the worker's outstanding checkpoint write, if there is one.
Flush(w) ==
    checkpoint' = IF exec[w].saved THEN checkpoint
                  ELSE [checkpoint EXCEPT ![exec[w].inv] = Live(w)]

\* A background write of the latest completed step.
Persist(w) ==
    /\ exec[w].pc \in {"node", "second"}
    /\ ~exec[w].saved
    /\ Flush(w)
    /\ exec' = [exec EXCEPT ![w].saved = TRUE]
    /\ UNCHANGED <<tables, bounds>>

\* ainvoke returns only after the outstanding writes are done.
Return(w) ==
    /\ exec[w].pc = "returning"
    /\ Flush(w)
    /\ exec' = [exec EXCEPT ![w] = Idle]
    /\ UNCHANGED <<tables, bounds>>

-----------------------------------------------------------------------------
(* Failures: graph/retries.py, graph/errors.py, GraphRunner._execute *)

Fault(kind) ==
    /\ kind \in Faults /\ faults < MaxFaults
    /\ faults' = faults + 1

\* ainvoke raises; leaving it completes the outstanding checkpoint writes.
Raise(w) ==
    /\ Flush(w)
    /\ exec' = [exec EXCEPT ![w].pc = "raised"]

\* INFRA: the node is retried from its start until the attempts are used up.
InfraFailure(w) ==
    /\ exec[w].pc \in {"node", "second"}
    /\ Fault("infra")
    /\ IF exec[w].attempt < exec[w].limit
       THEN /\ exec' = [exec EXCEPT ![w].attempt = @ + 1, ![w].pc = "node"]
            /\ UNCHANGED checkpoint
       ELSE Raise(w)
    /\ UNCHANGED <<tables, reruns>>

\* BUSINESS: raised on the first attempt.
BusinessFailure(w) ==
    /\ exec[w].pc \in {"node", "second"}
    /\ Fault("business")
    /\ Raise(w)
    /\ UNCHANGED <<tables, reruns>>

\* The ingest node's ValueError "no queued/running run".
IngestNoRun(w) ==
    /\ At(w, "ingest")
    /\ IngestRuns(exec[w].inv) = {}
    /\ Raise(w)
    /\ UNCHANGED <<tables, bounds>>

\* A checkpoint write fails: the thread keeps its older checkpoint although
\* the node's transaction is committed.
PersistFailure(w) ==
    /\ exec[w].pc \in {"node", "second", "returning"}
    /\ ~exec[w].saved
    /\ Fault("persist")
    /\ exec' = [exec EXCEPT ![w].pc = "raised"]
    /\ UNCHANGED <<tables, checkpoint, reruns>>

\* The process dies; what it held in memory is gone.
Crash(w) ==
    /\ exec[w].pc # "idle"
    /\ Fault("crash")
    /\ exec' = [exec EXCEPT ![w] = Idle]
    /\ UNCHANGED <<tables, checkpoint, reruns>>

-----------------------------------------------------------------------------
(* The dead-letter queue: graph/dlq.py *)

\* run_db_id of the snapshot that _execute reads after the failure.
SnapshotRun(w) == checkpoint[exec[w].inv].st.run

\* Mutant: the run row keeps its status.
RecordFailureOfNoRun(w) ==
    LET r == SnapshotRun(w)
    IN  /\ exec[w].pc = "raised"
        /\ r # NoRun
        /\ dlq' = Append(dlq, [inv |-> exec[w].inv, run |-> r,
                               status |-> "PENDING"])
        /\ LedgerAppend(r, Ev("run.failed"))
        /\ exec' = [exec EXCEPT ![w] = Idle]
        /\ UNCHANGED <<invoices, runs, exceptions, readModel, embeddings,
                       checkpoint, bounds>>

\* record_failure: DLQ entry, run status and ledger entry in one transaction.
RecordFailure(w) ==
    LET r == SnapshotRun(w)
    IN  /\ exec[w].pc = "raised"
        /\ r # NoRun
        /\ dlq' = Append(dlq, [inv |-> exec[w].inv, run |-> r,
                               status |-> "PENDING"])
        /\ runs' = [runs EXCEPT ![r].status = "FAILED"]
        /\ LedgerAppend(r, Ev("run.failed"))
        /\ exec' = [exec EXCEPT ![w] = Idle]
        /\ UNCHANGED <<invoices, exceptions, readModel, embeddings,
                       checkpoint, bounds>>

\* run_id 0 has no row in runs: the insert violates the foreign key.
RecordFailureRefused(w) ==
    /\ exec[w].pc = "raised"
    /\ SnapshotRun(w) = NoRun
    /\ exec' = [exec EXCEPT ![w] = Idle]
    /\ UNCHANGED <<tables, checkpoint, bounds>>

\* The DLQ transaction itself fails.
RecordFailureFails(w) ==
    /\ exec[w].pc = "raised"
    /\ Fault("dlq")
    /\ exec' = [exec EXCEPT ![w] = Idle]
    /\ UNCHANGED <<tables, checkpoint, reruns>>

\* replay, first half: read the entry, refuse unless PENDING.
ReplayRead(w, d) ==
    /\ exec[w].pc = "idle"
    /\ dlq[d].status = "PENDING"
    /\ exec' = [exec EXCEPT ![w] = [Idle EXCEPT !.pc = "claim",
                                    !.inv = dlq[d].inv, !.entry = d]]
    /\ UNCHANGED <<tables, checkpoint, bounds>>

\* Mutant: the claim leaves the run FAILED.
ReplayClaimKeepingFailed(w) ==
    LET d == exec[w].entry
    IN  /\ exec[w].pc = "claim"
        /\ dlq' = [dlq EXCEPT ![d].status = "REPLAYED"]
        /\ LedgerAppend(dlq[d].run, Ev("dlq.replayed"))
        /\ exec' = [exec EXCEPT ![w] = Called(dlq[d].inv, 1)]
        /\ UNCHANGED <<invoices, runs, exceptions, readModel, embeddings,
                       checkpoint, bounds>>

\* replay, second half: claim and audit in one transaction, then run_invoice
\* (the CLI's runner has no retry policy: one attempt per node).
ReplayClaim(w) ==
    LET d == exec[w].entry
        r == dlq[d].run
    IN  /\ exec[w].pc = "claim"
        /\ dlq' = [dlq EXCEPT ![d].status = "REPLAYED"]
        /\ runs' = [runs EXCEPT ![r].status = "RUNNING"]
        /\ LedgerAppend(r, Ev("dlq.replayed"))
        /\ exec' = [exec EXCEPT ![w] = Called(dlq[d].inv, 1)]
        /\ UNCHANGED <<invoices, exceptions, readModel, embeddings,
                       checkpoint, bounds>>

-----------------------------------------------------------------------------
(* Resuming after a human decision: GraphRunner.submit_decision *)

\* aupdate_state writes human_decision into the latest checkpoint, whatever
\* its next node is; then ainvoke(None).
SubmitDecision(w, i, decision) ==
    /\ exec[w].pc = "idle"
    /\ checkpoint' = [checkpoint EXCEPT ![i].st.decision = decision]
    /\ exec' = [exec EXCEPT ![w] = [Called(i, RetryAttempts) EXCEPT !.pc = "resume"]]

-----------------------------------------------------------------------------
(* The pipeline without its human: composed in HumanDecision *)

PipelineInit ==
    /\ invoices = [i \in Invoices |-> "ABSENT"]
    /\ runs = <<>> /\ exceptions = <<>> /\ dlq = <<>> /\ ledger = <<>>
    /\ readModel = {} /\ embeddings = {}
    /\ checkpoint = [i \in Invoices |-> [next |-> "new", st |-> EmptyState]]
    /\ exec = [w \in Workers |-> Idle]
    /\ faults = 0 /\ reruns = 0

NodeStep(w) ==
    \/ Ingest(w) \/ Extract(w) \/ Validate(w) \/ Backfill(w) \/ Match3way(w)
    \/ Embed(w) \/ Policy(w) \/ Gate(w) \/ AutoApprove(w)
    \/ ExceptionTriage(w) \/ HumanReview(w) \/ Archive(w)

RunnerStep(w) ==
    \/ RunInvoice(w) \/ Resume(w) \/ Start(w) \/ Persist(w) \/ Return(w)
    \/ IngestNoRun(w) \/ RecordFailure(w) \/ RecordFailureRefused(w)
    \/ ReplayClaim(w)

FaultStep(w) ==
    \/ InfraFailure(w) \/ BusinessFailure(w) \/ PersistFailure(w)
    \/ RecordFailureFails(w) \/ Crash(w)

RequestStep(w) ==
    \/ \E i \in Invoices : Accept(w, i) \/ Rerun(w, i)
    \/ \E d \in 1..Len(dlq) : ReplayRead(w, d)

PipelineNext ==
    \/ \E w \in Workers :
          NodeStep(w) \/ RunnerStep(w) \/ FaultStep(w) \/ RequestStep(w)
    \/ \E i \in Invoices : Duplicate(i)

-----------------------------------------------------------------------------
(* What the pipeline guarantees *)

Running(w) == exec[w].pc \in {"node", "second", "returning"}

\* What a node's asserts and raises demand of the GraphState it is given, and
\* what the routing promises about it.
Ready(node, st) ==
    /\ node \in Nodes \ {"ingest"} => st.run # NoRun
    /\ node \in {"validate", "match3way", "policy", "gate"} => st.extraction
    /\ node \in {"match3way", "policy", "gate", "auto_approve"}
          => st.validation = "ok"
    /\ node \in {"policy", "gate", "auto_approve"} => st.match = "MATCH"
    /\ node \in {"gate", "auto_approve"} => st.policy = "clear"
    /\ node = "auto_approve" => st.gate = "AUTO"
    /\ node = "exception_triage" => HasFindings(st)
    /\ node \in {"human_review", "archive"} => st.route # "none"

\* No node is ever entered with a state it would refuse: the "routing bug" and
\* "node ordering bug" ValueErrors and the asserts on run_db_id cannot be
\* raised, whatever was crashed, resumed, retried or replayed before.
NodesGetWhatTheyNeed ==
    \A w \in Workers : Running(w) => Ready(exec[w].node, exec[w].st)

\* Every result a GraphState carries has its ledger entry in the run the state
\* belongs to.
Backed(st) ==
    st.run # NoRun =>
        /\ st.run \in 1..Len(runs)
        /\ Logged(st.run, Ev("run.started"))
        /\ st.extraction => Logged(st.run, Ev("extract.completed"))
        /\ st.validation # "none"
              => Logged(st.run, <<"validate.completed", st.validation>>)
        /\ st.match # "none" => Logged(st.run, <<"match.completed", st.match>>)
        /\ st.policy # "none" => Logged(st.run, <<"policy.evaluated", st.policy>>)
        /\ st.gate # "none" => Logged(st.run, <<"gate.decided", st.gate>>)
        /\ st.route = "AUTO" => Logged(st.run, Ev("invoice.auto_approved"))
        /\ st.route = "EXCEPTION" => Logged(st.run, Ev("exception.opened"))

\* A checkpoint never claims a node whose transaction is not in the database:
\* resuming from it (GraphRunner.run_invoice) can repeat a node but cannot
\* skip one.
CheckpointBackedByLedger == \A i \in Invoices : Backed(checkpoint[i].st)

\* The run's k-th ledger entry is preceded by an entry e.
LoggedBefore(r, k, e) == \E j \in 1..(k - 1) : ledger[r][j] = e

\* Every auto-approval in the ledger is preceded, in the same run, by a clean
\* validation, an accepted 3-way match, a clear policy evaluation and an AUTO
\* gate decision: the edges into auto_approve hold across crashes, resumes,
\* replays and concurrent executions of one thread.
AutoApprovalJustified ==
    \A r \in 1..Len(ledger) : \A k \in 1..Len(ledger[r]) :
        ledger[r][k] = Ev("invoice.auto_approved") =>
            /\ LoggedBefore(r, k, <<"validate.completed", "ok">>)
            /\ LoggedBefore(r, k, <<"match.completed", "MATCH">>)
            /\ LoggedBefore(r, k, <<"policy.evaluated", "clear">>)
            /\ LoggedBefore(r, k, <<"gate.decided", "AUTO">>)

\* A FAILED run always has a PENDING entry in the DLQ, so an operator can
\* replay it (DLQService.record_failure and replay write both rows together).
FailedRunIsReplayable ==
    \A r \in 1..Len(runs) : runs[r].status = "FAILED" =>
        \E d \in 1..Len(dlq) : dlq[d].run = r /\ dlq[d].status = "PENDING"

\* However often a document is submitted, replayed or resumed, its invoice has
\* at most one run that is not a rejected duplicate.
OneLiveRun ==
    \A r, s \in 1..Len(runs) :
        /\ runs[r].inv = runs[s].inv
        /\ runs[r].status # "REJECTED" /\ runs[s].status # "REJECTED"
        => r = s
=============================================================================
