------------------------- MODULE OneExecutorProofs -------------------------
(***************************************************************************)
(* Proofs about HumanDecision with one executor: one worker drives the     *)
(* graph, so that nobody else writes between its read of a checkpoint or   *)
(* of a DLQ entry and its use of it.  With two workers the properties      *)
(* proved here are false.  Requests, replays, reruns and uploads stay as   *)
(* they are, without bound; so do faults, except that the queue and the    *)
(* dashboard need every checkpoint (CheckpointsKept), and that runs are    *)
(* forgotten unless nothing is lost (NothingLost, NoReruns).               *)
(***************************************************************************)
EXTENDS OperatorViewProofs

\* The whole system is driven by worker w alone.
OneExecutor(w) == w \in Workers /\ Workers = {w}

-----------------------------------------------------------------------------
(* What a step does to the only worker *)

\* Every step of the system moves the only worker so, except the one that
\* hands it a decision.
LEMMA StepMoves ==
    ASSUME SystemInv, [Next]_vars, NEW w, OneExecutor(w)
    PROVE  WorkerMoves(exec[w], exec'[w]) \/ \E q \in Requests : DecideResume(q, w)
<1>1. CASE UNCHANGED vars
  BY <1>1 DEF vars, pipelineVars, WorkerMoves
<1>2. CASE PipelineNext
  <2>1. CASE \E i \in Invoices : Duplicate(i)
    BY <2>1 DEF Duplicate, WorkerMoves
  <2>2. CASE NodeStep(w) \/ RunnerStep(w) \/ FaultStep(w) \/ RequestStep(w)
    BY <2>2, NodeMoves, RunnerMoves DEF OneExecutor
  <2> QED
    BY <1>2, <2>1, <2>2 DEF PipelineNext, OneExecutor
<1>3. ASSUME NEW q \in Requests, DecisionStep(q)
      PROVE  WorkerMoves(exec[w], exec'[w]) \/ DecideResume(q, w)
  <2>1. CASE \E v \in Workers : DecideResume(q, v)
    BY <2>1 DEF OneExecutor
  <2>2. CASE exec' = exec /\ checkpoint' = checkpoint
    BY <2>2 DEF WorkerMoves
  <2> QED
    BY <1>3, <2>1, <2>2
       DEF DecisionStep, DecideRead, DecideClaim, DecideResolve, DecideEscalate, DecideFailure,
           ResumeFailure, pipelineVars
<1> QED
  BY <1>1, <1>2, <1>3 DEF Next

-----------------------------------------------------------------------------
(* Replays *)

\* A claim is of an entry that is still PENDING.
ReplayInv ==
    /\ SystemInv
    /\ \A w \in Workers : exec[w].pc = "claim" =>
          dlq[exec[w].entry].status = "PENDING" /\ dlq[exec[w].entry].inv = exec[w].inv

\* Only record_failure and a claim write the dead-letter queue.
LEMMA QueueSteps ==
    ASSUME [Next]_vars
    PROVE  \/ dlq' = dlq
           \/ \E w \in Workers : RecordFailure(w) \/ ReplayClaim(w)
<1>1. ASSUME NEW w \in Workers, NodeStep(w) PROVE dlq' = dlq
  BY <1>1 DEF NodeStep, Ingest, Extract, Validate, Backfill, Match3way, Embed, Policy, Gate,
              AutoApprove, ExceptionTriage, HumanReview, Archive, LogOnly, SecondLog
<1>2. ASSUME NEW w \in Workers, RunnerStep(w), ~RecordFailure(w), ~ReplayClaim(w)
      PROVE  dlq' = dlq
  BY <1>2 DEF RunnerStep, RunInvoice, Resume, Start, Persist, Return, IngestNoRun,
              RecordFailureRefused, tables
<1>3. ASSUME NEW w \in Workers, FaultStep(w) PROVE dlq' = dlq
  BY <1>3 DEF FaultStep, InfraFailure, BusinessFailure, PersistFailure,
              RecordFailureFails, Crash, tables
<1>4. ASSUME NEW w \in Workers, RequestStep(w) PROVE dlq' = dlq
  BY <1>4 DEF RequestStep, Accept, Rerun, ReplayRead, tables
<1>5. ASSUME NEW i \in Invoices, Duplicate(i) PROVE dlq' = dlq
  BY <1>5 DEF Duplicate
<1>6. ASSUME NEW q \in Requests, DecisionStep(q) PROVE dlq' = dlq
  BY <1>6 DEF DecisionStep, DecideRead, DecideClaim, DecideResolve, DecideEscalate,
              DecideResume, DecideFailure, ResumeFailure, pipelineVars, tables
<1>7. CASE UNCHANGED vars
  BY <1>7 DEF vars, pipelineVars, tables
<1> QED
  BY <1>1, <1>2, <1>3, <1>4, <1>5, <1>6, <1>7 DEF Next, PipelineNext

\* The DLQ gains PENDING entries; only a claim rewrites one.
LEMMA StepQueue ==
    ASSUME SystemInv, [Next]_vars
    PROVE  \/ dlq' = dlq
           \/ \E row \in DLQRow : row.status = "PENDING" /\ dlq' = Append(dlq, row)
           \/ \E w \in Workers : ReplayClaim(w) /\ UNCHANGED <<decisions, requests>>
<1>1. CASE UNCHANGED vars
  BY <1>1 DEF vars, pipelineVars, tables
<1>2. ASSUME NEW w \in Workers, RecordFailure(w)
      PROVE  \E row \in DLQRow : row.status = "PENDING" /\ dlq' = Append(dlq, row)
  <2> DEFINE row == [inv |-> exec[w].inv, run |-> SnapshotRun(w), status |-> "PENDING"]
  <2>1. dlq' = Append(dlq, row) /\ exec[w].pc = "raised"
    BY <1>2 DEF RecordFailure
  <2>2. exec[w].inv \in Invoices
    BY <2>1, WorkerFacts DEF ExecIn
  <2>3. checkpoint[exec[w].inv] \in Checkpoints
    BY <2>2 DEF SystemInv, TypeOK
  <2>4. row \in DLQRow
    BY <2>2, <2>3 DEF DLQRow, SnapshotRun, Checkpoints, GraphState
  <2> QED
    BY <2>1, <2>4
<1>3. ASSUME PipelineNext, UNCHANGED <<decisions, requests>>
      PROVE  \/ dlq' = dlq
             \/ \E row \in DLQRow : row.status = "PENDING" /\ dlq' = Append(dlq, row)
             \/ \E w \in Workers : ReplayClaim(w) /\ UNCHANGED <<decisions, requests>>
  BY <1>2, <1>3, QueueSteps
<1>4. ASSUME NEW q \in Requests, DecisionStep(q) PROVE dlq' = dlq
  BY <1>4 DEF DecisionStep, DecideRead, DecideClaim, DecideResolve, DecideEscalate,
              DecideResume, DecideFailure, ResumeFailure, pipelineVars, tables
<1> QED
  BY <1>1, <1>3, <1>4 DEF Next

\* The only worker claims what it has read PENDING: nothing comes between.
LEMMA ClaimsPending ==
    ASSUME ReplayInv, [Next]_vars, NEW w, OneExecutor(w)
    PROVE  \A v \in Workers : exec'[v].pc = "claim" =>
              dlq'[exec'[v].entry].status = "PENDING" /\ dlq'[exec'[v].entry].inv = exec'[v].inv
<1> SUFFICES ASSUME exec'[w].pc = "claim"
             PROVE  dlq'[exec'[w].entry].status = "PENDING" /\ dlq'[exec'[w].entry].inv = exec'[w].inv
  BY DEF OneExecutor
<1>1. SystemInv /\ w \in Workers
  BY DEF ReplayInv, OneExecutor
<1>2. exec \in [Workers -> Execs] /\ dlq \in Seq(DLQRow)
  BY <1>1, WorkerFacts, RowFacts
<1>3. WorkerMoves(exec[w], exec'[w])
  <2>1. ASSUME NEW q \in Requests, DecideResume(q, w) PROVE FALSE
    BY <1>1, <1>2, <2>1 DEF DecideResume, SubmitDecision, Called, Idle
  <2> QED
    BY <1>1, <2>1, StepMoves
<1>4. \/ exec'[w] = exec[w]
      \/ /\ dlq' = dlq /\ dlq[exec'[w].entry].status = "PENDING"
         /\ dlq[exec'[w].entry].inv = exec'[w].inv
  BY <1>3 DEF WorkerMoves, Leaves, Stays, Advances, Loads
<1>5. CASE exec'[w] = exec[w]
  <2>1. exec[w].pc = "claim" /\ exec[w].entry \in 1..Len(dlq)
    BY <1>1, <1>5, WorkerFacts DEF ExecIn
  <2>2. dlq[exec[w].entry].status = "PENDING" /\ dlq[exec[w].entry].inv = exec[w].inv
    BY <1>1, <2>1 DEF ReplayInv
  <2>3. ASSUME NEW v \in Workers, ReplayClaim(v) PROVE FALSE
    <3>1. v = w
      BY DEF OneExecutor
    <3>2. exec' = [exec EXCEPT ![w] = Called(dlq[exec[w].entry].inv, 1)]
      BY <2>3, <3>1 DEF ReplayClaim
    <3> QED
      BY <1>1, <1>2, <3>2 DEF Called, Idle
  <2>4. ASSUME NEW row \in DLQRow, dlq' = Append(dlq, row)
        PROVE  dlq'[exec[w].entry] = dlq[exec[w].entry]
    BY <1>2, <2>1, <2>4, AppendProperties
  <2> QED
    BY <1>1, <1>5, <2>2, <2>3, <2>4, StepQueue
<1> QED
  BY <1>4, <1>5

\* The only worker never claims an entry twice.
LEMMA ReplayNext ==
    ASSUME ReplayInv, [Next]_vars, NEW w, OneExecutor(w)
    PROVE  ReplayInv'
<1>1. SystemInv'
  BY NextOK DEF ReplayInv
<1> QED
  BY <1>1, ClaimsPending DEF ReplayInv

LEMMA ReplayInit == ASSUME Init PROVE ReplayInv
<1>1. SystemInv
  BY InitOK
<1>2. \A v \in Workers : exec[v].pc # "claim"
  BY DEF Init, PipelineInit, Idle
<1> QED
  BY <1>1, <1>2 DEF ReplayInv

-----------------------------------------------------------------------------
(* Decisions before the archive *)

\* A human resolved an exception of invoice i.
DecidedIn(xs, ds, i) ==
    \E d \in 1..Len(ds) : ds[d].action # "ESCALATE" /\ xs[ds[d].exc].inv = i

Decided(i) == DecidedIn(exceptions, decisions, i)

\* A thread that is past its human, or that carries a decision.
PastHuman(next, st) == st.decision # NoDecision \/ (next = "archive" /\ st.route = "EXCEPTION")

ThreadIn(xs, ds, i, c) == PastHuman(c.next, c.st) => DecidedIn(xs, ds, i)

\* The thread is paused until somebody decides.
Waits(c) == c.next = "human_review" /\ c.st.decision = NoDecision

\* The worker is at human_review only after a decision, and it resumes only a
\* thread that does not wait for one, unless there is one by now.
WorkerIn(xs, ds, ck, e) ==
    /\ e.pc \in {"node", "second", "returning"} /\ PastHuman(e.node, e.st)
          => DecidedIn(xs, ds, e.inv)
    /\ e.pc \in {"node", "second"} /\ e.node = "human_review" => DecidedIn(xs, ds, e.inv)
    /\ e.pc = "resume" => DecidedIn(xs, ds, e.inv) \/ ~Waits(ck[e.inv])

\* Why nobody calls run_invoice on a waiting thread of their own accord: the
\* worker has no such thread, an invoice has one PENDING entry at most, whose
\* thread is at rest and does not wait, and an invoice still to be uploaded
\* has nothing.
QuietIn(iv, ck, e, dq, i) ==
    /\ e.pc # "idle" /\ e.inv = i => ~Waits(ck[i])
    /\ \A d \in 1..Len(dq) : dq[d].status = "PENDING" /\ dq[d].inv = i =>
          /\ ~Waits(ck[i])
          /\ e.inv = i => e.pc \in {"idle", "claim"}
          /\ \A c \in 1..Len(dq) : dq[c].status = "PENDING" /\ dq[c].inv = i => c = d
    /\ iv[i] = "ABSENT" =>
          /\ ~Waits(ck[i])
          /\ e.inv = i => e.pc = "idle"
          /\ \A d \in 1..Len(dq) : dq[d].inv # i

\* What OnlyARerunPassesHuman presupposes.
Guarded == InterruptVisible \/ reruns = 0

\* What submit_decision hands on is a decision that is recorded.
ResumeIn(xs, ds, rq) ==
    rq.pc = "resume" => rq.decision # NoDecision /\ DecidedIn(xs, ds, xs[rq.exc].inv)

CompletedIn(rs, xs, ds) ==
    \A r \in 1..Len(rs) :
        rs[r].status = "COMPLETED" /\ rs[r].route = "EXCEPTION" => DecidedIn(xs, ds, rs[r].inv)

\* Exceptions belong to live runs.
ExceptionsLiveIn(rs, xs) == \A x \in 1..Len(xs) : rs[xs[x].run].status # "REJECTED"

HumanInv ==
    /\ ViewInv /\ ReplayInv
    /\ ExceptionsLiveIn(runs, exceptions)
    /\ \A i \in Invoices : ThreadIn(exceptions, decisions, i, checkpoint[i])
    /\ \A w \in Workers : WorkerIn(exceptions, decisions, checkpoint, exec[w])
    /\ \A q \in Requests : ResumeIn(exceptions, decisions, requests[q])
    /\ CompletedIn(runs, exceptions, decisions)
    /\ reruns = 0 => \A i \in Invoices : \A w \in Workers :
          Decided(i) \/ QuietIn(invoices, checkpoint, exec[w], dlq, i)

\* A decision is never taken back: its row and its exception stay.
LEMMA DecidedKept ==
    ASSUME ViewInv, [Next]_vars
    PROVE  /\ \A i : DecidedIn(exceptions, decisions, i) => DecidedIn(exceptions', decisions', i)
           /\ \A x \in 1..Len(exceptions) : exceptions'[x].inv = exceptions[x].inv
<1>1. PlainRows \/ OpensRow \/ DecidesRow
  BY StepRows DEF ViewInv
<1>2. /\ exceptions \in Seq(ExceptionRow) /\ decisions \in Seq(DecisionRow)
      /\ Len(exceptions) \in Nat /\ Len(decisions) \in Nat
      /\ \A d \in 1..Len(decisions) : decisions[d].exc \in 1..Len(exceptions)
  BY RowFacts DEF ViewInv, ReferencesIn
<1>3. \A x \in 1..Len(exceptions) : exceptions'[x].inv = exceptions[x].inv
  BY SMTT(20), <1>1, <1>2, AppendProperties DEF PlainRows, OpensRow, DecidesRow, ExceptionsInPlace
<1>4. /\ Len(decisions) <= Len(decisions')
      /\ \A d \in 1..Len(decisions) : decisions'[d] = decisions[d]
  BY SMTT(20), <1>1, <1>2, AppendProperties DEF PlainRows, OpensRow, DecidesRow
<1>5. Len(decisions') \in Nat
  BY <1>1, <1>2, AppendProperties DEF PlainRows, OpensRow, DecidesRow
<1>6. \A d \in 1..Len(decisions) : d \in 1..Len(decisions')
  BY <1>2, <1>4, <1>5
<1> QED
  BY <1>2, <1>3, <1>4, <1>6 DEF DecidedIn

\* Exceptions are opened in live runs, and no run is rejected later.
LEMMA ExceptionsLiveKept ==
    ASSUME ViewInv, ExceptionsLiveIn(runs, exceptions), [Next]_vars
    PROVE  ExceptionsLiveIn(runs', exceptions')
<1>1. PlainRows \/ OpensRow \/ DecidesRow
  BY StepRows DEF ViewInv
<1>2. /\ runs \in Seq(RunRow) /\ Len(runs) \in Nat
      /\ exceptions \in Seq(ExceptionRow) /\ Len(exceptions) \in Nat
      /\ \A x \in 1..Len(exceptions) : exceptions[x].run \in 1..Len(runs)
  BY RowFacts DEF ViewInv
<1>3. \A r \in 1..Len(runs) : runs[r].status # "REJECTED" => runs'[r].status # "REJECTED"
  <2>1. ASSUME NEW i, NEW status, NEW route, NEW e, Creates(i, status, route, e)
        PROVE  \A r \in 1..Len(runs) : runs'[r] = runs[r]
    BY <1>2, <2>1, AppendProperties DEF Creates, Grown
  <2> QED
    BY <1>1, <2>1 DEF PlainRows, OpensRow, DecidesRow, Logs, RunsInPlace
<1>4. CASE ExceptionsInPlace
  BY <1>2, <1>3, <1>4 DEF ExceptionsInPlace, ExceptionsLiveIn
<1>5. CASE OpensRow
  <2>1. PICK r, x : /\ r \in 1..Len(runs) /\ exceptions' = Append(exceptions, x)
                    /\ x \in ExceptionRow /\ x.run = r /\ runs[r].status # "REJECTED"
    BY <1>5 DEF OpensRow, Logs
  <2>2. /\ Len(exceptions') = Len(exceptions) + 1
        /\ exceptions'[Len(exceptions) + 1] = x
        /\ \A y \in 1..Len(exceptions) : exceptions'[y] = exceptions[y]
    BY <1>2, <2>1, AppendProperties
  <2>3. \A y \in 1..Len(exceptions') : y \in 1..Len(exceptions) \/ y = Len(exceptions) + 1
    BY <1>2, <2>2
  <2> QED
    BY <1>2, <1>3, <2>1, <2>2, <2>3 DEF ExceptionsLiveIn
<1> QED
  BY <1>1, <1>4, <1>5 DEF PlainRows, DecidesRow

\* submit_decision: the thread carries a recorded decision, so that it does
\* not wait for one.
LEMMA ResumeMoves ==
    ASSUME HumanInv, NEW w \in Workers, NEW q \in Requests, DecideResume(q, w)
    PROVE  \E i \in Invoices :
              /\ Decided(i) /\ exec'[w].pc = "resume" /\ exec'[w].inv = i
              /\ checkpoint'[i].st.decision # NoDecision
              /\ \A j \in Invoices : j # i => checkpoint'[j] = checkpoint[j]
<1>1. PICK i : i = exceptions[requests[q].exc].inv
  OBVIOUS
<1>2. SystemInv /\ requests[q].pc = "resume"
  BY DEF HumanInv, ViewInv, DecideResume
<1>3. i \in Invoices /\ exec \in [Workers -> Execs] /\ checkpoint \in [Invoices -> Checkpoints]
  BY <1>1, <1>2, RequestFacts, WorkerFacts DEF ExceptionRow, SystemInv, TypeOK
<1>4. requests[q].decision # NoDecision /\ Decided(i)
  BY <1>1, <1>2 DEF HumanInv, ResumeIn, Decided
<1>5. /\ checkpoint' = [checkpoint EXCEPT ![i].st.decision = requests[q].decision]
      /\ exec' = [exec EXCEPT ![w] = [Called(i, RetryAttempts) EXCEPT !.pc = "resume"]]
  BY <1>1 DEF DecideResume, SubmitDecision
<1>6. exec'[w].pc = "resume" /\ exec'[w].inv = i
  BY <1>3, <1>5 DEF Called, Idle
<1>7. /\ checkpoint'[i].st.decision = requests[q].decision
      /\ \A j \in Invoices : j # i => checkpoint'[j] = checkpoint[j]
  BY <1>3, <1>5 DEF Checkpoints, GraphState
<1> QED
  BY <1>3, <1>4, <1>6, <1>7

\* A checkpoint that a flush writes is the worker's own.
LEMMA FlushedThreads ==
    ASSUME HumanInv, NEW w \in Workers, Flushes(exec[w]), NEW i \in Invoices
    PROVE  ThreadIn(exceptions, decisions, i, checkpoint'[i])
<1> DEFINE e == exec[w]
<1>1. /\ ThreadIn(exceptions, decisions, i, checkpoint[i])
      /\ WorkerIn(exceptions, decisions, checkpoint, e) /\ SystemInv
  BY DEF HumanInv, ViewInv
<1>2. checkpoint \in [Invoices -> Checkpoints]
  BY <1>1 DEF SystemInv, TypeOK
<1>3. CASE checkpoint' = checkpoint
  BY <1>1, <1>3
<1>4. CASE /\ e.pc \in {"node", "second", "returning"}
           /\ checkpoint' = [checkpoint EXCEPT ![e.inv] = [next |-> e.node, st |-> e.st]]
  <2>1. CASE i = e.inv
    <3>1. checkpoint'[i].next = e.node /\ checkpoint'[i].st = e.st
      BY <1>2, <1>4, <2>1
    <3> QED
      BY <1>1, <1>4, <2>1, <3>1 DEF ThreadIn, WorkerIn
  <2>2. CASE i # e.inv
    BY <1>1, <1>2, <1>4, <2>2
  <2> QED
    BY <2>1, <2>2
<1> QED
  BY <1>3, <1>4 DEF Flushes

\* The threads stay decided.
LEMMA ThreadsKept ==
    ASSUME HumanInv, [Next]_vars, NEW w, OneExecutor(w), NEW i \in Invoices
    PROVE  ThreadIn(exceptions', decisions', i, checkpoint'[i])
<1>1. /\ ThreadIn(exceptions, decisions, i, checkpoint[i]) /\ SystemInv /\ ViewInv
      /\ w \in Workers
  BY DEF HumanInv, ViewInv, OneExecutor
<1>2. DecidedIn(exceptions, decisions, i) => DecidedIn(exceptions', decisions', i)
  BY <1>1, DecidedKept
<1>3. CASE \E q \in Requests : DecideResume(q, w)
  <2>1. PICK j \in Invoices : /\ Decided(j)
                              /\ \A k \in Invoices : k # j => checkpoint'[k] = checkpoint[k]
    BY <1>1, <1>3, ResumeMoves
  <2> QED
    BY <1>1, <1>2, <2>1 DEF ThreadIn, Decided
<1>4. CASE WorkerMoves(exec[w], exec'[w])
  <2>1. checkpoint' = checkpoint \/ Flushes(exec[w])
    BY <1>4 DEF WorkerMoves
  <2>2. ThreadIn(exceptions, decisions, i, checkpoint'[i])
    BY <1>1, <2>1, FlushedThreads
  <2> QED
    BY <1>2, <2>2 DEF ThreadIn
<1> QED
  BY <1>1, <1>3, <1>4, StepMoves

\* The worker stays decided.
LEMMA WorkerStays ==
    ASSUME HumanInv, [Next]_vars, NEW w, OneExecutor(w), Guarded
    PROVE  WorkerIn(exceptions', decisions', checkpoint', exec'[w])
<1> DEFINE e == exec[w]
           f == exec'[w]
<1>1. /\ WorkerIn(exceptions, decisions, checkpoint, e) /\ SystemInv /\ ViewInv
      /\ w \in Workers /\ e \in Execs
      /\ \A i \in Invoices : ThreadIn(exceptions, decisions, i, checkpoint[i])
  BY WorkerFacts DEF HumanInv, ViewInv, OneExecutor
<1>2. \A i : DecidedIn(exceptions, decisions, i) => DecidedIn(exceptions', decisions', i)
  BY <1>1, DecidedKept
<1>3. CASE \E q \in Requests : DecideResume(q, w)
  <2>1. PICK i \in Invoices : /\ f.pc = "resume" /\ f.inv = i
                              /\ checkpoint'[i].st.decision # NoDecision
    BY <1>1, <1>3, ResumeMoves
  <2> QED
    BY <2>1 DEF WorkerIn, Waits
<1>4. ASSUME Stays(e, f) PROVE WorkerIn(exceptions', decisions', checkpoint', f)
  BY <1>1, <1>2, <1>4 DEF Stays, WorkerIn
<1>5. ASSUME Advances(e, f) PROVE WorkerIn(exceptions', decisions', checkpoint', f)
  BY <1>1, <1>2, <1>5 DEF Advances, WorkerIn, PastHuman
<1>6. ASSUME Loads(checkpoint[e.inv], e, f), checkpoint' = checkpoint
      PROVE  WorkerIn(exceptions', decisions', checkpoint', f)
  <2>0. e.inv \in Invoices
    BY <1>1, <1>6, WorkerFacts DEF Loads, ExecIn
  <2>1. ThreadIn(exceptions, decisions, e.inv, checkpoint[e.inv])
    BY <1>1, <2>0
  <2>2. CASE f.node = "ingest"
    BY <1>2, <1>6, <2>1, <2>2 DEF Loads, WorkerIn, ThreadIn, PastHuman
  <2>3. CASE e.pc = "resume" /\ f.node = checkpoint[e.inv].next
    <3>1. DecidedIn(exceptions, decisions, e.inv) \/ ~Waits(checkpoint[e.inv])
      BY <1>1, <2>3 DEF WorkerIn
    <3> QED
      BY <1>2, <1>6, <2>1, <2>3, <3>1 DEF Loads, WorkerIn, ThreadIn, PastHuman, Waits
  <2> QED
    BY <1>6, <2>2, <2>3 DEF Loads
<1>7. CASE WorkerMoves(e, f)
  <2>1. CASE f = e /\ checkpoint' = checkpoint
    BY <1>1, <1>2, <2>1 DEF WorkerIn
  <2>2. CASE Leaves(f) \/ f.pc = "claim"
    BY <2>2 DEF Leaves, WorkerIn
  <2>3. CASE /\ e.pc = "call" /\ f.pc = "resume" /\ f.inv = e.inv
             /\ ~Paused(checkpoint[e.inv]) /\ checkpoint' = checkpoint
    <3>1. e.inv \in Invoices
      BY <1>1, <2>3, WorkerFacts DEF ExecIn
    <3>2. Decided(e.inv) \/ ~Waits(checkpoint[e.inv])
      BY <1>1, <2>3, <3>1 DEF Guarded, HumanInv, QuietIn, Paused, Waits
    <3> QED
      BY <1>2, <2>3, <3>2 DEF WorkerIn, Decided
  <2> QED
    BY <1>4, <1>5, <1>6, <1>7, <2>1, <2>2, <2>3 DEF WorkerMoves
<1> QED
  BY <1>1, <1>3, <1>7, StepMoves

\* A request that is about to resume has recorded its decision.
LEMMA RequestsKept ==
    ASSUME HumanInv, [Next]_vars, NEW q \in Requests
    PROVE  ResumeIn(exceptions', decisions', requests'[q])
<1>1. /\ ResumeIn(exceptions, decisions, requests[q]) /\ SystemInv /\ ViewInv
      /\ requests \in [Requests -> RequestState]
  BY DEF HumanInv, ViewInv, SystemInv, TypeOK
<1>2. /\ \A i : DecidedIn(exceptions, decisions, i) => DecidedIn(exceptions', decisions', i)
      /\ \A x \in 1..Len(exceptions) : exceptions'[x].inv = exceptions[x].inv
  BY <1>1, DecidedKept
<1>3. CASE requests'[q] = requests[q]
  <2>1. requests[q].pc = "resume" => requests[q].exc \in 1..Len(exceptions)
    BY <1>1, RequestFacts
  <2> QED
    BY <1>1, <1>2, <1>3, <2>1 DEF ResumeIn
<1>4. CASE requests'[q].pc # "resume"
  BY <1>4 DEF ResumeIn
<1>5. ASSUME NEW p \in Requests, DecideResolve(p)
      PROVE  ResumeIn(exceptions', decisions', requests'[q])
  <2>1. CASE p # q
    <3>1. requests'[q] = requests[q]
      BY <1>1, <1>5, <2>1 DEF DecideResolve
    <3> QED
      BY <1>3, <3>1
  <2>2. CASE p = q
    <3> DEFINE x == requests[q].exc
               n == Len(decisions) + 1
    <3>1. /\ requests[q].pc = "commit" /\ requests[q].action # "ESCALATE"
          /\ requests' = [requests EXCEPT ![q].pc = "resume", ![q].decision = n]
          /\ decisions' = Append(decisions, [exc |-> x, actor |-> requests[q].user,
                                             action |-> requests[q].action])
      BY <1>5, <2>2 DEF DecideResolve, RecordDecision
    <3>2. /\ x \in 1..Len(exceptions) /\ requests[q].user \in Users
          /\ requests[q].action \in Actions /\ x \in Nat
      BY <1>1, <3>1, RequestFacts
    <3>3. decisions \in Seq(DecisionRow) /\ Len(decisions) \in Nat
      BY <1>1, RowFacts
    <3>4. [exc |-> x, actor |-> requests[q].user, action |-> requests[q].action] \in DecisionRow
      BY <3>2 DEF DecisionRow
    <3>5. /\ Len(decisions') = n
          /\ decisions'[n] = [exc |-> x, actor |-> requests[q].user, action |-> requests[q].action]
      BY <3>1, <3>3, <3>4, AppendProperties
    <3>6. n \in 1..Len(decisions') /\ n # NoDecision
      BY <3>3, <3>5 DEF NoDecision
    <3>7. requests'[q].exc = x /\ requests'[q].decision = n
      BY <1>1, <3>1 DEF RequestState
    <3>8. DecidedIn(exceptions', decisions', exceptions'[x].inv)
      BY <3>1, <3>5, <3>6 DEF DecidedIn
    <3> HIDE DEF n
    <3> QED
      BY <3>6, <3>7, <3>8 DEF ResumeIn
  <2> QED
    BY <2>1, <2>2
<1>6. ASSUME NEW p \in Requests, Done(p)
      PROVE  requests'[q] = requests[q] \/ requests'[q].pc # "resume"
  BY <1>1, <1>6 DEF Done, NewRequest
<1>7. ASSUME NEW p \in Requests, DecideClaim(p)
      PROVE  requests'[q] = requests[q] \/ requests'[q].pc # "resume"
  <2>1. CASE Done(p)
    BY <1>6, <2>1
  <2>2. CASE requests' = [requests EXCEPT ![p].pc = "commit"]
    BY <1>1, <2>2 DEF RequestState
  <2> QED
    BY <1>7, <2>1, <2>2 DEF DecideClaim
<1>8. ASSUME NEW p \in Requests, NEW x, NEW u, NEW a, DecideRead(p, x, u, a)
      PROVE  requests'[q] = requests[q] \/ requests'[q].pc # "resume"
  BY <1>1, <1>8 DEF DecideRead
<1>9. ASSUME NEW p \in Requests, DecisionStep(p), ~DecideResolve(p)
      PROVE  requests'[q] = requests[q] \/ requests'[q].pc # "resume"
  BY <1>6, <1>7, <1>8, <1>9
     DEF DecisionStep, DecideEscalate, DecideResume, DecideFailure, ResumeFailure
<1> QED
  BY <1>3, <1>4, <1>5, <1>9 DEF Next, vars

\* Rewriting a run's row.
LEMMA RunRowUpdate ==
    ASSUME NEW rs \in Seq(RunRow), NEW r \in 1..Len(rs), NEW row \in RunRow
    PROVE  /\ Len(Updated(rs, r, row)) = Len(rs) /\ Updated(rs, r, row)[r] = row
           /\ \A s \in 1..Len(rs) : s # r => Updated(rs, r, row)[s] = rs[s]
<1>1. DOMAIN rs = 1..Len(rs)
  OBVIOUS
<1>2. \A s \in 1..Len(rs) : Updated(rs, r, row)[s] = IF s = r THEN row ELSE rs[s]
  BY <1>1 DEF Updated
<1>3. Len(Updated(rs, r, row)) = Len(rs)
  BY SeqExcept
<1> QED
  BY <1>2, <1>3

\* A run is completed only by the archive node, with the worker's route.
LEMMA StepCompletes ==
    ASSUME SystemInv, [Next]_vars, NEW w, OneExecutor(w), NEW r \in 1..Len(runs'),
           runs'[r].status = "COMPLETED", runs'[r].route = "EXCEPTION"
    PROVE  \/ r \in 1..Len(runs) /\ runs'[r] = runs[r]
           \/ /\ r \in 1..Len(runs) /\ exec[w].pc = "node" /\ exec[w].node = "archive"
              /\ exec[w].st.run = r /\ exec[w].st.route = "EXCEPTION"
              /\ runs'[r].inv = exec[w].inv
<1>1. /\ runs \in Seq(RunRow) /\ Len(runs) \in Nat /\ w \in Workers
      /\ \A s \in 1..Len(runs) : runs[s] \in RunRow
  BY RowFacts DEF OneExecutor
<1>2. CASE runs' = runs
  BY <1>2
<1>3. ASSUME NEW s \in 1..Len(runs), NEW row \in RunRow, runs' = Updated(runs, s, row),
             row.status # "COMPLETED" \/ row.route # "EXCEPTION"
      PROVE  r \in 1..Len(runs) /\ runs'[r] = runs[r]
  <2>1. /\ Len(runs') = Len(runs) /\ runs'[s] = row
        /\ \A t \in 1..Len(runs) : t # s => runs'[t] = runs[t]
    BY <1>1, <1>3, RunRowUpdate, ZenonT(40)
  <2> QED
    BY <1>3, <2>1
<1>4. ASSUME NEW row \in RunRow, runs' = Append(runs, row), row.status # "COMPLETED"
      PROVE  r \in 1..Len(runs) /\ runs'[r] = runs[r]
  <2>1. /\ Len(runs') = Len(runs) + 1 /\ runs'[Len(runs) + 1] = row
        /\ \A t \in 1..Len(runs) : runs'[t] = runs[t]
    BY <1>1, <1>4, AppendProperties
  <2> QED
    BY <1>1, <1>4, <2>1
<1>5. ASSUME NEW i \in Invoices, NEW status \in {"QUEUED", "REJECTED"}, NEW route \in Routes,
             NEW e, CreateRun(i, status, route, e)
      PROVE  r \in 1..Len(runs) /\ runs'[r] = runs[r]
  <2> DEFINE row == [inv |-> i, status |-> status, route |-> route]
  <2>1. row \in RunRow /\ row.status # "COMPLETED" /\ runs' = Append(runs, row)
    BY <1>5 DEF RunRow, RunStatus, CreateRun
  <2> HIDE DEF row
  <2> QED
    BY <1>4, <2>1
<1>6. ASSUME exec[w].pc \in {"node", "second"}, exec[w].node # "ingest"
      PROVE  /\ exec[w].st.run \in 1..Len(runs) /\ runs[exec[w].st.run] \in RunRow
             /\ runs[exec[w].st.run].inv = exec[w].inv /\ exec[w].st \in GraphState
             /\ Ready(exec[w].node, exec[w].st)
  BY <1>1, <1>6, WorkerRun, WorkerFacts
<1>7. CASE AutoApprove(w)
  <2> DEFINE s == exec[w].st.run
             row == [runs[s] EXCEPT !.route = "AUTO"]
  <2>1. /\ exec[w].pc = "node" /\ exec[w].node = "auto_approve"
        /\ runs' = Updated(runs, s, row)
    BY <1>7 DEF AutoApprove, At, Updated
  <2>2. s \in 1..Len(runs) /\ runs[s] \in RunRow
    BY <1>6, <2>1
  <2>3. row \in RunRow /\ row.route # "EXCEPTION"
    BY <2>2 DEF RunRow, Routes
  <2> HIDE DEF row, s
  <2> QED
    BY <1>3, <2>1, <2>2, <2>3
<1>8. CASE ExceptionTriage(w)
  <2> DEFINE s == exec[w].st.run
             row == [runs[s] EXCEPT !.route = "EXCEPTION", !.status = "AWAITING_DECISION"]
  <2>1. exec[w].pc = "node" /\ exec[w].node = "exception_triage"
    BY <1>8 DEF ExceptionTriage, At
  <2>2. s \in 1..Len(runs) /\ runs[s] \in RunRow
    BY <1>6, <2>1
  <2>3. runs' = Updated(runs, s, row)
    BY <1>1, <1>8, <2>2 DEF ExceptionTriage, Updated
  <2>4. row \in RunRow /\ row.status # "COMPLETED"
    BY <2>2 DEF RunRow, Routes, RunStatus
  <2> HIDE DEF row, s
  <2> QED
    BY <1>3, <2>2, <2>3, <2>4
<1>9. CASE Ingest(w)
  <2>1. PICK s \in IngestRuns(exec[w].inv) : runs' = [runs EXCEPT ![s].status = "RUNNING"]
    BY <1>9 DEF Ingest
  <2> DEFINE row == [runs[s] EXCEPT !.status = "RUNNING"]
  <2>2. s \in 1..Len(runs) /\ runs[s] \in RunRow /\ runs' = Updated(runs, s, row)
    BY <1>1, <2>1 DEF IngestRuns, RunsWith, Updated
  <2>3. row \in RunRow /\ row.status # "COMPLETED"
    BY <2>2 DEF RunRow, RunStatus
  <2> HIDE DEF row
  <2> QED
    BY <1>3, <2>2, <2>3
<1>10. CASE Archive(w)
  <2> DEFINE st == exec[w].st
             row == [runs[st.run] EXCEPT !.status = "COMPLETED", !.route = st.route]
  <2>1. exec[w].pc = "node" /\ exec[w].node = "archive"
    BY <1>10 DEF Archive, At
  <2>2. /\ st.run \in 1..Len(runs) /\ runs[st.run] \in RunRow /\ st \in GraphState
        /\ st.route # "none" /\ runs[st.run].inv = exec[w].inv
    BY <1>6, <2>1 DEF Ready
  <2>3. runs' = Updated(runs, st.run, row)
    BY <1>1, <1>10, <2>2 DEF Archive, Updated
  <2>4. row \in RunRow /\ row.inv = exec[w].inv /\ row.route = st.route
    BY <2>2 DEF RunRow, RunStatus, Routes, GraphState
  <2> HIDE DEF row
  <2>5. /\ Len(runs') = Len(runs) /\ runs'[st.run] = row
        /\ \A t \in 1..Len(runs) : t # st.run => runs'[t] = runs[t]
    BY <1>1, <2>2, <2>3, <2>4, RunRowUpdate, ZenonT(40)
  <2>6. CASE r = st.run
    BY <2>1, <2>2, <2>4, <2>5, <2>6
  <2>7. CASE r # st.run
    BY <2>5, <2>7
  <2> QED
    BY <2>6, <2>7
<1>11. CASE NodeStep(w) /\ ~(AutoApprove(w) \/ ExceptionTriage(w) \/ Ingest(w) \/ Archive(w))
  BY <1>2, <1>11 DEF NodeStep, Extract, Validate, Backfill, Match3way, Embed, Policy, Gate,
                     HumanReview, LogOnly, SecondLog
<1>12. CASE RecordFailure(w)
  <2> DEFINE i == exec[w].inv
  <2>0. PICK s : s = SnapshotRun(w)
    OBVIOUS
  <2> DEFINE row == [runs[s] EXCEPT !.status = "FAILED"]
  <2>1. exec[w].pc = "raised" /\ s # NoRun /\ runs' = Updated(runs, s, row)
    BY <1>12, <2>0 DEF RecordFailure, Updated
  <2>2. i \in Invoices
    BY <1>1, <2>1, WorkerFacts DEF ExecIn
  <2>3. StateIn(runs, ledger, i, checkpoint[i].st)
    BY <2>2, InvParts DEF CheckpointIn
  <2>4. s \in 1..Len(runs) /\ runs[s] \in RunRow
    BY <1>1, <2>0, <2>1, <2>3 DEF SnapshotRun, StateIn
  <2>5. row \in RunRow /\ row.status # "COMPLETED"
    BY <2>4 DEF RunRow, RunStatus
  <2> HIDE DEF row, i
  <2> QED
    BY <1>3, <2>1, <2>4, <2>5
<1>13. CASE ReplayClaim(w)
  <2>0. PICK s : s = dlq[exec[w].entry].run
    OBVIOUS
  <2> DEFINE row == [runs[s] EXCEPT !.status = "RUNNING"]
  <2>1. exec[w].pc = "claim" /\ runs' = Updated(runs, s, row)
    BY <1>13, <2>0 DEF ReplayClaim, Updated
  <2>2. exec[w].entry \in 1..Len(dlq)
    BY <1>1, <2>1, WorkerFacts DEF ExecIn
  <2>3. s \in 1..Len(runs) /\ runs[s] \in RunRow
    BY <1>1, <2>0, <2>2, RowFacts
  <2>4. row \in RunRow /\ row.status # "COMPLETED"
    BY <2>3 DEF RunRow, RunStatus
  <2> HIDE DEF row
  <2> QED
    BY <1>3, <2>1, <2>3, <2>4
<1>14. CASE RunnerStep(w) /\ ~(RecordFailure(w) \/ ReplayClaim(w))
  BY <1>2, <1>14 DEF RunnerStep, RunInvoice, Resume, Start, Persist, Return, IngestNoRun,
                     RecordFailureRefused, tables
<1>15. CASE FaultStep(w)
  BY <1>2, <1>15 DEF FaultStep, InfraFailure, BusinessFailure, PersistFailure,
                     RecordFailureFails, Crash, tables
<1>16. CASE RequestStep(w)
  <2>1. "none" \in Routes
    BY DEF Routes
  <2> QED
    BY <1>2, <1>5, <1>16, <2>1 DEF RequestStep, Accept, Rerun, ReplayRead, tables
<1>17. CASE \E i \in Invoices : Duplicate(i)
  <2>1. "REJECT" \in Routes
    BY DEF Routes
  <2> QED
    BY <1>5, <1>17, <2>1 DEF Duplicate
<1>18. ASSUME NEW q \in Requests, DecisionStep(q) PROVE runs' = runs
  BY <1>18 DEF DecisionStep, DecideRead, DecideClaim, DecideResolve, DecideEscalate,
               DecideResume, DecideFailure, ResumeFailure, pipelineVars, tables
<1>19. CASE UNCHANGED vars
  BY <1>2, <1>19 DEF vars, pipelineVars, tables
<1>20. CASE PipelineNext
  BY <1>7, <1>8, <1>9, <1>10, <1>11, <1>12, <1>13, <1>14, <1>15, <1>16, <1>17, <1>20
     DEF PipelineNext, OneExecutor
<1> QED
  BY <1>2, <1>18, <1>19, <1>20 DEF Next

\* Only a worker that is past its human completes an exception run.
LEMMA CompletedKept ==
    ASSUME HumanInv, [Next]_vars, NEW w, OneExecutor(w)
    PROVE  CompletedIn(runs', exceptions', decisions')
<1> SUFFICES ASSUME NEW r \in 1..Len(runs'),
                    runs'[r].status = "COMPLETED", runs'[r].route = "EXCEPTION"
             PROVE  DecidedIn(exceptions', decisions', runs'[r].inv)
  BY DEF CompletedIn
<1>1. /\ SystemInv /\ ViewInv /\ CompletedIn(runs, exceptions, decisions)
      /\ WorkerIn(exceptions, decisions, checkpoint, exec[w])
  BY DEF HumanInv, ViewInv, OneExecutor
<1>2. \A i : DecidedIn(exceptions, decisions, i) => DecidedIn(exceptions', decisions', i)
  BY <1>1, DecidedKept
<1>3. CASE r \in 1..Len(runs) /\ runs'[r] = runs[r]
  BY <1>1, <1>2, <1>3 DEF CompletedIn
<1>4. CASE /\ exec[w].pc = "node" /\ exec[w].node = "archive"
           /\ exec[w].st.route = "EXCEPTION" /\ runs'[r].inv = exec[w].inv
  BY <1>1, <1>2, <1>4 DEF WorkerIn, PastHuman
<1> QED
  BY <1>1, <1>3, <1>4, StepCompletes

\* An invoice is uploaded once and for all.
LEMMA InvoicesKnown ==
    ASSUME SystemInv, [Next]_vars, NEW i \in Invoices, invoices'[i] = "ABSENT"
    PROVE  invoices[i] = "ABSENT"
<1>1. invoices \in [Invoices -> InvoiceStatus]
  BY DEF SystemInv, TypeOK
<1>2. ASSUME NEW j, NEW status, status # "ABSENT", invoices' = [invoices EXCEPT ![j] = status]
      PROVE  invoices[i] = "ABSENT"
  BY <1>1, <1>2
<1>3. ASSUME NEW w \in Workers, NodeStep(w) PROVE invoices[i] = "ABSENT"
  BY <1>2, <1>3
     DEF NodeStep, Ingest, Extract, Validate, Backfill, Match3way, Embed, Policy, Gate,
         AutoApprove, ExceptionTriage, HumanReview, Archive, LogOnly, SecondLog, tables
<1>4. ASSUME NEW w \in Workers, RunnerStep(w) \/ FaultStep(w) PROVE invoices' = invoices
  BY <1>4
     DEF RunnerStep, RunInvoice, Resume, Start, Persist, Return, IngestNoRun, RecordFailure,
         RecordFailureRefused, ReplayClaim, FaultStep, InfraFailure, BusinessFailure,
         PersistFailure, RecordFailureFails, Crash, tables
<1>5. ASSUME NEW w \in Workers, RequestStep(w) PROVE invoices[i] = "ABSENT"
  BY <1>2, <1>5 DEF RequestStep, Accept, Rerun, ReplayRead, tables
<1>6. ASSUME NEW j \in Invoices, Duplicate(j) PROVE invoices' = invoices
  BY <1>6 DEF Duplicate
<1>7. ASSUME NEW q \in Requests, DecisionStep(q) PROVE invoices[i] = "ABSENT"
  BY <1>2, <1>7 DEF DecisionStep, DecideRead, DecideClaim, DecideResolve, DecideEscalate,
                    DecideResume, DecideFailure, ResumeFailure, pipelineVars, tables
<1> QED
  BY <1>3, <1>4, <1>5, <1>6, <1>7 DEF Next, PipelineNext, vars, pipelineVars, tables

\* The worker goes on with its invoice or is done with it.
Continues(e, f) ==
    /\ e.pc # "idle" /\ dlq' = dlq
    /\ f.pc = "idle" \/ (f.inv = e.inv /\ e.pc # "claim")
    /\ \/ checkpoint' = checkpoint
       \/ /\ e.pc \in {"node", "second"} \/ (e.pc = "returning" /\ f.pc = "idle")
          /\ checkpoint' = [checkpoint EXCEPT ![e.inv] = [next |-> e.node, st |-> e.st]]

\* Everything that the worker does for an invoice is that, once it is called.
LEMMA WorkerContinues ==
    ASSUME SystemInv, NEW w \in Workers,
           NodeStep(w) \/ RunnerStep(w) \/ FaultStep(w),
           ~RecordFailure(w), ~ReplayClaim(w)
    PROVE  Continues(exec[w], exec'[w])
<1>1. exec \in [Workers -> Execs] /\ exec[w] \in Execs
  BY WorkerFacts
<1>2. ASSUME NEW st, Advance(w, st), exec[w].pc \in {"node", "second"},
             checkpoint' = checkpoint, dlq' = dlq
      PROVE  Continues(exec[w], exec'[w])
  BY <1>1, <1>2 DEF Advance, Continues, Execs
<1>3. ASSUME Raise(w), exec[w].pc \in {"node", "second"}, dlq' = dlq
      PROVE  Continues(exec[w], exec'[w])
  BY <1>1, <1>3 DEF Raise, Flush, Live, Continues, Execs
<1>4. CASE NodeStep(w)
  <2>1. CASE Backfill(w) \/ Embed(w)
    BY <1>1, <2>1 DEF Backfill, Embed, At, Continues, Execs
  <2>2. CASE ~(Backfill(w) \/ Embed(w))
    BY <1>2, <1>4, <2>2
       DEF NodeStep, Ingest, Extract, Validate, Match3way, Policy, Gate, AutoApprove,
           ExceptionTriage, HumanReview, Archive, LogOnly, SecondLog, At
  <2> QED
    BY <2>1, <2>2
<1>5. CASE RunInvoice(w) \/ Resume(w) \/ Start(w) \/ RecordFailureRefused(w)
  BY <1>1, <1>5
     DEF RunInvoice, Resume, Start, RecordFailureRefused, Continues, Execs, Idle, tables
<1>6. CASE Persist(w) \/ Return(w)
  BY <1>1, <1>6 DEF Persist, Return, Flush, Live, Continues, Execs, Idle, tables
<1>7. CASE IngestNoRun(w) \/ BusinessFailure(w)
  BY <1>3, <1>7 DEF IngestNoRun, BusinessFailure, At, tables
<1>8. CASE InfraFailure(w)
  <2>1. CASE exec[w].attempt < exec[w].limit
    BY <1>1, <1>8, <2>1 DEF InfraFailure, Continues, Execs, tables
  <2>2. CASE ~(exec[w].attempt < exec[w].limit)
    BY <1>3, <1>8, <2>2 DEF InfraFailure, tables
  <2> QED
    BY <2>1, <2>2
<1>9. CASE PersistFailure(w) \/ RecordFailureFails(w) \/ Crash(w)
  BY <1>1, <1>9 DEF PersistFailure, RecordFailureFails, Crash, Continues, Execs, Idle, tables
<1> QED
  BY <1>4, <1>5, <1>6, <1>7, <1>8, <1>9 DEF RunnerStep, FaultStep

\* Going on, it finds no thread that waits, and leaves none behind in its hands.
LEMMA QuietContinues ==
    ASSUME HumanInv, NEW w \in Workers, Continues(exec[w], exec'[w]), NEW i \in Invoices,
           QuietIn(invoices, checkpoint, exec[w], dlq, i), ~Decided(i),
           invoices'[i] = "ABSENT" => invoices[i] = "ABSENT"
    PROVE  QuietIn(invoices', checkpoint', exec'[w], dlq', i)
<1> DEFINE e == exec[w]
           f == exec'[w]
<1>1. checkpoint \in [Invoices -> Checkpoints] /\ WorkerIn(exceptions, decisions, checkpoint, e)
  BY DEF HumanInv, ViewInv, SystemInv, TypeOK
<1>2. CASE checkpoint'[i] = checkpoint[i]
  BY <1>2 DEF QuietIn, Continues
<1>3. ASSUME checkpoint'[i] # checkpoint[i]
      PROVE  /\ e.inv = i /\ checkpoint'[i].next = e.node
             /\ e.pc \in {"node", "second"} \/ (e.pc = "returning" /\ f.pc = "idle")
  BY <1>1, <1>3 DEF Continues
<1>4. CASE checkpoint'[i] # checkpoint[i]
  <2>1. e.pc \in {"node", "second"} => ~Waits(checkpoint'[i])
    BY <1>1, <1>3, <1>4 DEF WorkerIn, Waits, Decided
  <2>2. /\ invoices'[i] # "ABSENT" /\ dlq' = dlq
        /\ \A d \in 1..Len(dlq) : ~(dlq[d].status = "PENDING" /\ dlq[d].inv = i)
    BY <1>3, <1>4 DEF QuietIn, Continues
  <2> QED
    BY <1>3, <1>4, <2>1, <2>2 DEF QuietIn
<1> QED
  BY <1>2, <1>4

\* A failure leaves the invoice's only PENDING entry.
LEMMA QuietRecords ==
    ASSUME SystemInv, NEW w \in Workers, RecordFailure(w), NEW i \in Invoices,
           QuietIn(invoices, checkpoint, exec[w], dlq, i)
    PROVE  QuietIn(invoices', checkpoint', exec'[w], dlq', i)
<1>1. exec \in [Workers -> Execs] /\ exec[w] \in Execs /\ dlq \in Seq(DLQRow)
  BY WorkerFacts, RowFacts
<1> DEFINE row == [inv |-> exec[w].inv, run |-> SnapshotRun(w), status |-> "PENDING"]
           n == Len(dlq) + 1
<1>2. /\ exec[w].pc = "raised" /\ dlq' = Append(dlq, row) /\ exec'[w] = Idle
      /\ invoices' = invoices /\ checkpoint' = checkpoint
  BY <1>1 DEF RecordFailure
<1>3. /\ Len(dlq') = n /\ dlq'[n] = row /\ Len(dlq) \in Nat
      /\ \A d \in 1..Len(dlq) : dlq'[d] = dlq[d]
  BY <1>1, <1>2, AppendProperties, LenProperties
<1>4. row.inv = exec[w].inv /\ exec'[w].pc = "idle"
  BY <1>2 DEF Idle
<1> HIDE DEF row
<1>5. \A d \in 1..n : d \in 1..Len(dlq) \/ d = n
  BY <1>3
<1> HIDE DEF n
<1>6. CASE exec[w].inv = i
  BY <1>2, <1>3, <1>4, <1>5, <1>6 DEF QuietIn
<1>7. CASE exec[w].inv # i
  BY <1>2, <1>3, <1>4, <1>5, <1>7 DEF QuietIn
<1> QED
  BY <1>6, <1>7

\* A claim takes the invoice's only PENDING entry.
LEMMA QuietClaims ==
    ASSUME ReplayInv, NEW w \in Workers, ReplayClaim(w), NEW i \in Invoices,
           QuietIn(invoices, checkpoint, exec[w], dlq, i)
    PROVE  QuietIn(invoices', checkpoint', exec'[w], dlq', i)
<1>1. exec \in [Workers -> Execs] /\ exec[w] \in Execs /\ dlq \in Seq(DLQRow)
  BY WorkerFacts, RowFacts DEF ReplayInv
<1>2. PICK k : k = exec[w].entry
  OBVIOUS
<1> DEFINE row == [dlq[k] EXCEPT !.status = "REPLAYED"]
<1>3. /\ exec[w].pc = "claim" /\ dlq' = Updated(dlq, k, row)
      /\ exec'[w] = Called(dlq[k].inv, 1)
      /\ invoices' = invoices /\ checkpoint' = checkpoint
  BY <1>1, <1>2 DEF ReplayClaim, Updated
<1>4. /\ k \in 1..Len(dlq) /\ dlq[k] \in DLQRow
      /\ dlq[k].status = "PENDING" /\ dlq[k].inv = exec[w].inv
  BY <1>1, <1>2, <1>3, WorkerFacts DEF ExecIn, ReplayInv
<1>5. row \in DLQRow /\ row.status = "REPLAYED" /\ row.inv = dlq[k].inv
  BY <1>4 DEF DLQRow
<1> HIDE DEF row
<1>6. /\ Len(dlq') = Len(dlq) /\ dlq'[k] = row
      /\ \A d \in 1..Len(dlq) : d # k => dlq'[d] = dlq[d]
  BY <1>1, <1>3, <1>4, <1>5, DLQUpdate, ZenonT(40)
<1>7. exec'[w].inv = exec[w].inv
  BY <1>3, <1>4 DEF Called, Idle
<1>8. CASE exec[w].inv = i
  BY <1>3, <1>4, <1>5, <1>6, <1>7, <1>8 DEF QuietIn
<1>9. CASE exec[w].inv # i
  BY <1>3, <1>4, <1>5, <1>6, <1>7, <1>9 DEF QuietIn
<1> QED
  BY <1>8, <1>9

\* An upload or an operator gives the idle worker its invoice.
LEMMA QuietRequests ==
    ASSUME SystemInv, NEW w \in Workers, NEW i \in Invoices,
           QuietIn(invoices, checkpoint, exec[w], dlq, i),
           \/ \E j \in Invoices : Accept(w, j)
           \/ \E d \in 1..Len(dlq) : ReplayRead(w, d)
    PROVE  QuietIn(invoices', checkpoint', exec'[w], dlq', i)
<1>1. exec \in [Workers -> Execs] /\ invoices \in [Invoices -> InvoiceStatus]
  BY WorkerFacts DEF SystemInv, TypeOK
<1>2. ASSUME NEW j \in Invoices, Accept(w, j)
      PROVE  QuietIn(invoices', checkpoint', exec'[w], dlq', i)
  <2>1. /\ invoices[j] = "ABSENT" /\ invoices' = [invoices EXCEPT ![j] = "RECEIVED"]
        /\ exec'[w].inv = j /\ checkpoint' = checkpoint /\ dlq' = dlq
    BY <1>1, <1>2 DEF Accept, Called, Idle
  <2>2. CASE i = j
    BY <1>1, <2>1, <2>2 DEF QuietIn
  <2>3. CASE i # j
    BY <1>1, <2>1, <2>3 DEF QuietIn
  <2> QED
    BY <2>2, <2>3
<1>3. ASSUME NEW d \in 1..Len(dlq), ReplayRead(w, d)
      PROVE  QuietIn(invoices', checkpoint', exec'[w], dlq', i)
  <2>1. /\ exec'[w].inv = dlq[d].inv /\ exec'[w].pc = "claim" /\ dlq[d].status = "PENDING"
        /\ invoices' = invoices /\ checkpoint' = checkpoint /\ dlq' = dlq
    BY <1>1, <1>3 DEF ReplayRead, Idle, tables
  <2>2. CASE i = dlq[d].inv
    BY <2>1, <2>2 DEF QuietIn
  <2>3. CASE i # dlq[d].inv
    BY <2>1, <2>3 DEF QuietIn
  <2> QED
    BY <2>2, <2>3
<1> QED
  BY <1>2, <1>3

\* As long as nobody calls run_invoice again, no waiting thread is touched.
LEMMA QuietNext ==
    ASSUME HumanInv, [Next]_vars, NEW w, OneExecutor(w), reruns = 0, reruns' = 0,
           NEW i \in Invoices
    PROVE  \/ DecidedIn(exceptions', decisions', i)
           \/ QuietIn(invoices', checkpoint', exec'[w], dlq', i)
<1>1. /\ w \in Workers /\ SystemInv /\ ViewInv /\ ReplayInv
      /\ Decided(i) \/ QuietIn(invoices, checkpoint, exec[w], dlq, i)
  BY DEF HumanInv, ViewInv, OneExecutor
<1>2. Decided(i) => DecidedIn(exceptions', decisions', i)
  BY <1>1, DecidedKept DEF Decided
<1>3. invoices'[i] = "ABSENT" => invoices[i] = "ABSENT"
  BY <1>1, InvoicesKnown
<1> SUFFICES ASSUME ~Decided(i), QuietIn(invoices, checkpoint, exec[w], dlq, i)
             PROVE  \/ DecidedIn(exceptions', decisions', i)
                    \/ QuietIn(invoices', checkpoint', exec'[w], dlq', i)
  BY <1>1, <1>2
<1>4. CASE exec' = exec /\ checkpoint' = checkpoint /\ dlq' = dlq
  BY <1>3, <1>4 DEF QuietIn
<1>5. CASE PipelineNext
  <2>1. CASE \E j \in Invoices : Duplicate(j)
    BY <1>4, <2>1 DEF Duplicate
  <2>2. CASE RecordFailure(w)
    BY <1>1, <2>2, QuietRecords
  <2>3. CASE ReplayClaim(w)
    BY <1>1, <2>3, QuietClaims
  <2>4. CASE NodeStep(w) \/ RunnerStep(w) \/ FaultStep(w)
    BY <1>1, <1>3, <2>2, <2>3, <2>4, WorkerContinues, QuietContinues
  <2>5. CASE RequestStep(w)
    <3>1. ASSUME NEW j \in Invoices, Rerun(w, j) PROVE FALSE
      BY <3>1 DEF Rerun
    <3> QED
      BY <1>1, <2>5, <3>1, QuietRequests DEF RequestStep
  <2> QED
    BY <1>5, <2>1, <2>4, <2>5 DEF PipelineNext, OneExecutor
<1>6. ASSUME NEW q \in Requests, DecideResume(q, w)
      PROVE  \/ DecidedIn(exceptions', decisions', i)
             \/ QuietIn(invoices', checkpoint', exec'[w], dlq', i)
  <2>1. PICK j \in Invoices : /\ Decided(j) /\ exec'[w].inv = j
                              /\ \A k \in Invoices : k # j => checkpoint'[k] = checkpoint[k]
    BY <1>1, <1>6, ResumeMoves
  <2>2. dlq' = dlq /\ i # j
    BY <1>6, <2>1 DEF DecideResume, tables
  <2> QED
    BY <1>3, <2>1, <2>2 DEF QuietIn
<1>7. ASSUME NEW q \in Requests, DecisionStep(q), ~DecideResume(q, w)
      PROVE  exec' = exec /\ checkpoint' = checkpoint /\ dlq' = dlq
  BY <1>7 DEF DecisionStep, DecideRead, DecideClaim, DecideResolve, DecideEscalate,
              DecideResume, DecideFailure, ResumeFailure, pipelineVars, tables, OneExecutor
<1>8. CASE UNCHANGED vars
  BY <1>4, <1>8 DEF vars, pipelineVars, tables
<1> QED
  BY <1>4, <1>5, <1>6, <1>7, <1>8 DEF Next

\* Nobody takes a call back.
LEMMA GuardedBefore ==
    ASSUME SystemInv, [Next]_vars
    PROVE  reruns' = 0 => reruns = 0
<1>1. reruns \in Nat
  BY DEF SystemInv, TypeOK
<1>2. ASSUME NEW w \in Workers, NodeStep(w) PROVE reruns' = reruns
  BY <1>2 DEF NodeStep, Ingest, Extract, Validate, Backfill, Match3way, Embed, Policy, Gate,
              AutoApprove, ExceptionTriage, HumanReview, Archive, LogOnly, SecondLog, bounds
<1>3. ASSUME NEW w \in Workers, RunnerStep(w) \/ FaultStep(w) PROVE reruns' = reruns
  BY <1>3
     DEF RunnerStep, RunInvoice, Resume, Start, Persist, Return, IngestNoRun, RecordFailure,
         RecordFailureRefused, ReplayClaim, FaultStep, InfraFailure, BusinessFailure,
         PersistFailure, RecordFailureFails, Crash, bounds
<1>4. ASSUME NEW w \in Workers, RequestStep(w) PROVE reruns' = reruns \/ reruns' = reruns + 1
  BY <1>4 DEF RequestStep, Accept, Rerun, ReplayRead, bounds
<1>5. ASSUME NEW i \in Invoices, Duplicate(i) PROVE reruns' = reruns
  BY <1>5 DEF Duplicate, bounds
<1>6. ASSUME NEW q \in Requests, DecisionStep(q) PROVE reruns' = reruns
  BY <1>6 DEF DecisionStep, DecideRead, DecideClaim, DecideResolve, DecideEscalate,
              DecideResume, DecideFailure, ResumeFailure, pipelineVars, bounds
<1>7. UNCHANGED vars => reruns' = reruns
  BY DEF vars, pipelineVars, bounds
<1>8. reruns' = reruns \/ reruns' = reruns + 1
  BY <1>2, <1>3, <1>4, <1>5, <1>6, <1>7 DEF Next, PipelineNext
<1> QED
  BY <1>1, <1>8

\* Every step of the only worker keeps the human in the loop.
LEMMA HumanNext ==
    ASSUME HumanInv, [Next]_vars, NEW w, OneExecutor(w), Guarded
    PROVE  HumanInv'
<1>1. ViewInv' /\ ReplayInv'
  BY ViewNext, ReplayNext DEF HumanInv
<1>2. ExceptionsLiveIn(runs', exceptions')
  BY ExceptionsLiveKept DEF HumanInv
<1>3. \A i \in Invoices : ThreadIn(exceptions', decisions', i, checkpoint'[i])
  BY ThreadsKept
<1>4. \A v \in Workers : WorkerIn(exceptions', decisions', checkpoint', exec'[v])
  BY WorkerStays DEF OneExecutor
<1>5. \A q \in Requests : ResumeIn(exceptions', decisions', requests'[q])
  BY RequestsKept
<1>6. CompletedIn(runs', exceptions', decisions')
  BY CompletedKept
<1>7. ASSUME reruns' = 0, NEW i \in Invoices, NEW v \in Workers
      PROVE  Decided(i)' \/ QuietIn(invoices', checkpoint', exec'[v], dlq', i)
  <2>1. reruns = 0 /\ v = w
    BY <1>7, GuardedBefore DEF HumanInv, ViewInv, OneExecutor
  <2> QED
    BY <1>7, <2>1, QuietNext DEF Decided
<1> QED
  BY <1>1, <1>2, <1>3, <1>4, <1>5, <1>6, <1>7 DEF HumanInv

\* At the start nothing is past its human.
LEMMA HumanInit == ASSUME Init PROVE HumanInv
<1>1. ViewInv /\ ReplayInv
  BY ViewInit, ReplayInit
<1>2. /\ runs = <<>> /\ exceptions = <<>> /\ dlq = <<>>
      /\ \A i \in Invoices : checkpoint[i].next = "new" /\ checkpoint[i].st = EmptyState
      /\ \A w \in Workers : exec[w].pc = "idle"
      /\ \A q \in Requests : requests[q].pc = "new"
  BY DEF Init, PipelineInit, Idle, NewRequest
<1>3. EmptyState.decision = NoDecision
  BY DEF EmptyState
<1>4. /\ \A i \in Invoices : ThreadIn(exceptions, decisions, i, checkpoint[i])
      /\ \A w \in Workers : WorkerIn(exceptions, decisions, checkpoint, exec[w])
      /\ \A q \in Requests : ResumeIn(exceptions, decisions, requests[q])
  BY <1>2, <1>3 DEF ThreadIn, PastHuman, WorkerIn, ResumeIn
<1>5. ExceptionsLiveIn(runs, exceptions) /\ CompletedIn(runs, exceptions, decisions)
  BY <1>2 DEF ExceptionsLiveIn, CompletedIn
<1>6. \A i \in Invoices : \A w \in Workers :
         QuietIn(invoices, checkpoint, exec[w], dlq, i)
  BY <1>2 DEF QuietIn, Waits
<1> QED
  BY <1>1, <1>4, <1>5, <1>6 DEF HumanInv

\* The decided exception is the archived run's own.
LEMMA HumanInvArchived == ASSUME HumanInv PROVE ArchivedOnlyAfterDecision
<1> SUFFICES ASSUME NEW r \in 1..Len(runs),
                    runs[r].status = "COMPLETED", runs[r].route = "EXCEPTION"
             PROVE  \E x \in 1..Len(exceptions) :
                       exceptions[x].run = r /\ Resolutions(x) # {}
  BY DEF ArchivedOnlyAfterDecision
<1>1. /\ ViewInv /\ ExceptionsLiveIn(runs, exceptions)
      /\ CompletedIn(runs, exceptions, decisions) /\ OneLiveIn(runs)
      /\ ReferencesIn(runs, exceptions, decisions)
  BY RowFacts DEF HumanInv, ViewInv
<1>2. PICK d \in 1..Len(decisions) : /\ decisions[d].action # "ESCALATE"
                                     /\ exceptions[decisions[d].exc].inv = runs[r].inv
  BY <1>1 DEF CompletedIn, DecidedIn
<1>3. PICK x : x = decisions[d].exc
  OBVIOUS
<1>4. x \in 1..Len(exceptions) /\ exceptions[x].run \in 1..Len(runs)
  BY <1>1, <1>3, RowFacts DEF ReferencesIn, ViewInv
<1>5. runs[exceptions[x].run].inv = runs[r].inv /\ runs[exceptions[x].run].status # "REJECTED"
  BY <1>1, <1>2, <1>3, <1>4 DEF ReferencesIn, ExceptionsLiveIn
<1>6. exceptions[x].run = r
  BY <1>1, <1>4, <1>5 DEF OneLiveIn
<1>7. d \in Resolutions(x)
  BY <1>2, <1>3 DEF Resolutions
<1> QED
  BY <1>4, <1>6, <1>7

\* An exception run is archived only after a human resolved an exception of
\* that run: with one worker, nothing that the system does on its own account
\* (retries, crashes, failed checkpoint writes, replays, resumes, with any
\* number of concurrent requests) carries the graph past human_review; only one
\* more call of run_invoice could, and only if LangGraph does not report its
\* interrupts (GraphRunner.run_invoice, submit_decision, DLQService.replay and
\* DecisionService.decide together).
THEOREM ArchivedAfterDecision ==
    ASSUME NEW w, OneExecutor(w)
    PROVE  Spec => []OnlyARerunPassesHuman
<1> DEFINE CareInv == SystemInv /\ (Guarded => HumanInv)
<1>1. Init => CareInv
  BY InitOK, HumanInit
<1>2. CareInv /\ [Next]_vars => CareInv'
  <2> SUFFICES ASSUME CareInv, [Next]_vars PROVE CareInv'
    OBVIOUS
  <2>1. Guarded' => Guarded
    BY GuardedBefore DEF Guarded
  <2> QED
    BY <2>1, HumanNext, NextOK
<1>3. CareInv => OnlyARerunPassesHuman
  BY HumanInvArchived DEF Guarded, OnlyARerunPassesHuman
<1> QED
  BY <1>1, <1>2, <1>3, PTL DEF Spec

-----------------------------------------------------------------------------
(* The queue and the dashboard *)

\* No checkpoint write fails and no process dies: what a node has committed
\* is in its thread's next checkpoint.
CheckpointsKept == Faults \cap {"persist", "crash"} = {}

\* Where invoice i's thread is: in the worker's memory while it runs it.
ThreadOf(ck, e, i) ==
    IF e.pc \in {"node", "second", "returning"} /\ e.inv = i
    THEN [next |-> e.node, st |-> e.st] ELSE ck[i]

RouteOf(ck, e, i) == ThreadOf(ck, e, i).st.route

\* A thread is routed exactly once: what follows a route never routes again.
Placed(c) == c.st.route = "none" \/ c.next \in {"human_review", "archive", "end"}

\* What the worker has saved is the latest checkpoint, and it starts only a
\* thread that is not routed.
DriverIn(ck, e) ==
    /\ e.pc \in {"node", "second", "returning"} /\ e.saved
          => ck[e.inv] = [next |-> e.node, st |-> e.st]
    /\ e.pc = "fresh" => ck[e.inv].st.route = "none"

ThreadsPlacedIn(ck, e) ==
    DriverIn(ck, e) /\ \A i \in Invoices : Placed(ThreadOf(ck, e, i))

\* What a step does to the threads, and to their routes.
ThreadsSame(w) ==
    \A i \in Invoices : ThreadOf(checkpoint', exec'[w], i) = ThreadOf(checkpoint, exec[w], i)

RoutesKept(w) ==
    \A i \in Invoices : RouteOf(checkpoint', exec'[w], i) = RouteOf(checkpoint, exec[w], i)

Routed(w, route) ==
    \A i \in Invoices :
        IF i = exec[w].inv
        THEN RouteOf(checkpoint, exec[w], i) = "none" /\ RouteOf(checkpoint', exec'[w], i) = route
        ELSE RouteOf(checkpoint', exec'[w], i) = RouteOf(checkpoint, exec[w], i)

\* A completed node moves its own thread on.
LEMMA AdvanceThreads ==
    ASSUME SystemInv, NEW w \in Workers, ThreadsPlacedIn(checkpoint, exec[w]),
           exec[w].pc \in {"node", "second"}, exec[w].node \in Nodes, exec[w].inv \in Invoices,
           checkpoint' = checkpoint, NEW st, Advance(w, st),
           st.route = exec[w].st.route \/ exec[w].node \in {"auto_approve", "exception_triage"}
    PROVE  /\ ThreadsPlacedIn(checkpoint', exec'[w])
           /\ \A i \in Invoices : ThreadOf(checkpoint', exec'[w], i) =
                 IF i = exec[w].inv THEN [next |-> NextNode(exec[w].node, st), st |-> st]
                 ELSE ThreadOf(checkpoint, exec[w], i)
<1> DEFINE e == exec[w]
           f == exec'[w]
           next == NextNode(e.node, st)
<1>1. exec \in [Workers -> Execs] /\ e \in Execs
  BY WorkerFacts
<1>2. /\ f.st = st /\ f.node = next /\ f.inv = e.inv /\ f.saved = FALSE
      /\ f.pc \in {"node", "returning"}
  BY <1>1 DEF Advance, Execs
<1>3. Placed([next |-> e.node, st |-> e.st])
  BY DEF ThreadsPlacedIn, ThreadOf
<1>4. st.route = "none" \/ next \in {"human_review", "archive", "end"}
  <2>1. CASE e.node \in {"auto_approve", "exception_triage"}
    BY <2>1 DEF NextNode
  <2>2. CASE st.route = e.st.route /\ e.st.route # "none"
    <3>1. e.node \in {"human_review", "archive", "end"}
      BY <1>3, <2>2 DEF Placed
    <3> QED
      BY <3>1 DEF NextNode
  <2> QED
    BY <2>1, <2>2
<1> HIDE DEF next
<1>5. \A i \in Invoices : ThreadOf(checkpoint', f, i) =
          IF i = e.inv THEN [next |-> next, st |-> st] ELSE ThreadOf(checkpoint, e, i)
  BY <1>2 DEF ThreadOf
<1>6. \A i \in Invoices : Placed(ThreadOf(checkpoint', f, i))
  <2>1. Placed([next |-> next, st |-> st])
    BY <1>4 DEF Placed
  <2> QED
    BY <1>5, <2>1 DEF ThreadsPlacedIn
<1>7. DriverIn(checkpoint', f)
  BY <1>2 DEF DriverIn
<1> QED
  BY <1>5, <1>6, <1>7 DEF ThreadsPlacedIn, next

\* A node routes its thread only if it is auto_approve or exception_triage.
LEMMA NodeRoutes ==
    ASSUME SystemInv, NEW w \in Workers, ThreadsPlacedIn(checkpoint, exec[w]), NodeStep(w)
    PROVE  /\ ThreadsPlacedIn(checkpoint', exec'[w])
           /\ \/ RoutesKept(w) /\ ~AutoApprove(w) /\ ~ExceptionTriage(w)
              \/ Routed(w, "AUTO") /\ AutoApprove(w)
              \/ Routed(w, "EXCEPTION") /\ ExceptionTriage(w)
<1> DEFINE e == exec[w]
           f == exec'[w]
<1>1. /\ exec \in [Workers -> Execs] /\ e \in Execs /\ e.st \in GraphState
      /\ e.pc \in {"node", "second"} => e.inv \in Invoices /\ e.node \in Nodes
  BY WorkerFacts DEF ExecIn
<1>2. ASSUME e.pc \in {"node", "second"}
      PROVE  /\ RouteOf(checkpoint, e, e.inv) = e.st.route
             /\ e.node \in {"auto_approve", "exception_triage"} => e.st.route = "none"
  <2>1. ThreadOf(checkpoint, e, e.inv) = [next |-> e.node, st |-> e.st]
    BY <1>2 DEF ThreadOf
  <2>2. Placed([next |-> e.node, st |-> e.st])
    BY <1>1, <1>2, <2>1 DEF ThreadsPlacedIn
  <2> QED
    BY <2>1, <2>2 DEF RouteOf, Placed
<1>3. ASSUME e.pc \in {"node", "second"}, checkpoint' = checkpoint, NEW st, Advance(w, st),
             st.route = e.st.route, e.node \notin {"auto_approve", "exception_triage"}
      PROVE  ThreadsPlacedIn(checkpoint', f) /\ RoutesKept(w)
             /\ ~AutoApprove(w) /\ ~ExceptionTriage(w)
  <2>1. e.node \in Nodes /\ e.inv \in Invoices /\ ThreadsPlacedIn(checkpoint, e)
    BY <1>1, <1>3
  <2>2. /\ ThreadsPlacedIn(checkpoint', f)
        /\ \A i \in Invoices : ThreadOf(checkpoint', f, i) =
              IF i = e.inv THEN [next |-> NextNode(e.node, st), st |-> st]
              ELSE ThreadOf(checkpoint, e, i)
    BY <1>3, <2>1, AdvanceThreads
  <2>3. RoutesKept(w)
    BY <1>2, <1>3, <2>2 DEF RoutesKept, RouteOf
  <2> QED
    BY <1>3, <2>2, <2>3 DEF AutoApprove, ExceptionTriage, At
<1>4. ASSUME e.pc \in {"node", "second"}, checkpoint' = checkpoint, NEW route,
             Advance(w, [e.st EXCEPT !.route = route]),
             e.node \in {"auto_approve", "exception_triage"}
      PROVE  ThreadsPlacedIn(checkpoint', f) /\ Routed(w, route)
  <2>1. [e.st EXCEPT !.route = route].route = route
    BY <1>1 DEF GraphState
  <2>2. e.node \in Nodes /\ e.inv \in Invoices /\ ThreadsPlacedIn(checkpoint, e)
    BY <1>1, <1>4
  <2> DEFINE st == [e.st EXCEPT !.route = route]
  <2>3. Advance(w, st) /\ st.route = route
    BY <1>4, <2>1
  <2> HIDE DEF st
  <2>4. /\ ThreadsPlacedIn(checkpoint', f)
        /\ \A i \in Invoices : ThreadOf(checkpoint', f, i) =
              IF i = e.inv THEN [next |-> NextNode(e.node, st), st |-> st]
              ELSE ThreadOf(checkpoint, e, i)
    BY <1>4, <2>2, <2>3, AdvanceThreads
  <2> QED
    BY <1>2, <1>4, <2>3, <2>4 DEF Routed, RouteOf
<1>5. ASSUME NEW node \in Nodes, NEW v, NEW st, LogOnly(w, node, v, st) \/ SecondLog(w, node, v, st),
             st.route = e.st.route, node # "auto_approve", node # "exception_triage"
      PROVE  ThreadsPlacedIn(checkpoint', f) /\ RoutesKept(w)
             /\ ~AutoApprove(w) /\ ~ExceptionTriage(w)
  <2>1. /\ e.pc \in {"node", "second"} /\ e.node = node /\ Advance(w, st)
        /\ checkpoint' = checkpoint
    BY <1>5 DEF LogOnly, SecondLog, At
  <2> QED
    BY <1>3, <1>5, <2>1
<1>6. CASE Backfill(w) \/ Embed(w)
  <2>1. /\ e.pc = "node" /\ exec' = [exec EXCEPT ![w].pc = "second"] /\ checkpoint' = checkpoint
        /\ e.node \in {"match3way", "policy"}
    BY <1>6 DEF Backfill, Embed, At
  <2>2. /\ f.pc = "second" /\ f.inv = e.inv /\ f.node = e.node /\ f.st = e.st
        /\ f.saved = e.saved
    BY <1>1, <2>1 DEF Execs
  <2>3. \A i \in Invoices : ThreadOf(checkpoint', f, i) = ThreadOf(checkpoint, e, i)
    BY <2>1, <2>2 DEF ThreadOf
  <2>4. DriverIn(checkpoint', f)
    BY <2>1, <2>2 DEF DriverIn, ThreadsPlacedIn
  <2>5. ~AutoApprove(w) /\ ~ExceptionTriage(w)
    BY <2>1 DEF AutoApprove, ExceptionTriage, At
  <2> QED
    BY <2>3, <2>4, <2>5 DEF ThreadsPlacedIn, RoutesKept, RouteOf
<1>7. CASE Extract(w)
  <2>1. [e.st EXCEPT !.extraction = TRUE].route = e.st.route
    BY <1>1 DEF GraphState
  <2> QED
    BY <1>5, <1>7, <2>1 DEF Extract, Nodes
<1>8. CASE Validate(w)
  <2>1. \A v : [e.st EXCEPT !.validation = v].route = e.st.route
    BY <1>1 DEF GraphState
  <2> QED
    BY <1>5, <1>8, <2>1 DEF Validate, Nodes
<1>9. CASE Match3way(w)
  <2>1. \A v : [e.st EXCEPT !.match = v].route = e.st.route
    BY <1>1 DEF GraphState
  <2> QED
    BY <1>5, <1>9, <2>1 DEF Match3way, Nodes
<1>10. CASE Policy(w)
  <2>1. \A v : [e.st EXCEPT !.policy = v].route = e.st.route
    BY <1>1 DEF GraphState
  <2> QED
    BY <1>5, <1>10, <2>1 DEF Policy, Nodes
<1>11. CASE Gate(w)
  <2>1. \A v : [e.st EXCEPT !.gate = v].route = e.st.route
    BY <1>1 DEF GraphState
  <2> QED
    BY <1>5, <1>11, <2>1 DEF Gate, Nodes
<1>12. CASE HumanReview(w)
  BY <1>5, <1>12 DEF HumanReview, Nodes
<1>13. CASE Ingest(w)
  <2>1. PICK r : Advance(w, [e.st EXCEPT !.run = r])
    BY <1>13 DEF Ingest
  <2>2. [e.st EXCEPT !.run = r].route = e.st.route
    BY <1>1 DEF GraphState
  <2>3. e.pc \in {"node", "second"} /\ e.node = "ingest" /\ checkpoint' = checkpoint
    BY <1>13 DEF Ingest, At
  <2> QED
    BY <1>3, <2>1, <2>2, <2>3
<1>14. CASE AutoApprove(w)
  <2>1. /\ e.pc = "node" /\ e.node = "auto_approve" /\ checkpoint' = checkpoint
        /\ Advance(w, [e.st EXCEPT !.route = "AUTO"])
    BY <1>14 DEF AutoApprove, At
  <2> QED
    BY <1>4, <1>14, <2>1
<1>15. CASE ExceptionTriage(w)
  <2>1. /\ e.pc = "node" /\ e.node = "exception_triage" /\ checkpoint' = checkpoint
        /\ Advance(w, [e.st EXCEPT !.route = "EXCEPTION"])
    BY <1>15 DEF ExceptionTriage, At
  <2> QED
    BY <1>4, <1>15, <2>1
<1>16. CASE Archive(w)
  <2>1. /\ e.pc = "node" /\ e.node = "archive" /\ checkpoint' = checkpoint
        /\ Advance(w, e.st)
    BY <1>16 DEF Archive, At
  <2> QED
    BY <1>3, <2>1
<1> QED
  BY <1>6, <1>7, <1>8, <1>9, <1>10, <1>11, <1>12, <1>13, <1>14, <1>15, <1>16 DEF NodeStep

\* A step of the runner, of the environment or of a caller routes nothing:
\* while no checkpoint is lost, what leaves the worker's memory is what its
\* next checkpoint says.
LEMMA RunnerRoutes ==
    ASSUME SystemInv, NEW w \in Workers, ThreadsPlacedIn(checkpoint, exec[w]), CheckpointsKept,
           RunnerStep(w) \/ FaultStep(w) \/ RequestStep(w)
    PROVE  /\ ThreadsPlacedIn(checkpoint', exec'[w]) /\ RoutesKept(w)
           /\ Start(w) \/ ThreadsSame(w)
<1> DEFINE e == exec[w]
           f == exec'[w]
           InMemory == {"node", "second", "returning"}
<1>1. /\ exec \in [Workers -> Execs] /\ e \in Execs /\ checkpoint \in [Invoices -> Checkpoints]
      /\ e.pc # "idle" => e.inv \in Invoices
      /\ DriverIn(checkpoint, e) /\ \A i \in Invoices : Placed(ThreadOf(checkpoint, e, i))
  BY WorkerFacts DEF ExecIn, SystemInv, TypeOK, ThreadsPlacedIn
<1>2. ASSUME \A i \in Invoices : ThreadOf(checkpoint', f, i) = ThreadOf(checkpoint, e, i),
             DriverIn(checkpoint', f)
      PROVE  ThreadsPlacedIn(checkpoint', f) /\ RoutesKept(w) /\ ThreadsSame(w)
  BY <1>1, <1>2 DEF ThreadsPlacedIn, RoutesKept, RouteOf, ThreadsSame
<1>3. ASSUME e.pc \notin InMemory, f.pc \notin InMemory, f.pc # "fresh", checkpoint' = checkpoint
      PROVE  ThreadsPlacedIn(checkpoint', f) /\ RoutesKept(w) /\ ThreadsSame(w)
  BY <1>2, <1>3 DEF ThreadOf, DriverIn
<1>4. ASSUME e.pc \in InMemory, f.pc \notin InMemory, f.pc # "fresh", Flush(w)
      PROVE  ThreadsPlacedIn(checkpoint', f) /\ RoutesKept(w) /\ ThreadsSame(w)
  <2>1. \A i \in Invoices : checkpoint'[i] = ThreadOf(checkpoint, e, i)
    BY <1>1, <1>4 DEF Flush, Live, ThreadOf, DriverIn
  <2>2. \A i \in Invoices : ThreadOf(checkpoint', f, i) = checkpoint'[i]
    BY <1>4 DEF ThreadOf
  <2>3. DriverIn(checkpoint', f)
    BY <1>4 DEF DriverIn
  <2> QED
    BY <1>2, <2>1, <2>2, <2>3
<1>5. ASSUME e.pc \notin InMemory, exec' = [exec EXCEPT ![w] = Idle], checkpoint' = checkpoint
      PROVE  ThreadsPlacedIn(checkpoint', f) /\ RoutesKept(w) /\ ThreadsSame(w)
  BY <1>1, <1>3, <1>5 DEF Idle
<1>6. ASSUME e.pc \notin InMemory, NEW i, NEW n, exec' = [exec EXCEPT ![w] = Called(i, n)],
             checkpoint' = checkpoint
      PROVE  ThreadsPlacedIn(checkpoint', f) /\ RoutesKept(w) /\ ThreadsSame(w)
  BY <1>1, <1>3, <1>6 DEF Idle, Called
<1>7. ASSUME Raise(w), e.pc \in {"node", "second"}
      PROVE  ThreadsPlacedIn(checkpoint', f) /\ RoutesKept(w) /\ ThreadsSame(w)
  BY <1>1, <1>4, <1>7 DEF Raise, Execs
<1>8. ASSUME e.pc \in {"node", "second"}, f.pc \in {"node", "second"}, f.inv = e.inv,
             f.node = e.node, f.st = e.st, f.saved = e.saved, checkpoint' = checkpoint
      PROVE  ThreadsPlacedIn(checkpoint', f) /\ RoutesKept(w) /\ ThreadsSame(w)
  BY <1>1, <1>2, <1>8 DEF ThreadOf, DriverIn
<1>9. CASE RunInvoice(w)
  <2>1. e.pc = "call" /\ checkpoint' = checkpoint
    BY <1>9 DEF RunInvoice
  <2>2. CASE exec' = [exec EXCEPT ![w] = Idle]
    BY <1>5, <2>1, <2>2
  <2>3. CASE exec' = [exec EXCEPT ![w].pc = "resume"]
    BY <1>1, <1>3, <2>1, <2>3 DEF Execs
  <2>4. CASE exec' = [exec EXCEPT ![w].pc = "fresh"] /\ checkpoint[e.inv].next = "new"
    <3>1. f.pc = "fresh" /\ f.inv = e.inv
      BY <1>1, <2>4 DEF Execs
    <3>2. ThreadOf(checkpoint, e, e.inv) = checkpoint[e.inv] /\ e.inv \in Invoices
      BY <1>1, <2>1 DEF ThreadOf
    <3>3. checkpoint[e.inv].st.route = "none"
      BY <1>1, <2>4, <3>2 DEF Placed
    <3>4. DriverIn(checkpoint', f)
      BY <2>1, <3>1, <3>3 DEF DriverIn
    <3> QED
      BY <1>2, <2>1, <3>1, <3>4 DEF ThreadOf
  <2> QED
    BY <1>9, <2>2, <2>3, <2>4 DEF RunInvoice
<1>10. CASE Resume(w)
  <2>1. e.pc = "resume" /\ checkpoint' = checkpoint /\ e.inv \in Invoices
    BY <1>1, <1>10 DEF Resume
  <2>2. CASE checkpoint[e.inv].next \in Nodes
    <3>1. /\ f.pc = "node" /\ f.inv = e.inv /\ f.node = checkpoint[e.inv].next
          /\ f.st = checkpoint[e.inv].st /\ f.saved = TRUE
      BY <1>1, <1>10, <2>2 DEF Resume, Execs
    <3>2. [next |-> f.node, st |-> f.st] = checkpoint[e.inv]
      BY <1>1, <2>1, <3>1 DEF Checkpoints
    <3>3. DriverIn(checkpoint', f)
      BY <2>1, <3>1, <3>2 DEF DriverIn
    <3> QED
      BY <1>2, <2>1, <3>1, <3>2, <3>3 DEF ThreadOf
  <2>3. CASE checkpoint[e.inv].next \notin Nodes
    BY <1>5, <1>10, <2>1, <2>3 DEF Resume
  <2> QED
    BY <2>2, <2>3
<1>11. CASE Start(w)
  <2>1. e.pc = "fresh" /\ checkpoint' = checkpoint /\ e.inv \in Invoices
    BY <1>1, <1>11 DEF Start
  <2>2. /\ f.pc = "node" /\ f.inv = e.inv /\ f.node = "ingest"
        /\ f.st = checkpoint[e.inv].st /\ f.saved = FALSE
    BY <1>1, <1>11 DEF Start, Execs
  <2>3. f.st.route = "none"
    BY <1>1, <2>1, <2>2 DEF DriverIn
  <2>4. DriverIn(checkpoint', f)
    BY <2>2 DEF DriverIn
  <2>5. \A i \in Invoices : /\ i # e.inv => ThreadOf(checkpoint', f, i) = ThreadOf(checkpoint, e, i)
                            /\ i = e.inv => ThreadOf(checkpoint', f, i) = [next |-> f.node, st |-> f.st]
                            /\ i = e.inv => ThreadOf(checkpoint, e, i) = checkpoint[e.inv]
    BY <2>1, <2>2 DEF ThreadOf
  <2>6. \A i \in Invoices : Placed(ThreadOf(checkpoint', f, i))
    BY <1>1, <2>3, <2>5 DEF Placed
  <2>7. RoutesKept(w)
    BY <2>2, <2>5 DEF RoutesKept, RouteOf
  <2> QED
    BY <1>11, <2>4, <2>6, <2>7 DEF ThreadsPlacedIn
<1>12. CASE Persist(w)
  <2>1. /\ e.pc \in {"node", "second"} /\ f.pc = e.pc /\ f.inv = e.inv /\ f.node = e.node
        /\ f.st = e.st /\ e.inv \in Invoices
        /\ checkpoint' = [checkpoint EXCEPT ![e.inv] = [next |-> e.node, st |-> e.st]]
    BY <1>1, <1>12 DEF Persist, Flush, Live, Execs
  <2>2. /\ checkpoint'[e.inv] = [next |-> e.node, st |-> e.st]
        /\ \A i \in Invoices : i # e.inv => checkpoint'[i] = checkpoint[i]
    BY <1>1, <2>1
  <2>3. DriverIn(checkpoint', f)
    BY <2>1, <2>2 DEF DriverIn
  <2> QED
    BY <1>2, <2>1, <2>2, <2>3 DEF ThreadOf
<1>13. CASE Return(w)
  BY <1>1, <1>4, <1>13 DEF Return, Idle
<1>14. CASE IngestNoRun(w)
  BY <1>7, <1>14 DEF IngestNoRun, At
<1>15. CASE RecordFailure(w) \/ RecordFailureRefused(w) \/ RecordFailureFails(w)
  BY <1>5, <1>15 DEF RecordFailure, RecordFailureRefused, RecordFailureFails
<1>16. CASE ReplayClaim(w)
  BY <1>6, <1>16 DEF ReplayClaim
<1>17. CASE InfraFailure(w)
  <2>1. CASE e.attempt < e.limit
    <3>1. /\ f.pc = "node" /\ f.inv = e.inv /\ f.node = e.node /\ f.st = e.st /\ f.saved = e.saved
          /\ e.pc \in {"node", "second"} /\ checkpoint' = checkpoint
      BY <1>1, <1>17, <2>1 DEF InfraFailure, Execs
    <3> QED
      BY <1>8, <3>1
  <2>2. CASE ~(e.attempt < e.limit)
    BY <1>7, <1>17, <2>2 DEF InfraFailure
  <2> QED
    BY <2>1, <2>2
<1>18. CASE BusinessFailure(w)
  BY <1>7, <1>18 DEF BusinessFailure
<1>19. CASE PersistFailure(w) \/ Crash(w)
  BY <1>19 DEF PersistFailure, Crash, Fault, CheckpointsKept
<1>20. CASE \E i \in Invoices : Accept(w, i) \/ Rerun(w, i)
  BY <1>6, <1>20 DEF Accept, Rerun
<1>21. ASSUME NEW d \in 1..Len(dlq), ReplayRead(w, d)
       PROVE  ThreadsPlacedIn(checkpoint', f) /\ RoutesKept(w) /\ ThreadsSame(w)
  BY <1>1, <1>3, <1>21 DEF ReplayRead, Idle
<1> QED
  BY <1>9, <1>10, <1>11, <1>12, <1>13, <1>14, <1>15, <1>16, <1>17, <1>18, <1>19, <1>20, <1>21
     DEF RunnerStep, FaultStep, RequestStep

\* A decision leaves the routes alone: it changes human_decision only.
LEMMA DecisionRoutes ==
    ASSUME SystemInv, NEW w \in Workers, ThreadsPlacedIn(checkpoint, exec[w]),
           NEW q \in Requests, DecisionStep(q), Workers = {w}
    PROVE  ThreadsPlacedIn(checkpoint', exec'[w]) /\ RoutesKept(w)
<1>1. CASE exec' = exec /\ checkpoint' = checkpoint
  BY <1>1 DEF RoutesKept
<1>2. CASE DecideResume(q, w)
  <2>1. PICK i : i = exceptions[requests[q].exc].inv
    OBVIOUS
  <2>2. /\ i \in Invoices /\ exec \in [Workers -> Execs]
        /\ checkpoint \in [Invoices -> Checkpoints]
    BY <1>2, <2>1, RequestFacts, WorkerFacts DEF DecideResume, ExceptionRow, SystemInv, TypeOK
  <2>3. /\ exec[w].pc = "idle"
        /\ checkpoint' = [checkpoint EXCEPT ![i].st.decision = requests[q].decision]
        /\ exec'[w] = [Called(i, RetryAttempts) EXCEPT !.pc = "resume"]
    BY <1>2, <2>1, <2>2 DEF DecideResume, SubmitDecision
  <2>4. exec'[w].pc = "resume"
    BY <2>3 DEF Called, Idle
  <2>5. \A j \in Invoices : /\ checkpoint'[j].next = checkpoint[j].next
                            /\ checkpoint'[j].st.route = checkpoint[j].st.route
    BY <2>2, <2>3 DEF Checkpoints, GraphState
  <2>6. \A j \in Invoices : /\ ThreadOf(checkpoint, exec[w], j) = checkpoint[j]
                            /\ ThreadOf(checkpoint', exec'[w], j) = checkpoint'[j]
    BY <2>3, <2>4 DEF ThreadOf
  <2>7. DriverIn(checkpoint', exec'[w])
    BY <2>4 DEF DriverIn
  <2> QED
    BY <2>5, <2>6, <2>7 DEF ThreadsPlacedIn, Placed, RoutesKept, RouteOf
<1> QED
  BY <1>1, <1>2 DEF DecisionStep, DecideRead, DecideClaim, DecideResolve, DecideEscalate,
                    DecideFailure, ResumeFailure, pipelineVars

\* Every step keeps the threads placed and routes at most one of them.
LEMMA StepRoutes ==
    ASSUME SystemInv, [Next]_vars, NEW w, OneExecutor(w), CheckpointsKept,
           ThreadsPlacedIn(checkpoint, exec[w])
    PROVE  /\ ThreadsPlacedIn(checkpoint', exec'[w])
           /\ \/ RoutesKept(w) /\ ~AutoApprove(w) /\ ~ExceptionTriage(w)
              \/ Routed(w, "AUTO") /\ AutoApprove(w)
              \/ Routed(w, "EXCEPTION") /\ ExceptionTriage(w)
<1>0. w \in Workers /\ Workers = {w}
  BY DEF OneExecutor
<1>1. CASE AutoApprove(w) \/ ExceptionTriage(w)
  BY <1>0, <1>1, NodeRoutes DEF NodeStep
<1>2. CASE exec' = exec /\ checkpoint' = checkpoint
  BY <1>1, <1>2 DEF RoutesKept
<1>3. CASE NodeStep(w)
  BY <1>0, <1>3, NodeRoutes
<1>4. CASE RunnerStep(w) \/ FaultStep(w) \/ RequestStep(w)
  BY <1>0, <1>1, <1>4, RunnerRoutes
<1>5. ASSUME NEW q \in Requests, DecisionStep(q)
      PROVE  ThreadsPlacedIn(checkpoint', exec'[w]) /\ RoutesKept(w)
  BY <1>0, <1>5, DecisionRoutes
<1>6. CASE \E i \in Invoices : Duplicate(i)
  BY <1>2, <1>6 DEF Duplicate
<1>7. CASE UNCHANGED vars
  BY <1>2, <1>7 DEF vars, pipelineVars
<1> QED
  BY <1>0, <1>1, <1>3, <1>4, <1>5, <1>6, <1>7 DEF Next, PipelineNext

\* The row of invoice i, its automatic approvals and its exceptions, given how
\* its thread is routed.
CaseIn(is, xs, i, x) ==
    /\ xs[x].status = "OPEN" => is[i] = "EXCEPTION"
    /\ xs[x].status = "RESOLVED" => is[i] \in {"DECISION_APPROVED", "RETURNED_TO_VENDOR"}

OnDesk(is, rs, lg, xs, i, route) ==
    /\ route = "none" => /\ is[i] \in {"ABSENT", "RECEIVED"}
                         /\ LoggedAt(rs, lg, i, Approved) = {} /\ OfInvoice(xs, i) = {}
    /\ route = "AUTO" => /\ is[i] = "AUTO_APPROVED"
                         /\ \E a : LoggedAt(rs, lg, i, Approved) = {a}
                         /\ OfInvoice(xs, i) = {}
    /\ route = "EXCEPTION" => /\ LoggedAt(rs, lg, i, Approved) = {}
                              /\ \E x : OfInvoice(xs, i) = {x} /\ CaseIn(is, xs, i, x)

DeskInv ==
    /\ SystemInv
    /\ \A w \in Workers :
          /\ ThreadsPlacedIn(checkpoint, exec[w])
          /\ \A i \in Invoices :
                OnDesk(invoices, runs, ledger, exceptions, i, RouteOf(checkpoint, exec[w], i))

\* Only auto_approve logs an automatic approval.
LEMMA ApprovalsKept ==
    ASSUME SystemInv, [Next]_vars, ~\E w \in Workers : AutoApprove(w), NEW i
    PROVE  LoggedAt(runs', ledger', i, Approved) = LoggedAt(runs, ledger, i, Approved)
<1>1. PlainRows \/ OpensRow \/ DecidesRow
  BY StepRows
<1>2. /\ Approved # Opened /\ Approved # Recorded
      /\ Approved # Ev("ingest.accepted") /\ Approved # Ev("ingest.duplicate")
  BY DEF Approved, Opened, Recorded, Ev
<1>3. ASSUME NEW r, NEW e, Logs(r, e), e # Approved
      PROVE  LoggedAt(runs', ledger', i, Approved) = LoggedAt(runs, ledger, i, Approved)
  BY <1>3, LogsAt, EventNamesDiffer
<1>4. ASSUME NEW j, NEW status, NEW route, NEW e, Creates(j, status, route, e), e # Approved
      PROVE  LoggedAt(runs', ledger', i, Approved) = LoggedAt(runs, ledger, i, Approved)
  BY <1>4, CreatesAt
<1>5. CASE PlainRows
  BY <1>2, <1>3, <1>4, <1>5, RewrittenAt DEF PlainRows
<1>6. CASE OpensRow
  BY <1>2, <1>3, <1>6 DEF OpensRow
<1>7. CASE DecidesRow
  BY <1>2, <1>3, <1>7 DEF DecidesRow
<1> QED
  BY <1>1, <1>5, <1>6, <1>7

\* Every row stays what it is to the desk.
DeskRowsKept ==
    /\ invoices' = invoices /\ Len(exceptions') = Len(exceptions)
    /\ \A x \in 1..Len(exceptions) : /\ exceptions'[x].inv = exceptions[x].inv
                                     /\ exceptions'[x].status = exceptions[x].status

\* An invoice is accepted.
AcceptsRow(i) ==
    /\ invoices[i] = "ABSENT" /\ invoices' = [invoices EXCEPT ![i] = "RECEIVED"]
    /\ exceptions' = exceptions

\* Exception x is resolved and its invoice settled.
ResolvesRow(x) ==
    /\ x \in 1..Len(exceptions) /\ Len(exceptions') = Len(exceptions)
    /\ exceptions'[x].inv = exceptions[x].inv /\ exceptions'[x].status = "RESOLVED"
    /\ \A y \in 1..Len(exceptions) : y # x => exceptions'[y] = exceptions[y]
    /\ \E s \in {"DECISION_APPROVED", "RETURNED_TO_VENDOR"} :
          invoices' = [invoices EXCEPT ![exceptions[x].inv] = s]

\* What a step that routes nothing does to the invoices and exceptions.
LEMMA DeskRows ==
    ASSUME SystemInv, [Next]_vars, ~\E w \in Workers : AutoApprove(w) \/ ExceptionTriage(w)
    PROVE  DeskRowsKept \/ (\E i \in Invoices : AcceptsRow(i)) \/ \E x : ResolvesRow(x)
<1>1. ASSUME invoices' = invoices, exceptions' = exceptions PROVE DeskRowsKept
  BY <1>1 DEF DeskRowsKept
<1>2. /\ exceptions \in Seq(ExceptionRow)
      /\ \A x \in 1..Len(exceptions) : exceptions[x] \in ExceptionRow
  BY RowFacts
<1>3. ASSUME NEW q \in Requests, requests[q].pc \in {"claim", "commit"}, NEW a \in Assignees,
             exceptions' = [exceptions EXCEPT ![requests[q].exc].assignee = a],
             invoices' = invoices
      PROVE  DeskRowsKept
  <2>1. PICK x : x = requests[q].exc
    OBVIOUS
  <2> DEFINE row == [exceptions[x] EXCEPT !.assignee = a]
  <2>2. x \in 1..Len(exceptions) /\ exceptions' = Updated(exceptions, x, row)
    BY <1>3, <2>1, RequestFacts DEF Updated
  <2>3. /\ row \in ExceptionRow /\ row.inv = exceptions[x].inv
        /\ row.status = exceptions[x].status
    BY <1>2, <2>2 DEF ExceptionRow
  <2> HIDE DEF row
  <2>4. /\ Len(exceptions') = Len(exceptions) /\ exceptions'[x] = row
        /\ \A y \in 1..Len(exceptions) : y # x => exceptions'[y] = exceptions[y]
    BY <1>2, <2>2, <2>3, ExceptionUpdate, ZenonT(40)
  <2> QED
    BY <1>3, <2>3, <2>4 DEF DeskRowsKept
<1>4. ASSUME NEW q \in Requests, DecideResolve(q) PROVE \E x : ResolvesRow(x)
  <2>1. PICK x : x = requests[q].exc
    OBVIOUS
  <2> DEFINE row == [exceptions[x] EXCEPT !.status = "RESOLVED"]
  <2>2. x \in 1..Len(exceptions) /\ exceptions' = Updated(exceptions, x, row)
    BY <1>4, <2>1, RequestFacts DEF Updated, DecideResolve
  <2>5. \E s \in {"DECISION_APPROVED", "RETURNED_TO_VENDOR"} :
           invoices' = [invoices EXCEPT ![exceptions[x].inv] = s]
    BY <1>4, <2>1 DEF DecideResolve
  <2>3. /\ row \in ExceptionRow /\ row.inv = exceptions[x].inv /\ row.status = "RESOLVED"
    BY <1>2, <2>2 DEF ExceptionRow
  <2> HIDE DEF row
  <2>4. /\ Len(exceptions') = Len(exceptions) /\ exceptions'[x] = row
        /\ \A y \in 1..Len(exceptions) : y # x => exceptions'[y] = exceptions[y]
    BY <1>2, <2>2, <2>3, ExceptionUpdate, ZenonT(40)
  <2> QED
    BY <2>2, <2>3, <2>4, <2>5 DEF ResolvesRow
<1>5. ASSUME NEW q \in Requests, DecideClaim(q) \/ \E t \in Users \cup {ManagerQueue} : DecideEscalate(q, t)
      PROVE  DeskRowsKept
  <2>1. PICK a : /\ a = requests[q].user \/ a \in Users \cup {ManagerQueue}
                 /\ exceptions' = [exceptions EXCEPT ![requests[q].exc].assignee = a]
                 /\ requests[q].pc \in {"claim", "commit"} /\ invoices' = invoices
    BY <1>5 DEF DecideClaim, DecideEscalate
  <2>2. a \in Assignees
    BY <2>1, RequestFacts DEF Assignees
  <2> QED
    BY <1>3, <2>1, <2>2
<1>6. ASSUME NEW q \in Requests, DecisionStep(q) PROVE DeskRowsKept \/ \E x : ResolvesRow(x)
  <2>1. CASE DecideResolve(q)
    BY <1>4, <2>1
  <2>2. CASE DecideClaim(q) \/ \E t \in Users \cup {ManagerQueue} : DecideEscalate(q, t)
    BY <1>5, <2>2
  <2> QED
    BY <1>1, <1>6, <2>1, <2>2
       DEF DecisionStep, DecideRead, DecideResume, DecideFailure, ResumeFailure,
           pipelineVars, tables
<1>7. ASSUME NEW w \in Workers, NodeStep(w), ~AutoApprove(w), ~ExceptionTriage(w)
      PROVE  DeskRowsKept
  BY <1>1, <1>7 DEF NodeStep, Ingest, Extract, Validate, Backfill, Match3way, Embed, Policy, Gate,
                    HumanReview, Archive, LogOnly, SecondLog
<1>8. ASSUME NEW w \in Workers, RunnerStep(w) \/ FaultStep(w) PROVE DeskRowsKept
  BY <1>1, <1>8 DEF RunnerStep, RunInvoice, Resume, Start, Persist, Return, IngestNoRun,
                    RecordFailure, RecordFailureRefused, ReplayClaim, FaultStep, InfraFailure,
                    BusinessFailure, PersistFailure, RecordFailureFails, Crash, tables
<1>9. ASSUME NEW w \in Workers, RequestStep(w)
      PROVE  DeskRowsKept \/ \E i \in Invoices : AcceptsRow(i)
  BY <1>1, <1>9 DEF RequestStep, Accept, Rerun, ReplayRead, tables, AcceptsRow
<1>10. ASSUME NEW i \in Invoices, Duplicate(i) PROVE DeskRowsKept
  BY <1>1, <1>10 DEF Duplicate
<1>11. CASE UNCHANGED vars
  BY <1>1, <1>11 DEF vars, pipelineVars, tables
<1> QED
  BY <1>6, <1>7, <1>8, <1>9, <1>10, <1>11 DEF Next, PipelineNext

\* auto_approve writes its own invoice and one entry.
LEMMA AutoApproveWrites ==
    ASSUME SystemInv, NEW w \in Workers, AutoApprove(w)
    PROVE  /\ exec[w].inv \in Invoices /\ exceptions' = exceptions
           /\ invoices' = [invoices EXCEPT ![exec[w].inv] = "AUTO_APPROVED"]
           /\ \E r : Logs(r, Approved) /\ runs[r].inv = exec[w].inv
<1> DEFINE r == exec[w].st.run
           row == [runs[r] EXCEPT !.route = "AUTO"]
<1>1. /\ exec[w].pc = "node" /\ exec[w].node = "auto_approve"
      /\ runs' = Updated(runs, r, row) /\ LedgerAppend(r, Approved)
      /\ exceptions' = exceptions
      /\ invoices' = [invoices EXCEPT ![exec[w].inv] = "AUTO_APPROVED"]
  BY DEF AutoApprove, At, Updated, Approved
<1>2. /\ r \in 1..Len(runs) /\ runs[r].status # "REJECTED" /\ runs[r] \in RunRow
      /\ runs[r].inv = exec[w].inv /\ exec[w].inv \in Invoices
  BY <1>1, WorkerRun, WorkerFacts, RowFacts DEF ExecIn
<1>3. row \in RunRow /\ row.inv = runs[r].inv /\ row.status # "REJECTED"
  BY <1>2 DEF RunRow, Routes
<1> HIDE DEF row
<1>4. RunsInPlace
  BY <1>1, <1>2, <1>3, RunRewritten
<1>5. Logs(r, Approved)
  BY <1>1, <1>2, <1>4, EventNamesDiffer DEF Logs, LedgerAppend, Appended
<1> QED
  BY <1>1, <1>2, <1>5

\* exception_triage writes its own invoice and one OPEN exception.
LEMMA TriageWrites ==
    ASSUME SystemInv, NEW w \in Workers, ExceptionTriage(w)
    PROVE  /\ exec[w].inv \in Invoices
           /\ invoices' = [invoices EXCEPT ![exec[w].inv] = "EXCEPTION"]
           /\ \E x \in ExceptionRow : /\ exceptions' = Append(exceptions, x)
                                      /\ x.inv = exec[w].inv /\ x.status = "OPEN"
<1> DEFINE x == [inv |-> exec[w].inv, run |-> exec[w].st.run, status |-> "OPEN", assignee |-> NoUser]
<1>1. /\ exec[w].pc = "node" /\ exec[w].node = "exception_triage"
      /\ exceptions' = Append(exceptions, x)
      /\ invoices' = [invoices EXCEPT ![exec[w].inv] = "EXCEPTION"]
  BY DEF ExceptionTriage, At
<1>2. exec[w].inv \in Invoices /\ exec[w].st \in GraphState
  BY <1>1, WorkerFacts DEF ExecIn
<1>3. x \in ExceptionRow /\ x.inv = exec[w].inv /\ x.status = "OPEN"
  BY <1>2 DEF ExceptionRow, GraphState, Assignees
<1> HIDE DEF x
<1> QED
  BY <1>1, <1>2, <1>3

\* While threads keep their routes, a decision settles the invoice with its
\* exception, and nothing else moves either.
LEMMA DeskSettles ==
    ASSUME DeskInv, [Next]_vars, NEW w, OneExecutor(w), RoutesKept(w),
           ~AutoApprove(w), ~ExceptionTriage(w), NEW i \in Invoices
    PROVE  OnDesk(invoices', runs', ledger', exceptions', i, RouteOf(checkpoint', exec'[w], i))
<1>1. /\ SystemInv /\ invoices \in [Invoices -> InvoiceStatus]
      /\ OnDesk(invoices, runs, ledger, exceptions, i, RouteOf(checkpoint, exec[w], i))
      /\ RouteOf(checkpoint', exec'[w], i) = RouteOf(checkpoint, exec[w], i)
      /\ \A x \in 1..Len(exceptions) : /\ exceptions[x] \in ExceptionRow
                                       /\ exceptions[x].status \in {"OPEN", "RESOLVED"}
                                       /\ exceptions[x].inv \in Invoices
  BY RowFacts DEF DeskInv, SystemInv, TypeOK, OneExecutor, RoutesKept, ExceptionRow
<1>2. LoggedAt(runs', ledger', i, Approved) = LoggedAt(runs, ledger, i, Approved)
  BY <1>1, ApprovalsKept DEF OneExecutor
<1>3. CASE DeskRowsKept
  <2>1. OfInvoice(exceptions', i) = OfInvoice(exceptions, i)
    BY <1>3 DEF DeskRowsKept, OfInvoice
  <2>2. \A x \in OfInvoice(exceptions, i) :
           CaseIn(invoices, exceptions, i, x) => CaseIn(invoices', exceptions', i, x)
    BY <1>3 DEF DeskRowsKept, OfInvoice, CaseIn
  <2>3. invoices' = invoices
    BY <1>3 DEF DeskRowsKept
  <2> QED
    BY <1>1, <1>2, <2>1, <2>2, <2>3 DEF OnDesk
<1>4. ASSUME NEW j \in Invoices, AcceptsRow(j)
      PROVE  OnDesk(invoices', runs', ledger', exceptions', i, RouteOf(checkpoint', exec'[w], i))
  <2>1. /\ exceptions' = exceptions /\ invoices[j] = "ABSENT"
        /\ invoices'[j] = "RECEIVED" /\ (i # j => invoices'[i] = invoices[i])
    BY <1>1, <1>4 DEF AcceptsRow
  <2>2. CASE i # j
    BY <1>1, <1>2, <2>1, <2>2 DEF OnDesk, CaseIn
  <2>3. CASE i = j
    <3>1. \A x \in OfInvoice(exceptions, i) : ~CaseIn(invoices, exceptions, i, x)
      BY <1>1, <2>1, <2>3 DEF OfInvoice, CaseIn
    <3> QED
      BY <1>1, <1>2, <2>1, <2>3, <3>1 DEF OnDesk
  <2> QED
    BY <2>2, <2>3
<1>5. ASSUME NEW x, ResolvesRow(x)
      PROVE  OnDesk(invoices', runs', ledger', exceptions', i, RouteOf(checkpoint', exec'[w], i))
  <2>1. /\ x \in 1..Len(exceptions) /\ Len(exceptions') = Len(exceptions)
        /\ exceptions'[x].inv = exceptions[x].inv /\ exceptions'[x].status = "RESOLVED"
        /\ \A y \in 1..Len(exceptions) : y # x => exceptions'[y] = exceptions[y]
    BY <1>5 DEF ResolvesRow
  <2>2. OfInvoice(exceptions', i) = OfInvoice(exceptions, i)
    BY <2>1 DEF OfInvoice
  <2>3. CASE i = exceptions[x].inv
    <3>1. invoices'[i] \in {"DECISION_APPROVED", "RETURNED_TO_VENDOR"}
      BY <1>1, <1>5, <2>3 DEF ResolvesRow
    <3>2. CaseIn(invoices', exceptions', i, x)
      BY <2>1, <3>1 DEF CaseIn
    <3>3. x \in OfInvoice(exceptions, i)
      BY <2>1, <2>3 DEF OfInvoice
    <3> QED
      BY <1>1, <1>2, <2>2, <3>2, <3>3 DEF OnDesk
  <2>4. CASE i # exceptions[x].inv
    <3>1. invoices'[i] = invoices[i]
      BY <1>1, <1>5, <2>4 DEF ResolvesRow
    <3>2. \A y \in OfInvoice(exceptions, i) : exceptions'[y] = exceptions[y]
      BY <2>1, <2>4 DEF OfInvoice
    <3>3. \A y \in OfInvoice(exceptions, i) :
             CaseIn(invoices, exceptions, i, y) => CaseIn(invoices', exceptions', i, y)
      BY <3>1, <3>2 DEF CaseIn
    <3> QED
      BY <1>1, <1>2, <2>2, <3>1, <3>3 DEF OnDesk
  <2> QED
    BY <2>3, <2>4
<1> QED
  BY <1>1, <1>3, <1>4, <1>5, DeskRows DEF OneExecutor

\* Automatic approval.
LEMMA DeskApproves ==
    ASSUME DeskInv, NEW w, OneExecutor(w), Routed(w, "AUTO"), AutoApprove(w),
           NEW i \in Invoices
    PROVE  OnDesk(invoices', runs', ledger', exceptions', i, RouteOf(checkpoint', exec'[w], i))
<1>1. /\ SystemInv /\ w \in Workers /\ invoices \in [Invoices -> InvoiceStatus]
      /\ OnDesk(invoices, runs, ledger, exceptions, i, RouteOf(checkpoint, exec[w], i))
  BY DEF DeskInv, SystemInv, TypeOK, OneExecutor
<1>2. /\ exec[w].inv \in Invoices /\ exceptions' = exceptions
      /\ invoices' = [invoices EXCEPT ![exec[w].inv] = "AUTO_APPROVED"]
  BY <1>1, AutoApproveWrites
<1>3. PICK r : Logs(r, Approved) /\ runs[r].inv = exec[w].inv
  BY <1>1, AutoApproveWrites
<1>4. CASE i = exec[w].inv
  <2>1. /\ RouteOf(checkpoint, exec[w], i) = "none"
        /\ RouteOf(checkpoint', exec'[w], i) = "AUTO"
    BY <1>4 DEF Routed
  <2>2. LoggedAt(runs, ledger, i, Approved) = {} /\ OfInvoice(exceptions, i) = {}
    BY <1>1, <2>1 DEF OnDesk
  <2>3. Gains(LoggedAt(runs, ledger, i, Approved), LoggedAt(runs', ledger', i, Approved))
    BY <1>1, <1>3, <1>4, LogsAt, EventNamesDiffer
  <2>4. \E a : LoggedAt(runs', ledger', i, Approved) = {a}
    BY <2>2, <2>3 DEF Gains
  <2>5. invoices'[i] = "AUTO_APPROVED"
    BY <1>1, <1>2, <1>4
  <2> QED
    BY <1>2, <2>1, <2>2, <2>4, <2>5 DEF OnDesk
<1>5. CASE i # exec[w].inv
  <2>1. RouteOf(checkpoint', exec'[w], i) = RouteOf(checkpoint, exec[w], i)
    BY <1>5 DEF Routed
  <2>2. LoggedAt(runs', ledger', i, Approved) = LoggedAt(runs, ledger, i, Approved)
    BY <1>1, <1>3, <1>5, LogsAt, EventNamesDiffer
  <2>3. invoices'[i] = invoices[i]
    BY <1>1, <1>2, <1>5
  <2> QED
    BY <1>1, <1>2, <2>1, <2>2, <2>3 DEF OnDesk, CaseIn
<1> QED
  BY <1>4, <1>5

\* An exception is opened.
LEMMA DeskOpens ==
    ASSUME DeskInv, [Next]_vars, NEW w, OneExecutor(w), Routed(w, "EXCEPTION"),
           ExceptionTriage(w), NEW i \in Invoices
    PROVE  OnDesk(invoices', runs', ledger', exceptions', i, RouteOf(checkpoint', exec'[w], i))
<1>1. /\ SystemInv /\ w \in Workers /\ invoices \in [Invoices -> InvoiceStatus]
      /\ OnDesk(invoices, runs, ledger, exceptions, i, RouteOf(checkpoint, exec[w], i))
      /\ exceptions \in Seq(ExceptionRow) /\ Len(exceptions) \in Nat
  BY RowFacts DEF DeskInv, SystemInv, TypeOK, OneExecutor
<1>2. /\ exec[w].inv \in Invoices
      /\ invoices' = [invoices EXCEPT ![exec[w].inv] = "EXCEPTION"]
  BY <1>1, TriageWrites
<1>3. PICK x \in ExceptionRow : /\ exceptions' = Append(exceptions, x)
                                /\ x.inv = exec[w].inv /\ x.status = "OPEN"
  BY <1>1, TriageWrites
<1>4. LoggedAt(runs', ledger', i, Approved) = LoggedAt(runs, ledger, i, Approved)
  <2>1. ~\E v \in Workers : AutoApprove(v)
    BY DEF OneExecutor, ExceptionTriage, AutoApprove, At
  <2> QED
    BY <1>1, <2>1, ApprovalsKept
<1> DEFINE n == Len(exceptions) + 1
<1>5. /\ Len(exceptions') = n /\ exceptions'[n] = x
      /\ \A y \in 1..Len(exceptions) : exceptions'[y] = exceptions[y]
  BY <1>1, <1>3, AppendProperties
<1>6. \A y : y \in 1..n <=> y \in 1..Len(exceptions) \/ y = n
  BY <1>1
<1> HIDE DEF n
<1>7. CASE i = exec[w].inv
  <2>1. /\ RouteOf(checkpoint, exec[w], i) = "none"
        /\ RouteOf(checkpoint', exec'[w], i) = "EXCEPTION"
    BY <1>7 DEF Routed
  <2>2. LoggedAt(runs, ledger, i, Approved) = {} /\ OfInvoice(exceptions, i) = {}
    BY <1>1, <2>1 DEF OnDesk
  <2>3. \A y : y \in OfInvoice(exceptions', i) <=> y = n
    BY <1>3, <1>5, <1>6, <1>7, <2>2 DEF OfInvoice
  <2>4. OfInvoice(exceptions', i) = {n}
    BY <2>3
  <2>5. CaseIn(invoices', exceptions', i, n)
    BY <1>1, <1>2, <1>3, <1>5, <1>7 DEF CaseIn
  <2> QED
    BY <1>4, <2>1, <2>2, <2>4, <2>5 DEF OnDesk
<1>8. CASE i # exec[w].inv
  <2>1. RouteOf(checkpoint', exec'[w], i) = RouteOf(checkpoint, exec[w], i)
    BY <1>8 DEF Routed
  <2>2. \A y : y \in OfInvoice(exceptions', i) <=> y \in OfInvoice(exceptions, i)
    BY <1>3, <1>5, <1>6, <1>8 DEF OfInvoice
  <2>3. OfInvoice(exceptions', i) = OfInvoice(exceptions, i)
    BY <2>2
  <2>4. invoices'[i] = invoices[i]
    BY <1>1, <1>2, <1>8
  <2>5. \A y \in OfInvoice(exceptions, i) :
           CaseIn(invoices, exceptions, i, y) => CaseIn(invoices', exceptions', i, y)
    BY <1>5, <2>4 DEF CaseIn, OfInvoice
  <2> QED
    BY <1>1, <1>4, <2>1, <2>3, <2>4, <2>5 DEF OnDesk
<1> QED
  BY <1>7, <1>8

\* Every step of the only worker keeps the desk in order.
LEMMA DeskNext ==
    ASSUME DeskInv, [Next]_vars, NEW w, OneExecutor(w), CheckpointsKept
    PROVE  DeskInv'
<1>1. SystemInv /\ ThreadsPlacedIn(checkpoint, exec[w]) /\ Workers = {w}
  BY DEF DeskInv, OneExecutor
<1>2. SystemInv'
  BY <1>1, NextOK
<1>3. ThreadsPlacedIn(checkpoint', exec'[w])
  BY <1>1, StepRoutes
<1>4. \A i \in Invoices :
         OnDesk(invoices', runs', ledger', exceptions', i, RouteOf(checkpoint', exec'[w], i))
  BY <1>1, StepRoutes, DeskSettles, DeskApproves, DeskOpens
<1> QED
  BY <1>1, <1>2, <1>3, <1>4 DEF DeskInv

\* At the start nothing is routed and no row is written.
LEMMA DeskInit == ASSUME Init PROVE DeskInv
<1>1. SystemInv
  BY InitOK
<1>2. /\ invoices = [i \in Invoices |-> "ABSENT"]
      /\ runs = <<>> /\ exceptions = <<>> /\ ledger = <<>>
      /\ \A i \in Invoices : checkpoint[i].st.route = "none"
      /\ \A w \in Workers : exec[w].pc = "idle"
  BY DEF Init, PipelineInit, Idle, EmptyState
<1>3. \A w \in Workers, i \in Invoices : ThreadOf(checkpoint, exec[w], i) = checkpoint[i]
  BY <1>2 DEF ThreadOf
<1>4. \A i : LoggedAt(runs, ledger, i, Approved) = {} /\ OfInvoice(exceptions, i) = {}
  BY <1>2 DEF LoggedAt, OfInvoice
<1> QED
  BY <1>1, <1>2, <1>3, <1>4 DEF DeskInv, ThreadsPlacedIn, DriverIn, Placed, OnDesk, RouteOf

\* A finite set and a set it is paired with have one size.
LEMMA Paired ==
    ASSUME NEW S, NEW T, IsFiniteSet(S), NEW f \in [S -> T],
           \A a, b \in S : f[a] = f[b] => a = b, \A t \in T : \E a \in S : f[a] = t
    PROVE  SameSize(S, T)
<1>1. f \in Bijection(S, T)
  BY DEF Bijection, Injection, Surjection, IsInjective
<1>2. ExistsBijection(S, T)
  BY <1>1 DEF ExistsBijection
<1> QED
  BY <1>2, FS_Bijection DEF SameSize

\* What the desk's invariant says of an invoice by the status of its row.
Untouched(i) ==
    /\ invoices[i] \in {"ABSENT", "RECEIVED"}
    /\ LoggedAt(runs, ledger, i, Approved) = {} /\ OfInvoice(exceptions, i) = {}

ApprovedByRule(i) ==
    /\ invoices[i] = "AUTO_APPROVED" /\ OfInvoice(exceptions, i) = {}
    /\ \E a : LoggedAt(runs, ledger, i, Approved) = {a}

WithHuman(i) ==
    /\ LoggedAt(runs, ledger, i, Approved) = {}
    /\ \E x : /\ OfInvoice(exceptions, i) = {x}
              /\ x \in 1..Len(exceptions) /\ exceptions[x].inv = i
              /\ \/ exceptions[x].status = "OPEN" /\ invoices[i] = "EXCEPTION"
                 \/ /\ exceptions[x].status = "RESOLVED"
                    /\ invoices[i] \in {"DECISION_APPROVED", "RETURNED_TO_VENDOR"}

LEMMA DeskCases ==
    ASSUME DeskInv, NEW w, OneExecutor(w), NEW i \in Invoices
    PROVE  Untouched(i) \/ ApprovedByRule(i) \/ WithHuman(i)
<1>1. /\ SystemInv /\ w \in Workers /\ checkpoint[i] \in Checkpoints
      /\ OnDesk(invoices, runs, ledger, exceptions, i, RouteOf(checkpoint, exec[w], i))
  BY DEF DeskInv, SystemInv, TypeOK, OneExecutor
<1>2. exec[w].st \in GraphState /\ checkpoint[i].st \in GraphState
  BY <1>1, WorkerFacts DEF Checkpoints
<1>3. RouteOf(checkpoint, exec[w], i) \in {"none", "AUTO", "EXCEPTION"}
  BY <1>2 DEF RouteOf, ThreadOf, GraphState
<1>4. CASE RouteOf(checkpoint, exec[w], i) = "EXCEPTION"
  <2>1. PICK x : OfInvoice(exceptions, i) = {x} /\ CaseIn(invoices, exceptions, i, x)
    BY <1>1, <1>4 DEF OnDesk
  <2>2. x \in 1..Len(exceptions) /\ exceptions[x].inv = i
    BY <2>1 DEF OfInvoice
  <2>3. exceptions[x].status \in {"OPEN", "RESOLVED"}
    BY <1>1, <2>2, RowFacts DEF ExceptionRow
  <2> QED
    BY <1>1, <1>4, <2>1, <2>2, <2>3 DEF OnDesk, CaseIn, WithHuman
<1> QED
  BY <1>1, <1>3, <1>4 DEF OnDesk, Untouched, ApprovedByRule

\* An OPEN exception is its invoice's only one, and the invoice waits.
LEMMA DeskWorklist ==
    ASSUME DeskInv, NEW w, OneExecutor(w)
    PROVE  WorklistComplete
<1> SUFFICES ASSUME NEW x \in 1..Len(exceptions), exceptions[x].status = "OPEN"
             PROVE  exceptions[x].inv \in ListInvoices([status |-> "EXCEPTION",
                        route |-> AnyValue, assignee |-> exceptions[x].assignee])
  BY DEF WorklistComplete
<1>1. PICK i : i = exceptions[x].inv
  OBVIOUS
<1>2. SystemInv /\ i \in Invoices /\ x \in OfInvoice(exceptions, i) /\ x \in Nat
  BY <1>1, RowFacts DEF DeskInv, ExceptionRow, OfInvoice
<1>3. WithHuman(i)
  BY <1>2, DeskCases DEF Untouched, ApprovedByRule
<1>4. OfInvoice(exceptions, i) = {x} /\ invoices[i] = "EXCEPTION"
  BY <1>2, <1>3 DEF WithHuman
<1>5. LatestException(i) = x
  <2>1. \A k \in {x} : (\A j \in {x} : j <= k) <=> k = x
    BY <1>2
  <2>2. (CHOOSE k \in {x} : \A j \in {x} : j <= k) = x
    BY <2>1
  <2> QED
    BY <1>4, <2>2 DEF LatestException, Latest
<1> DEFINE f == [status |-> "EXCEPTION", route |-> AnyValue, assignee |-> exceptions[x].assignee]
<1>6. f.status = "EXCEPTION" /\ f.route = AnyValue /\ f.assignee = exceptions[x].assignee
  OBVIOUS
<1> HIDE DEF f
<1>7. x # 0
  OBVIOUS
<1>8. Matches(f, i)
  BY <1>4, <1>5, <1>6, <1>7 DEF Matches
<1>9. i \in ListInvoices(f)
  BY <1>2, <1>4, <1>8 DEF ListInvoices
<1> QED
  BY <1>1, <1>9 DEF f

Autos == {r \in 1..Len(runs) : Logged(r, Approved)}
CasesWith(status) == {x \in 1..Len(exceptions) : exceptions[x].status = status}
InStatus(S) == {i \in Invoices : invoices[i] \in S}

\* Automatic approvals are paired with the invoices approved automatically.
LEMMA AutosPaired ==
    ASSUME DeskInv, NEW w, OneExecutor(w)
    PROVE  SameSize(Autos, InStatus({"AUTO_APPROVED"}))
<1>1. /\ SystemInv /\ Len(runs) \in Nat /\ Len(ledger) = Len(runs)
      /\ \A r \in 1..Len(runs) : runs[r] \in RunRow /\ runs[r].inv \in Invoices
                                 /\ Len(ledger[r]) \in Nat
  BY RowFacts DEF DeskInv, RunRow
<1> DEFINE f == [r \in Autos |-> runs[r].inv]
<1>2. ASSUME NEW r \in Autos
      PROVE  \E k \in Nat : <<r, k>> \in LoggedAt(runs, ledger, runs[r].inv, Approved)
  <2>1. PICK k \in 1..Len(ledger[r]) : ledger[r][k] = Approved
    BY DEF Autos, Logged
  <2>2. r \in 1..Len(ledger) /\ k \in Nat
    BY <1>1 DEF Autos
  <2> QED
    BY <2>1, <2>2 DEF LoggedAt
<1>3. ASSUME NEW r \in Autos PROVE ApprovedByRule(runs[r].inv) /\ runs[r].inv \in Invoices
  <2>1. runs[r].inv \in Invoices
    BY <1>1 DEF Autos
  <2>2. LoggedAt(runs, ledger, runs[r].inv, Approved) # {}
    BY <1>2
  <2>3. ~Untouched(runs[r].inv) /\ ~WithHuman(runs[r].inv)
    BY <2>2 DEF Untouched, WithHuman
  <2> QED
    BY <2>1, <2>3, DeskCases
<1>4. f \in [Autos -> InStatus({"AUTO_APPROVED"})]
  BY <1>3 DEF InStatus, ApprovedByRule
<1>5. ASSUME NEW r \in Autos, NEW s \in Autos, runs[r].inv = runs[s].inv PROVE r = s
  <2>1. PICK a : LoggedAt(runs, ledger, runs[r].inv, Approved) = {a}
    BY <1>3 DEF ApprovedByRule
  <2>2. PICK k \in Nat : <<r, k>> = a
    BY <1>2, <2>1
  <2>3. LoggedAt(runs, ledger, runs[s].inv, Approved) = {a}
    BY <1>5, <2>1
  <2>4. PICK l \in Nat : <<s, l>> = a
    BY <1>2, <2>3
  <2> QED
    BY <2>2, <2>4
<1>6. ASSUME NEW i \in InStatus({"AUTO_APPROVED"}) PROVE \E r \in Autos : runs[r].inv = i
  <2>1. i \in Invoices /\ invoices[i] = "AUTO_APPROVED"
    BY DEF InStatus
  <2>2. ApprovedByRule(i)
    BY <2>1, DeskCases DEF Untouched, WithHuman
  <2>3. PICK a : a \in LoggedAt(runs, ledger, i, Approved)
    BY <2>2 DEF ApprovedByRule
  <2>4. a[1] \in 1..Len(runs) /\ runs[a[1]].inv = i /\ Logged(a[1], Approved)
    <3>1. /\ a[1] \in 1..Len(ledger) /\ runs[a[1]].inv = i
          /\ a[2] \in 1..Len(ledger[a[1]]) /\ ledger[a[1]][a[2]] = Approved
      BY <2>3 DEF LoggedAt
    <3> QED
      BY <1>1, <3>1 DEF Logged
  <2> QED
    BY <2>4 DEF Autos
<1>7. IsFiniteSet(Autos)
  <2>1. IsFiniteSet(1..Len(runs)) /\ Autos \in SUBSET (1..Len(runs))
    BY <1>1, FS_Interval DEF Autos
  <2> QED
    BY <2>1, FS_Subset
<1>8. \A r \in Autos : f[r] = runs[r].inv
  OBVIOUS
<1> HIDE DEF f
<1>9. \A a, b \in Autos : f[a] = f[b] => a = b
  BY <1>5, <1>8
<1>10. \A t \in InStatus({"AUTO_APPROVED"}) : \E a \in Autos : f[a] = t
  BY <1>6, <1>8
<1> QED
  BY <1>4, <1>7, <1>9, <1>10, Paired

\* Exceptions are paired with their invoices: the OPEN ones with those that
\* wait, the RESOLVED ones with those a human settled.
LEMMA CasesPaired ==
    ASSUME DeskInv, NEW w, OneExecutor(w), NEW status, NEW S,
           \/ status = "OPEN" /\ S = {"EXCEPTION"}
           \/ status = "RESOLVED" /\ S = {"DECISION_APPROVED", "RETURNED_TO_VENDOR"}
    PROVE  SameSize(CasesWith(status), InStatus(S))
<1>1. /\ SystemInv /\ Len(exceptions) \in Nat
      /\ \A x \in 1..Len(exceptions) : exceptions[x] \in ExceptionRow
                                       /\ exceptions[x].inv \in Invoices
  BY RowFacts DEF DeskInv, ExceptionRow
<1> DEFINE X == CasesWith(status)
           f == [x \in X |-> exceptions[x].inv]
<1>2. ASSUME NEW x \in X
      PROVE  /\ exceptions[x].inv \in InStatus(S)
             /\ OfInvoice(exceptions, exceptions[x].inv) = {x}
  <2>1. /\ exceptions[x].inv \in Invoices /\ x \in OfInvoice(exceptions, exceptions[x].inv)
        /\ exceptions[x].status = status
    BY <1>1 DEF CasesWith, OfInvoice
  <2>2. WithHuman(exceptions[x].inv)
    BY <2>1, DeskCases DEF Untouched, ApprovedByRule
  <2> QED
    BY <2>1, <2>2 DEF WithHuman, InStatus
<1>3. f \in [X -> InStatus(S)]
  BY <1>2
<1>4. ASSUME NEW x \in X, NEW y \in X, exceptions[x].inv = exceptions[y].inv PROVE x = y
  <2>1. {x} = {y}
    BY <1>2, <1>4
  <2> QED
    BY <2>1
<1>5. ASSUME NEW i \in InStatus(S) PROVE \E x \in X : exceptions[x].inv = i
  <2>1. i \in Invoices /\ invoices[i] \in S
    BY DEF InStatus
  <2>2. WithHuman(i)
    BY <2>1, DeskCases DEF Untouched, ApprovedByRule
  <2> QED
    BY <2>1, <2>2 DEF WithHuman, CasesWith
<1>6. IsFiniteSet(X)
  <2>1. IsFiniteSet(1..Len(exceptions)) /\ X \in SUBSET (1..Len(exceptions))
    BY <1>1, FS_Interval DEF CasesWith
  <2> QED
    BY <2>1, FS_Subset
<1>7. \A x \in X : f[x] = exceptions[x].inv
  OBVIOUS
<1> HIDE DEF f, X
<1>8. \A a, b \in X : f[a] = f[b] => a = b
  BY <1>4, <1>7
<1>9. \A t \in InStatus(S) : \E a \in X : f[a] = t
  BY <1>5, <1>7
<1>10. SameSize(X, InStatus(S))
  BY <1>3, <1>6, <1>8, <1>9, Paired
<1> QED
  BY <1>10 DEF X

\* The dashboard's numbers are sizes of paired sets.
LEMMA DeskDashboard ==
    ASSUME DeskInv, NEW w, OneExecutor(w)
    PROVE  DashboardAgrees
<1> DEFINE A == InStatus({"AUTO_APPROVED"})
           E == InStatus({"EXCEPTION"})
           H == InStatus({"DECISION_APPROVED", "RETURNED_TO_VENDOR"})
           P == InStatus({"AUTO_APPROVED", "EXCEPTION", "DECISION_APPROVED", "RETURNED_TO_VENDOR"})
<1>1. /\ SameSize(Autos, A) /\ SameSize(CasesWith("OPEN"), E)
      /\ SameSize(CasesWith("RESOLVED"), H)
  BY AutosPaired, CasesPaired
<1>2. /\ \A i : i \in P <=> i \in (A \cup H) \cup E
      /\ \A i : i \notin A \cap H /\ i \notin (A \cup H) \cap E
  BY DEF InStatus
<1>3. P = (A \cup H) \cup E /\ A \cap H = {} /\ (A \cup H) \cap E = {}
  BY <1>2
<1>4. DashboardSummary = [auto |-> Cardinality(A), human |-> Cardinality(H),
                          processed |-> Cardinality(P), open |-> Cardinality(CasesWith("OPEN"))]
  BY DEF DashboardSummary, WithStatus, InStatus, CasesWith
<1>5. /\ Autos = {r \in 1..Len(runs) : Logged(r, Ev("invoice.auto_approved"))}
      /\ CasesWith("RESOLVED") = {x \in 1..Len(exceptions) : exceptions[x].status = "RESOLVED"}
  BY DEF Autos, CasesWith, Approved
<1> HIDE DEF A, E, H, P
<1>6. IsFiniteSet(A) /\ IsFiniteSet(H) /\ IsFiniteSet(E)
  BY <1>1 DEF SameSize
<1>7. Cardinality({}) = 0
  BY FS_EmptySet
<1>8. IsFiniteSet(A \cup H) /\ Cardinality(A \cup H) = Cardinality(A) + Cardinality(H) - 0
  BY <1>3, <1>6, <1>7, FS_Union
<1>9. Cardinality(P) = Cardinality(A \cup H) + Cardinality(E) - 0
  BY <1>3, <1>6, <1>7, <1>8, FS_Union
<1>10. Cardinality(A) \in Nat /\ Cardinality(H) \in Nat /\ Cardinality(E) \in Nat
  BY <1>6, FS_CardinalityType
<1>11. Cardinality(E) = Cardinality(P) - Cardinality(A) - Cardinality(H)
  BY <1>8, <1>9, <1>10
<1>12. /\ Cardinality(Autos) = Cardinality(A)
       /\ Cardinality(CasesWith("OPEN")) = Cardinality(E)
       /\ Cardinality(CasesWith("RESOLVED")) = Cardinality(H)
  BY <1>1 DEF SameSize
<1>13. /\ DashboardSummary.auto = Cardinality(A) /\ DashboardSummary.human = Cardinality(H)
       /\ DashboardSummary.processed = Cardinality(P)
       /\ DashboardSummary.open = Cardinality(CasesWith("OPEN"))
  BY <1>4
<1> QED
  BY <1>5, <1>11, <1>12, <1>13 DEF DashboardAgrees

\* While one worker drives the graph and no checkpoint is lost, DeskInv holds:
\* a thread is routed once, and its invoice's row, its automatic approval and
\* its exception agree with the route (the transactions of auto_approve,
\* exception_triage and DecisionService.decide).
THEOREM DeskInvariant ==
    ASSUME NEW w, OneExecutor(w), CheckpointsKept
    PROVE  Spec => []DeskInv
<1>1. Init => DeskInv
  BY DeskInit
<1>2. DeskInv /\ [Next]_vars => DeskInv'
  BY DeskNext
<1> QED
  BY <1>1, <1>2, PTL DEF Spec

\* Nobody's work is hidden: an OPEN exception's invoice is in the EXCEPTION
\* queue of its assignee (QueueService.list_invoices), with any number of
\* failed or retried nodes, replays, reruns, duplicates and requests.
THEOREM WorklistIsComplete ==
    ASSUME NEW w, OneExecutor(w), CheckpointsKept
    PROVE  Spec => []WorklistComplete
<1>1. DeskInv => WorklistComplete
  BY DeskWorklist
<1> QED
  BY <1>1, DeskInvariant, PTL

\* The dashboard's counts, computed from the invoice rows, agree with the
\* audit trail and the exceptions (DashboardService).
THEOREM DashboardIsRight ==
    ASSUME NEW w, OneExecutor(w), CheckpointsKept
    PROVE  Spec => []DashboardAgrees
<1>1. DeskInv => DashboardAgrees
  BY DeskDashboard
<1> QED
  BY <1>1, DeskInvariant, PTL

\* One automatic approval per invoice is at most one in each ledger.
LEMMA DeskApprovesOnce ==
    ASSUME DeskInv, NEW w, OneExecutor(w)
    PROVE  AutoApproveOnce
<1> SUFFICES ASSUME NEW r \in 1..Len(runs) PROVE Count(r, Approved) <= 1
  BY DEF AutoApproveOnce, Approved
<1> DEFINE K == {k \in 1..Len(ledger[r]) : ledger[r][k] = Approved}
<1>1. /\ Len(ledger) = Len(runs) /\ runs[r].inv \in Invoices /\ Len(ledger[r]) \in Nat
  BY RowFacts DEF DeskInv, RunRow
<1>2. \A k \in K : <<r, k>> \in LoggedAt(runs, ledger, runs[r].inv, Approved)
  BY <1>1 DEF LoggedAt
<1>3. PICK a : LoggedAt(runs, ledger, runs[r].inv, Approved) \in {{}, {a}}
  BY <1>1, DeskCases DEF Untouched, ApprovedByRule, WithHuman
<1>4. \A k, l \in K : k = l
  <2>1. \A k \in K : <<r, k>> = a
    BY <1>2, <1>3
  <2> QED
    BY <2>1
<1> HIDE DEF K
<1>5. CASE K = {}
  BY <1>5, FS_EmptySet DEF Count, K
<1>6. ASSUME NEW k \in K PROVE Count(r, Approved) <= 1
  <2>1. K = {k}
    BY <1>4, <1>6
  <2>2. Cardinality(K) = 1
    BY <2>1, FS_Singleton
  <2> QED
    BY <2>2 DEF Count, K
<1> QED
  BY <1>5, <1>6

\* docs/ARCHITECTURE.md's "AutoApprove is idempotent on run_id" does hold as
\* long as no checkpoint is lost: the node is not repeated after its commit,
\* however often it fails, is retried, replayed or called again.
THEOREM AutoApprovesOnce ==
    ASSUME NEW w, OneExecutor(w), CheckpointsKept
    PROVE  Spec => []AutoApproveOnce
<1>1. DeskInv => AutoApproveOnce
  BY DeskApprovesOnce
<1> QED
  BY <1>1, DeskInvariant, PTL

-----------------------------------------------------------------------------
(* No run is forgotten *)

\* Nothing written or about to be written is lost: no checkpoint, no
\* dead-letter entry and no resume fails, and no process dies.
NothingLost == Faults \cap {"persist", "crash", "dlq", "update"} = {}

\* Nobody calls run_invoice again on their own account.
NoReruns == MaxReruns = 0

\* What the worker does for invoice i.
Doing(e, i) == IF e.inv = i THEN e.pc ELSE "idle"

\* A thread gets its decision behind exception_triage.
Steady(c) == c.st.decision # NoDecision => c.next \in {"human_review", "archive", "end"}

AtWork == {"resume", "node", "second", "raised"}
Begun(c) == c.next \in Nodes \ {"ingest"}

\* How the status of a live run, its invoice's thread and what the worker
\* does for the invoice belong together.
StageIn(status, c, doing) ==
    \/ status = "QUEUED" /\ c.st.run = NoRun
          /\ \/ c.next = "new" /\ doing \in {"call", "fresh"}
             \/ c.next = "ingest" /\ doing \in {"node", "second", "raised", "idle"}
    \/ status = "RUNNING" /\ Begun(c) /\ ~Waits(c) /\ doing \in AtWork \cup {"call"}
    \/ status = "FAILED" /\ Begun(c) /\ ~Waits(c) /\ doing \in {"idle", "claim"}
    \/ status = "AWAITING_DECISION" /\ Waits(c) /\ doing \in {"idle", "returning"}
    \/ status = "AWAITING_DECISION" /\ c.next \in {"human_review", "archive"}
          /\ c.st.decision # NoDecision /\ doing \in AtWork
    \/ status = "COMPLETED" /\ c.next = "end" /\ doing \in {"idle", "returning"}

LiveRuns(rs, i) == {r \in 1..Len(rs) : rs[r].inv = i /\ rs[r].status # "REJECTED"}

StagesIn(rs, ck, e) ==
    \A i \in Invoices :
        /\ Steady(ThreadOf(ck, e, i))
        /\ \A r \in LiveRuns(rs, i) : StageIn(rs[r].status, ThreadOf(ck, e, i), Doing(e, i))
        /\ LiveRuns(rs, i) = {} => ThreadOf(ck, e, i).next = "new" /\ Doing(e, i) = "idle"

\* A PENDING entry is its FAILED run's only one.
QueueIn(rs, dq) ==
    \A d \in 1..Len(dq) :
        /\ dq[d].inv = rs[dq[d].run].inv
        /\ dq[d].status = "PENDING" =>
              /\ rs[dq[d].run].status = "FAILED"
              /\ \A k \in 1..Len(dq) : dq[k].status = "PENDING" /\ dq[k].run = dq[d].run => k = d

\* A resolution of exception x is recorded.
ResolvedIn(ds, x) == \E d \in 1..Len(ds) : ds[d].exc = x /\ ds[d].action # "ESCALATE"

\* The exceptions, and the requests about to resume a thread, agree with the
\* threads that wait.
CasesIn(xs, ds, rqs, ck, e) ==
    /\ \A x \in 1..Len(xs) :
          /\ xs[x].status = "OPEN" => Waits(ThreadOf(ck, e, xs[x].inv))
          /\ xs[x].status = "RESOLVED" => ResolvedIn(ds, x)
    /\ \A q \in Requests : rqs[q].pc = "resume" =>
          /\ rqs[q].decision # NoDecision /\ xs[rqs[q].exc].status = "RESOLVED"
          /\ Waits(ThreadOf(ck, e, xs[rqs[q].exc].inv))
          /\ \A p \in Requests : rqs[p].pc = "resume" /\ rqs[p].exc = rqs[q].exc => p = q
    /\ \A i \in Invoices : Waits(ThreadOf(ck, e, i)) =>
          \E x \in 1..Len(xs) : xs[x].inv = i
              /\ (xs[x].status = "OPEN" \/ \E q \in Requests : rqs[q].pc = "resume" /\ rqs[q].exc = x)

TrackInv ==
    /\ DeskInv /\ ReplayInv /\ ViewInv
    /\ ExceptionsLiveIn(runs, exceptions)
    /\ QueueIn(runs, dlq)
    /\ \A w \in Workers :
          /\ StagesIn(runs, checkpoint, exec[w])
          /\ CasesIn(exceptions, decisions, requests, checkpoint, exec[w])

\* What the only worker works on is a live run in its stage, and the GraphState
\* of its thread is that run's.
LEMMA ActiveRun ==
    ASSUME SystemInv, NEW w \in Workers, StagesIn(runs, checkpoint, exec[w]),
           NEW i \in Invoices, Doing(exec[w], i) # "idle"
    PROVE  \E r \in LiveRuns(runs, i) :
              /\ StageIn(runs[r].status, ThreadOf(checkpoint, exec[w], i), Doing(exec[w], i))
              /\ ThreadOf(checkpoint, exec[w], i).st.run \in {NoRun, r}
<1> DEFINE c == ThreadOf(checkpoint, exec[w], i)
<1>1. PICK r \in LiveRuns(runs, i) : StageIn(runs[r].status, c, Doing(exec[w], i))
  BY DEF StagesIn
<1>2. StateIn(runs, ledger, i, c.st)
  <2>1. CheckpointIn(runs, ledger, i, checkpoint[i]) /\ ExecIn(runs, ledger, dlq, exec[w])
    BY InvParts
  <2> QED
    BY <2>1 DEF ThreadOf, CheckpointIn, ExecIn
<1>3. c.st.run # NoRun => c.st.run \in LiveRuns(runs, i)
  BY <1>2 DEF StateIn, LiveRuns
<1>4. c.st.run # NoRun => c.st.run = r
  BY <1>3, RowFacts DEF LiveRuns, OneLiveIn
<1> QED
  BY <1>1, <1>4

\* A thread that is past its ingest node has its run.
LEMMA BegunRun ==
    ASSUME SystemInv, NEW w \in Workers, NEW i \in Invoices,
           Begun(ThreadOf(checkpoint, exec[w], i))
    PROVE  ThreadOf(checkpoint, exec[w], i).st.run # NoRun
<1>1. CheckpointIn(runs, ledger, i, checkpoint[i]) /\ ExecIn(runs, ledger, dlq, exec[w])
  BY InvParts
<1> QED
  BY <1>1 DEF ThreadOf, CheckpointIn, ExecIn, Begun, Ready

\* The worker does nothing for another invoice than i.
Only(e, i) == e.inv = i \/ e.pc = "idle"

\* The step moves live run r of invoice i to its next stage; every other run,
\* and what is done for every other invoice, stays.
Moved(w, i, r) ==
    /\ i \in Invoices /\ r \in LiveRuns(runs, i) /\ RunsInPlace
    /\ \A s \in 1..Len(runs) : s # r => runs'[s].status = runs[s].status
    /\ runs[r].status = "FAILED" => runs'[r].status = "FAILED" \/ ReplayClaim(w)
    /\ Only(exec[w], i) /\ Only(exec'[w], i)
    /\ \A j \in Invoices : j # i =>
          ThreadOf(checkpoint', exec'[w], j) = ThreadOf(checkpoint, exec[w], j)
    /\ StageIn(runs'[r].status, ThreadOf(checkpoint', exec'[w], i), Doing(exec'[w], i))
    /\ Steady(ThreadOf(checkpoint', exec'[w], i))

LEMMA MovedStages ==
    ASSUME SystemInv, NEW w \in Workers, StagesIn(runs, checkpoint, exec[w]),
           NEW i, NEW r, Moved(w, i, r)
    PROVE  /\ StagesIn(runs', checkpoint', exec'[w])
           /\ \A s \in 1..Len(runs) :
                 runs[s].status = "FAILED" => runs'[s].status = "FAILED" \/ ReplayClaim(w)
<1>1. /\ i \in Invoices /\ r \in LiveRuns(runs, i) /\ Len(runs') = Len(runs)
      /\ \A s \in 1..Len(runs) : /\ runs'[s].inv = runs[s].inv
                                 /\ runs'[s].status = "REJECTED" <=> runs[s].status = "REJECTED"
                                 /\ s # r => runs'[s].status = runs[s].status
  BY DEF Moved, RunsInPlace
<1>2. \A j \in Invoices : LiveRuns(runs', j) = LiveRuns(runs, j)
  BY <1>1 DEF LiveRuns
<1>3. \A s \in LiveRuns(runs, i) : s = r
  BY <1>1, RowFacts DEF LiveRuns, OneLiveIn
<1>4. ASSUME NEW j \in Invoices, j # i
      PROVE  /\ Doing(exec'[w], j) = Doing(exec[w], j)
             /\ \A s \in LiveRuns(runs, j) : runs'[s].status = runs[s].status
  <2>1. Doing(exec'[w], j) = "idle" /\ Doing(exec[w], j) = "idle"
    BY <1>4 DEF Moved, Only, Doing
  <2> QED
    BY <1>1, <1>4, <2>1 DEF LiveRuns
<1>5. ASSUME NEW j \in Invoices
      PROVE  /\ Steady(ThreadOf(checkpoint', exec'[w], j))
             /\ \A s \in LiveRuns(runs', j) :
                   StageIn(runs'[s].status, ThreadOf(checkpoint', exec'[w], j), Doing(exec'[w], j))
             /\ LiveRuns(runs', j) = {} => /\ ThreadOf(checkpoint', exec'[w], j).next = "new"
                                           /\ Doing(exec'[w], j) = "idle"
  <2>1. CASE j = i
    BY <1>1, <1>2, <1>3, <2>1 DEF Moved
  <2>2. CASE j # i
    <3>1. ThreadOf(checkpoint', exec'[w], j) = ThreadOf(checkpoint, exec[w], j)
      BY <2>2 DEF Moved
    <3> QED
      BY <1>2, <1>4, <2>2, <3>1 DEF StagesIn
  <2> QED
    BY <2>1, <2>2
<1>6. \A s \in 1..Len(runs) :
         runs[s].status = "FAILED" => runs'[s].status = "FAILED" \/ ReplayClaim(w)
  BY <1>1 DEF Moved
<1> QED
  BY <1>5, <1>6 DEF StagesIn

\* The threads that wait stay the same.
WaitsSame(w) ==
    \A i \in Invoices : Waits(ThreadOf(checkpoint', exec'[w], i))
                            <=> Waits(ThreadOf(checkpoint, exec[w], i))

\* A completed node moves the worker's live run.
LEMMA AdvanceMoved ==
    ASSUME SystemInv, NEW w \in Workers, ThreadsPlacedIn(checkpoint, exec[w]),
           exec[w].pc \in {"node", "second"}, exec[w].node \in Nodes, exec[w].inv \in Invoices,
           checkpoint' = checkpoint, NEW st, Advance(w, st),
           st.route = exec[w].st.route \/ exec[w].node \in {"auto_approve", "exception_triage"},
           NEW r \in LiveRuns(runs, exec[w].inv), RunsInPlace, runs[r].status # "FAILED",
           \A s \in 1..Len(runs) : s # r => runs'[s].status = runs[s].status,
           StageIn(runs'[r].status, [next |-> NextNode(exec[w].node, st), st |-> st], exec'[w].pc),
           Steady([next |-> NextNode(exec[w].node, st), st |-> st])
    PROVE  /\ Moved(w, exec[w].inv, r)
           /\ ThreadOf(checkpoint', exec'[w], exec[w].inv)
                 = [next |-> NextNode(exec[w].node, st), st |-> st]
           /\ (Waits([next |-> NextNode(exec[w].node, st), st |-> st])
                 <=> Waits([next |-> exec[w].node, st |-> exec[w].st])) => WaitsSame(w)
<1> DEFINE e == exec[w]
           f == exec'[w]
           d == [next |-> NextNode(exec[w].node, st), st |-> st]
<1>1. \A i \in Invoices : ThreadOf(checkpoint', f, i) =
          IF i = e.inv THEN d ELSE ThreadOf(checkpoint, e, i)
  BY AdvanceThreads
<1>2. exec \in [Workers -> Execs] /\ e \in Execs
  BY WorkerFacts
<1>3. f.inv = e.inv /\ f.pc \in {"node", "returning"}
  BY <1>2 DEF Advance, Execs
<1>4. ThreadOf(checkpoint, e, e.inv) = [next |-> e.node, st |-> e.st]
  BY DEF ThreadOf
<1> HIDE DEF d
<1>5. Only(e, e.inv) /\ Only(f, e.inv) /\ Doing(f, e.inv) = f.pc
  BY <1>3 DEF Only, Doing
<1>6. StageIn(runs'[r].status, d, f.pc) /\ Steady(d)
  BY DEF d
<1>7. Moved(w, e.inv, r)
  BY <1>1, <1>5, <1>6 DEF Moved
<1>8. ASSUME Waits(d) <=> Waits([next |-> e.node, st |-> e.st]) PROVE WaitsSame(w)
  BY <1>1, <1>4, <1>8 DEF WaitsSame
<1> QED
  BY <1>1, <1>7, <1>8 DEF d

\* What a node finds: its run, RUNNING unless a decision or the ingest node
\* comes first, and the decision that goes with its place.
LEMMA NodeStage ==
    ASSUME SystemInv, NEW w \in Workers, StagesIn(runs, checkpoint, exec[w]),
           exec[w].pc \in {"node", "second"}
    PROVE  /\ exec[w].inv \in Invoices /\ exec[w].node \in Nodes
           /\ ~Waits([next |-> exec[w].node, st |-> exec[w].st])
           /\ exec[w].st.decision # NoDecision => exec[w].node \in {"human_review", "archive"}
           /\ exec[w].node = "human_review" => exec[w].st.decision # NoDecision
           /\ \E r \in LiveRuns(runs, exec[w].inv) :
                 /\ exec[w].node = "ingest" => runs[r].status = "QUEUED"
                 /\ exec[w].node # "ingest" => exec[w].st.run = r
                 /\ exec[w].node \in Nodes \ {"ingest", "human_review", "archive"}
                       => runs[r].status = "RUNNING"
                 /\ exec[w].node \in {"human_review", "archive"} => runs[r].status = "RUNNING"
                       \/ (runs[r].status = "AWAITING_DECISION" /\ exec[w].st.decision # NoDecision)
<1> DEFINE e == exec[w]
<1>1. e.inv \in Invoices /\ e.node \in Nodes
  BY WorkerFacts DEF ExecIn
<1>2. ThreadOf(checkpoint, e, e.inv) = [next |-> e.node, st |-> e.st] /\ Doing(e, e.inv) = e.pc
  BY DEF ThreadOf, Doing
<1>3. PICK r \in LiveRuns(runs, e.inv) :
         /\ StageIn(runs[r].status, [next |-> e.node, st |-> e.st], e.pc)
         /\ e.st.run \in {NoRun, r}
  BY <1>1, <1>2, ActiveRun
<1>4. Begun([next |-> e.node, st |-> e.st]) => e.st.run # NoRun
  BY <1>1, <1>2, BegunRun
<1>5. Steady([next |-> e.node, st |-> e.st])
  BY <1>1, <1>2 DEF StagesIn
<1>6. e.node # "ingest" => e.st.run = r
  BY <1>1, <1>3, <1>4 DEF Begun
<1>7. /\ ~Waits([next |-> e.node, st |-> e.st])
      /\ e.node = "human_review" => e.st.decision # NoDecision
  BY <1>3 DEF StageIn, Waits
<1>8. e.st.decision # NoDecision => e.node \in {"human_review", "archive"}
  BY <1>1, <1>5 DEF Steady, Nodes
<1>9. /\ e.node = "ingest" => runs[r].status = "QUEUED"
      /\ e.node \in Nodes \ {"ingest", "human_review", "archive"} => runs[r].status = "RUNNING"
      /\ e.node \in {"human_review", "archive"} => runs[r].status = "RUNNING"
            \/ (runs[r].status = "AWAITING_DECISION" /\ e.st.decision # NoDecision)
  BY <1>1, <1>3 DEF StageIn, Begun, Waits, Nodes
<1> QED
  BY <1>1, <1>6, <1>7, <1>8, <1>9

\* A node that leaves the run's status alone: everything but ingest,
\* exception_triage and archive.
LEMMA PlainNodeMoved ==
    ASSUME SystemInv, NEW w \in Workers, ThreadsPlacedIn(checkpoint, exec[w]),
           StagesIn(runs, checkpoint, exec[w]), exec[w].pc \in {"node", "second"},
           exec[w].node \notin {"ingest", "exception_triage", "archive"},
           checkpoint' = checkpoint, NEW st, Advance(w, st),
           st.route = exec[w].st.route \/ exec[w].node = "auto_approve",
           st.decision = exec[w].st.decision, RunsInPlace,
           \A s \in 1..Len(runs) : runs'[s].status = runs[s].status
    PROVE  (\E i, r : Moved(w, i, r)) /\ WaitsSame(w)
<1> DEFINE e == exec[w]
           next == NextNode(e.node, st)
<1>1. /\ e.inv \in Invoices /\ e.node \in Nodes /\ ~Waits([next |-> e.node, st |-> e.st])
      /\ e.st.decision # NoDecision => e.node = "human_review"
      /\ e.node = "human_review" => e.st.decision # NoDecision
  BY NodeStage
<1>2. PICK r \in LiveRuns(runs, e.inv) :
         \/ runs[r].status = "RUNNING"
         \/ runs[r].status = "AWAITING_DECISION" /\ e.node = "human_review"
  BY <1>1, NodeStage
<1>3. /\ next \in Nodes \ {"ingest", "human_review"}
      /\ e.node = "human_review" => next = "archive"
  BY <1>1 DEF NextNode, Nodes, route_after_validate, route_after_match, route_after_policy,
          route_after_gate
<1>4. exec'[w].pc = "node"
  <2>1. exec \in [Workers -> Execs]
    BY WorkerFacts
  <2>2. next # "end" /\ e.node \notin InterruptAfter
    BY <1>3 DEF Nodes, InterruptAfter
  <2> QED
    BY <2>1, <2>2 DEF Advance, Execs
<1> HIDE DEF next
<1>5. Steady([next |-> next, st |-> st]) /\ ~Waits([next |-> next, st |-> st])
  BY <1>1, <1>3 DEF Steady, Waits
<1>6. r \in 1..Len(runs) /\ runs'[r].status = runs[r].status
  BY DEF LiveRuns
<1>7. StageIn(runs'[r].status, [next |-> next, st |-> st], exec'[w].pc)
  BY <1>1, <1>2, <1>3, <1>4, <1>5, <1>6 DEF StageIn, Begun, AtWork
<1>8. runs[r].status # "FAILED"
  BY <1>2
<1> QED
  BY <1>1, <1>5, <1>7, <1>8, AdvanceMoved DEF next

\* One live run's row is rewritten.
LEMMA RowMoved ==
    ASSUME SystemInv, NEW i, NEW r \in LiveRuns(runs, i), NEW row \in RunRow,
           row.inv = runs[r].inv, row.status # "REJECTED", runs' = Updated(runs, r, row)
    PROVE  /\ RunsInPlace /\ runs'[r] = row
           /\ \A s \in 1..Len(runs) : s # r => runs'[s] = runs[s]
<1>1. r \in 1..Len(runs) /\ runs[r].status # "REJECTED" /\ runs \in Seq(RunRow)
  BY RowFacts DEF LiveRuns
<1>2. RunsInPlace
  BY <1>1, RunRewritten
<1> QED
  BY <1>1, <1>2, RunRowUpdate

\* What a node does to the run's stage.
LEMMA NodeMoved ==
    ASSUME SystemInv, NEW w \in Workers, ThreadsPlacedIn(checkpoint, exec[w]),
           StagesIn(runs, checkpoint, exec[w]), NodeStep(w), ~ExceptionTriage(w)
    PROVE  (\E i, r : Moved(w, i, r)) /\ WaitsSame(w)
<1> DEFINE e == exec[w]
           f == exec'[w]
<1>1. exec \in [Workers -> Execs] /\ e \in Execs /\ e.st \in GraphState
  BY WorkerFacts
<1>2. ASSUME e.pc \in {"node", "second"}, checkpoint' = checkpoint, NEW st, Advance(w, st),
             e.node \notin {"ingest", "exception_triage", "archive"},
             st.route = e.st.route, st.decision = e.st.decision, runs' = runs
      PROVE  (\E i, r : Moved(w, i, r)) /\ WaitsSame(w)
  BY <1>2, PlainNodeMoved, InPlace
<1>3. ASSUME NEW node \in Nodes, NEW v, NEW st, LogOnly(w, node, v, st) \/ SecondLog(w, node, v, st),
             node # "ingest", node # "exception_triage", node # "archive",
             st.route = e.st.route, st.decision = e.st.decision
      PROVE  (\E i, r : Moved(w, i, r)) /\ WaitsSame(w)
  <2>1. /\ e.pc \in {"node", "second"} /\ e.node = node /\ Advance(w, st)
        /\ checkpoint' = checkpoint /\ runs' = runs
    BY <1>3 DEF LogOnly, SecondLog, At
  <2> QED
    BY <1>2, <1>3, <2>1
<1>4. CASE Backfill(w) \/ Embed(w)
  <2>1. /\ e.pc = "node" /\ exec' = [exec EXCEPT ![w].pc = "second"] /\ checkpoint' = checkpoint
        /\ runs' = runs
    BY <1>4 DEF Backfill, Embed, At
  <2>2. /\ f.pc = "second" /\ f.inv = e.inv /\ f.node = e.node /\ f.st = e.st
    BY <1>1, <2>1 DEF Execs
  <2>3. \A i \in Invoices : ThreadOf(checkpoint', f, i) = ThreadOf(checkpoint, e, i)
    BY <2>1, <2>2 DEF ThreadOf
  <2>4. e.inv \in Invoices /\ Doing(e, e.inv) = "node" /\ Doing(f, e.inv) = "second"
    BY <2>1, <2>2, NodeStage DEF Doing
  <2>5. PICK r \in LiveRuns(runs, e.inv) :
           StageIn(runs[r].status, ThreadOf(checkpoint, e, e.inv), "node")
    BY <2>4, ActiveRun
  <2>6. StageIn(runs[r].status, ThreadOf(checkpoint, e, e.inv), "second")
    BY <2>5 DEF StageIn, AtWork
  <2>7. Steady(ThreadOf(checkpoint, e, e.inv))
    BY <2>4 DEF StagesIn
  <2>8. Moved(w, e.inv, r)
    BY <2>1, <2>2, <2>3, <2>4, <2>6, <2>7, InPlace DEF Moved, Only
  <2> QED
    BY <2>3, <2>8 DEF WaitsSame
<1>5. CASE Extract(w)
  <2>1. /\ [e.st EXCEPT !.extraction = TRUE].route = e.st.route
        /\ [e.st EXCEPT !.extraction = TRUE].decision = e.st.decision
    BY <1>1 DEF GraphState
  <2> QED
    BY <1>3, <1>5, <2>1 DEF Extract, Nodes
<1>6. CASE Validate(w)
  <2>1. \A v : /\ [e.st EXCEPT !.validation = v].route = e.st.route
               /\ [e.st EXCEPT !.validation = v].decision = e.st.decision
    BY <1>1 DEF GraphState
  <2> QED
    BY <1>3, <1>6, <2>1 DEF Validate, Nodes
<1>7. CASE Match3way(w)
  <2>1. \A v : /\ [e.st EXCEPT !.match = v].route = e.st.route
               /\ [e.st EXCEPT !.match = v].decision = e.st.decision
    BY <1>1 DEF GraphState
  <2> QED
    BY <1>3, <1>7, <2>1 DEF Match3way, Nodes
<1>8. CASE Policy(w)
  <2>1. \A v : /\ [e.st EXCEPT !.policy = v].route = e.st.route
               /\ [e.st EXCEPT !.policy = v].decision = e.st.decision
    BY <1>1 DEF GraphState
  <2> QED
    BY <1>3, <1>8, <2>1 DEF Policy, Nodes
<1>9. CASE Gate(w)
  <2>1. \A v : /\ [e.st EXCEPT !.gate = v].route = e.st.route
               /\ [e.st EXCEPT !.gate = v].decision = e.st.decision
    BY <1>1 DEF GraphState
  <2> QED
    BY <1>3, <1>9, <2>1 DEF Gate, Nodes
<1>10. CASE HumanReview(w)
  BY <1>3, <1>10 DEF HumanReview, Nodes
<1>11. CASE AutoApprove(w)
  <2>1. /\ e.pc \in {"node", "second"} /\ e.node = "auto_approve" /\ checkpoint' = checkpoint
        /\ Advance(w, [e.st EXCEPT !.route = "AUTO"])
        /\ runs' = [runs EXCEPT ![e.st.run].route = "AUTO"]
    BY <1>11 DEF AutoApprove, At
  <2>2. [e.st EXCEPT !.route = "AUTO"].decision = e.st.decision
    BY <1>1 DEF GraphState
  <2>3. PICK r \in LiveRuns(runs, e.inv) : e.st.run = r
    BY <2>1, NodeStage
  <2>4. r \in 1..Len(runs) /\ runs[r] \in RunRow /\ runs[r].status # "REJECTED"
    BY RowFacts DEF LiveRuns
  <2> DEFINE row == [runs[r] EXCEPT !.route = "AUTO"]
  <2>5. row \in RunRow /\ row.inv = runs[r].inv /\ row.status = runs[r].status
    BY <2>4 DEF RunRow, Routes
  <2>6. runs' = Updated(runs, r, row)
    BY <2>1, <2>3 DEF Updated
  <2> HIDE DEF row
  <2>7. RunsInPlace /\ \A s \in 1..Len(runs) : runs'[s].status = runs[s].status
    BY <2>4, <2>5, <2>6, RowMoved
  <2> QED
    BY <2>1, <2>2, <2>7, PlainNodeMoved
<1>12. CASE Ingest(w)
  <2>1. PICK r \in IngestRuns(e.inv) :
           /\ runs' = [runs EXCEPT ![r].status = "RUNNING"]
           /\ Advance(w, [e.st EXCEPT !.run = r])
    BY <1>12 DEF Ingest
  <2>2. e.pc \in {"node", "second"} /\ e.node = "ingest" /\ checkpoint' = checkpoint
    BY <1>12 DEF Ingest, At
  <2> DEFINE st == [e.st EXCEPT !.run = r]
  <2>3. st.route = e.st.route /\ st.decision = e.st.decision
    BY <1>1 DEF GraphState
  <2>4. e.inv \in Invoices /\ e.node \in Nodes /\ e.st.decision = NoDecision
    BY <2>2, NodeStage
  <2>5. r \in LiveRuns(runs, e.inv) /\ runs[r].status # "FAILED"
    BY <2>1 DEF IngestRuns, RunsWith, LiveRuns
  <2>6. r \in 1..Len(runs) /\ runs[r] \in RunRow
    BY <2>5, RowFacts DEF LiveRuns
  <2> DEFINE row == [runs[r] EXCEPT !.status = "RUNNING"]
  <2>7. row \in RunRow /\ row.inv = runs[r].inv /\ row.status = "RUNNING"
    BY <2>6 DEF RunRow, RunStatus
  <2>8. runs' = Updated(runs, r, row)
    BY <2>1 DEF Updated
  <2> HIDE DEF row
  <2>9. /\ RunsInPlace /\ runs'[r].status = "RUNNING"
        /\ \A s \in 1..Len(runs) : s # r => runs'[s].status = runs[s].status
    BY <2>5, <2>7, <2>8, RowMoved
  <2> HIDE DEF st
  <2>10. NextNode(e.node, st) = "extract"
    BY <2>2 DEF NextNode
  <2>11. f.pc = "node"
    BY <1>1, <2>1, <2>2, <2>10 DEF Advance, Execs, InterruptAfter, st
  <2>12. /\ StageIn("RUNNING", [next |-> "extract", st |-> st], "node")
         /\ Steady([next |-> "extract", st |-> st]) /\ ~Waits([next |-> "extract", st |-> st])
         /\ ~Waits([next |-> e.node, st |-> e.st])
    BY <2>2, <2>3, <2>4 DEF StageIn, Begun, AtWork, Steady, Waits, Nodes
  <2>13. Advance(w, st)
    BY <2>1 DEF st
  <2> QED
    BY <2>2, <2>3, <2>4, <2>5, <2>9, <2>10, <2>11, <2>12, <2>13, AdvanceMoved
<1>13. CASE Archive(w)
  <2>1. /\ e.pc \in {"node", "second"} /\ e.node = "archive" /\ checkpoint' = checkpoint
        /\ Advance(w, e.st)
        /\ runs' = [runs EXCEPT ![e.st.run].status = "COMPLETED",
                                ![e.st.run].route = IF e.st.route = "none" THEN @ ELSE e.st.route]
    BY <1>13 DEF Archive, At
  <2>2. PICK r \in LiveRuns(runs, e.inv) :
           e.st.run = r /\ runs[r].status \in {"RUNNING", "AWAITING_DECISION"}
    BY <2>1, NodeStage DEF Nodes
  <2>3. r \in 1..Len(runs) /\ runs[r] \in RunRow
    BY RowFacts DEF LiveRuns
  <2> DEFINE row == [runs[r] EXCEPT !.status = "COMPLETED",
                                    !.route = IF e.st.route = "none" THEN @ ELSE e.st.route]
  <2>4. row \in RunRow /\ row.inv = runs[r].inv /\ row.status = "COMPLETED"
    BY <1>1, <2>3 DEF RunRow, RunStatus, Routes, GraphState
  <2>5. runs' = Updated(runs, r, row)
    BY <2>1, <2>2 DEF Updated
  <2> HIDE DEF row
  <2>6. /\ RunsInPlace /\ runs'[r].status = "COMPLETED"
        /\ \A s \in 1..Len(runs) : s # r => runs'[s].status = runs[s].status
    BY <2>4, <2>5, RowMoved
  <2>7. NextNode(e.node, e.st) = "end"
    BY <2>1 DEF NextNode
  <2>8. f.pc = "returning"
    BY <1>1, <2>1, <2>7 DEF Advance, Execs
  <2>9. /\ StageIn("COMPLETED", [next |-> "end", st |-> e.st], "returning")
        /\ Steady([next |-> "end", st |-> e.st]) /\ ~Waits([next |-> "end", st |-> e.st])
        /\ ~Waits([next |-> e.node, st |-> e.st])
    BY <2>1 DEF StageIn, Steady, Waits
  <2>10. e.inv \in Invoices /\ e.node \in Nodes
    BY <2>1, NodeStage
  <2>11. runs[r].status # "FAILED"
    BY <2>2
  <2> QED
    BY <2>1, <2>6, <2>7, <2>8, <2>9, <2>10, <2>11, AdvanceMoved
<1> QED
  BY <1>4, <1>5, <1>6, <1>7, <1>8, <1>9, <1>10, <1>11, <1>12, <1>13 DEF NodeStep

\* exception_triage pauses its thread for a human.
LEMMA TriageMoved ==
    ASSUME SystemInv, NEW w \in Workers, ThreadsPlacedIn(checkpoint, exec[w]),
           StagesIn(runs, checkpoint, exec[w]), ExceptionTriage(w)
    PROVE  /\ \E r : Moved(w, exec[w].inv, r)
           /\ Waits(ThreadOf(checkpoint', exec'[w], exec[w].inv))
<1> DEFINE e == exec[w]
           f == exec'[w]
           st == [e.st EXCEPT !.route = "EXCEPTION"]
<1>1. exec \in [Workers -> Execs] /\ e \in Execs /\ e.st \in GraphState
  BY WorkerFacts
<1>2. /\ e.pc \in {"node", "second"} /\ e.node = "exception_triage" /\ checkpoint' = checkpoint
      /\ Advance(w, st)
      /\ runs' = [runs EXCEPT ![e.st.run].route = "EXCEPTION",
                              ![e.st.run].status = "AWAITING_DECISION"]
  BY DEF ExceptionTriage, At
<1>3. PICK r \in LiveRuns(runs, e.inv) : e.st.run = r /\ runs[r].status = "RUNNING"
  BY <1>2, NodeStage DEF Nodes
<1>4. e.inv \in Invoices /\ e.node \in Nodes /\ e.st.decision = NoDecision
  BY <1>2, NodeStage
<1>5. r \in 1..Len(runs) /\ runs[r] \in RunRow
  BY RowFacts DEF LiveRuns
<1> DEFINE row == [runs[r] EXCEPT !.route = "EXCEPTION", !.status = "AWAITING_DECISION"]
<1>6. row \in RunRow /\ row.inv = runs[r].inv /\ row.status = "AWAITING_DECISION"
  BY <1>5 DEF RunRow, RunStatus, Routes
<1>7. runs' = Updated(runs, r, row)
  BY <1>2, <1>3 DEF Updated
<1> HIDE DEF row
<1>8. /\ RunsInPlace /\ runs'[r].status = "AWAITING_DECISION"
      /\ \A s \in 1..Len(runs) : s # r => runs'[s].status = runs[s].status
  BY <1>6, <1>7, RowMoved
<1>9. st.decision = NoDecision
  BY <1>1, <1>4 DEF GraphState
<1> HIDE DEF st
<1>10. NextNode(e.node, st) = "human_review"
  BY <1>2 DEF NextNode
<1>11. f.pc = "returning"
  BY <1>1, <1>2, <1>10 DEF Advance, Execs, InterruptAfter
<1>12. /\ StageIn("AWAITING_DECISION", [next |-> "human_review", st |-> st], "returning")
       /\ Steady([next |-> "human_review", st |-> st])
       /\ Waits([next |-> "human_review", st |-> st])
  BY <1>9 DEF StageIn, Steady, Waits
<1>13. runs[r].status # "FAILED"
  BY <1>3
<1> QED
  BY <1>2, <1>4, <1>8, <1>10, <1>11, <1>12, <1>13, AdvanceMoved

\* A step that leaves every thread where it is moves what is done for one
\* invoice, and its live run's status.
LEMMA SameMoved ==
    ASSUME SystemInv, NEW w \in Workers, StagesIn(runs, checkpoint, exec[w]), ThreadsSame(w),
           NEW i \in Invoices, NEW r \in LiveRuns(runs, i), RunsInPlace,
           \A s \in 1..Len(runs) : s # r => runs'[s].status = runs[s].status,
           runs[r].status = "FAILED" => runs'[r].status = "FAILED" \/ ReplayClaim(w),
           Only(exec[w], i), Only(exec'[w], i),
           StageIn(runs'[r].status, ThreadOf(checkpoint, exec[w], i), Doing(exec'[w], i))
    PROVE  Moved(w, i, r) /\ WaitsSame(w)
<1>1. Steady(ThreadOf(checkpoint, exec[w], i))
  BY DEF StagesIn
<1> QED
  BY <1>1 DEF ThreadsSame, Moved, WaitsSame

\* The worker's program counter moves on, within the stage of its run.
LEMMA CounterMoved ==
    ASSUME SystemInv, NEW w \in Workers, StagesIn(runs, checkpoint, exec[w]), ThreadsSame(w),
           runs' = runs, exec[w].pc # "idle", exec'[w].inv = exec[w].inv \/ exec'[w].pc = "idle",
           \A s \in RunStatus : StageIn(s, ThreadOf(checkpoint, exec[w], exec[w].inv), exec[w].pc)
              => StageIn(s, ThreadOf(checkpoint, exec[w], exec[w].inv), exec'[w].pc)
    PROVE  (\E i, r : Moved(w, i, r)) /\ WaitsSame(w)
<1> DEFINE e == exec[w]
           f == exec'[w]
           c == ThreadOf(checkpoint, e, e.inv)
<1>1. e.inv \in Invoices /\ Doing(e, e.inv) = e.pc /\ Doing(f, e.inv) = f.pc
  BY WorkerFacts DEF ExecIn, Doing
<1>2. PICK r \in LiveRuns(runs, e.inv) : StageIn(runs[r].status, c, e.pc)
  BY <1>1, ActiveRun
<1>3. runs[r].status \in RunStatus
  BY RowFacts DEF LiveRuns, RunRow
<1>4. StageIn(runs'[r].status, c, Doing(f, e.inv))
  BY <1>1, <1>2, <1>3
<1>5. Only(e, e.inv) /\ Only(f, e.inv)
  BY DEF Only
<1> QED
  BY <1>1, <1>4, <1>5, SameMoved, InPlace

\* What the runner and failing nodes do to the run's stage.
LEMMA RunnerMoved ==
    ASSUME SystemInv, NEW w \in Workers, ThreadsPlacedIn(checkpoint, exec[w]),
           StagesIn(runs, checkpoint, exec[w]), NothingLost,
           RunnerStep(w) \/ FaultStep(w), ~ReplayClaim(w)
    PROVE  (\E i, r : Moved(w, i, r)) /\ WaitsSame(w)
<1> DEFINE e == exec[w]
           f == exec'[w]
           c == ThreadOf(checkpoint, e, e.inv)
<1>1. exec \in [Workers -> Execs] /\ e \in Execs /\ checkpoint \in [Invoices -> Checkpoints]
  BY WorkerFacts DEF SystemInv, TypeOK
<1>2. Start(w) \/ ThreadsSame(w)
  BY RunnerRoutes DEF NothingLost, CheckpointsKept
<1>3. ASSUME e.pc # "idle", f.inv = e.inv \/ f.pc = "idle", runs' = runs, ~Start(w),
             NEW b, f.pc = b, \A s \in RunStatus : StageIn(s, c, e.pc) => StageIn(s, c, b)
      PROVE  (\E i, r : Moved(w, i, r)) /\ WaitsSame(w)
  BY <1>2, <1>3, CounterMoved
<1>4. ASSUME e.pc # "idle"
      PROVE  /\ e.inv \in Invoices /\ Doing(e, e.inv) = e.pc /\ Steady(c)
             /\ e.pc \in {"call", "fresh", "resume", "raised", "claim"} => c = checkpoint[e.inv]
             /\ \E r \in LiveRuns(runs, e.inv) :
                   StageIn(runs[r].status, c, e.pc) /\ c.st.run \in {NoRun, r}
  <2>1. e.inv \in Invoices /\ Doing(e, e.inv) = e.pc
    BY <1>4, WorkerFacts DEF ExecIn, Doing
  <2>2. Steady(c)
    BY <2>1 DEF StagesIn
  <2>3. e.pc \in {"call", "fresh", "resume", "raised", "claim"} => c = checkpoint[e.inv]
    BY DEF ThreadOf
  <2> QED
    BY <1>4, <2>1, <2>2, <2>3, ActiveRun
<1> HIDE DEF c
<1>5. CASE RunInvoice(w)
  <2>1. /\ e.pc = "call" /\ ~Start(w) /\ runs' = runs /\ c = checkpoint[e.inv]
    BY <1>4, <1>5 DEF RunInvoice, Start, tables
  <2>2. PICK s : StageIn(s, c, "call")
    BY <1>4, <2>1
  <2>3. c.next = "new" \/ (Begun(c) /\ ~Waits(c))
    BY <2>2 DEF StageIn, AtWork
  <2>4. CASE c.next = "new"
    <3>1. f.pc = "fresh" /\ f.inv = e.inv
      BY <1>1, <1>5, <2>1, <2>4 DEF RunInvoice, Execs, Nodes, Paused
    <3>2. \A t : StageIn(t, c, "call") => StageIn(t, c, "fresh")
      BY <2>4 DEF StageIn, Begun, Nodes, Waits
    <3> QED
      BY <1>3, <2>1, <3>1, <3>2
  <2>5. CASE Begun(c) /\ ~Waits(c)
    <3>1. c.next # "end" /\ ~Paused(c) /\ c.next # "new"
      BY <2>5 DEF Begun, Nodes, Paused, Waits
    <3>2. f.pc = "resume" /\ f.inv = e.inv
      BY <1>1, <1>5, <2>1, <3>1 DEF RunInvoice, Execs
    <3>3. \A t : StageIn(t, c, "call") => StageIn(t, c, "resume")
      BY <2>5, <3>1 DEF StageIn, AtWork
    <3> QED
      BY <1>3, <2>1, <3>2, <3>3
  <2> QED
    BY <2>3, <2>4, <2>5
<1>6. CASE Resume(w)
  <2>1. e.pc = "resume" /\ ~Start(w) /\ runs' = runs /\ c = checkpoint[e.inv]
    BY <1>4, <1>6 DEF Resume, Start, tables
  <2>2. PICK s : StageIn(s, c, "resume")
    BY <1>4, <2>1
  <2>3. c.next \in Nodes
    BY <2>2 DEF StageIn, Begun, Nodes
  <2>4. f.pc = "node" /\ f.inv = e.inv
    BY <1>1, <1>6, <2>1, <2>3 DEF Resume, Execs
  <2>5. \A t : StageIn(t, c, "resume") => StageIn(t, c, "node")
    BY DEF StageIn, AtWork
  <2> QED
    BY <1>3, <2>1, <2>4, <2>5
<1>7. CASE Persist(w)
  <2>1. e.pc \in {"node", "second"} /\ ~Start(w) /\ runs' = runs /\ f.pc = e.pc /\ f.inv = e.inv
    BY <1>1, <1>7 DEF Persist, Start, tables, Execs
  <2> QED
    BY <1>3, <2>1
<1>8. CASE Return(w)
  <2>1. e.pc = "returning" /\ ~Start(w) /\ runs' = runs /\ f.pc = "idle"
    BY <1>1, <1>8 DEF Return, Start, tables, Idle
  <2>2. \A t : StageIn(t, c, "returning") => StageIn(t, c, "idle")
    BY DEF StageIn, AtWork
  <2> QED
    BY <1>3, <2>1, <2>2
<1>9. ASSUME Raise(w), e.pc \in {"node", "second"}, runs' = runs
      PROVE  (\E i, r : Moved(w, i, r)) /\ WaitsSame(w)
  <2>1. f.pc = "raised" /\ f.inv = e.inv /\ ~Start(w)
    BY <1>1, <1>9 DEF Raise, Start, Execs
  <2>2. \A t : StageIn(t, c, e.pc) => StageIn(t, c, "raised")
    BY <1>9 DEF StageIn, AtWork
  <2> QED
    BY <1>3, <1>9, <2>1, <2>2
<1>10. CASE IngestNoRun(w) \/ BusinessFailure(w)
  BY <1>9, <1>10 DEF IngestNoRun, BusinessFailure, At, tables
<1>11. CASE InfraFailure(w)
  <2>1. CASE e.attempt < e.limit
    <3>1. /\ f.pc = "node" /\ f.inv = e.inv /\ e.pc \in {"node", "second"} /\ runs' = runs
          /\ ~Start(w)
      BY <1>1, <1>11, <2>1 DEF InfraFailure, Execs, tables, Start
    <3>2. \A t : StageIn(t, c, e.pc) => StageIn(t, c, "node")
      BY <3>1 DEF StageIn, AtWork
    <3> QED
      BY <1>3, <3>1, <3>2
  <2>2. CASE ~(e.attempt < e.limit)
    BY <1>9, <1>11, <2>2 DEF InfraFailure, tables
  <2> QED
    BY <2>1, <2>2
<1>12. CASE PersistFailure(w) \/ Crash(w) \/ RecordFailureFails(w)
  BY <1>12 DEF PersistFailure, Crash, RecordFailureFails, Fault, NothingLost
<1>13. CASE RecordFailureRefused(w)
  <2>1. /\ e.pc = "raised" /\ ~Start(w) /\ runs' = runs /\ f.pc = "idle" /\ c.st.run = NoRun
    BY <1>1, <1>4, <1>13 DEF RecordFailureRefused, Start, tables, Idle, SnapshotRun
  <2>2. ~Begun(c)
    BY <1>4, <2>1, BegunRun DEF c
  <2>3. \A t : StageIn(t, c, "raised") => StageIn(t, c, "idle")
    BY <2>2 DEF StageIn, AtWork, Begun, Nodes
  <2> QED
    BY <1>3, <2>1, <2>3
<1>14. CASE RecordFailure(w)
  <2>1. /\ e.pc = "raised" /\ ~Start(w) /\ f.pc = "idle" /\ c.st.run # NoRun
        /\ runs' = [runs EXCEPT ![c.st.run].status = "FAILED"]
    BY <1>1, <1>4, <1>14 DEF RecordFailure, Start, Idle, SnapshotRun
  <2>2. PICK r \in LiveRuns(runs, e.inv) :
           StageIn(runs[r].status, c, "raised") /\ c.st.run = r
    BY <1>4, <2>1
  <2>3. r \in 1..Len(runs) /\ runs[r] \in RunRow
    BY RowFacts DEF LiveRuns
  <2> DEFINE row == [runs[r] EXCEPT !.status = "FAILED"]
  <2>4. row \in RunRow /\ row.inv = runs[r].inv /\ row.status = "FAILED"
    BY <2>3 DEF RunRow, RunStatus
  <2>5. runs' = Updated(runs, r, row)
    BY <2>1, <2>2 DEF Updated
  <2> HIDE DEF row
  <2>6. /\ RunsInPlace /\ runs'[r].status = "FAILED"
        /\ \A s \in 1..Len(runs) : s # r => runs'[s].status = runs[s].status
    BY <2>4, <2>5, RowMoved
  <2>7. StageIn("FAILED", c, "idle")
    BY <2>1, <2>2 DEF StageIn, AtWork, Begun, Waits, Nodes
  <2>8. /\ Only(e, e.inv) /\ Only(f, e.inv) /\ Doing(f, e.inv) = "idle" /\ e.inv \in Invoices
    BY <1>4, <2>1 DEF Only, Doing
  <2> QED
    BY <1>2, <2>1, <2>6, <2>7, <2>8, SameMoved DEF c
<1>15. CASE Start(w)
  <2>1. /\ e.pc = "fresh" /\ checkpoint' = checkpoint /\ runs' = runs
        /\ f.pc = "node" /\ f.inv = e.inv /\ f.node = "ingest" /\ f.st = checkpoint[e.inv].st
    BY <1>1, <1>15 DEF Start, Execs, tables
  <2>2. PICK r \in LiveRuns(runs, e.inv) : StageIn(runs[r].status, c, "fresh")
    BY <1>4, <2>1
  <2>3. /\ c = checkpoint[e.inv] /\ e.inv \in Invoices /\ Steady(c)
    BY <1>4, <2>1
  <2>4. runs[r].status = "QUEUED" /\ c.next = "new" /\ c.st.run = NoRun
    BY <2>2 DEF StageIn, AtWork
  <2>5. \A i \in Invoices : /\ i # e.inv => ThreadOf(checkpoint', f, i) = ThreadOf(checkpoint, e, i)
                            /\ i = e.inv => ThreadOf(checkpoint', f, i) = [next |-> "ingest", st |-> c.st]
                            /\ i = e.inv => ThreadOf(checkpoint, e, i) = c
    BY <2>1, <2>3 DEF ThreadOf
  <2>6. /\ StageIn("QUEUED", [next |-> "ingest", st |-> c.st], "node")
        /\ Steady([next |-> "ingest", st |-> c.st]) /\ ~Waits([next |-> "ingest", st |-> c.st])
        /\ ~Waits(c)
    BY <2>3, <2>4 DEF StageIn, Steady, Waits
  <2>7. /\ Only(e, e.inv) /\ Only(f, e.inv) /\ Doing(f, e.inv) = "node"
    BY <2>1 DEF Only, Doing
  <2>8. Moved(w, e.inv, r)
    BY <2>1, <2>3, <2>4, <2>5, <2>6, <2>7, InPlace DEF Moved
  <2> QED
    BY <2>3, <2>5, <2>6, <2>8 DEF WaitsSame
<1> QED
  BY <1>5, <1>6, <1>7, <1>8, <1>10, <1>11, <1>12, <1>13, <1>14, <1>15 DEF RunnerStep, FaultStep

\* A claimed entry's run goes back to work.
LEMMA ClaimMoved ==
    ASSUME ReplayInv, NEW w \in Workers, ThreadsPlacedIn(checkpoint, exec[w]),
           StagesIn(runs, checkpoint, exec[w]), QueueIn(runs, dlq), NothingLost, ReplayClaim(w)
    PROVE  (\E i, r : Moved(w, i, r)) /\ WaitsSame(w)
<1> DEFINE e == exec[w]
           f == exec'[w]
           c == ThreadOf(checkpoint, e, e.inv)
           r == dlq[e.entry].run
<1>1. exec \in [Workers -> Execs] /\ e \in Execs /\ SystemInv
  BY WorkerFacts DEF ReplayInv
<1>2. /\ e.pc = "claim" /\ e.inv \in Invoices /\ e.entry \in 1..Len(dlq)
      /\ runs' = [runs EXCEPT ![r].status = "RUNNING"]
      /\ f = Called(dlq[e.entry].inv, 1)
  BY <1>1, WorkerFacts DEF ReplayClaim, ExecIn
<1>3. dlq[e.entry].status = "PENDING" /\ dlq[e.entry].inv = e.inv
  BY <1>2 DEF ReplayInv
<1>4. r \in LiveRuns(runs, e.inv) /\ runs[r].status = "FAILED"
  BY <1>1, <1>2, <1>3, RowFacts DEF QueueIn, LiveRuns
<1>5. r \in 1..Len(runs) /\ runs[r] \in RunRow
  BY <1>1, <1>4, RowFacts DEF LiveRuns
<1> HIDE DEF r
<1>6. /\ f.pc = "call" /\ f.inv = e.inv /\ ~Start(w)
  BY <1>2, <1>3 DEF Called, Idle, Start
<1>7. ThreadsSame(w)
  BY <1>1, <1>6, RunnerRoutes DEF RunnerStep, NothingLost, CheckpointsKept
<1> DEFINE row == [runs[r] EXCEPT !.status = "RUNNING"]
<1>8. row \in RunRow /\ row.inv = runs[r].inv /\ row.status = "RUNNING"
  BY <1>5 DEF RunRow, RunStatus
<1>9. runs' = Updated(runs, r, row)
  BY <1>2 DEF Updated
<1> HIDE DEF row
<1>10. /\ RunsInPlace /\ runs'[r].status = "RUNNING"
       /\ \A s \in 1..Len(runs) : s # r => runs'[s].status = runs[s].status
  BY <1>1, <1>4, <1>8, <1>9, RowMoved
<1>11. StageIn("FAILED", c, Doing(e, e.inv))
  BY <1>2, <1>4 DEF StagesIn
<1>12. StageIn("RUNNING", c, "call")
  BY <1>11 DEF StageIn
<1>13. Only(e, e.inv) /\ Only(f, e.inv) /\ Doing(f, e.inv) = "call"
  BY <1>6 DEF Only, Doing
<1> QED
  BY <1>1, <1>2, <1>4, <1>7, <1>10, <1>12, <1>13, SameMoved

\* An operator picks a PENDING entry: its run is FAILED and nobody works on it.
LEMMA ReplayReadMoved ==
    ASSUME SystemInv, NEW w \in Workers, ThreadsPlacedIn(checkpoint, exec[w]),
           StagesIn(runs, checkpoint, exec[w]), QueueIn(runs, dlq), NothingLost,
           NEW d \in 1..Len(dlq), ReplayRead(w, d)
    PROVE  (\E i, r : Moved(w, i, r)) /\ WaitsSame(w)
<1> DEFINE e == exec[w]
           f == exec'[w]
           i == dlq[d].inv
           r == dlq[d].run
<1>1. exec \in [Workers -> Execs] /\ e \in Execs
  BY WorkerFacts
<1>2. /\ e.pc = "idle" /\ dlq[d].status = "PENDING" /\ runs' = runs
      /\ f.pc = "claim" /\ f.inv = i /\ ~Start(w)
  BY <1>1 DEF ReplayRead, Idle, tables, Start
<1>3. i \in Invoices /\ r \in LiveRuns(runs, i) /\ runs[r].status = "FAILED"
  BY <1>2, RowFacts DEF QueueIn, LiveRuns, DLQRow
<1>4. ThreadsSame(w)
  BY <1>2, RunnerRoutes DEF RequestStep, NothingLost, CheckpointsKept
<1>5. Only(e, i) /\ Only(f, i) /\ Doing(f, i) = "claim"
  BY <1>2 DEF Only, Doing
<1>6. StageIn("FAILED", ThreadOf(checkpoint, e, i), Doing(e, i))
  BY <1>3 DEF StagesIn
<1>7. StageIn("FAILED", ThreadOf(checkpoint, e, i), "claim")
  BY <1>6 DEF StageIn
<1> QED
  BY <1>2, <1>3, <1>4, <1>5, <1>7, SameMoved, InPlace

\* submit_decision takes the thread out of its wait and back to work.
LEMMA ResumeMoved ==
    ASSUME SystemInv, NEW w \in Workers, StagesIn(runs, checkpoint, exec[w]),
           NEW q \in Requests, DecideResume(q, w), requests[q].decision # NoDecision,
           NEW i \in Invoices, i = exceptions[requests[q].exc].inv,
           Waits(ThreadOf(checkpoint, exec[w], i))
    PROVE  (\E r : Moved(w, i, r)) /\ ~Waits(ThreadOf(checkpoint', exec'[w], i))
<1> DEFINE e == exec[w]
           f == exec'[w]
           c == checkpoint[i]
           n == requests[q].decision
<1>1. exec \in [Workers -> Execs] /\ checkpoint \in [Invoices -> Checkpoints]
  BY WorkerFacts DEF SystemInv, TypeOK
<1>2. /\ e.pc = "idle" /\ runs' = runs
      /\ checkpoint' = [checkpoint EXCEPT ![i].st.decision = n]
      /\ f = [Called(i, RetryAttempts) EXCEPT !.pc = "resume"]
  BY <1>1 DEF DecideResume, SubmitDecision, tables
<1>3. f.pc = "resume" /\ f.inv = i
  BY <1>2 DEF Called, Idle
<1>4. \A j \in Invoices : /\ ThreadOf(checkpoint, e, j) = checkpoint[j]
                          /\ ThreadOf(checkpoint', f, j) = checkpoint'[j]
  BY <1>2, <1>3 DEF ThreadOf
<1>5. /\ checkpoint'[i].next = c.next /\ checkpoint'[i].st.decision = n
      /\ \A j \in Invoices : j # i => checkpoint'[j] = checkpoint[j]
  <2>1. c \in Checkpoints
    BY <1>1
  <2>2. checkpoint'[i] = [c EXCEPT !.st.decision = n]
    BY <1>1, <1>2
  <2>3. checkpoint'[i].next = c.next /\ checkpoint'[i].st.decision = n
    <3> HIDE DEF c, n
    <3> QED
      BY <2>1, <2>2 DEF Checkpoints, GraphState
  <2>4. \A j \in Invoices : j # i => checkpoint'[j] = checkpoint[j]
    BY <1>1, <1>2
  <2> QED
    BY <2>3, <2>4
<1>6. Waits(c)
  BY <1>4
<1>7. PICK r \in LiveRuns(runs, i) : StageIn(runs[r].status, c, Doing(e, i))
  <2>1. c.next # "new"
    BY <1>6 DEF Waits
  <2>2. LiveRuns(runs, i) # {}
    BY <1>4, <2>1 DEF StagesIn
  <2> QED
    BY <1>4, <2>2 DEF StagesIn
<1>8. runs[r].status = "AWAITING_DECISION"
  BY <1>6, <1>7 DEF StageIn, Waits
<1>9. /\ StageIn("AWAITING_DECISION", checkpoint'[i], "resume") /\ Steady(checkpoint'[i])
      /\ ~Waits(checkpoint'[i])
  BY <1>5, <1>6 DEF StageIn, Steady, Waits, AtWork
<1>10. Only(e, i) /\ Only(f, i) /\ Doing(f, i) = "resume"
  BY <1>2, <1>3 DEF Only, Doing
<1>11. Moved(w, i, r)
  <2>1. /\ RunsInPlace /\ runs'[r].status = "AWAITING_DECISION"
        /\ \A s \in 1..Len(runs) : s # r => runs'[s].status = runs[s].status
    BY <1>2, <1>8, InPlace
  <2>2. \A j \in Invoices : j # i => ThreadOf(checkpoint', f, j) = ThreadOf(checkpoint, e, j)
    BY <1>4, <1>5
  <2>3. ThreadOf(checkpoint', f, i) = checkpoint'[i]
    BY <1>4
  <2> QED
    BY <1>7, <1>8, <1>9, <1>10, <2>1, <2>2, <2>3 DEF Moved
<1> QED
  BY <1>4, <1>9, <1>11

\* A step that creates a run starts it on a new thread or rejects it.
LEMMA CreatedStages ==
    ASSUME SystemInv, NEW w \in Workers, StagesIn(runs, checkpoint, exec[w]), ThreadsSame(w),
           NEW i \in Invoices, NEW status, NEW route, NEW e, Creates(i, status, route, e),
           \A j \in Invoices : j # i => Doing(exec'[w], j) = Doing(exec[w], j),
           \/ status = "REJECTED" /\ Doing(exec'[w], i) = Doing(exec[w], i)
           \/ status = "QUEUED" /\ LiveRuns(runs, i) = {} /\ Doing(exec'[w], i) = "call"
    PROVE  /\ StagesIn(runs', checkpoint', exec'[w])
           /\ \A s \in 1..Len(runs) : runs'[s] = runs[s]
<1> DEFINE n == Len(runs) + 1
<1>1. runs \in Seq(RunRow) /\ Len(runs) \in Nat
  BY RowFacts
<1>2. PICK row \in RunRow : /\ runs' = Append(runs, row) /\ row.inv = i /\ row.status = status
  BY DEF Creates, Grown, NewRow
<1>3. /\ Len(runs') = n /\ runs'[n] = row /\ \A s \in 1..Len(runs) : runs'[s] = runs[s]
  BY <1>1, <1>2, AppendProperties
<1>4. \A s : s \in 1..n <=> s \in 1..Len(runs) \/ s = n
  BY <1>1
<1> HIDE DEF n
<1>5. \A j \in Invoices : \A s : s \in LiveRuns(runs', j) <=>
         s \in LiveRuns(runs, j) \/ (s = n /\ j = i /\ status # "REJECTED")
  BY <1>2, <1>3, <1>4 DEF LiveRuns
<1>6. \A j \in Invoices : \A s \in LiveRuns(runs, j) : runs'[s] = runs[s]
  BY <1>3 DEF LiveRuns
<1>7. \A j \in Invoices : ThreadOf(checkpoint', exec'[w], j) = ThreadOf(checkpoint, exec[w], j)
  BY DEF ThreadsSame
<1>8. ASSUME NEW j \in Invoices
      PROVE  /\ Steady(ThreadOf(checkpoint', exec'[w], j))
             /\ \A s \in LiveRuns(runs', j) :
                   StageIn(runs'[s].status, ThreadOf(checkpoint', exec'[w], j), Doing(exec'[w], j))
             /\ LiveRuns(runs', j) = {} => /\ ThreadOf(checkpoint', exec'[w], j).next = "new"
                                           /\ Doing(exec'[w], j) = "idle"
  <2>1. CASE j # i \/ status = "REJECTED"
    <3>1. LiveRuns(runs', j) = LiveRuns(runs, j)
      BY <1>5, <2>1
    <3>2. Doing(exec'[w], j) = Doing(exec[w], j)
      BY <2>1
    <3> QED
      BY <1>6, <1>7, <3>1, <3>2 DEF StagesIn
  <2>2. CASE j = i /\ status = "QUEUED"
    <3> DEFINE c == ThreadOf(checkpoint, exec[w], i)
    <3>1. /\ LiveRuns(runs, i) = {} /\ Doing(exec'[w], i) = "call"
          /\ c.next = "new" /\ Doing(exec[w], i) = "idle" /\ Steady(c)
      BY <2>2 DEF StagesIn
    <3>2. c.st.run = NoRun
      <4>1. CheckpointIn(runs, ledger, i, checkpoint[i]) /\ ExecIn(runs, ledger, dlq, exec[w])
        BY InvParts
      <4>2. StateIn(runs, ledger, i, c.st)
        BY <4>1 DEF ThreadOf, CheckpointIn, ExecIn
      <4> QED
        BY <3>1, <4>2 DEF StateIn, LiveRuns
    <3> HIDE DEF c
    <3>3. StageIn("QUEUED", c, "call")
      BY <3>1, <3>2 DEF StageIn
    <3>4. \A s \in LiveRuns(runs', i) : runs'[s].status = "QUEUED"
      BY <1>2, <1>3, <1>5, <2>2, <3>1
    <3>5. n \in LiveRuns(runs', i)
      BY <1>5, <2>2
    <3> QED
      BY <1>7, <2>2, <3>1, <3>3, <3>4, <3>5 DEF c
  <2> QED
    BY <2>1, <2>2
<1> QED
  BY <1>3, <1>8 DEF StagesIn

\* After the step every run is in its stage, and the FAILED ones wait for their
\* replay.
Settled(w) ==
    /\ StagesIn(runs', checkpoint', exec'[w])
    /\ \A s \in 1..Len(runs) :
          runs[s].status = "FAILED" => runs'[s].status = "FAILED" \/ ReplayClaim(w)

\* An upload: a QUEUED run for a new invoice, a REJECTED one for a known one.
LEMMA UploadStages ==
    ASSUME SystemInv, NEW w \in Workers, ThreadsPlacedIn(checkpoint, exec[w]),
           StagesIn(runs, checkpoint, exec[w]), NothingLost,
           NEW i \in Invoices, Accept(w, i) \/ Duplicate(i)
    PROVE  Settled(w) /\ WaitsSame(w)
<1> DEFINE e == exec[w]
           f == exec'[w]
<1>1. exec \in [Workers -> Execs] /\ e \in Execs
  BY WorkerFacts
<1>2. Ev("ingest.accepted") \in Event /\ Ev("ingest.duplicate") \in Event
  BY EventNamesDiffer DEF EventNames
<1>3. CASE Accept(w, i)
  <2>1. Creates(i, "QUEUED", "none", Ev("ingest.accepted"))
    <3>1. NewRow(i, "QUEUED", "none") \in RunRow
      BY DEF NewRow, RunRow, RunStatus, Routes
    <3> QED
      BY <1>2, <1>3, <3>1 DEF Accept, CreateRun, Creates, NewRow, Grown
  <2>2. /\ e.pc = "idle" /\ f.pc = "call" /\ f.inv = i /\ ~Start(w)
    BY <1>1, <1>3 DEF Accept, Called, Idle, Start
  <2>3. ThreadsSame(w)
    BY <1>3, <2>2, RunnerRoutes DEF RequestStep, NothingLost, CheckpointsKept
  <2>4. LiveRuns(runs, i) = {}
    <3>1. RowsIn(invoices, runs, exceptions, dlq) /\ invoices[i] = "ABSENT"
      BY <1>3, InvParts DEF Accept
    <3> QED
      BY <3>1 DEF RowsIn, LiveRuns
  <2>5. /\ Doing(f, i) = "call"
        /\ \A j \in Invoices : j # i => Doing(f, j) = Doing(e, j)
    BY <2>2 DEF Doing
  <2>6. StagesIn(runs', checkpoint', f) /\ \A s \in 1..Len(runs) : runs'[s] = runs[s]
    BY <2>1, <2>3, <2>4, <2>5, CreatedStages
  <2> QED
    BY <2>3, <2>6 DEF Settled, ThreadsSame, WaitsSame
<1>4. CASE Duplicate(i)
  <2>1. Creates(i, "REJECTED", "REJECT", Ev("ingest.duplicate"))
    <3>1. NewRow(i, "REJECTED", "REJECT") \in RunRow
      BY DEF NewRow, RunRow, RunStatus, Routes
    <3> QED
      BY <1>2, <1>4, <3>1 DEF Duplicate, CreateRun, Creates, NewRow, Grown
  <2>2. exec' = exec /\ checkpoint' = checkpoint
    BY <1>4 DEF Duplicate
  <2>3. ThreadsSame(w) /\ \A j \in Invoices : Doing(f, j) = Doing(e, j)
    BY <2>2 DEF ThreadsSame
  <2>4. StagesIn(runs', checkpoint', f) /\ \A s \in 1..Len(runs) : runs'[s] = runs[s]
    BY <2>1, <2>3, CreatedStages
  <2> QED
    BY <2>3, <2>4 DEF Settled, ThreadsSame, WaitsSame
<1> QED
  BY <1>3, <1>4

\* Every step but a resume settles, and only exception_triage makes a thread
\* wait.
LEMMA StepStages ==
    ASSUME ReplayInv, [Next]_vars, NEW w, OneExecutor(w), NothingLost, NoReruns,
           ThreadsPlacedIn(checkpoint, exec[w]), StagesIn(runs, checkpoint, exec[w]),
           QueueIn(runs, dlq)
    PROVE  \/ Settled(w) /\ WaitsSame(w)
           \/ Settled(w) /\ ExceptionTriage(w)
           \/ \E q \in Requests : DecideResume(q, w)
<1>1. SystemInv /\ w \in Workers /\ Workers = {w}
  BY DEF ReplayInv, OneExecutor
<1>2. ASSUME NEW i, NEW r, Moved(w, i, r) PROVE Settled(w)
  BY <1>1, <1>2, MovedStages DEF Settled
<1>3. ASSUME runs' = runs, exec' = exec, checkpoint' = checkpoint PROVE Settled(w) /\ WaitsSame(w)
  BY <1>3 DEF Settled, WaitsSame
<1>4. CASE ExceptionTriage(w)
  BY <1>1, <1>2, <1>4, TriageMoved
<1>5. CASE NodeStep(w) /\ ~ExceptionTriage(w)
  BY <1>1, <1>2, <1>5, NodeMoved
<1>6. CASE (RunnerStep(w) \/ FaultStep(w)) /\ ~ReplayClaim(w)
  BY <1>1, <1>2, <1>6, RunnerMoved
<1>7. CASE ReplayClaim(w)
  BY <1>1, <1>2, <1>7, ClaimMoved
<1>8. CASE RequestStep(w)
  <2>1. ASSUME NEW i \in Invoices, Rerun(w, i) PROVE FALSE
    BY <1>1, <2>1, WorkerFacts DEF Rerun, NoReruns
  <2>2. ASSUME NEW d \in 1..Len(dlq), ReplayRead(w, d) PROVE Settled(w) /\ WaitsSame(w)
    BY <1>1, <1>2, <2>2, ReplayReadMoved
  <2> QED
    BY <1>1, <1>8, <2>1, <2>2, UploadStages DEF RequestStep
<1>9. ASSUME NEW i \in Invoices, Duplicate(i) PROVE Settled(w) /\ WaitsSame(w)
  BY <1>1, <1>9, UploadStages
<1>10. ASSUME NEW q \in Requests, DecisionStep(q)
       PROVE  (Settled(w) /\ WaitsSame(w)) \/ DecideResume(q, w)
  BY <1>1, <1>3, <1>10
     DEF DecisionStep, DecideRead, DecideClaim, DecideResolve, DecideEscalate,
         DecideFailure, ResumeFailure, pipelineVars, tables
<1>11. CASE UNCHANGED vars
  BY <1>3, <1>11 DEF vars, pipelineVars, tables
<1> QED
  BY <1>1, <1>4, <1>5, <1>6, <1>7, <1>8, <1>9, <1>10, <1>11 DEF Next, PipelineNext

-----------------------------------------------------------------------------
(* The queue *)

\* Runs keep their places and invoices.
LEMMA RunsStay ==
    ASSUME SystemInv, [Next]_vars
    PROVE  \A s \in 1..Len(runs) : s \in 1..Len(runs') /\ runs'[s].inv = runs[s].inv
<1>1. PlainRows \/ OpensRow \/ DecidesRow
  BY StepRows
<1>2. runs \in Seq(RunRow) /\ Len(runs) \in Nat
  BY RowFacts
<1>3. ASSUME NEW i, NEW status, NEW route, NEW e, Creates(i, status, route, e)
      PROVE  Len(runs') = Len(runs) + 1 /\ \A s \in 1..Len(runs) : runs'[s] = runs[s]
  BY <1>2, <1>3, AppendProperties DEF Creates, Grown
<1> QED
  BY <1>1, <1>2, <1>3 DEF PlainRows, OpensRow, DecidesRow, Logs, RunsInPlace

\* A failure adds the first PENDING entry of its run.
LEMMA FailureQueued ==
    ASSUME SystemInv, NEW w \in Workers, StagesIn(runs, checkpoint, exec[w]),
           QueueIn(runs, dlq), RecordFailure(w),
           \A s \in 1..Len(runs) : s \in 1..Len(runs') /\ runs'[s].inv = runs[s].inv,
           \A s \in 1..Len(runs) : runs[s].status = "FAILED" => runs'[s].status = "FAILED"
    PROVE  QueueIn(runs', dlq')
<1> DEFINE e == exec[w]
           n == Len(dlq) + 1
<1>1. PICK row : row = [inv |-> e.inv, run |-> SnapshotRun(w), status |-> "PENDING"]
  OBVIOUS
<1>2. /\ e.pc = "raised" /\ SnapshotRun(w) # NoRun /\ dlq' = Append(dlq, row)
      /\ runs' = [runs EXCEPT ![SnapshotRun(w)].status = "FAILED"]
  BY <1>1 DEF RecordFailure
<1>3. /\ dlq \in Seq(DLQRow) /\ Len(dlq) \in Nat /\ runs \in Seq(RunRow)
      /\ \A d \in 1..Len(dlq) : dlq[d].run \in 1..Len(runs)
  BY RowFacts
<1>4. e.inv \in Invoices /\ ThreadOf(checkpoint, e, e.inv) = checkpoint[e.inv]
      /\ Doing(e, e.inv) = "raised"
  BY <1>2, WorkerFacts DEF ExecIn, ThreadOf, Doing
<1>5. PICK r \in LiveRuns(runs, e.inv) :
         /\ StageIn(runs[r].status, checkpoint[e.inv], "raised")
         /\ checkpoint[e.inv].st.run \in {NoRun, r}
  BY <1>4, ActiveRun
<1>6. /\ SnapshotRun(w) = r /\ r \in 1..Len(runs) /\ runs[r].inv = e.inv
      /\ runs[r] \in RunRow
  BY <1>2, <1>5, RowFacts DEF SnapshotRun, LiveRuns
<1>7. runs[r].status # "FAILED"
  BY <1>5 DEF StageIn, AtWork
<1>8. runs'[r].status = "FAILED" /\ runs'[r].inv = e.inv
  <2>1. runs'[r] = [runs[r] EXCEPT !.status = "FAILED"]
    BY <1>2, <1>3, <1>6
  <2> QED
    BY <1>6, <2>1 DEF RunRow
<1>9. /\ Len(dlq') = n /\ dlq'[n] = row
      /\ \A d \in 1..Len(dlq) : dlq'[d] = dlq[d]
  BY <1>2, <1>3, AppendProperties
<1>10. /\ \A d : d \in 1..n <=> d \in 1..Len(dlq) \/ d = n
       /\ row.inv = e.inv /\ row.run = r /\ row.status = "PENDING"
  <2>1. row.inv = e.inv /\ row.run = r /\ row.status = "PENDING"
    BY <1>1, <1>6
  <2>2. \A d : d \in 1..n <=> d \in 1..Len(dlq) \/ d = n
    BY <1>3
  <2> QED
    BY <2>1, <2>2
<1> HIDE DEF n
<1>11. \A d \in 1..Len(dlq) : dlq[d].status = "PENDING" => dlq[d].run # r
  BY <1>7 DEF QueueIn
<1>12. \A d \in 1..n : dlq'[d].inv = runs'[dlq'[d].run].inv
  <2>1. \A d \in 1..Len(dlq) : dlq[d].inv = runs'[dlq[d].run].inv
    BY <1>3 DEF QueueIn
  <2> QED
    BY <1>8, <1>9, <1>10, <2>1
<1>13. \A d \in 1..n : dlq'[d].status = "PENDING" => runs'[dlq'[d].run].status = "FAILED"
  <2>1. \A d \in 1..Len(dlq) : dlq[d].status = "PENDING" => runs'[dlq[d].run].status = "FAILED"
    BY <1>3 DEF QueueIn
  <2> QED
    BY <1>8, <1>9, <1>10, <2>1
<1>14. \A d, k \in 1..n :
          dlq'[d].status = "PENDING" /\ dlq'[k].status = "PENDING" /\ dlq'[k].run = dlq'[d].run
          => k = d
  BY <1>9, <1>10, <1>11 DEF QueueIn
<1> QED
  BY <1>9, <1>12, <1>13, <1>14 DEF QueueIn

\* A claimed entry is not PENDING any more, and was its run's only one.
LEMMA ClaimQueued ==
    ASSUME ReplayInv, NEW w \in Workers, QueueIn(runs, dlq), ReplayClaim(w),
           \A s \in 1..Len(runs) : s \in 1..Len(runs') /\ runs'[s].inv = runs[s].inv
    PROVE  QueueIn(runs', dlq')
<1> DEFINE d == exec[w].entry
           r == dlq[d].run
<1>1. SystemInv
  BY DEF ReplayInv
<1>2. /\ dlq \in Seq(DLQRow) /\ runs \in Seq(RunRow)
      /\ \A k \in 1..Len(dlq) : dlq[k] \in DLQRow /\ dlq[k].run \in 1..Len(runs)
  BY <1>1, RowFacts
<1> DEFINE row == [dlq[d] EXCEPT !.status = "REPLAYED"]
<1>3. /\ exec[w].pc = "claim" /\ dlq' = Updated(dlq, d, row)
      /\ runs' = [runs EXCEPT ![r].status = "RUNNING"]
  BY DEF ReplayClaim, Updated
<1>4. d \in 1..Len(dlq) /\ dlq[d].status = "PENDING"
  BY <1>1, <1>3, WorkerFacts DEF ExecIn, ReplayInv
<1>5. row \in DLQRow /\ row.inv = dlq[d].inv /\ row.run = r /\ row.status = "REPLAYED"
  BY <1>2, <1>4 DEF DLQRow
<1> HIDE DEF row, d, r
<1>7. \A s \in 1..Len(runs) : s # r => runs'[s] = runs[s]
  <2>1. DOMAIN runs = 1..Len(runs)
    BY <1>2
  <2> QED
    BY <1>3, <2>1, Zenon
<1>6. /\ Len(dlq') = Len(dlq) /\ dlq'[d] = row
      /\ \A k \in 1..Len(dlq) : k # d => dlq'[k] = dlq[k]
  <2>1. dlq \in Seq(DLQRow) /\ d \in 1..Len(dlq) /\ row \in DLQRow
    BY <1>2, <1>4, <1>5
  <2>2. /\ Len(Updated(dlq, d, row)) = Len(dlq) /\ Updated(dlq, d, row)[d] = row
        /\ \A k \in 1..Len(dlq) : k # d => Updated(dlq, d, row)[k] = dlq[k]
    BY <2>1, DLQUpdate
  <2> QED
    BY <1>3, <2>2
<1>8. \A k \in 1..Len(dlq) : dlq'[k].run = dlq[k].run /\ dlq'[k].inv = dlq[k].inv
                            /\ (dlq'[k].status = "PENDING" => k # d /\ dlq[k].status = "PENDING")
  BY <1>5, <1>6 DEF r
<1>9. \A k \in 1..Len(dlq) : dlq[k].status = "PENDING" /\ dlq[k].run = r => k = d
  BY <1>4 DEF QueueIn, r
<1>10. \A k \in 1..Len(dlq) : dlq'[k].inv = runs'[dlq'[k].run].inv
  <2> SUFFICES ASSUME NEW k \in 1..Len(dlq)
               PROVE  dlq'[k].inv = runs'[dlq'[k].run].inv
    OBVIOUS
  <2>1. dlq[k].inv = runs[dlq[k].run].inv
    BY DEF QueueIn
  <2>2. runs'[dlq[k].run].inv = runs[dlq[k].run].inv
    BY <1>2
  <2> QED
    BY <1>8, <2>1, <2>2
<1>11. \A k \in 1..Len(dlq) : dlq'[k].status = "PENDING" => runs'[dlq'[k].run].status = "FAILED"
  <2> SUFFICES ASSUME NEW k \in 1..Len(dlq), dlq'[k].status = "PENDING"
               PROVE  runs'[dlq'[k].run].status = "FAILED"
    OBVIOUS
  <2>1. k # d /\ dlq[k].status = "PENDING" /\ dlq'[k].run = dlq[k].run
    BY <1>8
  <2>2. dlq[k].run # r
    BY <1>9, <2>1
  <2>3. runs[dlq[k].run].status = "FAILED"
    BY <2>1, Zenon DEF QueueIn
  <2>4. dlq[k].run \in 1..Len(runs)
    BY <1>2
  <2> QED
    BY <1>7, <2>1, <2>2, <2>3, <2>4
<1>12. \A k, l \in 1..Len(dlq) :
          dlq'[k].status = "PENDING" /\ dlq'[l].status = "PENDING" /\ dlq'[l].run = dlq'[k].run
          => l = k
  BY <1>8 DEF QueueIn
<1> QED
  BY <1>6, <1>10, <1>11, <1>12 DEF QueueIn

\* The queue's part of the invariant.
LEMMA QueueNext ==
    ASSUME ReplayInv, [Next]_vars, NEW w, OneExecutor(w), StagesIn(runs, checkpoint, exec[w]),
           QueueIn(runs, dlq), Settled(w)
    PROVE  QueueIn(runs', dlq')
<1>1. SystemInv /\ w \in Workers /\ Workers = {w}
  BY DEF ReplayInv, OneExecutor
<1>2. \A s \in 1..Len(runs) : s \in 1..Len(runs') /\ runs'[s].inv = runs[s].inv
  BY <1>1, RunsStay
<1>3. CASE ReplayClaim(w)
  BY <1>1, <1>2, <1>3, ClaimQueued
<1>4. CASE ~ReplayClaim(w)
  <2>1. \A s \in 1..Len(runs) : runs[s].status = "FAILED" => runs'[s].status = "FAILED"
    BY <1>4 DEF Settled
  <2>2. CASE RecordFailure(w)
    BY <1>1, <1>2, <2>1, <2>2, FailureQueued
  <2>3. CASE dlq' = dlq
    <3>1. \A d \in 1..Len(dlq) : dlq[d].run \in 1..Len(runs)
      BY <1>1, RowFacts
    <3> QED
      BY <1>2, <2>1, <2>3, <3>1 DEF QueueIn
  <2> QED
    BY <1>1, <1>4, <2>2, <2>3, QueueSteps
<1> QED
  BY <1>3, <1>4

-----------------------------------------------------------------------------
(* The exceptions *)

\* An invoice has one exception.
LEMMA OneCase ==
    ASSUME DeskInv, NEW w, OneExecutor(w), NEW x \in 1..Len(exceptions),
           NEW y \in 1..Len(exceptions), exceptions[x].inv = exceptions[y].inv
    PROVE  x = y
<1>1. PICK i : i = exceptions[x].inv
  OBVIOUS
<1>2. i \in Invoices /\ x \in OfInvoice(exceptions, i) /\ y \in OfInvoice(exceptions, i)
  BY <1>1, RowFacts DEF DeskInv, ExceptionRow, OfInvoice
<1>3. WithHuman(i)
  BY <1>2, DeskCases DEF Untouched, ApprovedByRule
<1> QED
  BY <1>2, <1>3 DEF WithHuman

\* The exceptions' rows, and the requests at their resume, stay what they are.
CasesSame ==
    /\ Len(exceptions') = Len(exceptions)
    /\ \A x \in 1..Len(exceptions) : /\ exceptions'[x].inv = exceptions[x].inv
                                     /\ exceptions'[x].status = exceptions[x].status
    /\ \A x : ResolvedIn(decisions, x) => ResolvedIn(decisions', x)
    /\ \A q \in Requests : \/ requests'[q] = requests[q]
                           \/ requests'[q].pc # "resume" /\ requests[q].pc # "resume"

LEMMA CasesQuiet ==
    ASSUME SystemInv, NEW w \in Workers, WaitsSame(w), CasesSame,
           CasesIn(exceptions, decisions, requests, checkpoint, exec[w])
    PROVE  CasesIn(exceptions', decisions', requests', checkpoint', exec'[w])
<1>1. \A x \in 1..Len(exceptions) : exceptions[x].inv \in Invoices
  BY RowFacts DEF ExceptionRow
<1>2. \A x \in 1..Len(exceptions) :
         /\ exceptions'[x].status = "OPEN" => Waits(ThreadOf(checkpoint', exec'[w], exceptions'[x].inv))
         /\ exceptions'[x].status = "RESOLVED" => ResolvedIn(decisions', x)
  BY <1>1 DEF CasesIn, CasesSame, WaitsSame
<1>3. ASSUME NEW q \in Requests, requests'[q].pc = "resume"
      PROVE  /\ requests'[q].decision # NoDecision
             /\ exceptions'[requests'[q].exc].status = "RESOLVED"
             /\ Waits(ThreadOf(checkpoint', exec'[w], exceptions'[requests'[q].exc].inv))
             /\ \A p \in Requests :
                   requests'[p].pc = "resume" /\ requests'[p].exc = requests'[q].exc => p = q
  <2>1. requests'[q] = requests[q] /\ requests[q].pc = "resume"
    BY <1>3 DEF CasesSame
  <2>2. requests[q].exc \in 1..Len(exceptions)
    BY <2>1, RequestFacts
  <2>3. /\ requests[q].decision # NoDecision /\ exceptions[requests[q].exc].status = "RESOLVED"
        /\ Waits(ThreadOf(checkpoint, exec[w], exceptions[requests[q].exc].inv))
        /\ \A p \in Requests : requests[p].pc = "resume" /\ requests[p].exc = requests[q].exc => p = q
    BY <2>1 DEF CasesIn
  <2>4. \A p \in Requests : requests'[p].pc = "resume" => requests'[p] = requests[p]
    BY DEF CasesSame
  <2>5. /\ exceptions'[requests[q].exc].status = "RESOLVED"
        /\ Waits(ThreadOf(checkpoint', exec'[w], exceptions'[requests[q].exc].inv))
    BY <1>1, <2>2, <2>3 DEF CasesSame, WaitsSame
  <2> QED
    BY <2>1, <2>3, <2>4, <2>5
<1>4. ASSUME NEW i \in Invoices, Waits(ThreadOf(checkpoint', exec'[w], i))
      PROVE  \E x \in 1..Len(exceptions') : exceptions'[x].inv = i
                /\ \/ exceptions'[x].status = "OPEN"
                   \/ \E q \in Requests : requests'[q].pc = "resume" /\ requests'[q].exc = x
  <2>1. Waits(ThreadOf(checkpoint, exec[w], i))
    BY <1>4 DEF WaitsSame
  <2>2. PICK x \in 1..Len(exceptions) : exceptions[x].inv = i
           /\ (exceptions[x].status = "OPEN" \/ \E q \in Requests : requests[q].pc = "resume" /\ requests[q].exc = x)
    BY <2>1 DEF CasesIn
  <2> QED
    BY <2>2 DEF CasesSame
<1>5. Len(exceptions') = Len(exceptions)
  BY DEF CasesSame
<1> QED
  BY <1>2, <1>3, <1>4, <1>5 DEF CasesIn

\* exception_triage opens an exception as its thread starts to wait.
LEMMA CasesTriage ==
    ASSUME SystemInv, NEW w \in Workers, ThreadsPlacedIn(checkpoint, exec[w]),
           StagesIn(runs, checkpoint, exec[w]), ExceptionTriage(w),
           decisions' = decisions, requests' = requests,
           CasesIn(exceptions, decisions, requests, checkpoint, exec[w])
    PROVE  CasesIn(exceptions', decisions', requests', checkpoint', exec'[w])
<1> DEFINE i == exec[w].inv
           n == Len(exceptions) + 1
<1>1. PICK x \in ExceptionRow : /\ exceptions' = Append(exceptions, x)
                                /\ x.inv = i /\ x.status = "OPEN"
  BY TriageWrites
<1>2. /\ exceptions \in Seq(ExceptionRow) /\ Len(exceptions) \in Nat
      /\ \A y \in 1..Len(exceptions) : exceptions[y].inv \in Invoices
  BY RowFacts DEF ExceptionRow
<1>3. /\ Len(exceptions') = n /\ exceptions'[n] = x
      /\ \A y \in 1..Len(exceptions) : exceptions'[y] = exceptions[y]
  BY <1>1, <1>2, AppendProperties
<1>4. \A y : y \in 1..n <=> y \in 1..Len(exceptions) \/ y = n
  BY <1>2
<1> HIDE DEF n
<1>5. /\ i \in Invoices /\ Waits(ThreadOf(checkpoint', exec'[w], i))
      /\ \A j \in Invoices : j # i =>
            ThreadOf(checkpoint', exec'[w], j) = ThreadOf(checkpoint, exec[w], j)
  BY TriageMoved DEF Moved
<1>6. \A j \in Invoices : Waits(ThreadOf(checkpoint, exec[w], j))
                            => Waits(ThreadOf(checkpoint', exec'[w], j))
  BY <1>5
<1>7. \A y \in 1..n :
         /\ exceptions'[y].status = "OPEN" => Waits(ThreadOf(checkpoint', exec'[w], exceptions'[y].inv))
         /\ exceptions'[y].status = "RESOLVED" => ResolvedIn(decisions', y)
  BY <1>1, <1>2, <1>3, <1>4, <1>5, <1>6 DEF CasesIn
<1>8. ASSUME NEW q \in Requests, requests[q].pc = "resume"
      PROVE  /\ requests[q].decision # NoDecision
             /\ exceptions'[requests[q].exc].status = "RESOLVED"
             /\ Waits(ThreadOf(checkpoint', exec'[w], exceptions'[requests[q].exc].inv))
             /\ \A p \in Requests :
                   requests[p].pc = "resume" /\ requests[p].exc = requests[q].exc => p = q
  <2>1. requests[q].exc \in 1..Len(exceptions)
    BY <1>8, RequestFacts
  <2> QED
    BY <1>2, <1>3, <1>6, <1>8, <2>1 DEF CasesIn
<1>9. ASSUME NEW j \in Invoices, Waits(ThreadOf(checkpoint', exec'[w], j))
      PROVE  \E y \in 1..n : exceptions'[y].inv = j
                /\ (exceptions'[y].status = "OPEN" \/ \E q \in Requests : requests[q].pc = "resume" /\ requests[q].exc = y)
  <2>1. CASE j = i
    BY <1>1, <1>3, <1>4, <2>1
  <2>2. CASE j # i
    <3>1. Waits(ThreadOf(checkpoint, exec[w], j))
      BY <1>5, <1>9, <2>2
    <3>2. PICK y \in 1..Len(exceptions) : exceptions[y].inv = j
             /\ (exceptions[y].status = "OPEN" \/ \E q \in Requests : requests[q].pc = "resume" /\ requests[q].exc = y)
      BY <3>1 DEF CasesIn
    <3> QED
      BY <1>3, <1>4, <3>2
  <2> QED
    BY <2>1, <2>2
<1> QED
  BY <1>3, <1>7, <1>8, <1>9 DEF CasesIn

\* A recorded decision is the last one.
LEMMA DecisionRecorded ==
    ASSUME SystemInv, NEW q \in Requests, requests[q].pc = "commit", RecordDecision(q)
    PROVE  /\ Len(decisions') = Len(decisions) + 1
           /\ decisions'[Len(decisions) + 1].exc = requests[q].exc
           /\ decisions'[Len(decisions) + 1].action = requests[q].action
           /\ \A d \in 1..Len(decisions) : decisions'[d] = decisions[d]
<1>1. PICK d : d = [exc |-> requests[q].exc, actor |-> requests[q].user,
                    action |-> requests[q].action]
  OBVIOUS
<1>2. decisions' = Append(decisions, d) /\ decisions \in Seq(DecisionRow)
  BY <1>1, RowFacts DEF RecordDecision
<1>3. d \in DecisionRow
  <2>1. requests[q].exc \in Nat
    BY RequestFacts DEF RequestState
  <2> QED
    BY <1>1, <2>1, RequestFacts DEF DecisionRow
<1>4. /\ Len(decisions') = Len(decisions) + 1 /\ decisions'[Len(decisions) + 1] = d
      /\ \A k \in 1..Len(decisions) : decisions'[k] = decisions[k]
  BY <1>2, <1>3, AppendProperties
<1> QED
  BY <1>1, <1>4

\* What a recorded decision adds.
LEMMA ResolutionRecorded ==
    ASSUME SystemInv, NEW q \in Requests, requests[q].pc = "commit", RecordDecision(q)
    PROVE  /\ \A x : ResolvedIn(decisions, x) => ResolvedIn(decisions', x)
           /\ requests[q].action # "ESCALATE" => ResolvedIn(decisions', requests[q].exc)
<1>1. Len(decisions) \in Nat
  BY RowFacts
<1>2. \A d \in 1..Len(decisions) : d \in 1..(Len(decisions) + 1)
  BY <1>1
<1>3. Len(decisions) + 1 \in 1..(Len(decisions) + 1)
  BY <1>1
<1> QED
  BY <1>2, <1>3, DecisionRecorded DEF ResolvedIn

\* A second resolution of an exception is one too many.
LEMMA SecondResolution ==
    ASSUME SystemInv, NEW q \in Requests, requests[q].pc = "commit", RecordDecision(q),
           requests[q].action # "ESCALATE", NEW x, x = requests[q].exc,
           x \in 1..Len(exceptions'), ResolvedIn(decisions, x)
    PROVE  ~OneResolution'
<1> DEFINE n == Len(decisions) + 1
           R == {d \in 1..Len(decisions') : decisions'[d].exc = x /\ decisions'[d].action # "ESCALATE"}
<1>1. Len(decisions) \in Nat
  BY RowFacts
<1>2. PICK d \in 1..Len(decisions) : decisions[d].exc = x /\ decisions[d].action # "ESCALATE"
  BY DEF ResolvedIn
<1>3. /\ Len(decisions') = n /\ decisions'[n].exc = x /\ decisions'[n].action # "ESCALATE"
      /\ decisions'[d] = decisions[d]
  BY DecisionRecorded
<1>4. n \in 1..n /\ d \in 1..n /\ d # n /\ n \in Nat
  BY <1>1
<1> HIDE DEF n
<1>5. {d, n} \subseteq R
  BY <1>2, <1>3, <1>4
<1>6. IsFiniteSet(R)
  <2>1. IsFiniteSet(1..n) /\ R \in SUBSET (1..n)
    BY <1>3, <1>4, FS_Interval
  <2> QED
    BY <2>1, FS_Subset
<1>7. Cardinality({d, n}) = 2
  <2>1. IsFiniteSet({d}) /\ Cardinality({d}) = 1
    BY FS_Singleton
  <2>2. n \notin {d}
    BY <1>4
  <2>3. Cardinality({d} \cup {n}) = 1 + 1
    BY <2>1, <2>2, FS_AddElement
  <2>4. {d} \cup {n} = {d, n}
    OBVIOUS
  <2>5. Cardinality({d, n}) = 1 + 1
    BY <2>3, <2>4, Zenon
  <2> QED
    BY <2>5
<1> HIDE DEF R
<1>8. Cardinality({d, n}) <= Cardinality(R) /\ Cardinality(R) \in Nat
  <2>1. {d, n} \in SUBSET R
    BY <1>5
  <2> QED
    BY <1>6, <2>1, FS_Subset, FS_CardinalityType
<1>9. ~(Cardinality(R) <= 1)
  BY <1>7, <1>8
<1> QED
  BY <1>9 DEF R, OneResolution, Resolutions

\* A resolution turns an OPEN exception over to its request's resume.
LEMMA CasesResolve ==
    ASSUME SystemInv, NEW w \in Workers, NEW q \in Requests, DecideResolve(q), OneResolution',
           CasesIn(exceptions, decisions, requests, checkpoint, exec[w])
    PROVE  CasesIn(exceptions', decisions', requests', checkpoint', exec'[w])
<1>1. PICK x : x = requests[q].exc
  OBVIOUS
<1>2. /\ requests[q].pc = "commit" /\ requests[q].action # "ESCALATE" /\ RecordDecision(q)
      /\ exceptions' = [exceptions EXCEPT ![x].status = "RESOLVED"]
      /\ requests' = [requests EXCEPT ![q].pc = "resume", ![q].decision = Len(decisions) + 1]
      /\ checkpoint' = checkpoint /\ exec' = exec
  BY <1>1 DEF DecideResolve
<1>3. /\ x \in 1..Len(exceptions) /\ requests \in [Requests -> RequestState]
      /\ exceptions \in Seq(ExceptionRow) /\ Len(decisions) \in Nat
      /\ \A y \in 1..Len(exceptions) : exceptions[y] \in ExceptionRow
  BY <1>1, <1>2, RequestFacts, RowFacts DEF SystemInv, TypeOK
<1> DEFINE row == [exceptions[x] EXCEPT !.status = "RESOLVED"]
<1>4. /\ row \in ExceptionRow /\ row.inv = exceptions[x].inv /\ row.status = "RESOLVED"
      /\ exceptions' = Updated(exceptions, x, row)
  BY <1>2, <1>3 DEF ExceptionRow, Updated
<1> HIDE DEF row
<1>5. /\ Len(exceptions') = Len(exceptions) /\ exceptions'[x] = row
      /\ \A y \in 1..Len(exceptions) : y # x => exceptions'[y] = exceptions[y]
  <2>1. /\ Len(Updated(exceptions, x, row)) = Len(exceptions)
        /\ Updated(exceptions, x, row)[x] = row
        /\ \A y \in 1..Len(exceptions) : y # x => Updated(exceptions, x, row)[y] = exceptions[y]
    BY <1>3, <1>4, ExceptionUpdate, ZenonT(40)
  <2> QED
    BY <1>4, <2>1
<1>6. /\ \A y : ResolvedIn(decisions, y) => ResolvedIn(decisions', y)
      /\ ResolvedIn(decisions', x)
  BY <1>1, <1>2, ResolutionRecorded
<1>7. exceptions[x].status = "OPEN"
  <2>1. ~ResolvedIn(decisions, x)
    BY <1>1, <1>2, <1>3, <1>5, SecondResolution
  <2>2. exceptions[x].status \in {"OPEN", "RESOLVED"}
    BY <1>3 DEF ExceptionRow
  <2> QED
    BY <1>3, <2>1, <2>2 DEF CasesIn
<1>8. Waits(ThreadOf(checkpoint, exec[w], exceptions[x].inv))
  BY <1>3, <1>7 DEF CasesIn
<1>9. /\ requests'[q].pc = "resume" /\ requests'[q].decision = Len(decisions) + 1
      /\ requests'[q].exc = x
      /\ \A p \in Requests : p # q => requests'[p] = requests[p]
  BY <1>1, <1>2, <1>3 DEF RequestState
<1>10. Len(decisions) + 1 # NoDecision
  BY <1>3 DEF NoDecision
<1>11. \A p \in Requests : requests[p].pc = "resume" => requests[p].exc # x /\ p # q
  BY <1>2, <1>7 DEF CasesIn
<1>12. \A y \in 1..Len(exceptions) :
          /\ exceptions'[y].status = "OPEN" => Waits(ThreadOf(checkpoint, exec[w], exceptions'[y].inv))
          /\ exceptions'[y].status = "RESOLVED" => ResolvedIn(decisions', y)
  BY <1>4, <1>5, <1>6 DEF CasesIn
<1>13. ASSUME NEW p \in Requests, requests'[p].pc = "resume"
       PROVE  /\ requests'[p].decision # NoDecision
              /\ exceptions'[requests'[p].exc].status = "RESOLVED"
              /\ Waits(ThreadOf(checkpoint, exec[w], exceptions'[requests'[p].exc].inv))
              /\ \A s \in Requests :
                    requests'[s].pc = "resume" /\ requests'[s].exc = requests'[p].exc => s = p
  <2>1. CASE p = q
    BY <1>4, <1>5, <1>8, <1>9, <1>10, <1>11, <2>1
  <2>2. CASE p # q
    <3>1. requests'[p] = requests[p] /\ requests[p].pc = "resume" /\ requests[p].exc # x
      BY <1>9, <1>11, <1>13, <2>2
    <3>2. requests[p].exc \in 1..Len(exceptions)
      BY <3>1, RequestFacts
    <3>3. /\ requests[p].decision # NoDecision /\ exceptions[requests[p].exc].status = "RESOLVED"
          /\ Waits(ThreadOf(checkpoint, exec[w], exceptions[requests[p].exc].inv))
          /\ \A s \in Requests : requests[s].pc = "resume" /\ requests[s].exc = requests[p].exc => s = p
      BY <3>1 DEF CasesIn
    <3>4. exceptions'[requests[p].exc] = exceptions[requests[p].exc]
      BY <1>5, <3>1, <3>2
    <3> QED
      BY <1>9, <3>1, <3>3, <3>4
  <2> QED
    BY <2>1, <2>2
<1>14. ASSUME NEW i \in Invoices, Waits(ThreadOf(checkpoint, exec[w], i))
       PROVE  \E y \in 1..Len(exceptions) : exceptions'[y].inv = i
                 /\ \/ exceptions'[y].status = "OPEN"
                    \/ \E p \in Requests : requests'[p].pc = "resume" /\ requests'[p].exc = y
  <2>1. PICK y \in 1..Len(exceptions) : exceptions[y].inv = i
           /\ (exceptions[y].status = "OPEN" \/ \E p \in Requests : requests[p].pc = "resume" /\ requests[p].exc = y)
    BY <1>14 DEF CasesIn
  <2>2. CASE y = x
    BY <1>4, <1>5, <1>9, <2>1, <2>2
  <2>3. CASE y # x
    BY <1>5, <1>9, <1>11, <2>1, <2>3
  <2> QED
    BY <2>2, <2>3
<1>15. /\ checkpoint' = checkpoint /\ exec'[w] = exec[w]
       /\ Len(exceptions') = Len(exceptions)
  BY <1>2, <1>5
<1> QED
  BY <1>12, <1>13, <1>14, <1>15 DEF CasesIn

\* A resume ends the wait of its exception's thread and of no other.
LEMMA CasesResume ==
    ASSUME DeskInv, NEW w, OneExecutor(w), StagesIn(runs, checkpoint, exec[w]),
           NEW q \in Requests, DecideResume(q, w),
           CasesIn(exceptions, decisions, requests, checkpoint, exec[w])
    PROVE  /\ Settled(w)
           /\ CasesIn(exceptions', decisions', requests', checkpoint', exec'[w])
<1> DEFINE x == requests[q].exc
           i == exceptions[x].inv
<1>1. SystemInv /\ w \in Workers /\ requests \in [Requests -> RequestState]
  BY DEF DeskInv, OneExecutor, SystemInv, TypeOK
<1>2. /\ requests[q].pc = "resume" /\ exceptions' = exceptions /\ decisions' = decisions
      /\ Done(q)
  BY DEF DecideResume, tables
<1>3. /\ x \in 1..Len(exceptions) /\ i \in Invoices
      /\ \A y \in 1..Len(exceptions) : exceptions[y].inv \in Invoices
  BY <1>1, <1>2, RequestFacts, RowFacts DEF ExceptionRow
<1>4. /\ requests[q].decision # NoDecision /\ exceptions[x].status = "RESOLVED"
      /\ Waits(ThreadOf(checkpoint, exec[w], i))
      /\ \A p \in Requests : requests[p].pc = "resume" /\ requests[p].exc = x => p = q
  BY <1>2 DEF CasesIn
<1>5. PICK r : Moved(w, i, r) /\ ~Waits(ThreadOf(checkpoint', exec'[w], i))
  BY <1>1, <1>3, <1>4, ResumeMoved
<1>6. Settled(w)
  BY <1>1, <1>5, MovedStages DEF Settled
<1>7. \A j \in Invoices : j # i => ThreadOf(checkpoint', exec'[w], j) = ThreadOf(checkpoint, exec[w], j)
  BY <1>5 DEF Moved
<1>8. \A y \in 1..Len(exceptions) : exceptions[y].inv = i => y = x
  BY <1>3, OneCase
<1>9. requests'[q].pc = "done" /\ \A p \in Requests : p # q => requests'[p] = requests[p]
  BY <1>1, <1>2 DEF Done, NewRequest
<1> HIDE DEF x, i
<1>10. \A y \in 1..Len(exceptions) :
          /\ exceptions[y].status = "OPEN" => Waits(ThreadOf(checkpoint', exec'[w], exceptions[y].inv))
          /\ exceptions[y].status = "RESOLVED" => ResolvedIn(decisions, y)
  BY <1>3, <1>4, <1>7, <1>8 DEF CasesIn
<1>11. ASSUME NEW p \in Requests, requests'[p].pc = "resume"
       PROVE  /\ requests'[p].decision # NoDecision
              /\ exceptions[requests'[p].exc].status = "RESOLVED"
              /\ Waits(ThreadOf(checkpoint', exec'[w], exceptions[requests'[p].exc].inv))
              /\ \A s \in Requests :
                    requests'[s].pc = "resume" /\ requests'[s].exc = requests'[p].exc => s = p
  <2>1. p # q /\ requests'[p] = requests[p] /\ requests[p].pc = "resume"
    BY <1>9, <1>11
  <2>2. requests[p].exc \in 1..Len(exceptions)
    BY <1>1, <2>1, RequestFacts
  <2>3. /\ requests[p].decision # NoDecision /\ exceptions[requests[p].exc].status = "RESOLVED"
        /\ Waits(ThreadOf(checkpoint, exec[w], exceptions[requests[p].exc].inv))
        /\ \A s \in Requests : requests[s].pc = "resume" /\ requests[s].exc = requests[p].exc => s = p
    BY <2>1 DEF CasesIn
  <2>4. exceptions[requests[p].exc].inv # i /\ exceptions[requests[p].exc].inv \in Invoices
    BY <1>3, <1>4, <1>8, <2>1, <2>2
  <2> QED
    BY <1>7, <1>9, <2>1, <2>3, <2>4
<1>12. ASSUME NEW j \in Invoices, Waits(ThreadOf(checkpoint', exec'[w], j))
       PROVE  \E y \in 1..Len(exceptions) : exceptions[y].inv = j
                 /\ \/ exceptions[y].status = "OPEN"
                    \/ \E p \in Requests : requests'[p].pc = "resume" /\ requests'[p].exc = y
  <2>1. j # i
    BY <1>5, <1>12
  <2>2. Waits(ThreadOf(checkpoint, exec[w], j))
    BY <1>7, <1>12, <2>1
  <2>3. PICK y \in 1..Len(exceptions) : exceptions[y].inv = j
           /\ (exceptions[y].status = "OPEN" \/ \E p \in Requests : requests[p].pc = "resume" /\ requests[p].exc = y)
    BY <2>2 DEF CasesIn
  <2>4. y # x
    BY <2>1, <2>3 DEF i
  <2>5. \A p \in Requests : requests[p].exc = y => p # q
    BY <2>4 DEF x
  <2> QED
    BY <1>9, <2>3, <2>5
<1> QED
  BY <1>2, <1>6, <1>10, <1>11, <1>12 DEF CasesIn

\* Claims, escalations and refused or failed decisions leave the exceptions'
\* status, and every resume, alone.
LEMMA CasesDecided ==
    ASSUME SystemInv, NEW q \in Requests, NothingLost, DecisionStep(q), ~DecideResolve(q),
           ~\E w \in Workers : DecideResume(q, w)
    PROVE  CasesSame
<1>1. requests \in [Requests -> RequestState]
  BY DEF SystemInv, TypeOK
<1>2. ASSUME exceptions' = exceptions, decisions' = decisions,
             requests'[q].pc # "resume", requests[q].pc # "resume",
             \A p \in Requests : p # q => requests'[p] = requests[p]
      PROVE  CasesSame
  BY <1>2 DEF CasesSame
<1>3. ASSUME requests[q].pc \in {"claim", "commit"}, NEW a \in Assignees,
             exceptions' = [exceptions EXCEPT ![requests[q].exc].assignee = a],
             \A x : ResolvedIn(decisions, x) => ResolvedIn(decisions', x),
             requests'[q].pc # "resume", \A p \in Requests : p # q => requests'[p] = requests[p]
      PROVE  CasesSame
  <2>1. PICK x : x = requests[q].exc
    OBVIOUS
  <2> DEFINE row == [exceptions[x] EXCEPT !.assignee = a]
  <2>2. /\ x \in 1..Len(exceptions) /\ exceptions' = Updated(exceptions, x, row)
        /\ exceptions \in Seq(ExceptionRow) /\ exceptions[x] \in ExceptionRow
    BY <1>3, <2>1, RequestFacts DEF Updated
  <2>3. /\ row \in ExceptionRow /\ row.inv = exceptions[x].inv
        /\ row.status = exceptions[x].status
    BY <2>2 DEF ExceptionRow
  <2> HIDE DEF row
  <2>4. /\ Len(exceptions') = Len(exceptions) /\ exceptions'[x] = row
        /\ \A y \in 1..Len(exceptions) : y # x => exceptions'[y] = exceptions[y]
    BY <2>2, <2>3, ExceptionUpdate, ZenonT(40)
  <2>5. \A y \in 1..Len(exceptions) : /\ exceptions'[y].inv = exceptions[y].inv
                                     /\ exceptions'[y].status = exceptions[y].status
    BY <2>3, <2>4
  <2> QED
    BY <1>3, <2>4, <2>5 DEF CasesSame
<1>4. Done(q) => /\ requests'[q].pc # "resume"
                 /\ \A p \in Requests : p # q => requests'[p] = requests[p]
  BY <1>1 DEF Done, NewRequest
<1>5. ASSUME NEW x \in 1..Len(exceptions), NEW u \in Users, NEW a \in Actions,
             DecideRead(q, x, u, a)
      PROVE  CasesSame
  <2>1. /\ requests'[q].pc # "resume" /\ requests[q].pc # "resume"
        /\ \A p \in Requests : p # q => requests'[p] = requests[p]
    BY <1>1, <1>5 DEF DecideRead
  <2> QED
    BY <1>2, <1>5, <2>1 DEF DecideRead, pipelineVars, tables
<1>6. CASE DecideClaim(q)
  <2>1. /\ requests[q].pc = "claim" /\ decisions' = decisions
        /\ exceptions' = [exceptions EXCEPT ![requests[q].exc].assignee = requests[q].user]
        /\ Done(q) \/ requests' = [requests EXCEPT ![q].pc = "commit"]
    BY <1>6 DEF DecideClaim
  <2>2. /\ requests'[q].pc # "resume"
        /\ \A p \in Requests : p # q => requests'[p] = requests[p]
    BY <1>1, <1>4, <2>1 DEF RequestState
  <2>3. requests[q].user \in Assignees
    BY <2>1, RequestFacts DEF Assignees
  <2> QED
    BY <1>3, <2>1, <2>2, <2>3
<1>7. ASSUME NEW t \in Users \cup {ManagerQueue}, DecideEscalate(q, t) PROVE CasesSame
  <2>1. /\ requests[q].pc = "commit" /\ RecordDecision(q) /\ Done(q)
        /\ exceptions' = [exceptions EXCEPT ![requests[q].exc].assignee = t]
    BY <1>7 DEF DecideEscalate
  <2>2. \A x : ResolvedIn(decisions, x) => ResolvedIn(decisions', x)
    BY <2>1, ResolutionRecorded
  <2> QED
    BY <1>3, <1>4, <2>1, <2>2 DEF Assignees
<1>8. CASE DecideFailure(q)
  BY <1>2, <1>4, <1>8 DEF DecideFailure, tables
<1>9. CASE ResumeFailure(q)
  BY <1>9 DEF ResumeFailure, Fault, NothingLost
<1> QED
  BY <1>5, <1>6, <1>7, <1>8, <1>9 DEF DecisionStep

\* In the pipeline only exception_triage writes exceptions.
LEMMA PipelineExceptions ==
    ASSUME PipelineNext, ~\E w \in Workers : ExceptionTriage(w)
    PROVE  exceptions' = exceptions
<1>1. ASSUME NEW w \in Workers, NodeStep(w) PROVE exceptions' = exceptions
  BY <1>1 DEF NodeStep, Ingest, Extract, Validate, Backfill, Match3way, Embed, Policy, Gate,
              AutoApprove, HumanReview, Archive, LogOnly, SecondLog
<1>2. ASSUME NEW w \in Workers, RunnerStep(w) \/ FaultStep(w) PROVE exceptions' = exceptions
  BY <1>2 DEF RunnerStep, RunInvoice, Resume, Start, Persist, Return, IngestNoRun,
              RecordFailure, RecordFailureRefused, ReplayClaim, FaultStep, InfraFailure,
              BusinessFailure, PersistFailure, RecordFailureFails, Crash, tables
<1>3. ASSUME NEW w \in Workers, RequestStep(w) PROVE exceptions' = exceptions
  BY <1>3 DEF RequestStep, Accept, Rerun, ReplayRead, tables
<1>4. ASSUME NEW i \in Invoices, Duplicate(i) PROVE exceptions' = exceptions
  BY <1>4 DEF Duplicate
<1> QED
  BY <1>1, <1>2, <1>3, <1>4 DEF PipelineNext

LEMMA SameCases ==
    ASSUME exceptions' = exceptions, decisions' = decisions, requests' = requests
    PROVE  CasesSame
BY DEF CasesSame

\* The exceptions' part of the invariant, and every run in its stage.
LEMMA CasesNext ==
    ASSUME DeskInv, ReplayInv, [Next]_vars, NEW w, OneExecutor(w), NothingLost, NoReruns,
           OneResolution', StagesIn(runs, checkpoint, exec[w]), QueueIn(runs, dlq),
           CasesIn(exceptions, decisions, requests, checkpoint, exec[w])
    PROVE  /\ Settled(w)
           /\ CasesIn(exceptions', decisions', requests', checkpoint', exec'[w])
<1>1. SystemInv /\ w \in Workers /\ Workers = {w} /\ ThreadsPlacedIn(checkpoint, exec[w])
  BY DEF DeskInv, OneExecutor
<1>2. CASE \E q \in Requests : DecideResume(q, w)
  BY <1>2, CasesResume
<1>3. CASE ~\E q \in Requests : DecideResume(q, w)
  <2>1. (Settled(w) /\ WaitsSame(w)) \/ (Settled(w) /\ ExceptionTriage(w))
    BY <1>1, <1>3, StepStages
  <2>2. ASSUME WaitsSame(w), CasesSame
        PROVE  CasesIn(exceptions', decisions', requests', checkpoint', exec'[w])
    BY <1>1, <2>2, CasesQuiet
  <2>3. ASSUME PipelineNext, UNCHANGED <<decisions, requests>>
        PROVE  CasesIn(exceptions', decisions', requests', checkpoint', exec'[w])
    <3>1. CASE ExceptionTriage(w)
      BY <1>1, <2>3, <3>1, CasesTriage
    <3>2. CASE ~ExceptionTriage(w)
      <4>1. exceptions' = exceptions
        BY <1>1, <2>3, <3>2, PipelineExceptions
      <4> QED
        BY <2>1, <2>2, <2>3, <3>2, <4>1, SameCases
    <3> QED
      BY <3>1, <3>2
  <2>4. ASSUME NEW q \in Requests, DecisionStep(q)
        PROVE  CasesIn(exceptions', decisions', requests', checkpoint', exec'[w])
    <3>1. CASE DecideResolve(q)
      BY <1>1, <3>1, CasesResolve
    <3>2. CASE ~DecideResolve(q)
      <4>1. CasesSame
        BY <1>1, <1>3, <2>4, <3>2, CasesDecided
      <4>2. WaitsSame(w)
        <5>1. checkpoint' = checkpoint /\ exec' = exec
          BY <1>1, <1>3, <2>4
             DEF DecisionStep, DecideRead, DecideClaim, DecideResolve, DecideEscalate,
                 DecideFailure, ResumeFailure, pipelineVars
        <5> QED
          BY <5>1 DEF WaitsSame
      <4> QED
        BY <2>2, <4>1, <4>2
    <3> QED
      BY <3>1, <3>2
  <2>5. ASSUME UNCHANGED vars
        PROVE  CasesIn(exceptions', decisions', requests', checkpoint', exec'[w])
    <3>1. CasesSame
      BY <2>5, SameCases DEF vars, pipelineVars, tables
    <3>2. WaitsSame(w)
      BY <2>5 DEF vars, pipelineVars, WaitsSame
    <3> QED
      BY <2>2, <3>1, <3>2
  <2> QED
    BY <2>1, <2>3, <2>4, <2>5 DEF Next
<1> QED
  BY <1>2, <1>3

-----------------------------------------------------------------------------
(* The theorem *)

LEMMA TrackNext ==
    ASSUME TrackInv, [Next]_vars, NEW w, OneExecutor(w), NothingLost, NoReruns, OneResolution'
    PROVE  TrackInv'
<1>1. /\ DeskInv /\ ReplayInv /\ ViewInv /\ ExceptionsLiveIn(runs, exceptions)
      /\ w \in Workers /\ Workers = {w} /\ QueueIn(runs, dlq)
      /\ StagesIn(runs, checkpoint, exec[w])
      /\ CasesIn(exceptions, decisions, requests, checkpoint, exec[w])
  BY DEF TrackInv, OneExecutor
<1>2. CheckpointsKept
  BY DEF NothingLost, CheckpointsKept
<1>3. DeskInv'
  BY <1>1, <1>2, DeskNext
<1>4. ReplayInv'
  BY <1>1, ReplayNext
<1>5. ViewInv'
  BY <1>1, ViewNext
<1>6. ExceptionsLiveIn(runs', exceptions')
  BY <1>1, ExceptionsLiveKept
<1>7. /\ Settled(w)
      /\ CasesIn(exceptions', decisions', requests', checkpoint', exec'[w])
  BY <1>1, CasesNext
<1>8. QueueIn(runs', dlq')
  BY <1>1, <1>7, QueueNext
<1>9. StagesIn(runs', checkpoint', exec'[w])
  BY <1>7 DEF Settled
<1> QED
  BY <1>1, <1>3, <1>4, <1>5, <1>6, <1>7, <1>8, <1>9 DEF TrackInv

\* At the start there is nothing to track.
LEMMA TrackInit == ASSUME Init PROVE TrackInv
<1>1. DeskInv /\ ViewInv /\ SystemInv
  BY DeskInit, ViewInit, InitOK
<1>2. /\ runs = <<>> /\ exceptions = <<>> /\ dlq = <<>> /\ ledger = <<>>
      /\ checkpoint = [i \in Invoices |-> [next |-> "new", st |-> EmptyState]]
      /\ \A w \in Workers : exec[w].pc = "idle"
      /\ \A q \in Requests : requests[q].pc = "new"
  BY DEF Init, PipelineInit, Idle, NewRequest
<1>3. ReplayInv
  BY ReplayInit
<1>4. ExceptionsLiveIn(runs, exceptions) /\ QueueIn(runs, dlq)
  BY <1>2 DEF ExceptionsLiveIn, QueueIn
<1>5. \A i : LiveRuns(runs, i) = {}
  BY <1>2 DEF LiveRuns
<1>6. \A w \in Workers, i \in Invoices :
         /\ ThreadOf(checkpoint, exec[w], i).next = "new"
         /\ ThreadOf(checkpoint, exec[w], i).st.decision = NoDecision
         /\ Doing(exec[w], i) = "idle"
  BY <1>2 DEF ThreadOf, EmptyState, Doing
<1>7. \A w \in Workers : StagesIn(runs, checkpoint, exec[w])
  BY <1>5, <1>6 DEF StagesIn, Steady
<1>8. \A w \in Workers : CasesIn(exceptions, decisions, requests, checkpoint, exec[w])
  BY <1>2, <1>6 DEF CasesIn, Waits
<1> QED
  BY <1>1, <1>3, <1>4, <1>7, <1>8 DEF TrackInv

\* A run in its stage is worked on, queued or waiting for somebody to decide.
LEMMA TrackHolds ==
    ASSUME TrackInv, NEW w, OneExecutor(w)
    PROVE  NoForgottenRun
<1> SUFFICES ASSUME NEW r \in 1..Len(runs)
             PROVE  /\ runs[r].status = "RUNNING" => Attended(r)
                    /\ runs[r].status = "FAILED" =>
                          \E d \in 1..Len(dlq) : dlq[d].run = r /\ dlq[d].status = "PENDING"
                    /\ runs[r].status = "AWAITING_DECISION" =>
                          \/ Attended(r)
                          \/ \E x \in 1..Len(exceptions) :
                                exceptions[x].run = r /\ exceptions[x].status = "OPEN"
                          \/ \E q \in Requests : requests[q].pc = "resume"
                                /\ exceptions[requests[q].exc].run = r
  BY DEF NoForgottenRun
<1> DEFINE i == runs[r].inv
           c == ThreadOf(checkpoint, exec[w], i)
<1>1. /\ SystemInv /\ w \in Workers /\ StagesIn(runs, checkpoint, exec[w])
      /\ CasesIn(exceptions, decisions, requests, checkpoint, exec[w])
      /\ ReferencesIn(runs, exceptions, decisions) /\ ExceptionsLiveIn(runs, exceptions)
  BY DEF TrackInv, ViewInv, OneExecutor
<1>2. i \in Invoices
  BY <1>1, RowFacts DEF RunRow
<1>3. Doing(exec[w], i) # "idle" => Attended(r)
  BY <1>1 DEF Doing, Attended
<1>4. runs[r].status # "REJECTED" =>
         r \in LiveRuns(runs, i) /\ StageIn(runs[r].status, c, Doing(exec[w], i))
  BY <1>1, <1>2 DEF StagesIn, LiveRuns
<1>5. runs[r].status = "RUNNING" => Attended(r)
  BY <1>3, <1>4 DEF StageIn, AtWork
<1>6. runs[r].status = "FAILED" =>
         \E d \in 1..Len(dlq) : dlq[d].run = r /\ dlq[d].status = "PENDING"
  BY <1>1, InvParts DEF ReplayableIn
<1>7. ASSUME runs[r].status = "AWAITING_DECISION", ~Attended(r)
      PROVE  \/ \E x \in 1..Len(exceptions) :
                   exceptions[x].run = r /\ exceptions[x].status = "OPEN"
             \/ \E q \in Requests : requests[q].pc = "resume"
                   /\ exceptions[requests[q].exc].run = r
  <2>1. Waits(c)
    BY <1>3, <1>4, <1>7 DEF StageIn, AtWork
  <2>2. PICK x \in 1..Len(exceptions) : exceptions[x].inv = i
           /\ (exceptions[x].status = "OPEN" \/ \E q \in Requests : requests[q].pc = "resume" /\ requests[q].exc = x)
    BY <1>1, <1>2, <2>1 DEF CasesIn
  <2>3. /\ exceptions[x].run \in 1..Len(runs) /\ runs[exceptions[x].run].inv = i
        /\ runs[exceptions[x].run].status # "REJECTED"
    BY <1>1, <2>2, RowFacts DEF ReferencesIn, ExceptionsLiveIn
  <2>4. exceptions[x].run = r
    BY <1>1, <1>7, <2>3, RowFacts DEF OneLiveIn
  <2> QED
    BY <2>2, <2>4
<1> QED
  BY <1>5, <1>6, <1>7

\* No started run is forgotten: while one worker drives the graph, a RUNNING
\* run has it, a FAILED one has a PENDING entry, and one that waits has an OPEN
\* exception or a resume under way (GraphRunner, dlq.record_failure and
\* DecisionService._resume_graph), for as long as no exception is resolved
\* twice.  This needs that no process dies and no checkpoint, dead-letter entry
\* or resume fails (NothingLost), and that nobody calls run_invoice again on a
\* thread that waits (NoReruns): each of them does leave a run behind.
THEOREM NothingForgotten ==
    ASSUME NEW w, OneExecutor(w), NothingLost, NoReruns
    PROVE  Spec /\ []OneResolution => []NoForgottenRun
<1>1. Init => TrackInv
  BY TrackInit
<1>2. TrackInv /\ [Next]_vars /\ OneResolution' => TrackInv'
  BY TrackNext
<1>3. TrackInv => NoForgottenRun
  BY TrackHolds
<1> QED
  BY <1>1, <1>2, <1>3, PTL DEF Spec

=============================================================================
