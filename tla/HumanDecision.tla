--------------------------- MODULE HumanDecision ---------------------------
(***************************************************************************)
(* The human decision service (api/services/decisions.py) composed with    *)
(* the pipeline: POST /v1/exceptions/{id}/decision reads the exception,    *)
(* claims it on first touch, refuses an approval by its assignee, records  *)
(* the decision in one transaction and then resumes the paused graph.      *)
(*                                                                         *)
(* There are no row locks: a request works with the exception row it read  *)
(* (expire_on_commit=False), so its read, its claim, its decision and its  *)
(* resume are separate steps.  Requests that end without a write (unknown  *)
(* id, idempotent replay, ALREADY_DECIDED, approval by the assignee read)  *)
(* change nothing and are not steps.                                       *)
(***************************************************************************)
EXTENDS Pipeline

CONSTANTS
    Requests,     \* decision requests (bound: each is one HTTP call)
    Users,        \* personas
    ManagerQueue  \* the assignee of an escalation without a target

VARIABLES
    decisions,    \* decisions table: [exc, actor, action]
    requests      \* per request: its program counter, payload and row read

vars == <<pipelineVars, decisions, requests>>

ASSUME DecisionAssumption ==
    NoUser \notin Users /\ ManagerQueue \notin Users /\ NoUser # ManagerQueue

Actions == {"APPROVE", "RETURN_TO_VENDOR", "ESCALATE"}
Assignees == Users \cup {NoUser, ManagerQueue}

\* new: not sent; claim: read an unclaimed row; commit: the decision is next;
\* resume: a resolution is committed, submit_decision is next.
RequestState == [pc : {"new", "claim", "commit", "resume", "done"},
                 exc : Nat, user : Users \cup {NoUser},
                 action : Actions \cup {"none"}, decision : Nat]

NewRequest == [pc |-> "new", exc |-> 0, user |-> NoUser, action |-> "none",
               decision |-> NoDecision]

Done(q) == requests' = [requests EXCEPT ![q] = [NewRequest EXCEPT !.pc = "done"]]

-----------------------------------------------------------------------------
(* DecisionService.decide *)

\* Reads the row: only an OPEN exception goes on, and not when the requester
\* wants to approve what they are already assigned (FOUR_EYES).
DecideRead(q, x, u, a) ==
    /\ requests[q].pc = "new"
    /\ exceptions[x].status = "OPEN"
    /\ ~(a = "APPROVE" /\ exceptions[x].assignee = u)
    /\ requests' = [requests EXCEPT ![q] =
          [pc |-> IF exceptions[x].assignee = NoUser THEN "claim" ELSE "commit",
           exc |-> x, user |-> u, action |-> a, decision |-> NoDecision]]
    /\ UNCHANGED <<pipelineVars, decisions>>

\* Claim-on-touch, committed by itself; an APPROVE is then refused because
\* the requester has just become the assignee.
DecideClaim(q) ==
    LET rq == requests[q]
    IN  /\ rq.pc = "claim"
        /\ exceptions' = [exceptions EXCEPT ![rq.exc].assignee = rq.user]
        /\ IF rq.action = "APPROVE" THEN Done(q)
           ELSE requests' = [requests EXCEPT ![q].pc = "commit"]
        /\ UNCHANGED <<invoices, runs, dlq, ledger, readModel, embeddings,
                       checkpoint, exec, bounds, decisions>>

RecordDecision(q) ==
    decisions' = Append(decisions, [exc |-> requests[q].exc,
                     actor |-> requests[q].user, action |-> requests[q].action])

\* Mutant: an escalation is not audited.
DecideEscalateUnaudited(q, target) ==
    LET rq == requests[q]
    IN  /\ rq.pc = "commit" /\ rq.action = "ESCALATE"
        /\ RecordDecision(q)
        /\ exceptions' = [exceptions EXCEPT ![rq.exc].assignee = target]
        /\ Done(q)
        /\ UNCHANGED <<invoices, runs, ledger, dlq, readModel, embeddings,
                       checkpoint, exec, bounds>>

\* ESCALATE: reassign, stay OPEN, no resume.
DecideEscalate(q, target) ==
    LET rq == requests[q]
    IN  /\ rq.pc = "commit" /\ rq.action = "ESCALATE"
        /\ RecordDecision(q)
        /\ exceptions' = [exceptions EXCEPT ![rq.exc].assignee = target]
        /\ LedgerAppend(exceptions[rq.exc].run, Ev("decision.recorded"))
        /\ Done(q)
        /\ UNCHANGED <<invoices, runs, dlq, readModel, embeddings,
                       checkpoint, exec, bounds>>

\* Mutant: a resolution, like an escalation, does not resume the graph.
DecideResolveNoResume(q) ==
    LET rq == requests[q]
        x == exceptions[rq.exc]
    IN  /\ rq.pc = "commit" /\ rq.action # "ESCALATE"
        /\ RecordDecision(q)
        /\ exceptions' = [exceptions EXCEPT ![rq.exc].status = "RESOLVED"]
        /\ LedgerAppend(x.run, Ev("decision.recorded"))
        /\ Done(q)
        /\ UNCHANGED <<invoices, runs, dlq, readModel, embeddings, checkpoint,
                       exec, bounds>>

\* APPROVE / RETURN_TO_VENDOR: resolve the exception, settle the invoice.
DecideResolve(q) ==
    LET rq == requests[q]
        x == exceptions[rq.exc]
    IN  /\ rq.pc = "commit" /\ rq.action # "ESCALATE"
        /\ RecordDecision(q)
        /\ exceptions' = [exceptions EXCEPT ![rq.exc].status = "RESOLVED"]
        /\ invoices' = [invoices EXCEPT ![x.inv] =
              IF rq.action = "APPROVE" THEN "DECISION_APPROVED"
              ELSE "RETURNED_TO_VENDOR"]
        /\ LedgerAppend(x.run, Ev("decision.recorded"))
        /\ requests' = [requests EXCEPT ![q].pc = "resume",
                                        ![q].decision = Len(decisions) + 1]
        /\ UNCHANGED <<runs, dlq, readModel, embeddings, checkpoint, exec, bounds>>

\* Mutant: no runner is provided, the decision is recorded without a resume.
DecideResumeNoRunner(q, w) ==
    /\ requests[q].pc = "resume"
    /\ Done(q)
    /\ UNCHANGED <<pipelineVars, decisions>>

\* _resume_graph: submit_decision, run by the request's own task.
DecideResume(q, w) ==
    LET rq == requests[q]
    IN  /\ rq.pc = "resume"
        /\ SubmitDecision(w, exceptions[rq.exc].inv, rq.decision)
        /\ Done(q)
        /\ UNCHANGED <<tables, bounds, decisions>>

\* The decision's transaction fails (for one, a ledger seq collision) and is
\* rolled back.
DecideFailure(q) ==
    /\ requests[q].pc = "commit"
    /\ Fault("decide")
    /\ Done(q)
    /\ UNCHANGED <<tables, checkpoint, exec, reruns, decisions>>

\* The process dies, aupdate_state raises or there is no runner, after the
\* decision is committed: aupdate_state is outside the runner's DLQ path.
ResumeFailure(q) ==
    /\ requests[q].pc = "resume"
    /\ Fault("update")
    /\ Done(q)
    /\ UNCHANGED <<tables, checkpoint, exec, reruns, decisions>>

-----------------------------------------------------------------------------
Init ==
    /\ PipelineInit
    /\ decisions = <<>>
    /\ requests = [q \in Requests |-> NewRequest]

DecisionStep(q) ==
    \/ \E x \in 1..Len(exceptions), u \in Users, a \in Actions :
          DecideRead(q, x, u, a)
    \/ DecideClaim(q) \/ DecideResolve(q)
    \/ \E t \in Users \cup {ManagerQueue} : DecideEscalate(q, t)
    \/ \E w \in Workers : DecideResume(q, w)
    \/ DecideFailure(q) \/ ResumeFailure(q)

Next ==
    \/ PipelineNext /\ UNCHANGED <<decisions, requests>>
    \/ \E q \in Requests : DecisionStep(q)

Spec == Init /\ [][Next]_vars

RunRow == [inv : Invoices, status : RunStatus, route : Routes]
ExceptionRow == [inv : Invoices, run : Nat, status : {"OPEN", "RESOLVED"},
                 assignee : Assignees]
DLQRow == [inv : Invoices, run : Nat, status : {"PENDING", "REPLAYED"}]
DecisionRow == [exc : Nat, actor : Users, action : Actions]

\* Every row and every in-memory value keeps its shape, and every run has its
\* ledger (the run row and its first entry are one transaction).
TypeOK ==
    /\ invoices \in [Invoices -> InvoiceStatus]
    /\ runs \in Seq(RunRow)
    /\ exceptions \in Seq(ExceptionRow)
    /\ dlq \in Seq(DLQRow)
    /\ ledger \in Seq(Seq(Event))
    /\ Len(ledger) = Len(runs)
    /\ readModel \subseteq Invoices /\ embeddings \subseteq Invoices
    /\ checkpoint \in [Invoices -> Checkpoints]
    /\ exec \in [Workers -> Execs]
    /\ faults \in Nat /\ reruns \in Nat
    /\ decisions \in Seq(DecisionRow)
    /\ requests \in [Requests -> RequestState]

-----------------------------------------------------------------------------
(* The inductive invariant of the composed system *)

\* A GraphState without a run is blank; one with a run carries the invoice's
\* live run and only results that run's ledger backs.
StateOK(i, st) ==
    IF st.run = NoRun
    THEN /\ ~st.extraction /\ st.validation = "none" /\ st.match = "none"
         /\ st.policy = "none" /\ st.gate = "none" /\ st.route = "none"
    ELSE /\ st.run \in 1..Len(runs)
         /\ runs[st.run].inv = i /\ runs[st.run].status # "REJECTED"
         /\ Backed(st)

CheckpointOK(i) ==
    /\ StateOK(i, checkpoint[i].st)
    /\ Ready(checkpoint[i].next, checkpoint[i].st)

ExecOK(e) ==
    /\ e.pc # "idle" => e.inv \in Invoices
    /\ e.pc \in {"node", "second", "returning"} =>
          StateOK(e.inv, e.st) /\ Ready(e.node, e.st)
    /\ e.pc \in {"node", "second"} => e.node \in Nodes
    /\ e.pc = "claim" => e.entry \in 1..Len(dlq)

\* Rows refer to rows that exist; DLQ entries and exceptions to live runs.
RowsOK ==
    /\ \A r \in 1..Len(runs) : invoices[runs[r].inv] # "ABSENT"
    /\ \A d \in 1..Len(dlq) : dlq[d].run \in 1..Len(runs)
          /\ runs[dlq[d].run].status # "REJECTED"
    /\ \A x \in 1..Len(exceptions) : exceptions[x].run \in 1..Len(runs)
    /\ \A q \in Requests : requests[q].pc \in {"claim", "commit", "resume"} =>
          /\ requests[q].exc \in 1..Len(exceptions)
          /\ requests[q].user \in Users /\ requests[q].action \in Actions

\* The composed system's inductive invariant: together with the types it keeps
\* every in-memory and every checkpointed GraphState tied to its run's ledger.
SystemInv ==
    /\ TypeOK
    /\ RowsOK
    /\ OneLiveRun
    /\ \A i \in Invoices : CheckpointOK(i)
    /\ \A w \in Workers : ExecOK(exec[w])
    /\ AutoApprovalJustified
    /\ FailedRunIsReplayable

-----------------------------------------------------------------------------
(* What the human-in-the-loop path guarantees *)

Resolutions(x) ==
    {d \in 1..Len(decisions) : decisions[d].exc = x /\ decisions[d].action # "ESCALATE"}

\* graph/runner.py: "Waiting on a HITL decision -- only submit_decision()
\* resumes": an exception run is archived only after a human resolved an
\* exception of that run.
ArchivedOnlyAfterDecision ==
    \A r \in 1..Len(runs) :
        runs[r].status = "COMPLETED" /\ runs[r].route = "EXCEPTION" =>
            \E x \in 1..Len(exceptions) :
                exceptions[x].run = r /\ Resolutions(x) # {}

\* What holds of it when one executor at a time drives a thread: whatever the
\* background task, retries, replays and recoveries do, no run passes its
\* human.  Only one more call of run_invoice on the paused thread carries it
\* on, and not even that if LangGraph showed the runner the interrupt.
OnlyARerunPassesHuman == InterruptVisible \/ reruns = 0 => ArchivedOnlyAfterDecision

\* Somebody is working on the run's invoice.
Attended(r) == \E w \in Workers : exec[w].inv = runs[r].inv /\ exec[w].pc # "idle"

\* No started run is forgotten: a RUNNING run has a worker, a FAILED one a
\* PENDING DLQ entry, and one that waits for a human has an OPEN exception to
\* decide, or its resume is under way (DecisionService._resume_graph).
NoForgottenRun ==
    \A r \in 1..Len(runs) :
        /\ runs[r].status = "RUNNING" => Attended(r)
        /\ runs[r].status = "FAILED" =>
              \E d \in 1..Len(dlq) : dlq[d].run = r /\ dlq[d].status = "PENDING"
        /\ runs[r].status = "AWAITING_DECISION" =>
              \/ Attended(r)
              \/ \E x \in 1..Len(exceptions) :
                    exceptions[x].run = r /\ exceptions[x].status = "OPEN"
              \/ \E q \in Requests : requests[q].pc = "resume"
                    /\ exceptions[requests[q].exc].run = r

Count(r, e) == Cardinality({k \in 1..Len(ledger[r]) : ledger[r][k] = e})

-----------------------------------------------------------------------------
(* What the repository's documentation says and the code does not do *)

\* docs/ARCHITECTURE.md: "AutoApprove and payment-stub calls are idempotent on
\* run_id": one run enqueues one payment.
AutoApproveOnce ==
    \A r \in 1..Len(runs) : Count(r, Ev("invoice.auto_approved")) <= 1

\* graph/runner.py: any ultimate failure lands in the DLQ, "nothing is dropped
\* silently": leaving the failure handler adds a DLQ entry.
FailureLandsInDLQ ==
    [][\A w \in Workers : exec[w].pc = "raised" /\ exec'[w].pc = "idle"
          => Len(dlq') > Len(dlq)]_vars

\* api/services/decisions.py: "a DIFFERENT decision after resolution is a 409":
\* an exception has at most one resolution.
OneResolution ==
    \A x \in 1..Len(exceptions) : Cardinality(Resolutions(x)) <= 1

-----------------------------------------------------------------------------
(* Liveness *)

\* asyncio runs a ready task and Postgres answers: a step of a worker or of a
\* request in flight that stays possible is taken.  Nothing is assumed of
\* people: uploads, decisions and replays may never come.
Fairness ==
    /\ \A w \in Workers : WF_vars((NodeStep(w) \/ RunnerStep(w))
                                   /\ UNCHANGED <<decisions, requests>>)
    /\ \A q \in Requests : WF_vars(DecideClaim(q) \/ DecideResolve(q)
          \/ (\E t \in Users \cup {ManagerQueue} : DecideEscalate(q, t))
          \/ (\E w \in Workers : DecideResume(q, w)))

FairSpec == Spec /\ Fairness

\* Every run that has started comes to rest where somebody can see it:
\* waiting for a human, in the DLQ, or completed.
RunningSettles ==
    \A r \in 1..MaxRuns :
        (r <= Len(runs) /\ runs[r].status = "RUNNING")
        ~> (r <= Len(runs) /\ runs[r].status \in
                {"AWAITING_DECISION", "FAILED", "COMPLETED"})

\* A resolved exception's run is archived, or its failure is in the DLQ.
DecisionSettles ==
    \A r \in 1..MaxRuns :
        (\E x \in 1..Len(exceptions) :
            exceptions[x].run = r /\ exceptions[x].status = "RESOLVED")
        ~> (r <= Len(runs) /\ runs[r].status \in {"FAILED", "COMPLETED"})
=============================================================================
