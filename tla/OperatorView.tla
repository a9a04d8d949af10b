---------------------------- MODULE OperatorView ----------------------------
(***************************************************************************)
(* What the read services show of the system: the work queue               *)
(* (api/services/queue.py), the run trace with its active stage            *)
(* (api/services/trace.py, GraphRunner.activity), the provenance package   *)
(* and the dashboard (api/services/dashboard.py).  They change nothing, so *)
(* they are operators on the state of HumanDecision; one transaction reads *)
(* at one instant.  Sorting, paging and the columns no property reads      *)
(* (amounts, dates, SLA ageing, version pins) are left out.                *)
(***************************************************************************)
EXTENDS HumanDecision

AnyValue == "any"    \* a filter that is not given

OfInvoice(rows, i) == {k \in 1..Len(rows) : rows[k].inv = i}

\* The row with the largest id, 0 when there is none.
Latest(ids) == IF ids = {} THEN 0 ELSE CHOOSE k \in ids : \A j \in ids : j <= k

LatestRun(i) == Latest(OfInvoice(runs, i))

\* Mutant: the exception is joined through the latest run.
LatestExceptionOfLatestRun(i) == Latest({x \in OfInvoice(exceptions, i) : exceptions[x].run = LatestRun(i)})

LatestException(i) == Latest(OfInvoice(exceptions, i))

\* _apply_filters: an outer-joined row that is missing satisfies no filter.
Matches(f, i) ==
    LET r == LatestRun(i)
        x == LatestException(i)
    IN  /\ f.status \in {AnyValue, invoices[i]}
        /\ f.route # AnyValue => r # 0 /\ runs[r].route = f.route
        /\ f.assignee # AnyValue => x # 0 /\ exceptions[x].assignee = f.assignee

ListInvoices(f) == {i \in Invoices : invoices[i] # "ABSENT" /\ Matches(f, i)}

-----------------------------------------------------------------------------
\* GraphRunner.activity: the next node of the thread, unless it is paused.
Activity(i) ==
    LET c == checkpoint[i] IN IF c.next \in Nodes /\ ~Paused(c) THEN c.next ELSE "none"

\* node_trace of the thread's GraphState: the nodes that were completed on the
\* way to it.  Each node but ingest and the last three leaves a result of its
\* own in the state, and the graph has no cycles.
NodeTrace(c) ==
    LET Passed(node, done) == IF done THEN {node} ELSE {}
        settled == c.next \in {"archive", "end"}
    IN  Passed("ingest", c.st.run # NoRun) \cup Passed("extract", c.st.extraction)
        \cup Passed("validate", c.st.validation # "none")
        \cup Passed("match3way", c.st.match # "none")
        \cup Passed("policy", c.st.policy # "none")
        \cup Passed("gate", c.st.gate # "none")
        \cup Passed("auto_approve", c.st.route = "AUTO")
        \cup Passed("exception_triage", c.st.route = "EXCEPTION")
        \cup Passed("human_review", c.st.route = "EXCEPTION" /\ settled)
        \cup Passed("archive", c.next = "end")

\* Mutant: the node the thread stands before is shown as completed.
RunTraceWithNext(r, status) ==
    LET c == checkpoint[runs[r].inv]
    IN  [status |-> status, stages |-> NodeTrace(c) \cup ({c.next} \cap Nodes),
         active |-> IF status = "RUNNING" THEN Activity(runs[r].inv) ELSE "none"]

\* The run and its timeline (the run's ledger entries) are read first, its
\* invoice's thread later: status is what the first read saw.  The thread
\* belongs to the invoice, the trace to one run.
RunTrace(r, status) ==
    [status |-> status, stages |-> NodeTrace(checkpoint[runs[r].inv]),
     active |-> IF status = "RUNNING" THEN Activity(runs[r].inv) ELSE "none"]

\* What an earlier read of the run may have seen.
EarlierStatuses(r) == {runs[r].status} \cup {s \in {"RUNNING"} : Logged(r, Ev("run.started"))}

Provenance(i) ==
    [runs |-> OfInvoice(runs, i), exceptions |-> OfInvoice(exceptions, i),
     decisions |-> {d \in 1..Len(decisions) : exceptions[decisions[d].exc].inv = i},
     ledger |-> UNION {{<<r, k>> : k \in 1..Len(ledger[r])} : r \in OfInvoice(runs, i)}]

WithStatus(S) == Cardinality({i \in Invoices : invoices[i] \in S})

\* Mutant: every exception is counted, not the OPEN ones.
DashboardOfAllExceptions ==
    [auto |-> WithStatus({"AUTO_APPROVED"}),
     human |-> WithStatus({"DECISION_APPROVED", "RETURNED_TO_VENDOR"}),
     processed |-> WithStatus({"AUTO_APPROVED", "EXCEPTION", "DECISION_APPROVED", "RETURNED_TO_VENDOR"}),
     open |-> Len(exceptions)]

\* The straight-through rate is auto / processed.
DashboardSummary ==
    [auto |-> WithStatus({"AUTO_APPROVED"}),
     human |-> WithStatus({"DECISION_APPROVED", "RETURNED_TO_VENDOR"}),
     processed |-> WithStatus({"AUTO_APPROVED", "EXCEPTION", "DECISION_APPROVED", "RETURNED_TO_VENDOR"}),
     open |-> Cardinality({x \in 1..Len(exceptions) : exceptions[x].status = "OPEN"})]

-----------------------------------------------------------------------------
\* The entry a completed node leaves in its run's ledger.
Evidence(node) ==
    CASE node = "ingest" -> {Ev("run.started")}
      [] node = "extract" -> {Ev("extract.completed")}
      [] node = "validate" -> {"validate.completed"} \X {"ok", "ERROR"}
      [] node = "match3way" -> {"match.completed"} \X {"MATCH", "MISMATCH"}
      [] node = "policy" -> {"policy.evaluated"} \X {"clear", "HIGH"}
      [] node = "gate" -> {"gate.decided"} \X {"AUTO", "EXCEPTION"}
      [] node = "auto_approve" -> {Ev("invoice.auto_approved")}
      [] node = "exception_triage" -> {Ev("exception.opened")}
      [] node = "human_review" -> {"human_review.completed"} \X {"decided", "undecided"}
      [] OTHER -> {Ev("run.archived")}

\* Every stage the trace of r shows as completed has its entry in the ledger
\* of r, and an active stage belongs to a thread that works for r.
TraceIsOf(r, trace) ==
    /\ \A node \in trace.stages : \E e \in Evidence(node) : Logged(r, e)
    /\ trace.active # "none" => checkpoint[runs[r].inv].st.run \in {r, NoRun}

\* A trace never mixes runs, whatever happens between the reads: its stages and
\* its active node come from the invoice's thread (trace.py reads it by
\* invoice), which works for one run only and never claims a node whose entry
\* is missing.  That run is the one asked for, unless this one is a rejected
\* duplicate: then it is another run of the same invoice.
TraceShowsOneRun ==
    \A r \in 1..Len(runs) : \A status \in EarlierStatuses(r) :
        \E o \in OfInvoice(runs, runs[r].inv) :
            /\ runs[r].status # "REJECTED" => o = r
            /\ TraceIsOf(o, RunTrace(r, status))

Entries(p, e) == {k \in p.ledger : ledger[k[1]][k[2]] = e}

\* The provenance package is complete in itself: it has one audit entry for
\* every decision and every exception in it, and no more, so that the tables
\* (which are updated in place) and the ledger tell the same story.
ProvenanceComplete ==
    \A i \in Invoices :
        LET p == Provenance(i) IN
        /\ Cardinality(p.decisions) = Cardinality(Entries(p, Ev("decision.recorded")))
        /\ Cardinality(p.exceptions) = Cardinality(Entries(p, Ev("exception.opened")))

\* Nobody's work is hidden: an OPEN exception's invoice is in the EXCEPTION
\* queue of its assignee, although the queue shows only the latest exception
\* of an invoice and a duplicate upload gives it a newer run.
WorklistComplete ==
    \A x \in 1..Len(exceptions) :
        exceptions[x].status = "OPEN" =>
            exceptions[x].inv \in
                ListInvoices([status |-> "EXCEPTION", route |-> AnyValue, assignee |-> exceptions[x].assignee])

\* The dashboard, computed from the invoice rows, agrees with the audit trail
\* and with the exceptions: as many automatic approvals as runs approved
\* automatically, as many human outcomes as resolved exceptions, and as many
\* open exceptions as invoices that wait for a decision.
DashboardAgrees ==
    LET d == DashboardSummary
        resolved == {x \in 1..Len(exceptions) : exceptions[x].status = "RESOLVED"}
    IN  /\ d.auto = Cardinality({r \in 1..Len(runs) : Logged(r, Ev("invoice.auto_approved"))})
        /\ d.human = Cardinality(resolved)
        /\ d.open = d.processed - d.auto - d.human
=============================================================================
