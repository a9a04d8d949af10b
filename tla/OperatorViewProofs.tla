------------------------- MODULE OperatorViewProofs -------------------------
(***************************************************************************)
(* Proofs about OperatorView for every value of its constants.             *)
(*                                                                         *)
(* What the read services show relates rows of different tables, so the    *)
(* proofs rest on one lemma, StepRows, that says of every step which rows  *)
(* and which ledger entry it adds.  Sets of rows are then compared by      *)
(* their cardinalities: a step that adds a row to one side of an equation  *)
(* adds exactly one to the other.                                          *)
(***************************************************************************)
EXTENDS OperatorView, HumanDecisionProofs, FiniteSetTheorems

\* Rewritten in place: no row is added, and no row changes what it refers to.
ExceptionsInPlace ==
    /\ Len(exceptions') = Len(exceptions)
    /\ \A x \in 1..Len(exceptions) : /\ exceptions'[x].inv = exceptions[x].inv
                                     /\ exceptions'[x].run = exceptions[x].run

RunsInPlace ==
    /\ Len(runs') = Len(runs)
    /\ \A r \in 1..Len(runs) :
          /\ runs'[r].inv = runs[r].inv
          /\ runs'[r].status = "REJECTED" <=> runs[r].status = "REJECTED"

Opened == Ev("exception.opened")
Advised == Ev("triage.completed")
Recorded == Ev("decision.recorded")
Started == Ev("run.started")
Replayed == Ev("dlq.replayed")
Approved == Ev("invoice.auto_approved")

\* The step appends one entry to run r's ledger; the triage agent's verdict may
\* follow the opening of an exception.
Logs(r, e) ==
    /\ r \in 1..Len(runs) /\ e \in Event
    /\ \/ ledger' = Appended(ledger, r, e)
       \/ e = Opened /\ ledger' = Appended(Appended(ledger, r, e), r, Advised)
    /\ RunsInPlace

NewRow(i, status, route) == [inv |-> i, status |-> status, route |-> route]

Grown(s, v) == Append(s, v)

\* The step creates a run and its ledger.
Creates(i, status, route, e) ==
    /\ NewRow(i, status, route) \in RunRow /\ e \in Event
    /\ runs' = Grown(runs, NewRow(i, status, route))
    /\ ledger' = Grown(ledger, <<e>>)

\* No exception and no decision is added.
PlainRows ==
    /\ ExceptionsInPlace /\ decisions' = decisions
    /\ \/ ledger' = ledger /\ RunsInPlace
       \/ \E r, e : /\ Logs(r, e) /\ e \notin {Opened, Recorded}
                    /\ e = Started => runs[r].status # "REJECTED"
                    /\ e = Replayed => \E w \in Workers : ReplayClaim(w)
                    /\ e = Approved => \E w \in Workers : AutoApprove(w)
       \/ \E i, status, route, e : /\ Creates(i, status, route, e)
                                   /\ e \in {Ev("ingest.accepted"), Ev("ingest.duplicate")}

\* An exception of run r is opened and logged.
OpensRow ==
    \E r, x : /\ Logs(r, Opened)
              /\ exceptions' = Append(exceptions, x) /\ decisions' = decisions
              /\ x \in ExceptionRow /\ x.run = r /\ x.inv = runs[r].inv
              /\ runs[r].status # "REJECTED"

\* A decision on exception x is recorded and logged in the exception's run.
DecidesRow ==
    \E x, d : /\ x \in 1..Len(exceptions) /\ d \in DecisionRow /\ d.exc = x
              /\ decisions' = Append(decisions, d)
              /\ ExceptionsInPlace
              /\ Logs(exceptions[x].run, Recorded) /\ runs' = runs

-----------------------------------------------------------------------------
(* Which rows a step adds *)

\* The rows of the invariant's tables.
LEMMA RowFacts ==
    ASSUME SystemInv
    PROVE  /\ runs \in Seq(RunRow) /\ ledger \in Seq(Seq(Event)) /\ Len(ledger) = Len(runs)
           /\ dlq \in Seq(DLQRow) /\ exceptions \in Seq(ExceptionRow)
           /\ decisions \in Seq(DecisionRow)
           /\ Len(runs) \in Nat /\ Len(exceptions) \in Nat /\ Len(decisions) \in Nat
           /\ Len(dlq) \in Nat
           /\ \A r \in 1..Len(runs) : runs[r] \in RunRow /\ Len(ledger[r]) \in Nat
           /\ \A x \in 1..Len(exceptions) : /\ exceptions[x] \in ExceptionRow
                                            /\ exceptions[x].run \in 1..Len(runs)
           /\ \A d \in 1..Len(decisions) : decisions[d] \in DecisionRow
           /\ \A d \in 1..Len(dlq) : dlq[d] \in DLQRow /\ dlq[d].run \in 1..Len(runs)
                                     /\ runs[dlq[d].run].status # "REJECTED"
           /\ OneLiveIn(runs)
<1>1. /\ runs \in Seq(RunRow) /\ ledger \in Seq(Seq(Event)) /\ Len(ledger) = Len(runs)
      /\ dlq \in Seq(DLQRow) /\ exceptions \in Seq(ExceptionRow)
      /\ decisions \in Seq(DecisionRow)
  BY DEF SystemInv, TypeOK
<1>2. \A r \in 1..Len(runs) : runs[r] \in RunRow /\ Len(ledger[r]) \in Nat
  <2>1. \A r \in 1..Len(runs) : runs[r] \in RunRow /\ ledger[r] \in Seq(Event)
    BY <1>1, ElementOfSeq
  <2> QED
    BY <2>1, LenProperties
<1>3. /\ \A x \in 1..Len(exceptions) : exceptions[x] \in ExceptionRow
      /\ \A d \in 1..Len(decisions) : decisions[d] \in DecisionRow
      /\ \A d \in 1..Len(dlq) : dlq[d] \in DLQRow
  BY <1>1, ElementOfSeq
<1>4. RowsIn(invoices, runs, exceptions, dlq) /\ OneLiveIn(runs)
  BY InvParts
<1> QED
  BY <1>1, <1>2, <1>3, <1>4, LenProperties DEF RowsIn

\* Tables that are not written are rewritten in place.
LEMMA InPlace ==
    /\ UNCHANGED exceptions => ExceptionsInPlace
    /\ UNCHANGED runs => RunsInPlace
BY DEF ExceptionsInPlace, RunsInPlace

\* Rewriting a live run's row in place.
LEMMA RunRewritten ==
    ASSUME SystemInv, NEW r \in 1..Len(runs), runs[r].status # "REJECTED",
           NEW row \in RunRow, row.inv = runs[r].inv, row.status # "REJECTED",
           runs' = Updated(runs, r, row)
    PROVE  RunsInPlace
<1>1. runs \in Seq(RunRow) /\ OneLiveIn(runs)
  BY RowFacts
<1>2. /\ Len(runs') = Len(runs) /\ runs'[r] = row
      /\ \A s \in 1..Len(runs) : s # r => runs'[s] = runs[s]
  BY <1>1, RunsUpdate, ZenonT(40)
<1> QED
  BY <1>2 DEF RunsInPlace

\* Rewriting an exception's row in place.
LEMMA ExceptionRewritten ==
    ASSUME SystemInv, NEW x \in 1..Len(exceptions), NEW row \in ExceptionRow,
           row.inv = exceptions[x].inv, row.run = exceptions[x].run,
           exceptions' = Updated(exceptions, x, row)
    PROVE  ExceptionsInPlace
<1>1. exceptions \in Seq(ExceptionRow)
  BY RowFacts
<1>2. /\ Len(exceptions') = Len(exceptions) /\ exceptions'[x] = row
      /\ \A y \in 1..Len(exceptions) : y # x => exceptions'[y] = exceptions[y]
  BY <1>1, ExceptionUpdate, ZenonT(40)
<1> QED
  BY <1>2 DEF ExceptionsInPlace

\* The entries of different events differ.
LEMMA EventNamesDiffer ==
    /\ Opened \in Event /\ Recorded \in Event /\ Started \in Event /\ Replayed \in Event
    /\ Approved \in Event /\ Advised \in Event
    /\ Advised \notin {Opened, Recorded, Started, Replayed, Approved}
    /\ \A s \in EventNames, t \in Outcomes :
          /\ <<s, t>> \in Event
          /\ <<s, t>> = Opened <=> s = "exception.opened" /\ t = "none"
          /\ <<s, t>> = Recorded <=> s = "decision.recorded" /\ t = "none"
          /\ <<s, t>> = Started <=> s = "run.started" /\ t = "none"
          /\ <<s, t>> = Replayed <=> s = "dlq.replayed" /\ t = "none"
          /\ <<s, t>> = Approved <=> s = "invoice.auto_approved" /\ t = "none"
    /\ \A s \in EventNames :
          /\ Ev(s) \in Event
          /\ Ev(s) = Opened <=> s = "exception.opened"
          /\ Ev(s) = Recorded <=> s = "decision.recorded"
          /\ Ev(s) = Started <=> s = "run.started"
          /\ Ev(s) = Replayed <=> s = "dlq.replayed"
          /\ Ev(s) = Approved <=> s = "invoice.auto_approved"
<1>1. \A s : Ev(s) = <<s, "none">>
  BY DEF Ev
<1>2. \A a, b, c, d : <<a, b>> = <<c, d>> <=> a = c /\ b = d
  OBVIOUS
<1>3. "none" \in Outcomes
  BY DEF Outcomes
<1>4. /\ "exception.opened" \in EventNames /\ "decision.recorded" \in EventNames
      /\ "run.started" \in EventNames /\ "dlq.replayed" \in EventNames
      /\ "invoice.auto_approved" \in EventNames /\ "triage.completed" \in EventNames
  BY DEF EventNames
<1>5. \A s \in EventNames, t \in Outcomes : <<s, t>> \in Event
  BY DEF Event
<1> QED
  BY <1>1, <1>2, <1>3, <1>4, <1>5 DEF Opened, Advised, Recorded, Started, Replayed, Approved

\* A worker's node that appends one entry, of none of the tables' events.
LEMMA LogNodeRows ==
    ASSUME SystemInv, NEW w \in Workers, exec[w].pc \in {"node", "second"},
           exec[w].node # "ingest",
           NEW s \in EventNames, NEW t \in Outcomes,
           s \notin {"exception.opened", "decision.recorded", "run.started", "dlq.replayed"},
           LedgerAppend(exec[w].st.run, <<s, t>>), RunsInPlace,
           s = "invoice.auto_approved" => AutoApprove(w),
           UNCHANGED <<exceptions, decisions>>
    PROVE  PlainRows
<1>1. exec[w].st.run \in 1..Len(runs)
  BY WorkerRun
<1>2. Logs(exec[w].st.run, <<s, t>>)
  BY <1>1, EventNamesDiffer DEF Logs, LedgerAppend, Appended
<1>3. /\ <<s, t>> \notin {Opened, Recorded, Started, Replayed}
      /\ <<s, t>> = Approved => AutoApprove(w)
  BY EventNamesDiffer
<1> QED
  BY <1>2, <1>3, InPlace DEF PlainRows

\* A node's transaction, with the row it rewrites.
LEMMA NodeRows ==
    ASSUME SystemInv, NEW w \in Workers, NodeStep(w), UNCHANGED <<decisions, requests>>
    PROVE  PlainRows \/ OpensRow
<1> DEFINE st == exec[w].st
           r == st.run
<1>1. CASE Backfill(w) \/ Embed(w)
  BY <1>1, InPlace DEF Backfill, Embed, PlainRows
<1>2. CASE Extract(w)
  <2>1. /\ exec[w].pc = "node" /\ exec[w].node = "extract"
        /\ LedgerAppend(r, <<"extract.completed", "none">>)
        /\ UNCHANGED <<runs, exceptions>>
    BY <1>2 DEF Extract, LogOnly, At, Ev
  <2> QED
    BY <2>1, LogNodeRows, InPlace DEF EventNames, Outcomes
<1>3. CASE Validate(w)
  <2>1. PICK v \in {"ok", "ERROR"} :
           /\ exec[w].pc = "node" /\ exec[w].node = "validate"
           /\ LedgerAppend(r, <<"validate.completed", v>>)
           /\ UNCHANGED <<runs, exceptions>>
    BY <1>3 DEF Validate, LogOnly, At
  <2> QED
    BY <2>1, LogNodeRows, InPlace DEF EventNames, Outcomes
<1>4. CASE Match3way(w)
  <2>1. PICK m \in {"MATCH", "MISMATCH"} :
           /\ exec[w].pc = "second" /\ exec[w].node = "match3way"
           /\ LedgerAppend(r, <<"match.completed", m>>)
           /\ UNCHANGED <<runs, exceptions>>
    BY <1>4 DEF Match3way, SecondLog
  <2> QED
    BY <2>1, LogNodeRows, InPlace DEF EventNames, Outcomes
<1>5. CASE Policy(w)
  <2>1. PICK p \in {"clear", "HIGH"} :
           /\ exec[w].pc = "second" /\ exec[w].node = "policy"
           /\ LedgerAppend(r, <<"policy.evaluated", p>>)
           /\ UNCHANGED <<runs, exceptions>>
    BY <1>5 DEF Policy, SecondLog
  <2> QED
    BY <2>1, LogNodeRows, InPlace DEF EventNames, Outcomes
<1>6. CASE Gate(w)
  <2>1. PICK g \in {"AUTO", "EXCEPTION"} :
           /\ exec[w].pc = "node" /\ exec[w].node = "gate"
           /\ LedgerAppend(r, <<"gate.decided", g>>)
           /\ UNCHANGED <<runs, exceptions>>
    BY <1>6 DEF Gate, LogOnly, At
  <2> QED
    BY <2>1, LogNodeRows, InPlace DEF EventNames, Outcomes
<1>7. CASE HumanReview(w)
  <2>1. PICK t \in {"undecided", "decided"} :
           /\ exec[w].pc = "node" /\ exec[w].node = "human_review"
           /\ LedgerAppend(r, <<"human_review.completed", t>>)
           /\ UNCHANGED <<runs, exceptions>>
    BY <1>7 DEF HumanReview, LogOnly, At
  <2> QED
    BY <2>1, LogNodeRows, InPlace DEF EventNames, Outcomes
<1>8. CASE AutoApprove(w)
  <2> DEFINE row == [runs[r] EXCEPT !.route = "AUTO"]
  <2>1. /\ exec[w].pc = "node" /\ exec[w].node = "auto_approve"
        /\ runs' = Updated(runs, r, row)
        /\ LedgerAppend(r, <<"invoice.auto_approved", "none">>)
        /\ UNCHANGED exceptions
    BY <1>8 DEF AutoApprove, At, Ev, Updated
  <2>2. r \in 1..Len(runs) /\ runs[r].status # "REJECTED" /\ runs[r] \in RunRow
    BY <2>1, WorkerRun, RowFacts
  <2>3. row \in RunRow /\ row.inv = runs[r].inv /\ row.status # "REJECTED"
    BY <2>2 DEF RunRow, Routes
  <2> HIDE DEF row
  <2>4. RunsInPlace
    BY <2>1, <2>2, <2>3, RunRewritten
  <2> QED
    BY <1>8, <2>1, <2>4, LogNodeRows DEF EventNames, Outcomes
<1>9. CASE Archive(w)
  <2> DEFINE route == IF st.route = "none" THEN runs[r].route ELSE st.route
             row == [runs[r] EXCEPT !.status = "COMPLETED", !.route = route]
  <2>1. /\ exec[w].pc = "node" /\ exec[w].node = "archive"
        /\ LedgerAppend(r, <<"run.archived", "none">>)
        /\ UNCHANGED exceptions
    BY <1>9 DEF Archive, At, Ev
  <2>2. /\ r \in 1..Len(runs) /\ runs[r].status # "REJECTED" /\ runs[r] \in RunRow
        /\ st \in GraphState /\ runs \in Seq(RunRow)
    BY <2>1, WorkerRun, WorkerFacts, RowFacts
  <2>3. runs' = Updated(runs, r, row)
    BY <1>9, <2>2 DEF Archive, Updated
  <2>4. row \in RunRow /\ row.inv = runs[r].inv /\ row.status # "REJECTED"
    <3>1. route \in Routes
      BY <2>2 DEF RunRow, Routes, GraphState
    <3> HIDE DEF route
    <3> QED
      BY <2>2, <3>1 DEF RunRow, RunStatus
  <2> HIDE DEF row
  <2>5. RunsInPlace
    BY <2>2, <2>3, <2>4, RunRewritten
  <2> QED
    BY <2>1, <2>5, LogNodeRows DEF EventNames, Outcomes
<1>10. CASE ExceptionTriage(w)
  <2> DEFINE row == [runs[r] EXCEPT !.route = "EXCEPTION", !.status = "AWAITING_DECISION"]
             x == [inv |-> exec[w].inv, run |-> r, status |-> "OPEN", assignee |-> NoUser]
  <2>1. /\ exec[w].pc = "node" /\ exec[w].node = "exception_triage"
        /\ LedgerAppend(r, Opened) \/ LedgerAppendBoth(r, Opened, Advised)
        /\ exceptions' = Append(exceptions, x) /\ decisions' = decisions
    BY <1>10 DEF ExceptionTriage, At, Opened, Advised
  <2>2. /\ r \in 1..Len(runs) /\ runs[r].status # "REJECTED" /\ runs[r] \in RunRow
        /\ runs[r].inv = exec[w].inv /\ exec[w].inv \in Invoices
        /\ st \in GraphState /\ runs \in Seq(RunRow)
    BY <2>1, WorkerRun, WorkerFacts, RowFacts
  <2>3. runs' = Updated(runs, r, row)
    BY <1>10, <2>2 DEF ExceptionTriage, Updated
  <2>4. row \in RunRow /\ row.inv = runs[r].inv /\ row.status # "REJECTED"
    BY <2>2 DEF RunRow, RunStatus, Routes
  <2> HIDE DEF row
  <2>5. RunsInPlace
    BY <2>2, <2>3, <2>4, RunRewritten
  <2>6. Logs(r, Opened)
    <3>1. ledger \in Seq(Seq(Event)) /\ r \in 1..Len(ledger)
      BY <2>2, RowFacts
    <3>2. [ledger EXCEPT ![r] = Append(Append(@, Opened), Advised)]
            = Appended(Appended(ledger, r, Opened), r, Advised)
      BY <3>1, LedgerAppendLemma, EventNamesDiffer DEF Appended
    <3>3. \/ ledger' = Appended(ledger, r, Opened)
          \/ ledger' = Appended(Appended(ledger, r, Opened), r, Advised)
      BY <2>1, <3>2 DEF LedgerAppend, LedgerAppendBoth, Appended
    <3> QED
      BY <2>2, <2>5, <3>3, EventNamesDiffer DEF Logs
  <2>7. x \in ExceptionRow /\ x.run = r /\ x.inv = runs[r].inv
    BY <2>2 DEF ExceptionRow, GraphState, Assignees
  <2> HIDE DEF x, r
  <2> QED
    BY <2>1, <2>2, <2>6, <2>7 DEF OpensRow
<1>11. CASE Ingest(w)
  <2>1. PICK q \in IngestRuns(exec[w].inv) :
           /\ runs' = [runs EXCEPT ![q].status = "RUNNING"]
           /\ LedgerAppend(q, Started) /\ UNCHANGED exceptions
    BY <1>11 DEF Ingest, Started
  <2> DEFINE row == [runs[q] EXCEPT !.status = "RUNNING"]
  <2>2. /\ q \in 1..Len(runs) /\ runs[q].status \in {"QUEUED", "RUNNING"}
        /\ runs[q] \in RunRow /\ runs' = Updated(runs, q, row)
    BY <2>1, RowFacts DEF IngestRuns, RunsWith, Updated
  <2>3. row \in RunRow /\ row.inv = runs[q].inv /\ row.status # "REJECTED"
    BY <2>2 DEF RunRow, RunStatus
  <2> HIDE DEF row
  <2>4. RunsInPlace
    BY <2>2, <2>3, RunRewritten
  <2>5. Logs(q, Started)
    BY <2>1, <2>2, <2>4, EventNamesDiffer DEF Logs, LedgerAppend, Appended
  <2>6. Started \notin {Opened, Recorded, Replayed, Approved}
    BY DEF Started, Opened, Recorded, Replayed, Approved, Ev
  <2> QED
    BY <2>1, <2>2, <2>5, <2>6, InPlace DEF PlainRows
<1> QED
  BY <1>1, <1>2, <1>3, <1>4, <1>5, <1>6, <1>7, <1>8, <1>9, <1>10, <1>11 DEF NodeStep

\* A step that leaves the runs, their ledgers, exceptions and decisions alone.
LEMMA QuietRows ==
    ASSUME UNCHANGED <<runs, ledger, exceptions, decisions>>
    PROVE  PlainRows
BY InPlace DEF PlainRows

\* A failure's row in the DLQ comes with its run's status and entry.
LEMMA RecordFailureRows ==
    ASSUME SystemInv, NEW w \in Workers, RecordFailure(w), UNCHANGED <<decisions, requests>>
    PROVE  PlainRows
<1> DEFINE i == exec[w].inv
<1>0. PICK r : r = SnapshotRun(w)
  OBVIOUS
<1> DEFINE row == [runs[r] EXCEPT !.status = "FAILED"]
<1>1. /\ exec[w].pc = "raised" /\ r # NoRun /\ runs' = Updated(runs, r, row)
      /\ LedgerAppend(r, Ev("run.failed")) /\ UNCHANGED exceptions
  BY <1>0 DEF RecordFailure, Updated
<1>2. i \in Invoices
  BY <1>1, WorkerFacts DEF ExecIn
<1>3. StateIn(runs, ledger, i, checkpoint[i].st)
  BY <1>2, InvParts DEF CheckpointIn
<1>4. r \in 1..Len(runs) /\ runs[r].status # "REJECTED" /\ runs[r] \in RunRow
  BY <1>0, <1>1, <1>3, RowFacts DEF SnapshotRun, StateIn
<1>5. row \in RunRow /\ row.inv = runs[r].inv /\ row.status # "REJECTED"
  BY <1>4 DEF RunRow, RunStatus
<1> HIDE DEF row
<1>6. RunsInPlace
  BY <1>1, <1>4, <1>5, RunRewritten
<1>7. /\ Ev("run.failed") \in Event
      /\ Ev("run.failed") \notin {Opened, Recorded, Started, Replayed, Approved}
  BY EventNamesDiffer DEF EventNames
<1>8. Logs(r, Ev("run.failed"))
  BY <1>1, <1>4, <1>6, <1>7 DEF Logs, LedgerAppend, Appended
<1> QED
  BY <1>1, <1>7, <1>8, InPlace DEF PlainRows

\* A claim is logged in the run of the claimed entry.
LEMMA ReplayClaimRows ==
    ASSUME SystemInv, NEW w \in Workers, ReplayClaim(w), UNCHANGED <<decisions, requests>>
    PROVE  PlainRows /\ Logs(dlq[exec[w].entry].run, Replayed)
<1>0. PICK r : r = dlq[exec[w].entry].run
  OBVIOUS
<1> DEFINE row == [runs[r] EXCEPT !.status = "RUNNING"]
<1>1. /\ exec[w].pc = "claim" /\ runs' = Updated(runs, r, row)
      /\ LedgerAppend(r, Replayed) /\ UNCHANGED exceptions
  BY <1>0 DEF ReplayClaim, Updated, Replayed
<1>2. exec[w].entry \in 1..Len(dlq)
  BY <1>1, WorkerFacts DEF ExecIn
<1>3. r \in 1..Len(runs) /\ runs[r].status # "REJECTED" /\ runs[r] \in RunRow
  BY <1>0, <1>2, RowFacts
<1>4. row \in RunRow /\ row.inv = runs[r].inv /\ row.status # "REJECTED"
  BY <1>3 DEF RunRow, RunStatus
<1> HIDE DEF row
<1>5. RunsInPlace
  BY <1>1, <1>3, <1>4, RunRewritten
<1>6. Replayed \notin {Opened, Recorded, Started, Approved}
  BY DEF Started, Opened, Recorded, Replayed, Approved, Ev
<1>7. Logs(r, Replayed)
  BY <1>1, <1>3, <1>5, EventNamesDiffer DEF Logs, LedgerAppend, Appended
<1> QED
  BY <1>0, <1>1, <1>6, <1>7, InPlace DEF PlainRows

\* A step that creates a run.
LEMMA CreateRows ==
    ASSUME SystemInv, NEW i \in Invoices,
           \/ CreateRun(i, "QUEUED", "none", Ev("ingest.accepted"))
           \/ CreateRun(i, "REJECTED", "REJECT", Ev("ingest.duplicate")),
           UNCHANGED <<exceptions, decisions>>
    PROVE  PlainRows
<1>1. PICK status \in RunStatus, route \in Routes,
           e \in {Ev("ingest.accepted"), Ev("ingest.duplicate")} : CreateRun(i, status, route, e)
  BY DEF RunStatus, Routes
<1>2. e \in Event
  BY EventNamesDiffer DEF EventNames
<1>3. NewRow(i, status, route) \in RunRow
  BY DEF NewRow, RunRow
<1>4. Creates(i, status, route, e)
  BY <1>1, <1>2, <1>3 DEF CreateRun, Creates, NewRow, Grown
<1> QED
  BY <1>4, InPlace DEF PlainRows

\* The decision service: a claim rewrites an exception, a recorded decision
\* also logs itself in the exception's run.
LEMMA DecisionRows ==
    ASSUME SystemInv, NEW q \in Requests, DecisionStep(q)
    PROVE  PlainRows \/ DecidesRow
<1>1. PICK x : x = requests[q].exc
  OBVIOUS
<1>2. ASSUME requests[q].pc \in {"claim", "commit", "resume"}
      PROVE  /\ x \in 1..Len(exceptions) /\ exceptions[x] \in ExceptionRow
             /\ requests[q].user \in Users /\ requests[q].action \in Actions
             /\ exceptions[x].run \in 1..Len(runs) /\ x \in Nat
  <2>1. requests[q] \in RequestState
    BY DEF SystemInv, TypeOK
  <2> QED
    BY <1>1, <1>2, <2>1, RequestFacts DEF RequestState
<1>3. CASE DecideClaim(q)
  <2> DEFINE row == [exceptions[x] EXCEPT !.assignee = requests[q].user]
  <2>1. /\ requests[q].pc = "claim" /\ exceptions' = Updated(exceptions, x, row)
        /\ UNCHANGED <<runs, ledger, decisions>>
    BY <1>1, <1>3 DEF DecideClaim, Updated
  <2>2. row \in ExceptionRow /\ row.inv = exceptions[x].inv /\ row.run = exceptions[x].run
    BY <1>2, <2>1 DEF ExceptionRow, Assignees
  <2> HIDE DEF row
  <2> QED
    BY <1>2, <2>1, <2>2, ExceptionRewritten, InPlace DEF PlainRows
<1>4. ASSUME requests[q].pc = "commit", RecordDecision(q),
             NEW row \in ExceptionRow, exceptions' = Updated(exceptions, x, row),
             row.inv = exceptions[x].inv, row.run = exceptions[x].run,
             LedgerAppend(exceptions[x].run, Ev("decision.recorded")), UNCHANGED runs
      PROVE  DecidesRow
  <2> DEFINE d == [exc |-> x, actor |-> requests[q].user, action |-> requests[q].action]
  <2>1. decisions' = Append(decisions, d)
    BY <1>1, <1>4 DEF RecordDecision
  <2>2. d \in DecisionRow /\ d.exc = x
    BY <1>2, <1>4 DEF DecisionRow
  <2>3. Logs(exceptions[x].run, Recorded)
    BY <1>2, <1>4, InPlace, EventNamesDiffer DEF Logs, LedgerAppend, Appended, Recorded
  <2>4. ExceptionsInPlace
    BY <1>2, <1>4, ExceptionRewritten
  <2> HIDE DEF d
  <2> QED
    BY <1>2, <1>4, <2>1, <2>2, <2>3, <2>4 DEF DecidesRow
<1>5. ASSUME NEW t \in Users \cup {ManagerQueue}, DecideEscalate(q, t) PROVE DecidesRow
  <2> DEFINE row == [exceptions[x] EXCEPT !.assignee = t]
  <2>1. /\ requests[q].pc = "commit" /\ exceptions' = Updated(exceptions, x, row)
        /\ RecordDecision(q) /\ UNCHANGED runs
        /\ LedgerAppend(exceptions[x].run, Ev("decision.recorded"))
    BY <1>1, <1>5 DEF DecideEscalate, Updated
  <2>2. row \in ExceptionRow /\ row.inv = exceptions[x].inv /\ row.run = exceptions[x].run
    BY <1>2, <2>1 DEF ExceptionRow, Assignees
  <2> HIDE DEF row
  <2> QED
    BY <1>4, <2>1, <2>2
<1>6. CASE DecideResolve(q)
  <2> DEFINE row == [exceptions[x] EXCEPT !.status = "RESOLVED"]
  <2>1. /\ requests[q].pc = "commit" /\ exceptions' = Updated(exceptions, x, row)
        /\ RecordDecision(q) /\ UNCHANGED runs
        /\ LedgerAppend(exceptions[x].run, Ev("decision.recorded"))
    BY <1>1, <1>6 DEF DecideResolve, Updated
  <2>2. row \in ExceptionRow /\ row.inv = exceptions[x].inv /\ row.run = exceptions[x].run
    BY <1>2, <2>1 DEF ExceptionRow
  <2> HIDE DEF row
  <2> QED
    BY <1>4, <2>1, <2>2
<1>7. CASE \/ \E y \in 1..Len(exceptions), u \in Users, a \in Actions : DecideRead(q, y, u, a)
           \/ \E w \in Workers : DecideResume(q, w)
           \/ DecideFailure(q) \/ ResumeFailure(q)
  BY <1>7, QuietRows
     DEF DecideRead, DecideResume, DecideFailure, ResumeFailure, pipelineVars, tables
<1> QED
  BY <1>3, <1>5, <1>6, <1>7 DEF DecisionStep

\* Every step adds nothing, one exception with its entry, or one decision with
\* its entry.
LEMMA StepRows ==
    ASSUME SystemInv, [Next]_vars
    PROVE  PlainRows \/ OpensRow \/ DecidesRow
<1>1. CASE UNCHANGED vars
  BY <1>1, QuietRows DEF vars, pipelineVars, tables
<1>2. ASSUME PipelineNext, UNCHANGED <<decisions, requests>> PROVE PlainRows \/ OpensRow
  <2>1. ASSUME NEW w \in Workers, RunnerStep(w) PROVE PlainRows
    BY <1>2, <2>1, QuietRows, RecordFailureRows, ReplayClaimRows
       DEF RunnerStep, RunInvoice, Resume, Start, Persist, Return, IngestNoRun,
           RecordFailureRefused, tables
  <2>2. ASSUME NEW w \in Workers, FaultStep(w) PROVE PlainRows
    BY <1>2, <2>2, QuietRows
       DEF FaultStep, InfraFailure, BusinessFailure, PersistFailure, RecordFailureFails,
           Crash, tables
  <2>3. ASSUME NEW w \in Workers, RequestStep(w) PROVE PlainRows
    BY <1>2, <2>3, QuietRows, CreateRows DEF RequestStep, Accept, Rerun, ReplayRead, tables
  <2>4. ASSUME NEW i \in Invoices, Duplicate(i) PROVE PlainRows
    BY <1>2, <2>4, CreateRows DEF Duplicate
  <2> QED
    BY <1>2, <2>1, <2>2, <2>3, <2>4, NodeRows DEF PipelineNext
<1>3. ASSUME NEW q \in Requests, DecisionStep(q) PROVE PlainRows \/ DecidesRow
  BY <1>3, DecisionRows
<1> QED
  BY <1>1, <1>2, <1>3 DEF Next

-----------------------------------------------------------------------------
(* What an append adds to the audit trail *)

\* The entries equal to f in the ledgers of invoice i's runs.
LoggedAt(rs, lg, i, f) ==
    {p \in (1..Len(lg)) \X Nat :
        rs[p[1]].inv = i /\ p[2] \in 1..Len(lg[p[1]]) /\ lg[p[1]][p[2]] = f}

\* The provenance package's entries are those of the invoice's runs.
LEMMA ProvenanceEntries ==
    ASSUME SystemInv, NEW i, NEW f
    PROVE  Entries(Provenance(i), f) = LoggedAt(runs, ledger, i, f)
<1>1. Provenance(i).ledger =
        UNION {{<<r, k>> : k \in 1..Len(ledger[r])} : r \in OfInvoice(runs, i)}
  BY DEF Provenance
<1>2. \A p : p \in Provenance(i).ledger <=>
              \E r \in OfInvoice(runs, i) : \E k \in 1..Len(ledger[r]) : p = <<r, k>>
  BY <1>1
<1>3. Len(ledger) = Len(runs) /\ \A r \in 1..Len(ledger) : Len(ledger[r]) \in Nat
  BY RowFacts
<1>4. ASSUME NEW p, p \in Entries(Provenance(i), f) PROVE p \in LoggedAt(runs, ledger, i, f)
  <2>0. PICK r \in OfInvoice(runs, i) : \E k \in 1..Len(ledger[r]) : p = <<r, k>>
    BY <1>2, <1>4 DEF Entries
  <2>1. PICK k \in 1..Len(ledger[r]) : p = <<r, k>>
    BY <2>0
  <2>2. ledger[r][k] = f /\ r \in 1..Len(ledger) /\ runs[r].inv = i /\ k \in Nat
    BY <1>3, <1>4, <2>1 DEF Entries, OfInvoice
  <2> QED
    BY <2>1, <2>2 DEF LoggedAt
<1>5. ASSUME NEW p, p \in LoggedAt(runs, ledger, i, f) PROVE p \in Entries(Provenance(i), f)
  <2>1. /\ p \in (1..Len(ledger)) \X Nat /\ runs[p[1]].inv = i
        /\ p[2] \in 1..Len(ledger[p[1]]) /\ ledger[p[1]][p[2]] = f
    BY <1>5 DEF LoggedAt
  <2>2. p = <<p[1], p[2]>> /\ p[1] \in OfInvoice(runs, i)
    BY <1>3, <2>1 DEF OfInvoice
  <2>3. p \in Provenance(i).ledger
    BY <1>2, <2>1, <2>2
  <2> QED
    BY <2>1, <2>3 DEF Entries
<1> QED
  BY <1>4, <1>5

\* The same runs, as far as their invoices go.
SameInvoices(rs, rs2, n) == \A s \in 1..n : rs2[s].inv = rs[s].inv

\* T has one element more than S.
Gains(S, T) == \E a : a \notin S /\ T = S \cup {a}

\* One appended entry is one new place in its run's ledger, for its event and
\* its run's invoice.
LEMMA AppendedAt ==
    ASSUME NEW rs, NEW rs2, NEW lg \in Seq(Seq(Event)), NEW lg2,
           NEW r \in 1..Len(lg), NEW e \in Event,
           lg2 = Appended(lg, r, e), SameInvoices(rs, rs2, Len(lg)), NEW i, NEW f
    PROVE  /\ f # e \/ rs[r].inv # i => LoggedAt(rs2, lg2, i, f) = LoggedAt(rs, lg, i, f)
           /\ f = e /\ rs[r].inv = i => Gains(LoggedAt(rs, lg, i, f), LoggedAt(rs2, lg2, i, f))
<1> DEFINE n == Len(lg[r]) + 1
<1>1. /\ lg2[r] = Append(lg[r], e) /\ \A s \in 1..Len(lg) : s # r => lg2[s] = lg[s]
      /\ Len(lg2) = Len(lg)
  BY LedgerAppendLemma
<1>0. \A s \in 1..Len(lg) : rs2[s].inv = rs[s].inv
  BY DEF SameInvoices
<1>2. lg[r] \in Seq(Event)
  BY ElementOfSeq
<1>3. /\ Len(lg2[r]) = n /\ Len(lg[r]) \in Nat /\ lg2[r][n] = e
      /\ \A k \in 1..Len(lg[r]) : lg2[r][k] = lg[r][k]
  BY <1>1, <1>2, AppendProperties, LenProperties
<1>4. <<r, n>> \notin LoggedAt(rs, lg, i, f)
  BY <1>3 DEF LoggedAt
<1>5. ASSUME NEW s \in 1..Len(lg), NEW k \in Nat
      PROVE  <<s, k>> \in LoggedAt(rs2, lg2, i, f) <=>
                \/ <<s, k>> \in LoggedAt(rs, lg, i, f)
                \/ s = r /\ k = n /\ f = e /\ rs[r].inv = i
  <2>1. <<s, k>> \in LoggedAt(rs2, lg2, i, f) <=>
          rs[s].inv = i /\ k \in 1..Len(lg2[s]) /\ lg2[s][k] = f
    BY <1>0, <1>1 DEF LoggedAt
  <2>2. <<s, k>> \in LoggedAt(rs, lg, i, f) <=>
          rs[s].inv = i /\ k \in 1..Len(lg[s]) /\ lg[s][k] = f
    BY DEF LoggedAt
  <2>3. CASE s # r
    BY <1>1, <2>1, <2>2, <2>3
  <2>4. CASE s = r /\ k = n
    BY <1>3, <2>1, <2>2, <2>4
  <2>5. CASE s = r /\ k # n
    <3>1. k \in 1..Len(lg2[s]) <=> k \in 1..Len(lg[s])
      BY <1>3, <2>5
    <3> QED
      BY <1>3, <2>1, <2>2, <2>5, <3>1
  <2> QED
    BY <2>3, <2>4, <2>5
<1>6. /\ LoggedAt(rs2, lg2, i, f) \subseteq (1..Len(lg)) \X Nat
      /\ LoggedAt(rs, lg, i, f) \subseteq (1..Len(lg)) \X Nat
      /\ <<r, n>> \in (1..Len(lg)) \X Nat
  BY <1>1, <1>3 DEF LoggedAt
<1>7. \A p \in (1..Len(lg)) \X Nat : \E s \in 1..Len(lg), k \in Nat : p = <<s, k>>
  OBVIOUS
<1>8. LoggedAt(rs2, lg2, i, f) = IF f = e /\ rs[r].inv = i
                                THEN LoggedAt(rs, lg, i, f) \cup {<<r, n>>}
                                ELSE LoggedAt(rs, lg, i, f)
  <2>1. ASSUME NEW p \in (1..Len(lg)) \X Nat
        PROVE  p \in LoggedAt(rs2, lg2, i, f) <=>
                  \/ p \in LoggedAt(rs, lg, i, f)
                  \/ p = <<r, n>> /\ f = e /\ rs[r].inv = i
    <3>1. PICK s \in 1..Len(lg), k \in Nat : p = <<s, k>>
      BY <1>7
    <3>2. <<s, k>> = <<r, n>> <=> s = r /\ k = n
      OBVIOUS
    <3> QED
      BY <1>5, <3>1, <3>2
  <2> HIDE DEF n
  <2> QED
    BY <1>6, <2>1
<1> QED
  BY <1>4, <1>8 DEF Gains

\* A new ledger holds its first entry only.
LEMMA CreatedAt ==
    ASSUME NEW rs \in Seq(RunRow), NEW lg \in Seq(Seq(Event)), Len(lg) = Len(rs),
           NEW row \in RunRow, NEW e \in Event, NEW i, NEW f, f # e,
           NEW rs2, rs2 = Grown(rs, row),
           NEW l, l = <<e>>, NEW lg2, lg2 = Grown(lg, l)
    PROVE  LoggedAt(rs2, lg2, i, f) = LoggedAt(rs, lg, i, f)
<1> DEFINE n == Len(lg)
<1>1. l \in Seq(Event) /\ Len(l) = 1 /\ l[1] = e
  OBVIOUS
<1>2. /\ Len(lg2) = n + 1 /\ n \in Nat /\ lg2[n + 1] = l
      /\ \A s \in 1..n : lg2[s] = lg[s] /\ rs2[s] = rs[s]
  BY <1>1, AppendProperties, LenProperties DEF Grown
<1>3. ASSUME NEW p, p \in LoggedAt(rs2, lg2, i, f) PROVE p \in LoggedAt(rs, lg, i, f)
  <2>1. /\ p \in (1..(n + 1)) \X Nat /\ rs2[p[1]].inv = i
        /\ p[2] \in 1..Len(lg2[p[1]]) /\ lg2[p[1]][p[2]] = f
    BY <1>2, <1>3 DEF LoggedAt
  <2>2. p[1] # n + 1
    <3> SUFFICES ASSUME p[1] = n + 1 PROVE FALSE
      OBVIOUS
    <3>1. lg2[p[1]] = l
      BY <1>2
    <3>2. p[2] \in 1..Len(l) /\ l[p[2]] = f
      BY <2>1, <3>1
    <3>3. p[2] = 1
      BY <1>1, <3>2
    <3> QED
      BY <1>1, <3>2, <3>3
  <2>3. p[1] \in 1..n /\ p \in (1..n) \X Nat
    BY <1>2, <2>1, <2>2
  <2> QED
    BY <1>2, <2>1, <2>3 DEF LoggedAt
<1>4. ASSUME NEW p, p \in LoggedAt(rs, lg, i, f) PROVE p \in LoggedAt(rs2, lg2, i, f)
  <2>1. /\ p \in (1..n) \X Nat /\ rs[p[1]].inv = i
        /\ p[2] \in 1..Len(lg[p[1]]) /\ lg[p[1]][p[2]] = f
    BY <1>4 DEF LoggedAt
  <2>2. p \in (1..(n + 1)) \X Nat
    BY <1>2, <2>1
  <2> QED
    BY <1>2, <2>1, <2>2 DEF LoggedAt
<1> QED
  BY <1>3, <1>4

\* Rewriting rows moves no entry.
LEMMA SameAt ==
    ASSUME NEW rs, NEW rs2, NEW lg, SameInvoices(rs, rs2, Len(lg)), NEW i, NEW f
    PROVE  LoggedAt(rs2, lg, i, f) = LoggedAt(rs, lg, i, f)
<1>1. ASSUME NEW p \in (1..Len(lg)) \X Nat
      PROVE  p \in LoggedAt(rs2, lg, i, f) <=> p \in LoggedAt(rs, lg, i, f)
  <2>1. rs2[p[1]].inv = rs[p[1]].inv
    BY DEF SameInvoices
  <2> QED
    BY <2>1 DEF LoggedAt
<1>2. /\ LoggedAt(rs2, lg, i, f) \subseteq (1..Len(lg)) \X Nat
      /\ LoggedAt(rs, lg, i, f) \subseteq (1..Len(lg)) \X Nat
  BY DEF LoggedAt
<1> QED
  BY <1>1, <1>2

-----------------------------------------------------------------------------
(* The inductive invariant of the views *)

SameSize(S, T) == IsFiniteSet(S) /\ IsFiniteSet(T) /\ Cardinality(S) = Cardinality(T)

DecisionsOn(xs, ds, i) == {d \in 1..Len(ds) : xs[ds[d].exc].inv = i}

\* An exception is on its run's invoice, and a decision on an exception.
ReferencesIn(rs, xs, ds) ==
    /\ \A x \in 1..Len(xs) : xs[x].inv = rs[xs[x].run].inv
    /\ \A d \in 1..Len(ds) : ds[d].exc \in 1..Len(xs)

\* One audit entry for each decision and each exception.
AuditedIn(rs, lg, xs, ds) ==
    \A i \in Invoices :
        /\ SameSize(DecisionsOn(xs, ds, i), LoggedAt(rs, lg, i, Recorded))
        /\ SameSize(OfInvoice(xs, i), LoggedAt(rs, lg, i, Opened))

\* A rejected duplicate is never started: a started run stays a live one.
StartedIsLiveIn(rs, lg) ==
    \A r \in 1..Len(rs) : LoggedIn(lg, r, Started) => rs[r].status # "REJECTED"

ViewInv ==
    /\ SystemInv
    /\ ReferencesIn(runs, exceptions, decisions)
    /\ AuditedIn(runs, ledger, exceptions, decisions)
    /\ StartedIsLiveIn(runs, ledger)

\* Sets of one size that each gain one element keep one size.
LEMMA SameSizeGrows ==
    ASSUME NEW S, NEW T, SameSize(S, T), NEW S2, NEW T2, Gains(S, S2), Gains(T, T2)
    PROVE  SameSize(S2, T2)
<1>1. PICK a : a \notin S /\ S2 = S \cup {a}
  BY DEF Gains
<1>2. PICK b : b \notin T /\ T2 = T \cup {b}
  BY DEF Gains
<1>3. IsFiniteSet(S2) /\ Cardinality(S2) = Cardinality(S) + 1
  BY <1>1, FS_AddElement DEF SameSize
<1>4. IsFiniteSet(T2) /\ Cardinality(T2) = Cardinality(T) + 1
  BY <1>2, FS_AddElement DEF SameSize
<1> QED
  BY <1>3, <1>4 DEF SameSize

\* AppendedAt for a step; nobody counts the agent's verdicts.
LEMMA LogsAt ==
    ASSUME SystemInv, NEW r, NEW e, Logs(r, e), NEW i, NEW f, f # Advised
    PROVE  /\ f # e \/ runs[r].inv # i
                => LoggedAt(runs', ledger', i, f) = LoggedAt(runs, ledger, i, f)
           /\ f = e /\ runs[r].inv = i
                => Gains(LoggedAt(runs, ledger, i, f), LoggedAt(runs', ledger', i, f))
<1>1. /\ ledger \in Seq(Seq(Event)) /\ r \in 1..Len(ledger) /\ e \in Event
      /\ SameInvoices(runs, runs', Len(ledger))
  BY RowFacts DEF Logs, RunsInPlace, SameInvoices
<1>2. CASE ledger' = Appended(ledger, r, e)
  BY <1>1, <1>2, AppendedAt
<1>3. CASE ledger' = Appended(Appended(ledger, r, e), r, Advised)
  <2> DEFINE one == Appended(ledger, r, e)
  <2>1. /\ one \in Seq(Seq(Event)) /\ r \in 1..Len(one) /\ Len(one) = Len(ledger)
    BY <1>1, LedgerAppendLemma
  <2>2. /\ f # e \/ runs[r].inv # i
              => LoggedAt(runs', one, i, f) = LoggedAt(runs, ledger, i, f)
        /\ f = e /\ runs[r].inv = i
              => Gains(LoggedAt(runs, ledger, i, f), LoggedAt(runs', one, i, f))
    BY <1>1, AppendedAt
  <2> HIDE DEF one
  <2>3. SameInvoices(runs', runs', Len(one))
    BY DEF SameInvoices
  <2>4. LoggedAt(runs', Appended(one, r, Advised), i, f) = LoggedAt(runs', one, i, f)
    BY <2>1, <2>3, AppendedAt, EventNamesDiffer
  <2>5. ledger' = Appended(one, r, Advised)
    BY <1>3 DEF one
  <2> QED
    BY <2>2, <2>4, <2>5
<1> QED
  BY <1>2, <1>3 DEF Logs

\* SameAt for a step.
LEMMA RewrittenAt ==
    ASSUME SystemInv, ledger' = ledger, RunsInPlace, NEW i, NEW f
    PROVE  LoggedAt(runs', ledger', i, f) = LoggedAt(runs, ledger, i, f)
<1>1. SameInvoices(runs, runs', Len(ledger))
  BY RowFacts DEF SameInvoices, RunsInPlace
<1> QED
  BY <1>1, SameAt

\* CreatedAt for a step.
LEMMA CreatesAt ==
    ASSUME SystemInv, NEW j, NEW status, NEW route, NEW e, Creates(j, status, route, e),
           NEW i, NEW f, f # e
    PROVE  LoggedAt(runs', ledger', i, f) = LoggedAt(runs, ledger, i, f)
<1>1. ledger \in Seq(Seq(Event)) /\ Len(ledger) = Len(runs) /\ runs \in Seq(RunRow)
  BY RowFacts
<1>0. PICK l : l = <<e>>
  OBVIOUS
<1>2. PICK row \in RunRow : runs' = Grown(runs, row) /\ ledger' = Grown(ledger, l)
  BY <1>0 DEF Creates
<1>3. e \in Event
  BY DEF Creates
<1> QED
  BY <1>0, <1>1, <1>2, <1>3, CreatedAt

\* What a step may add to the places of an event in an invoice's ledgers.
LEMMA PlacesKept ==
    ASSUME SystemInv, PlainRows \/ OpensRow \/ DecidesRow, NEW i,
           NEW f \in {Opened, Recorded}, PlainRows \/ (f = Opened /\ DecidesRow)
                                                  \/ (f = Recorded /\ OpensRow)
    PROVE  LoggedAt(runs', ledger', i, f) = LoggedAt(runs, ledger, i, f)
<1>0. Opened # Recorded
  BY DEF Opened, Recorded, Ev
<1>1. /\ ledger \in Seq(Seq(Event)) /\ Len(ledger) = Len(runs) /\ runs \in Seq(RunRow)
  BY RowFacts
<1>2. ASSUME NEW r, NEW e, Logs(r, e), e # f
      PROVE  LoggedAt(runs', ledger', i, f) = LoggedAt(runs, ledger, i, f)
  BY <1>2, LogsAt, EventNamesDiffer
<1>3. CASE ledger' = ledger /\ RunsInPlace
  BY <1>3, RewrittenAt
<1>4. ASSUME NEW j, NEW status, NEW route, NEW e, Creates(j, status, route, e), e # f
      PROVE  LoggedAt(runs', ledger', i, f) = LoggedAt(runs, ledger, i, f)
  BY <1>4, CreatesAt
<1>5. Ev("ingest.accepted") # f /\ Ev("ingest.duplicate") # f
  BY DEF Opened, Recorded, Ev
<1>6. CASE PlainRows
  BY <1>2, <1>3, <1>4, <1>5, <1>6 DEF PlainRows
<1>7. CASE f = Opened /\ DecidesRow
  BY <1>0, <1>2, <1>7 DEF DecidesRow
<1>8. CASE f = Recorded /\ OpensRow
  BY <1>0, <1>2, <1>8 DEF OpensRow
<1> QED
  BY <1>6, <1>7, <1>8

\* Rows keep referring to what they referred to.
LEMMA ReferencesKept ==
    ASSUME SystemInv, ReferencesIn(runs, exceptions, decisions),
           PlainRows \/ OpensRow \/ DecidesRow
    PROVE  ReferencesIn(runs', exceptions', decisions')
<1>1. /\ runs \in Seq(RunRow) /\ exceptions \in Seq(ExceptionRow) /\ decisions \in Seq(DecisionRow)
      /\ Len(exceptions) \in Nat /\ Len(decisions) \in Nat /\ Len(runs) \in Nat
      /\ \A x \in 1..Len(exceptions) : exceptions[x].run \in 1..Len(runs)
  BY RowFacts
<1>2. ASSUME \A r \in 1..Len(runs) : runs'[r].inv = runs[r].inv,
             ExceptionsInPlace, decisions' = decisions
      PROVE  ReferencesIn(runs', exceptions', decisions')
  BY SMTT(20), <1>1, <1>2 DEF ReferencesIn, ExceptionsInPlace
<1>3. CASE PlainRows
  <2>1. ASSUME NEW i, NEW status, NEW route, NEW e, Creates(i, status, route, e)
        PROVE  \A r \in 1..Len(runs) : runs'[r].inv = runs[r].inv
    BY <1>1, <2>1, AppendProperties DEF Creates, Grown
  <2> QED
    BY <1>2, <1>3, <2>1 DEF PlainRows, Logs, RunsInPlace
<1>4. CASE OpensRow
  <2>1. PICK r, x : /\ Logs(r, Opened)
                    /\ exceptions' = Append(exceptions, x) /\ decisions' = decisions
                    /\ x \in ExceptionRow /\ x.run = r /\ x.inv = runs[r].inv
    BY <1>4 DEF OpensRow
  <2>2. /\ Len(exceptions') = Len(exceptions) + 1
        /\ exceptions'[Len(exceptions) + 1] = x
        /\ \A y \in 1..Len(exceptions) : exceptions'[y] = exceptions[y]
    BY <1>1, <2>1, AppendProperties
  <2>3. /\ r \in 1..Len(runs) /\ \A s \in 1..Len(runs) : runs'[s].inv = runs[s].inv
    BY <2>1 DEF Logs, RunsInPlace
  <2>4. \A y \in 1..Len(exceptions') : exceptions'[y].inv = runs'[exceptions'[y].run].inv
    <3> SUFFICES ASSUME NEW y \in 1..Len(exceptions')
                 PROVE  exceptions'[y].inv = runs'[exceptions'[y].run].inv
      OBVIOUS
    <3>1. CASE y = Len(exceptions) + 1
      BY <2>1, <2>2, <2>3, <3>1
    <3>2. CASE y # Len(exceptions) + 1
      <4>1. y \in 1..Len(exceptions)
        BY <1>1, <2>2, <3>2
      <4> QED
        BY SMTT(20), <1>1, <2>2, <2>3, <4>1 DEF ReferencesIn
    <3> QED
      BY <3>1, <3>2
  <2>5. \A d \in 1..Len(decisions') : decisions'[d].exc \in 1..Len(exceptions')
    BY <1>1, <2>1, <2>2 DEF ReferencesIn
  <2> QED
    BY <2>4, <2>5 DEF ReferencesIn
<1>5. CASE DecidesRow
  <2>1. PICK x, d : /\ x \in 1..Len(exceptions) /\ d \in DecisionRow /\ d.exc = x
                    /\ decisions' = Append(decisions, d) /\ ExceptionsInPlace /\ runs' = runs
    BY <1>5 DEF DecidesRow
  <2>2. /\ Len(decisions') = Len(decisions) + 1
        /\ decisions'[Len(decisions) + 1] = d
        /\ \A y \in 1..Len(decisions) : decisions'[y] = decisions[y]
    BY <1>1, <2>1, AppendProperties
  <2>3. \A y \in 1..Len(decisions') : decisions'[y].exc \in 1..Len(exceptions')
    <3> SUFFICES ASSUME NEW y \in 1..Len(decisions')
                 PROVE  decisions'[y].exc \in 1..Len(exceptions')
      OBVIOUS
    <3>1. CASE y = Len(decisions) + 1
      BY <2>1, <2>2, <3>1 DEF ExceptionsInPlace
    <3>2. CASE y # Len(decisions) + 1
      BY <1>1, <2>1, <2>2, <3>2 DEF ReferencesIn, ExceptionsInPlace
    <3> QED
      BY <3>1, <3>2
  <2> QED
    BY <1>1, <2>1, <2>3 DEF ReferencesIn, ExceptionsInPlace
<1> QED
  BY <1>3, <1>4, <1>5

\* One more row of an append is one more row of the invoice it is about.
LEMMA ExceptionsOnKept ==
    ASSUME SystemInv, NEW i
    PROVE  /\ ExceptionsInPlace => OfInvoice(exceptions', i) = OfInvoice(exceptions, i)
           /\ \A x : exceptions' = Append(exceptions, x) /\ x \in ExceptionRow =>
                 IF x.inv = i THEN Gains(OfInvoice(exceptions, i), OfInvoice(exceptions', i))
                 ELSE OfInvoice(exceptions', i) = OfInvoice(exceptions, i)
<1>1. exceptions \in Seq(ExceptionRow) /\ Len(exceptions) \in Nat
  BY RowFacts
<1>2. ExceptionsInPlace => OfInvoice(exceptions', i) = OfInvoice(exceptions, i)
  BY DEF ExceptionsInPlace, OfInvoice
<1>3. ASSUME NEW x \in ExceptionRow, exceptions' = Append(exceptions, x)
      PROVE  IF x.inv = i THEN Gains(OfInvoice(exceptions, i), OfInvoice(exceptions', i))
             ELSE OfInvoice(exceptions', i) = OfInvoice(exceptions, i)
  <2> DEFINE n == Len(exceptions) + 1
  <2>1. /\ Len(exceptions') = n /\ exceptions'[n] = x
        /\ \A y \in 1..Len(exceptions) : exceptions'[y] = exceptions[y]
    BY <1>1, <1>3, AppendProperties
  <2>2. OfInvoice(exceptions', i) =
          IF x.inv = i THEN OfInvoice(exceptions, i) \cup {n} ELSE OfInvoice(exceptions, i)
    BY <1>1, <2>1 DEF OfInvoice
  <2>3. n \notin OfInvoice(exceptions, i)
    BY <1>1 DEF OfInvoice
  <2> QED
    BY <2>2, <2>3 DEF Gains
<1> QED
  BY <1>2, <1>3

\* The decisions on an invoice's exceptions.
LEMMA DecisionsOnKept ==
    ASSUME SystemInv, ReferencesIn(runs, exceptions, decisions), NEW i
    PROVE  /\ ExceptionsInPlace /\ decisions' = decisions =>
                 DecisionsOn(exceptions', decisions', i) = DecisionsOn(exceptions, decisions, i)
           /\ \A x : exceptions' = Append(exceptions, x) /\ x \in ExceptionRow
                     /\ decisions' = decisions =>
                 DecisionsOn(exceptions', decisions', i) = DecisionsOn(exceptions, decisions, i)
           /\ \A d : ExceptionsInPlace /\ decisions' = Append(decisions, d)
                     /\ d \in DecisionRow /\ d.exc \in 1..Len(exceptions) =>
                 IF exceptions[d.exc].inv = i
                 THEN Gains(DecisionsOn(exceptions, decisions, i),
                            DecisionsOn(exceptions', decisions', i))
                 ELSE DecisionsOn(exceptions', decisions', i) = DecisionsOn(exceptions, decisions, i)
<1>1. /\ exceptions \in Seq(ExceptionRow) /\ Len(exceptions) \in Nat
      /\ decisions \in Seq(DecisionRow) /\ Len(decisions) \in Nat
      /\ \A d \in 1..Len(decisions) : decisions[d].exc \in 1..Len(exceptions)
  BY RowFacts DEF ReferencesIn
<1>2. ASSUME ExceptionsInPlace, decisions' = decisions
      PROVE  DecisionsOn(exceptions', decisions', i) = DecisionsOn(exceptions, decisions, i)
  BY <1>1, <1>2 DEF ExceptionsInPlace, DecisionsOn
<1>3. ASSUME NEW x \in ExceptionRow, exceptions' = Append(exceptions, x), decisions' = decisions
      PROVE  DecisionsOn(exceptions', decisions', i) = DecisionsOn(exceptions, decisions, i)
  <2>1. \A y \in 1..Len(exceptions) : exceptions'[y] = exceptions[y]
    BY <1>1, <1>3, AppendProperties
  <2> QED
    BY <1>1, <1>3, <2>1 DEF DecisionsOn
<1>4. ASSUME NEW d \in DecisionRow, ExceptionsInPlace, decisions' = Append(decisions, d),
             d.exc \in 1..Len(exceptions)
      PROVE  IF exceptions[d.exc].inv = i
             THEN Gains(DecisionsOn(exceptions, decisions, i),
                        DecisionsOn(exceptions', decisions', i))
             ELSE DecisionsOn(exceptions', decisions', i) = DecisionsOn(exceptions, decisions, i)
  <2> DEFINE n == Len(decisions) + 1
  <2>1. /\ Len(decisions') = n /\ decisions'[n] = d
        /\ \A y \in 1..Len(decisions) : decisions'[y] = decisions[y]
    BY <1>1, <1>4, AppendProperties
  <2>2. \A y \in 1..Len(exceptions) : exceptions'[y].inv = exceptions[y].inv
    BY <1>4 DEF ExceptionsInPlace
  <2>3. DecisionsOn(exceptions', decisions', i) =
          IF exceptions[d.exc].inv = i THEN DecisionsOn(exceptions, decisions, i) \cup {n}
          ELSE DecisionsOn(exceptions, decisions, i)
    BY <1>1, <1>4, <2>1, <2>2 DEF DecisionsOn
  <2>4. n \notin DecisionsOn(exceptions, decisions, i)
    BY <1>1 DEF DecisionsOn
  <2> QED
    BY <2>3, <2>4 DEF Gains
<1> QED
  BY <1>2, <1>3, <1>4

\* Every decision and every exception comes with its one entry.
LEMMA AuditedKept ==
    ASSUME SystemInv, ReferencesIn(runs, exceptions, decisions),
           AuditedIn(runs, ledger, exceptions, decisions),
           PlainRows \/ OpensRow \/ DecidesRow
    PROVE  AuditedIn(runs', ledger', exceptions', decisions')
<1> SUFFICES ASSUME NEW i \in Invoices
             PROVE  /\ SameSize(DecisionsOn(exceptions', decisions', i),
                                LoggedAt(runs', ledger', i, Recorded))
                    /\ SameSize(OfInvoice(exceptions', i), LoggedAt(runs', ledger', i, Opened))
  BY DEF AuditedIn
<1>1. /\ SameSize(DecisionsOn(exceptions, decisions, i), LoggedAt(runs, ledger, i, Recorded))
      /\ SameSize(OfInvoice(exceptions, i), LoggedAt(runs, ledger, i, Opened))
  BY DEF AuditedIn
<1>2. CASE PlainRows
  <2>1. LoggedAt(runs', ledger', i, Recorded) = LoggedAt(runs, ledger, i, Recorded)
    BY <1>2, PlacesKept
  <2>2. LoggedAt(runs', ledger', i, Opened) = LoggedAt(runs, ledger, i, Opened)
    BY <1>2, PlacesKept
  <2>3. OfInvoice(exceptions', i) = OfInvoice(exceptions, i)
    BY <1>2, ExceptionsOnKept DEF PlainRows
  <2>4. DecisionsOn(exceptions', decisions', i) = DecisionsOn(exceptions, decisions, i)
    BY <1>2, DecisionsOnKept DEF PlainRows
  <2> QED
    BY <1>1, <2>1, <2>2, <2>3, <2>4
<1>3. CASE OpensRow
  <2>1. PICK r, x : /\ Logs(r, Opened) /\ exceptions' = Append(exceptions, x)
                    /\ decisions' = decisions
                    /\ x \in ExceptionRow /\ x.inv = runs[r].inv
    BY <1>3 DEF OpensRow
  <2>2. LoggedAt(runs', ledger', i, Recorded) = LoggedAt(runs, ledger, i, Recorded)
    BY <1>3, PlacesKept
  <2>3. DecisionsOn(exceptions', decisions', i) = DecisionsOn(exceptions, decisions, i)
    BY <2>1, DecisionsOnKept
  <2>4. CASE x.inv = i
    <3>1. Gains(OfInvoice(exceptions, i), OfInvoice(exceptions', i))
      BY <2>1, <2>4, ExceptionsOnKept
    <3>2. Gains(LoggedAt(runs, ledger, i, Opened), LoggedAt(runs', ledger', i, Opened))
      BY <2>1, <2>4, LogsAt, EventNamesDiffer
    <3> QED
      BY <1>1, <2>2, <2>3, <3>1, <3>2, SameSizeGrows
  <2>5. CASE x.inv # i
    <3>1. OfInvoice(exceptions', i) = OfInvoice(exceptions, i)
      BY <2>1, <2>5, ExceptionsOnKept
    <3>2. LoggedAt(runs', ledger', i, Opened) = LoggedAt(runs, ledger, i, Opened)
      BY <2>1, <2>5, LogsAt, EventNamesDiffer
    <3> QED
      BY <1>1, <2>2, <2>3, <3>1, <3>2
  <2> QED
    BY <2>4, <2>5
<1>4. CASE DecidesRow
  <2>1. PICK x, d : /\ x \in 1..Len(exceptions) /\ d \in DecisionRow /\ d.exc = x
                    /\ decisions' = Append(decisions, d) /\ ExceptionsInPlace
                    /\ Logs(exceptions[x].run, Recorded)
    BY <1>4 DEF DecidesRow
  <2>2. LoggedAt(runs', ledger', i, Opened) = LoggedAt(runs, ledger, i, Opened)
    BY <1>4, PlacesKept
  <2>3. OfInvoice(exceptions', i) = OfInvoice(exceptions, i)
    BY <2>1, ExceptionsOnKept
  <2>4. exceptions[x].inv = runs[exceptions[x].run].inv
    BY <2>1 DEF ReferencesIn
  <2>5. CASE exceptions[x].inv = i
    <3>1. Gains(DecisionsOn(exceptions, decisions, i), DecisionsOn(exceptions', decisions', i))
      BY <2>1, <2>5, DecisionsOnKept
    <3>2. Gains(LoggedAt(runs, ledger, i, Recorded), LoggedAt(runs', ledger', i, Recorded))
      BY <2>1, <2>4, <2>5, LogsAt, EventNamesDiffer
    <3> QED
      BY <1>1, <2>2, <2>3, <3>1, <3>2, SameSizeGrows
  <2>6. CASE exceptions[x].inv # i
    <3>1. DecisionsOn(exceptions', decisions', i) = DecisionsOn(exceptions, decisions, i)
      BY <2>1, <2>6, DecisionsOnKept
    <3>2. LoggedAt(runs', ledger', i, Recorded) = LoggedAt(runs, ledger, i, Recorded)
      BY <2>1, <2>4, <2>6, LogsAt, EventNamesDiffer
    <3> QED
      BY <1>1, <2>2, <2>3, <3>1, <3>2
  <2> QED
    BY <2>5, <2>6
<1> QED
  BY <1>2, <1>3, <1>4


\* An append adds its entry and no other.
LEMMA AppendedLogged ==
    ASSUME NEW lg \in Seq(Seq(Event)), NEW r \in 1..Len(lg), NEW e \in Event,
           NEW s \in 1..Len(lg), NEW f, LoggedIn(Appended(lg, r, e), s, f)
    PROVE  LoggedIn(lg, s, f) \/ (s = r /\ f = e)
<1> DEFINE lg2 == Appended(lg, r, e)
<1>1. /\ lg2[r] = Append(lg[r], e)
      /\ \A q \in 1..Len(lg) : q # r => lg2[q] = lg[q]
  BY LedgerAppendLemma
<1> HIDE DEF lg2
<1>2. /\ Len(lg2[r]) = Len(lg[r]) + 1 /\ Len(lg[r]) \in Nat
      /\ lg2[r][Len(lg[r]) + 1] = e
      /\ \A k \in 1..Len(lg[r]) : lg2[r][k] = lg[r][k]
  <2>1. lg[r] \in Seq(Event)
    BY ElementOfSeq
  <2> QED
    BY <1>1, <2>1, AppendProperties, LenProperties
<1>3. PICK k \in 1..Len(lg2[s]) : lg2[s][k] = f
  BY DEF LoggedIn, lg2
<1>4. CASE s # r
  BY <1>1, <1>3, <1>4 DEF LoggedIn
<1>5. CASE s = r /\ k = Len(lg[r]) + 1
  BY <1>2, <1>3, <1>5
<1>6. CASE s = r /\ k # Len(lg[r]) + 1
  <2>1. k \in 1..Len(lg[r])
    BY <1>2, <1>3, <1>6
  <2> QED
    BY <1>2, <1>3, <1>6, <2>1 DEF LoggedIn
<1> QED
  BY <1>4, <1>5, <1>6

\* Only live runs are started, and no run is rejected later.
LEMMA StartedKept ==
    ASSUME SystemInv, StartedIsLiveIn(runs, ledger), PlainRows \/ OpensRow \/ DecidesRow
    PROVE  StartedIsLiveIn(runs', ledger')
<1>1. /\ runs \in Seq(RunRow) /\ Len(runs) \in Nat
      /\ ledger \in Seq(Seq(Event)) /\ Len(ledger) = Len(runs)
  BY RowFacts
<1>2. ASSUME NEW r, NEW e, Logs(r, e), e = Started => runs[r].status # "REJECTED"
      PROVE  StartedIsLiveIn(runs', ledger')
  <2>1. /\ r \in 1..Len(runs) /\ e \in Event
        /\ Len(runs') = Len(runs)
        /\ \A s \in 1..Len(runs) : runs'[s].status = "REJECTED" <=> runs[s].status = "REJECTED"
    BY <1>2 DEF Logs, RunsInPlace
  <2> DEFINE one == Appended(ledger, r, e)
  <2>2. /\ one \in Seq(Seq(Event)) /\ Len(one) = Len(runs)
        /\ \A s \in 1..Len(runs) : LoggedIn(one, s, Started)
              => LoggedIn(ledger, s, Started) \/ (s = r /\ Started = e)
    BY <1>1, <2>1, LedgerAppendLemma, AppendedLogged
  <2> HIDE DEF one
  <2>3. \A s \in 1..Len(runs) : LoggedIn(Appended(one, r, Advised), s, Started)
              => LoggedIn(one, s, Started)
    BY <2>1, <2>2, AppendedLogged, EventNamesDiffer
  <2>4. \A s \in 1..Len(runs) : LoggedIn(ledger', s, Started)
              => LoggedIn(ledger, s, Started) \/ (s = r /\ Started = e)
    BY <1>2, <2>2, <2>3 DEF Logs, one
  <2> QED
    BY <1>2, <2>1, <2>4 DEF StartedIsLiveIn
<1>3. CASE ledger' = ledger /\ RunsInPlace
  BY <1>3 DEF StartedIsLiveIn, RunsInPlace
<1>4. ASSUME NEW i, NEW status, NEW route, NEW e, Creates(i, status, route, e), e # Started
      PROVE  StartedIsLiveIn(runs', ledger')
  <2> DEFINE n == Len(runs) + 1
  <2>0. PICK l : l = <<e>>
    OBVIOUS
  <2>1. /\ runs' = Append(runs, NewRow(i, status, route)) /\ ledger' = Append(ledger, l)
        /\ NewRow(i, status, route) \in RunRow /\ l \in Seq(Event)
        /\ Len(l) = 1 /\ l[1] = e
    BY <1>4, <2>0 DEF Creates, Grown
  <2>2. /\ Len(runs') = n /\ ledger'[n] = l
        /\ \A s \in 1..Len(runs) : runs'[s] = runs[s] /\ ledger'[s] = ledger[s]
    BY <1>1, <2>1, AppendProperties
  <2>3. ~LoggedIn(ledger', n, Started)
    <3>1. \A k \in 1..1 : k = 1
      OBVIOUS
    <3> HIDE DEF n
    <3> QED
      BY <1>4, <2>1, <2>2, <3>1 DEF LoggedIn
  <2>4. \A s \in 1..n : s \in 1..Len(runs) \/ s = n
    BY <1>1
  <2> HIDE DEF n
  <2> QED
    BY <2>2, <2>3, <2>4 DEF StartedIsLiveIn, LoggedIn
<1>5. /\ Started # Opened /\ Started # Recorded
      /\ Ev("ingest.accepted") # Started /\ Ev("ingest.duplicate") # Started
  BY DEF Opened, Recorded, Started, Ev
<1>6. CASE PlainRows
  BY <1>2, <1>3, <1>4, <1>5, <1>6 DEF PlainRows
<1>7. CASE OpensRow
  BY <1>2, <1>5, <1>7 DEF OpensRow
<1>8. CASE DecidesRow
  BY <1>2, <1>5, <1>8 DEF DecidesRow
<1> QED
  BY <1>6, <1>7, <1>8

-----------------------------------------------------------------------------
(* What a step does to the worker that takes it *)

\* The run's ledger has the entry that a completed node leaves.
LeftIn(lg, r, node) == r \in 1..Len(lg) /\ \E e \in Evidence(node) : LoggedIn(lg, r, e)

\* It ends its work, or is where it holds no GraphState.
Leaves(f) == f.pc \in {"idle", "call", "fresh", "raised"}

\* It goes on at the same node with the same GraphState.
Stays(e, f) ==
    /\ e.pc \in {"node", "second"} /\ f.pc \in {"node", "second"}
    /\ f.inv = e.inv /\ f.node = e.node /\ f.st = e.st

\* It completes a node: human_review is never the next node of the same
\* ainvoke, the archive follows an automatic approval or human_review, and
\* the end follows the archive.
Advances(e, f) ==
    /\ e.pc \in {"node", "second"} /\ f.pc \in {"node", "returning"}
    /\ f.inv = e.inv /\ f.st.decision = e.st.decision
    /\ f.pc = "node" => f.node # "human_review"
    /\ f.node = "archive" =>
          \/ f.st.route = "AUTO"
          \/ /\ e.node = "human_review" /\ f.st = e.st
             /\ LeftIn(ledger', e.st.run, "human_review")
    /\ f.node = "end" =>
          e.node = "archive" /\ f.st = e.st /\ LeftIn(ledger', e.st.run, "archive")

\* It takes over the checkpoint c of its thread.
Loads(c, e, f) ==
    /\ e.pc \in {"fresh", "resume"} /\ f.pc = "node" /\ f.inv = e.inv /\ f.st = c.st
    /\ f.node = "ingest" \/ (e.pc = "resume" /\ f.node = c.next)

\* It completes its outstanding checkpoint write, or has none.
Flushes(e) ==
    \/ checkpoint' = checkpoint
    \/ /\ e.pc \in {"node", "second", "returning"}
       /\ checkpoint' = [checkpoint EXCEPT ![e.inv] = [next |-> e.node, st |-> e.st]]

WorkerMoves(e, f) ==
    \/ f = e /\ checkpoint' = checkpoint
    \/ Leaves(f) /\ (Flushes(e) \/ checkpoint' = checkpoint)
    \/ Stays(e, f) /\ Flushes(e)
    \/ Advances(e, f) /\ checkpoint' = checkpoint
    \/ Loads(checkpoint[e.inv], e, f) /\ checkpoint' = checkpoint
    \/ /\ e.pc = "call" /\ f.pc = "resume" /\ f.inv = e.inv /\ ~Paused(checkpoint[e.inv])
       /\ checkpoint' = checkpoint
    \/ /\ f.pc = "claim" /\ checkpoint' = checkpoint
       /\ dlq' = dlq /\ dlq[f.entry].status = "PENDING" /\ dlq[f.entry].inv = f.inv

\* The evidence of each node.
LEMMA EvidenceOf ==
    /\ Evidence("ingest") = {Ev("run.started")}
    /\ Evidence("extract") = {Ev("extract.completed")}
    /\ Evidence("validate") = {"validate.completed"} \X {"ok", "ERROR"}
    /\ Evidence("match3way") = {"match.completed"} \X {"MATCH", "MISMATCH"}
    /\ Evidence("policy") = {"policy.evaluated"} \X {"clear", "HIGH"}
    /\ Evidence("gate") = {"gate.decided"} \X {"AUTO", "EXCEPTION"}
    /\ Evidence("auto_approve") = {Ev("invoice.auto_approved")}
    /\ Evidence("exception_triage") = {Ev("exception.opened")}
    /\ Evidence("human_review") = {"human_review.completed"} \X {"decided", "undecided"}
    /\ Evidence("archive") = {Ev("run.archived")}
BY DEF Evidence

\* A node's entry is evidence of it.
LEMMA NodeLeaves ==
    ASSUME SystemInv, NEW w \in Workers, exec[w].pc \in {"node", "second"},
           exec[w].node \in {"human_review", "archive"},
           NEW e \in Event, e \in Evidence(exec[w].node), LedgerAppend(exec[w].st.run, e)
    PROVE  LeftIn(ledger', exec[w].st.run, exec[w].node)
<1>1. exec[w].st.run \in 1..Len(ledger) /\ ledger \in Seq(Seq(Event))
  BY WorkerRun, RowFacts
<1>2. ledger' = Appended(ledger, exec[w].st.run, e)
  BY DEF LedgerAppend, Appended
<1> QED
  BY <1>1, <1>2, LedgerAppendLemma DEF LeftIn

\* A node's step.
LEMMA NodeMoves ==
    ASSUME SystemInv, NEW w \in Workers, NodeStep(w)
    PROVE  WorkerMoves(exec[w], exec'[w])
<1>1. exec \in [Workers -> Execs] /\ exec[w] \in Execs /\ exec[w].st \in GraphState
  BY WorkerFacts
<1>2. ASSUME exec[w].pc \in {"node", "second"}, NEW st, Advance(w, st),
             st.decision = exec[w].st.decision,
             exec[w].node = "auto_approve" => st.route = "AUTO", exec[w].node \in Nodes,
             exec[w].node \in {"human_review", "archive"} =>
                st = exec[w].st /\ LeftIn(ledger', st.run, exec[w].node)
      PROVE  Advances(exec[w], exec'[w])
  <2> DEFINE next == NextNode(exec[w].node, st)
  <2>1. /\ exec'[w].st = st /\ exec'[w].node = next /\ exec'[w].inv = exec[w].inv
        /\ exec'[w].pc = IF next = "end" \/ exec[w].node \in InterruptAfter
                         THEN "returning" ELSE "node"
    BY <1>1, <1>2 DEF Advance, Execs
  <2>2. next = "human_review" => exec[w].node \in InterruptAfter
    BY <1>2 DEF NextNode, Nodes, route_after_validate, route_after_match, route_after_policy,
            route_after_gate, InterruptAfter
  <2>3. next = "archive" => exec[w].node \in {"auto_approve", "human_review"}
    BY <1>2 DEF NextNode, Nodes, route_after_validate, route_after_match, route_after_policy,
            route_after_gate
  <2>4. next = "end" => exec[w].node = "archive"
    BY <1>2 DEF NextNode, Nodes, route_after_validate, route_after_match, route_after_policy,
            route_after_gate
  <2> HIDE DEF next
  <2> QED
    BY <1>2, <2>1, <2>2, <2>3, <2>4 DEF Advances
<1>3. ASSUME NEW node \in Nodes, NEW e, NEW st, LogOnly(w, node, e, st) \/ SecondLog(w, node, e, st),
             st.decision = exec[w].st.decision, node \notin {"auto_approve", "archive"},
             node = "human_review" => st = exec[w].st /\ LeftIn(ledger', st.run, node)
      PROVE  WorkerMoves(exec[w], exec'[w])
  <2>1. /\ exec[w].pc \in {"node", "second"} /\ exec[w].node = node
        /\ Advance(w, st) /\ checkpoint' = checkpoint
    BY <1>3 DEF LogOnly, SecondLog, At
  <2> QED
    BY <1>2, <1>3, <2>1 DEF WorkerMoves
<1>4. CASE Backfill(w) \/ Embed(w)
  <2>1. /\ exec[w].pc = "node" /\ exec' = [exec EXCEPT ![w].pc = "second"]
        /\ checkpoint' = checkpoint
    BY <1>4 DEF Backfill, Embed, At
  <2>2. Stays(exec[w], exec'[w])
    BY <1>1, <2>1 DEF Stays, Execs
  <2> QED
    BY <2>1, <2>2 DEF WorkerMoves, Flushes
<1>5. CASE Extract(w)
  <2>1. [exec[w].st EXCEPT !.extraction = TRUE].decision = exec[w].st.decision
    BY <1>1 DEF GraphState
  <2> QED
    BY <1>3, <1>5, <2>1 DEF Extract, Nodes
<1>6. CASE Validate(w)
  <2>1. \A v : [exec[w].st EXCEPT !.validation = v].decision = exec[w].st.decision
    BY <1>1 DEF GraphState
  <2> QED
    BY <1>3, <1>6, <2>1 DEF Validate, Nodes
<1>7. CASE Match3way(w)
  <2>1. \A v : [exec[w].st EXCEPT !.match = v].decision = exec[w].st.decision
    BY <1>1 DEF GraphState
  <2> QED
    BY <1>3, <1>7, <2>1 DEF Match3way, Nodes
<1>8. CASE Policy(w)
  <2>1. \A v : [exec[w].st EXCEPT !.policy = v].decision = exec[w].st.decision
    BY <1>1 DEF GraphState
  <2> QED
    BY <1>3, <1>8, <2>1 DEF Policy, Nodes
<1>9. CASE Gate(w)
  <2>1. \A v : [exec[w].st EXCEPT !.gate = v].decision = exec[w].st.decision
    BY <1>1 DEF GraphState
  <2> QED
    BY <1>3, <1>9, <2>1 DEF Gate, Nodes
<1>10. CASE HumanReview(w)
  <2>1. PICK t \in {"decided", "undecided"} :
           LogOnly(w, "human_review", <<"human_review.completed", t>>, exec[w].st)
    BY <1>10 DEF HumanReview
  <2> DEFINE e == <<"human_review.completed", t>>
  <2>2. e \in Evidence("human_review") /\ e \in Event
    BY EventNamesDiffer, EvidenceOf DEF EventNames, Outcomes
  <2> HIDE DEF e
  <2>3. LeftIn(ledger', exec[w].st.run, "human_review")
    BY <2>1, <2>2, NodeLeaves DEF LogOnly, At, e
  <2> QED
    BY <1>3, <2>1, <2>3 DEF Nodes
<1>11. CASE Ingest(w)
  <2>1. PICK r : Advance(w, [exec[w].st EXCEPT !.run = r])
    BY <1>11 DEF Ingest
  <2>2. [exec[w].st EXCEPT !.run = r].decision = exec[w].st.decision
    BY <1>1 DEF GraphState
  <2>3. /\ exec[w].pc \in {"node", "second"} /\ exec[w].node = "ingest"
        /\ checkpoint' = checkpoint
    BY <1>11 DEF Ingest, At
  <2>4. exec[w].node \in Nodes /\ exec[w].node # "auto_approve"
    BY <2>3 DEF Nodes
  <2> QED
    BY <1>2, <2>1, <2>2, <2>3, <2>4 DEF WorkerMoves
<1>12. CASE AutoApprove(w) \/ ExceptionTriage(w)
  <2>1. PICK route \in {"AUTO", "EXCEPTION"} :
           /\ Advance(w, [exec[w].st EXCEPT !.route = route])
           /\ exec[w].node = "auto_approve" => route = "AUTO"
           /\ exec[w].node \in {"auto_approve", "exception_triage"}
    BY <1>12 DEF AutoApprove, ExceptionTriage, At
  <2>2. /\ [exec[w].st EXCEPT !.route = route].decision = exec[w].st.decision
        /\ [exec[w].st EXCEPT !.route = route].route = route
    BY <1>1 DEF GraphState
  <2>3. /\ exec[w].pc \in {"node", "second"} /\ exec[w].node \in Nodes
        /\ checkpoint' = checkpoint
    BY <1>12 DEF AutoApprove, ExceptionTriage, At, Nodes
  <2> QED
    BY <1>2, <2>1, <2>2, <2>3 DEF WorkerMoves
<1>13. CASE Archive(w)
  <2>1. /\ exec[w].pc \in {"node", "second"} /\ exec[w].node = "archive"
        /\ Advance(w, exec[w].st) /\ checkpoint' = checkpoint
        /\ LedgerAppend(exec[w].st.run, Ev("run.archived"))
    BY <1>13 DEF Archive, At
  <2>2. exec[w].node \in Nodes /\ exec[w].node # "auto_approve"
    BY <2>1 DEF Nodes
  <2>3. Ev("run.archived") \in Evidence("archive") /\ Ev("run.archived") \in Event
    BY EventNamesDiffer, EvidenceOf DEF EventNames
  <2>4. LeftIn(ledger', exec[w].st.run, "archive")
    BY <2>1, <2>3, NodeLeaves
  <2> QED
    BY <1>2, <2>1, <2>2, <2>4 DEF WorkerMoves
<1> QED
  BY <1>4, <1>5, <1>6, <1>7, <1>8, <1>9, <1>10, <1>11, <1>12, <1>13 DEF NodeStep

\* Completing the outstanding write.
LEMMA FlushMoves ==
    ASSUME NEW w \in Workers, Flush(w), exec[w].pc \in {"node", "second", "returning"}
    PROVE  Flushes(exec[w])
BY DEF Flush, Flushes, Live

\* A step of the runner, of the environment or of a caller.
LEMMA RunnerMoves ==
    ASSUME SystemInv, NEW w \in Workers, RunnerStep(w) \/ FaultStep(w) \/ RequestStep(w)
    PROVE  WorkerMoves(exec[w], exec'[w])
<1>1. exec \in [Workers -> Execs] /\ exec[w] \in Execs
  BY WorkerFacts
<1>2. ASSUME exec' = [exec EXCEPT ![w] = Idle], checkpoint' = checkpoint
      PROVE  WorkerMoves(exec[w], exec'[w])
  BY <1>1, <1>2 DEF WorkerMoves, Leaves, Idle
<1>3. ASSUME NEW i, NEW n, exec' = [exec EXCEPT ![w] = Called(i, n)], checkpoint' = checkpoint
      PROVE  WorkerMoves(exec[w], exec'[w])
  BY <1>1, <1>3 DEF WorkerMoves, Leaves, Idle, Called
<1>4. ASSUME Raise(w), exec[w].pc \in {"node", "second", "returning"}
      PROVE  WorkerMoves(exec[w], exec'[w])
  BY <1>1, <1>4, FlushMoves DEF WorkerMoves, Leaves, Raise, Execs
<1>5. CASE RunInvoice(w)
  BY <1>1, <1>2, <1>5 DEF RunInvoice, WorkerMoves, Leaves, Execs
<1>6. CASE Resume(w)
  <2>1. CASE checkpoint[exec[w].inv].next \in Nodes
    BY <1>1, <1>6, <2>1 DEF Resume, WorkerMoves, Loads, Execs
  <2>2. CASE checkpoint[exec[w].inv].next \notin Nodes
    BY <1>2, <1>6, <2>2 DEF Resume
  <2> QED
    BY <2>1, <2>2
<1>7. CASE Start(w)
  BY <1>1, <1>7 DEF Start, WorkerMoves, Loads, Execs
<1>8. CASE Persist(w)
  <2>1. Stays(exec[w], exec'[w])
    BY <1>1, <1>8 DEF Persist, Stays, Execs
  <2> QED
    BY <1>8, <2>1, FlushMoves DEF Persist, WorkerMoves
<1>9. CASE Return(w)
  BY <1>1, <1>9, FlushMoves DEF Return, WorkerMoves, Leaves, Idle
<1>10. CASE IngestNoRun(w)
  BY <1>4, <1>10 DEF IngestNoRun, At
<1>11. CASE RecordFailure(w) \/ RecordFailureRefused(w) \/ RecordFailureFails(w) \/ Crash(w)
  BY <1>2, <1>11 DEF RecordFailure, RecordFailureRefused, RecordFailureFails, Crash
<1>12. CASE ReplayClaim(w)
  BY <1>3, <1>12 DEF ReplayClaim
<1>13. CASE InfraFailure(w)
  <2>1. CASE exec[w].attempt < exec[w].limit
    <3>1. Stays(exec[w], exec'[w])
      BY <1>1, <1>13, <2>1 DEF InfraFailure, Stays, Execs
    <3> QED
      BY <1>13, <2>1, <3>1 DEF InfraFailure, WorkerMoves, Flushes
  <2>2. CASE ~(exec[w].attempt < exec[w].limit)
    BY <1>4, <1>13, <2>2 DEF InfraFailure
  <2> QED
    BY <2>1, <2>2
<1>14. CASE BusinessFailure(w)
  BY <1>4, <1>14 DEF BusinessFailure
<1>15. CASE PersistFailure(w)
  BY <1>1, <1>15 DEF PersistFailure, WorkerMoves, Leaves, Execs
<1>16. CASE \E i \in Invoices : Accept(w, i) \/ Rerun(w, i)
  BY <1>3, <1>16 DEF Accept, Rerun
<1>17. ASSUME NEW d \in 1..Len(dlq), ReplayRead(w, d) PROVE WorkerMoves(exec[w], exec'[w])
  BY <1>1, <1>17 DEF ReplayRead, tables, Idle, WorkerMoves
<1> QED
  BY <1>5, <1>6, <1>7, <1>8, <1>9, <1>10, <1>11, <1>12, <1>13, <1>14, <1>15, <1>16, <1>17
     DEF RunnerStep, FaultStep, RequestStep

\* A worker's step is its own.
LEMMA WorkerAlone ==
    ASSUME SystemInv, NEW w \in Workers, NEW v \in Workers \ {w},
           NodeStep(w) \/ RunnerStep(w) \/ FaultStep(w) \/ RequestStep(w)
    PROVE  exec'[v] = exec[v]
<1>1. exec \in [Workers -> Execs]
  BY WorkerFacts
<1>2. ASSUME NEW E, exec' = [exec EXCEPT ![w] = E] PROVE exec'[v] = exec[v]
  BY <1>1, <1>2
<1>3. ASSUME NEW st, Advance(w, st) PROVE exec'[v] = exec[v]
  BY <1>1, <1>3 DEF Advance
<1>4. CASE NodeStep(w)
  BY <1>2, <1>3, <1>4
     DEF NodeStep, Ingest, Extract, Validate, Backfill, Match3way, Embed, Policy, Gate,
         AutoApprove, ExceptionTriage, HumanReview, Archive, LogOnly, SecondLog
<1>5. CASE RunnerStep(w)
  BY <1>2, <1>5
     DEF RunnerStep, RunInvoice, Resume, Start, Persist, Return, IngestNoRun, Raise,
         RecordFailure, RecordFailureRefused, ReplayClaim
<1>6. CASE FaultStep(w)
  BY <1>2, <1>6
     DEF FaultStep, InfraFailure, BusinessFailure, PersistFailure, RecordFailureFails, Crash, Raise
<1>7. CASE RequestStep(w)
  BY <1>2, <1>7 DEF RequestStep, Accept, Rerun, ReplayRead
<1> QED
  BY <1>4, <1>5, <1>6, <1>7

-----------------------------------------------------------------------------
(* The trace *)

\* The last nodes that a thread standing before node next has passed have left
\* their entries; what the other nodes leave is in the GraphState itself.
PassedIn(lg, next, st) ==
    /\ next \in {"archive", "end"} /\ st.route = "EXCEPTION" => LeftIn(lg, st.run, "human_review")
    /\ next = "end" => LeftIn(lg, st.run, "archive")

WorkerPassedIn(lg, e) ==
    e.pc \in {"node", "second", "returning"} => PassedIn(lg, e.node, e.st)

PassedInv ==
    /\ SystemInv
    /\ \A i \in Invoices : PassedIn(ledger, checkpoint[i].next, checkpoint[i].st)
    /\ \A w \in Workers : WorkerPassedIn(ledger, exec[w])

\* An entry stays in its ledger.
LEMMA EntriesStay ==
    ASSUME SystemInv, [Next]_vars, NEW r \in 1..Len(ledger), NEW e, LoggedIn(ledger, r, e)
    PROVE  r \in 1..Len(ledger') /\ LoggedIn(ledger', r, e)
<1>1. /\ ledger \in Seq(Seq(Event)) /\ Len(ledger) \in Nat /\ Len(ledger) = Len(runs)
      /\ runs \in Seq(RunRow)
  BY RowFacts
<1>2. ASSUME NEW lg \in Seq(Seq(Event)), r \in 1..Len(lg), LoggedIn(lg, r, e),
             NEW s \in 1..Len(lg), NEW f \in Event
      PROVE  /\ Appended(lg, s, f) \in Seq(Seq(Event)) /\ Len(Appended(lg, s, f)) = Len(lg)
             /\ LoggedIn(Appended(lg, s, f), r, e)
  <2> DEFINE lg2 == Appended(lg, s, f)
  <2>1. lg2 \in Seq(Seq(Event)) /\ Len(lg2) = Len(lg) /\ LedgerKept(lg, lg2)
    BY LedgerAppendLemma
  <2> HIDE DEF lg2
  <2>2. LoggedIn(lg2, r, e)
    BY <1>2, <2>1, LoggedKept
  <2> QED
    BY <2>1, <2>2 DEF lg2
<1>3. ASSUME NEW s, NEW f, Logs(s, f) PROVE r \in 1..Len(ledger') /\ LoggedIn(ledger', r, e)
  <2> DEFINE one == Appended(ledger, s, f)
             both == Appended(one, s, Advised)
  <2>1. s \in 1..Len(ledger) /\ f \in Event /\ (ledger' = one \/ ledger' = both)
    BY <1>1, <1>3 DEF Logs
  <2>2. one \in Seq(Seq(Event)) /\ Len(one) = Len(ledger) /\ LoggedIn(one, r, e)
    BY <1>1, <1>2, <2>1
  <2> HIDE DEF one
  <2>3. Len(both) = Len(ledger) /\ LoggedIn(both, r, e)
    BY <1>2, <2>1, <2>2, EventNamesDiffer
  <2> QED
    BY <2>1, <2>2, <2>3
<1>4. ASSUME NEW i, NEW status, NEW route, NEW f, Creates(i, status, route, f)
      PROVE  r \in 1..Len(ledger') /\ LoggedIn(ledger', r, e)
  <2>0. PICK l : l = <<f>>
    OBVIOUS
  <2>1. ledger' = Append(ledger, l) /\ l \in Seq(Event)
    BY <1>4, <2>0 DEF Creates, Grown
  <2>2. /\ Len(ledger') = Len(ledger) + 1
        /\ \A s \in 1..Len(ledger) : ledger'[s] = ledger[s]
    <3>1. ledger \in Seq(Seq(Event)) /\ l \in Seq(Event)
      BY <1>1, <2>1
    <3> QED
      BY <2>1, <3>1, AppendProperties
  <2> QED
    BY <1>1, <2>2 DEF LoggedIn
<1>5. PlainRows \/ OpensRow \/ DecidesRow
  BY StepRows
<1> QED
  BY <1>3, <1>4, <1>5 DEF PlainRows, OpensRow, DecidesRow

\* What was passed stays passed.
LEMMA PassedStays ==
    ASSUME SystemInv, [Next]_vars, NEW next, NEW st, PassedIn(ledger, next, st)
    PROVE  PassedIn(ledger', next, st)
<1>1. \A r, node : LeftIn(ledger, r, node) => LeftIn(ledger', r, node)
  BY EntriesStay DEF LeftIn
<1> QED
  BY <1>1 DEF PassedIn

\* A worker that moves keeps its thread's checkpoint and itself in order.
LEMMA PassedMoves ==
    ASSUME PassedInv, [Next]_vars, NEW w \in Workers, WorkerMoves(exec[w], exec'[w]),
           \A v \in Workers \ {w} : exec'[v] = exec[v]
    PROVE  /\ \A i \in Invoices : PassedIn(ledger', checkpoint'[i].next, checkpoint'[i].st)
           /\ \A v \in Workers : WorkerPassedIn(ledger', exec'[v])
<1> DEFINE e == exec[w]
           f == exec'[w]
<1>1. /\ SystemInv /\ checkpoint \in [Invoices -> Checkpoints]
      /\ \A i \in Invoices : PassedIn(ledger', checkpoint[i].next, checkpoint[i].st)
      /\ \A v \in Workers : WorkerPassedIn(ledger', exec[v])
  BY PassedStays DEF PassedInv, WorkerPassedIn, SystemInv, TypeOK
<1>2. e.pc # "idle" => e.inv \in Invoices
  BY <1>1, WorkerFacts DEF ExecIn
<1>3. checkpoint' = checkpoint \/ Flushes(e)
  BY DEF WorkerMoves
<1>4. \A i \in Invoices : PassedIn(ledger', checkpoint'[i].next, checkpoint'[i].st)
  <2>1. CASE checkpoint' = checkpoint
    BY <1>1, <2>1
  <2>2. CASE /\ e.pc \in {"node", "second", "returning"}
             /\ checkpoint' = [checkpoint EXCEPT ![e.inv] = [next |-> e.node, st |-> e.st]]
    <3>1. PassedIn(ledger', e.node, e.st)
      BY <1>1, <2>2 DEF WorkerPassedIn
    <3> QED
      BY <1>1, <2>2, <3>1
  <2> QED
    BY <1>3, <2>1, <2>2 DEF Flushes
<1>5. WorkerPassedIn(ledger', f)
  <2>1. CASE f = e
    BY <1>1, <2>1
  <2>2. CASE f.pc \notin {"node", "second", "returning"}
    BY <2>2 DEF WorkerPassedIn
  <2>3. CASE Stays(e, f)
    BY <1>1, <2>3 DEF Stays, WorkerPassedIn
  <2>4. CASE Advances(e, f)
    <3>1. PassedIn(ledger', e.node, e.st)
      BY <1>1, <2>4 DEF Advances, WorkerPassedIn
    <3> QED
      BY <2>4, <3>1 DEF Advances, WorkerPassedIn, PassedIn
  <2>5. CASE Loads(checkpoint[e.inv], e, f)
    <3>1. e.inv \in Invoices
      BY <1>2, <2>5 DEF Loads
    <3>2. PassedIn(ledger', checkpoint[e.inv].next, checkpoint[e.inv].st)
      BY <1>1, <3>1
    <3> QED
      BY <2>5, <3>2 DEF Loads, WorkerPassedIn, PassedIn
  <2> QED
    BY <2>1, <2>2, <2>3, <2>4, <2>5 DEF WorkerMoves, Leaves
<1> QED
  BY <1>1, <1>4, <1>5

\* Every step keeps what the threads have passed in their runs' ledgers.
LEMMA PassedNext == ASSUME PassedInv, [Next]_vars PROVE PassedInv'
<1>1. /\ SystemInv /\ checkpoint \in [Invoices -> Checkpoints] /\ exec \in [Workers -> Execs]
      /\ \A i \in Invoices : PassedIn(ledger', checkpoint[i].next, checkpoint[i].st)
      /\ \A w \in Workers : WorkerPassedIn(ledger', exec[w])
  BY PassedStays DEF PassedInv, WorkerPassedIn, SystemInv, TypeOK
<1>2. SystemInv'
  BY <1>1, NextOK
<1>3. CASE checkpoint' = checkpoint /\ exec' = exec
  BY <1>1, <1>2, <1>3 DEF PassedInv
<1>4. ASSUME NEW w \in Workers, NodeStep(w) \/ RunnerStep(w) \/ FaultStep(w) \/ RequestStep(w)
      PROVE  PassedInv'
  BY <1>1, <1>2, <1>4, NodeMoves, RunnerMoves, WorkerAlone, PassedMoves DEF PassedInv
<1>5. ASSUME NEW q \in Requests, NEW w \in Workers, DecideResume(q, w) PROVE PassedInv'
  <2>1. PICK i, d : /\ checkpoint' = [checkpoint EXCEPT ![i].st.decision = d]
                    /\ exec' = [exec EXCEPT ![w] = [Called(i, RetryAttempts) EXCEPT !.pc = "resume"]]
    BY <1>5 DEF DecideResume, SubmitDecision
  <2>2. ASSUME NEW j \in Invoices
        PROVE  PassedIn(ledger', checkpoint'[j].next, checkpoint'[j].st)
    <3>1. /\ checkpoint'[j].next = checkpoint[j].next
          /\ checkpoint'[j].st.run = checkpoint[j].st.run
          /\ checkpoint'[j].st.route = checkpoint[j].st.route
      BY <1>1, <2>1 DEF Checkpoints, GraphState
    <3> QED
      BY <1>1, <3>1 DEF PassedIn
  <2>3. ASSUME NEW v \in Workers PROVE WorkerPassedIn(ledger', exec'[v])
    BY <1>1, <2>1 DEF WorkerPassedIn, Called, Idle
  <2> QED
    BY <1>2, <2>2, <2>3 DEF PassedInv
<1>6. CASE PipelineNext
  BY <1>3, <1>4, <1>6 DEF PipelineNext, Duplicate
<1>7. ASSUME NEW q \in Requests, DecisionStep(q) PROVE PassedInv'
  BY <1>3, <1>5, <1>7
     DEF DecisionStep, DecideRead, DecideClaim, DecideResolve, DecideEscalate, DecideFailure,
         ResumeFailure, pipelineVars
<1>8. CASE UNCHANGED vars
  BY <1>3, <1>8 DEF vars, pipelineVars
<1> QED
  BY <1>6, <1>7, <1>8 DEF Next

\* A new thread has passed nothing.
LEMMA PassedInit == ASSUME Init PROVE PassedInv
<1>1. SystemInv
  BY InitOK
<1>2. \A i \in Invoices : PassedIn(ledger, checkpoint[i].next, checkpoint[i].st)
  BY DEF Init, PipelineInit, PassedIn
<1>3. \A w \in Workers : WorkerPassedIn(ledger, exec[w])
  BY DEF Init, PipelineInit, Idle, WorkerPassedIn
<1> QED
  BY <1>1, <1>2, <1>3 DEF PassedInv

\* Every stage the thread shows has its entry in the run of its GraphState.
LEMMA StagesLogged ==
    ASSUME PassedInv, NEW i \in Invoices, NEW node \in NodeTrace(checkpoint[i])
    PROVE  LeftIn(ledger, checkpoint[i].st.run, node)
<1> DEFINE c == checkpoint[i]
           st == c.st
<1>1. /\ SystemInv /\ PassedIn(ledger, c.next, st) /\ c \in Checkpoints
      /\ StateIn(runs, ledger, i, st) /\ Len(ledger) = Len(runs)
  BY InvParts DEF PassedInv, CheckpointIn, SystemInv, TypeOK
<1>2. /\ st.validation \in {"none", "ok", "ERROR"} /\ st.match \in {"none", "MATCH", "MISMATCH"}
      /\ st.policy \in {"none", "clear", "HIGH"} /\ st.gate \in {"none", "AUTO", "EXCEPTION"}
      /\ st.route \in {"none", "AUTO", "EXCEPTION"} /\ st.extraction \in BOOLEAN
  BY <1>1 DEF Checkpoints, GraphState
<1>3. \/ node = "ingest" /\ st.run # NoRun
      \/ node = "extract" /\ st.extraction
      \/ node = "validate" /\ st.validation # "none"
      \/ node = "match3way" /\ st.match # "none"
      \/ node = "policy" /\ st.policy # "none"
      \/ node = "gate" /\ st.gate # "none"
      \/ node = "auto_approve" /\ st.route = "AUTO"
      \/ node = "exception_triage" /\ st.route = "EXCEPTION"
      \/ node = "human_review" /\ st.route = "EXCEPTION" /\ c.next \in {"archive", "end"}
      \/ node = "archive" /\ c.next = "end"
  BY DEF NodeTrace
<1> HIDE DEF c
<1>4. CASE node \in {"human_review", "archive"}
  BY <1>1, <1>3, <1>4 DEF PassedIn, c
<1>5. CASE node \notin {"human_review", "archive"}
  <2>1. st.run # NoRun
    BY <1>1, <1>3, <1>5 DEF StateIn
  <2>2. st.run \in 1..Len(ledger) /\ BackedIn(runs, ledger, st)
    BY <1>1, <2>1 DEF StateIn
  <2>3. \E e \in Evidence(node) : LoggedIn(ledger, st.run, e)
    BY <1>2, <1>3, <1>5, <2>1, <2>2, EvidenceOf DEF BackedIn
  <2> QED
    BY <2>2, <2>3 DEF LeftIn, c
<1> QED
  BY <1>4, <1>5 DEF c

-----------------------------------------------------------------------------
(* The theorems *)

\* The empty tables agree with the empty ledger.
LEMMA ViewInit == ASSUME Init PROVE ViewInv
<1>1. SystemInv
  BY InitOK
<1>2. runs = <<>> /\ ledger = <<>> /\ exceptions = <<>> /\ decisions = <<>>
  BY DEF Init, PipelineInit
<1>3. /\ ReferencesIn(runs, exceptions, decisions) /\ StartedIsLiveIn(runs, ledger)
  BY <1>2 DEF ReferencesIn, StartedIsLiveIn
<1>4. \A i, f : /\ DecisionsOn(exceptions, decisions, i) = {} /\ OfInvoice(exceptions, i) = {}
                /\ LoggedAt(runs, ledger, i, f) = {}
  BY <1>2 DEF DecisionsOn, OfInvoice, LoggedAt
<1>5. SameSize({}, {})
  BY FS_EmptySet DEF SameSize
<1>6. AuditedIn(runs, ledger, exceptions, decisions)
  BY <1>4, <1>5 DEF AuditedIn
<1> QED
  BY <1>1, <1>3, <1>6 DEF ViewInv

\* Every step keeps the rows and the ledger in agreement.
LEMMA ViewNext == ASSUME ViewInv, [Next]_vars PROVE ViewInv'
<1>1. /\ SystemInv /\ ReferencesIn(runs, exceptions, decisions)
      /\ AuditedIn(runs, ledger, exceptions, decisions) /\ StartedIsLiveIn(runs, ledger)
  BY DEF ViewInv
<1>2. SystemInv'
  BY <1>1, NextOK
<1>3. PlainRows \/ OpensRow \/ DecidesRow
  BY <1>1, StepRows
<1>4. /\ ReferencesIn(runs', exceptions', decisions')
      /\ AuditedIn(runs', ledger', exceptions', decisions')
      /\ StartedIsLiveIn(runs', ledger')
  BY <1>1, <1>3, ReferencesKept, AuditedKept, StartedKept
<1> QED
  BY <1>2, <1>4 DEF ViewInv

\* The rows of runs, exceptions and decisions always refer to each other
\* consistently and agree one for one with the ledger entries their
\* transactions write (PipelineNodes.exception_triage, DecisionService), and no
\* rejected duplicate is ever started: the invariant behind what the read
\* services show.
THEOREM ViewInvariant == Spec => []ViewInv
<1>1. Init => ViewInv
  BY ViewInit
<1>2. ViewInv /\ [Next]_vars => ViewInv'
  BY ViewNext
<1> QED
  BY <1>1, <1>2, PTL DEF Spec

\* The provenance package (TraceService.provenance) holds exactly one audit entry
\* for every decision and every exception it shows, with any number of
\* concurrent workers, requests and faults.
THEOREM ProvenanceIsComplete == Spec => []ProvenanceComplete
<1>1. ViewInv => ProvenanceComplete
  <2> SUFFICES ASSUME ViewInv, NEW i \in Invoices
               PROVE  /\ Cardinality(Provenance(i).decisions)
                           = Cardinality(Entries(Provenance(i), Ev("decision.recorded")))
                      /\ Cardinality(Provenance(i).exceptions)
                           = Cardinality(Entries(Provenance(i), Ev("exception.opened")))
    BY DEF ProvenanceComplete
  <2>1. \A f : Entries(Provenance(i), f) = LoggedAt(runs, ledger, i, f)
    BY ProvenanceEntries DEF ViewInv
  <2>2. /\ Provenance(i).decisions = DecisionsOn(exceptions, decisions, i)
        /\ Provenance(i).exceptions = OfInvoice(exceptions, i)
    BY DEF Provenance, DecisionsOn
  <2>3. /\ SameSize(DecisionsOn(exceptions, decisions, i), LoggedAt(runs, ledger, i, Recorded))
        /\ SameSize(OfInvoice(exceptions, i), LoggedAt(runs, ledger, i, Opened))
    BY DEF ViewInv, AuditedIn
  <2> QED
    BY <2>1, <2>2, <2>3 DEF SameSize, Recorded, Opened
<1> QED
  BY <1>1, ViewInvariant, PTL

\* The stages and the active node of a trace are those of one run, although
\* trace.py reads the thread by invoice and later than the run's row: of the
\* run asked for, which is the only one of its invoice that the thread can
\* belong to unless it is a rejected duplicate.  No node counts as passed in
\* the thread before its entry is in that run's ledger, with any number of
\* workers and faults.
THEOREM TraceOfOneRun == Spec => []TraceShowsOneRun
<1>1. PassedInv /\ ViewInv => TraceShowsOneRun
  <2> SUFFICES ASSUME PassedInv, ViewInv, NEW r \in 1..Len(runs), NEW status \in EarlierStatuses(r)
               PROVE  \E o \in OfInvoice(runs, runs[r].inv) :
                         /\ runs[r].status # "REJECTED" => o = r
                         /\ TraceIsOf(o, RunTrace(r, status))
    BY DEF TraceShowsOneRun
  <2> DEFINE i == runs[r].inv
             s == checkpoint[i].st.run
             o == IF runs[r].status = "REJECTED" /\ s # NoRun THEN s ELSE r
  <2>1. i \in Invoices /\ Len(ledger) = Len(runs) /\ OneLiveIn(runs)
    BY RowFacts DEF PassedInv, RunRow
  <2>2. StateIn(runs, ledger, i, checkpoint[i].st)
    BY <2>1, InvParts DEF PassedInv, CheckpointIn
  <2>3. o \in OfInvoice(runs, i) /\ (runs[r].status # "REJECTED" => o = r) /\ s \in {o, NoRun}
    BY <2>1, <2>2 DEF StateIn, OneLiveIn, OfInvoice
  <2>4. RunTrace(r, status).stages = NodeTrace(checkpoint[i])
    BY DEF RunTrace
  <2>5. ASSUME NEW node \in NodeTrace(checkpoint[i])
        PROVE  \E e \in Evidence(node) : Logged(o, e)
    <3>1. LeftIn(ledger, s, node)
      BY <2>1, StagesLogged
    <3>2. s = o
      BY <2>3, <3>1 DEF LeftIn, NoRun
    <3> QED
      BY <3>1, <3>2 DEF LeftIn, LoggedIn, Logged
  <2>6. runs[o].inv = i
    BY <2>3 DEF OfInvoice
  <2> HIDE DEF o
  <2> QED
    BY <2>3, <2>4, <2>5, <2>6 DEF TraceIsOf
<1>2. Init => PassedInv
  BY PassedInit
<1>3. PassedInv /\ [Next]_vars => PassedInv'
  BY PassedNext
<1> QED
  BY <1>1, <1>2, <1>3, ViewInvariant, PTL DEF Spec
=============================================================================
