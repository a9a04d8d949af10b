------------------------ MODULE HumanDecisionProofs ------------------------
(***************************************************************************)
(* Proofs about HumanDecision for every value of its constants.            *)
(*                                                                         *)
(* SystemInv is inductive.  Its parts speak of the tables through          *)
(* constant-level operators (LoggedIn, BackedIn, ...) that take the tables *)
(* as arguments: the lemmas about them need no primes, and a step is       *)
(* checked by saying how it extends the tables (Extends) and which         *)
(* checkpoint or worker it rewrites.                                       *)
(***************************************************************************)
EXTENDS HumanDecision, SequenceTheorems, TLAPS

LoggedIn(lg, r, e) == \E k \in 1..Len(lg[r]) : lg[r][k] = e

BackedIn(rs, lg, st) ==
    st.run # NoRun =>
        /\ st.run \in 1..Len(rs)
        /\ LoggedIn(lg, st.run, Ev("run.started"))
        /\ st.extraction => LoggedIn(lg, st.run, Ev("extract.completed"))
        /\ st.validation # "none"
              => LoggedIn(lg, st.run, <<"validate.completed", st.validation>>)
        /\ st.match # "none"
              => LoggedIn(lg, st.run, <<"match.completed", st.match>>)
        /\ st.policy # "none"
              => LoggedIn(lg, st.run, <<"policy.evaluated", st.policy>>)
        /\ st.gate # "none" => LoggedIn(lg, st.run, <<"gate.decided", st.gate>>)
        /\ st.route = "AUTO" => LoggedIn(lg, st.run, Ev("invoice.auto_approved"))
        /\ st.route = "EXCEPTION" => LoggedIn(lg, st.run, Ev("exception.opened"))

StateIn(rs, lg, i, st) ==
    IF st.run = NoRun
    THEN /\ ~st.extraction /\ st.validation = "none" /\ st.match = "none"
         /\ st.policy = "none" /\ st.gate = "none" /\ st.route = "none"
    ELSE /\ st.run \in 1..Len(rs)
         /\ rs[st.run].inv = i /\ rs[st.run].status # "REJECTED"
         /\ BackedIn(rs, lg, st)

CheckpointIn(rs, lg, i, c) == StateIn(rs, lg, i, c.st) /\ Ready(c.next, c.st)

ExecIn(rs, lg, dq, e) ==
    /\ e.pc # "idle" => e.inv \in Invoices
    /\ e.pc \in {"node", "second", "returning"} =>
          StateIn(rs, lg, e.inv, e.st) /\ Ready(e.node, e.st)
    /\ e.pc \in {"node", "second"} => e.node \in Nodes
    /\ e.pc = "claim" => e.entry \in 1..Len(dq)

\* StateOK over explicit tables.
LEMMA StateOKEquiv == \A i, st : StateOK(i, st) <=> StateIn(runs, ledger, i, st)
BY DEF StateOK, StateIn, Backed, BackedIn, Logged, LoggedIn

\* CheckpointOK over explicit tables.
LEMMA CheckpointOKEquiv ==
    \A i : CheckpointOK(i) <=> CheckpointIn(runs, ledger, i, checkpoint[i])
BY StateOKEquiv DEF CheckpointOK, CheckpointIn

\* ExecOK over explicit tables.
LEMMA ExecOKEquiv == \A e : ExecOK(e) <=> ExecIn(runs, ledger, dlq, e)
BY StateOKEquiv DEF ExecOK, ExecIn

-----------------------------------------------------------------------------
(* How a step may change the tables *)

LedgerKept(lg, lg2) ==
    /\ Len(lg) <= Len(lg2)
    /\ \A r \in 1..Len(lg) :
          /\ Len(lg[r]) <= Len(lg2[r])
          /\ \A k \in 1..Len(lg[r]) : lg2[r][k] = lg[r][k]

RunsKept(rs, rs2) ==
    /\ Len(rs) <= Len(rs2)
    /\ \A r \in 1..Len(rs) :
          /\ rs2[r].inv = rs[r].inv
          /\ rs2[r].status = "REJECTED" <=> rs[r].status = "REJECTED"

Updated(s, r, v) == [s EXCEPT ![r] = v]
Appended(lg, r, e) == [lg EXCEPT ![r] = Append(@, e)]

\* Overwriting an element of a sequence.
LEMMA SeqExcept ==
    ASSUME NEW S, NEW s \in Seq(S), NEW r \in 1..Len(s), NEW v \in S
    PROVE  /\ Updated(s, r, v) \in Seq(S) /\ Len(Updated(s, r, v)) = Len(s)
           /\ Updated(s, r, v)[r] = v
           /\ \A k \in 1..Len(s) : Updated(s, r, v)[k] = IF k = r THEN v ELSE s[k]
BY DEF Updated

\* Appending to a run's ledger changes nothing that is in it.
LEMMA LedgerAppendLemma ==
    ASSUME NEW lg \in Seq(Seq(Event)), NEW r \in 1..Len(lg), NEW e \in Event
    PROVE  /\ Appended(lg, r, e) \in Seq(Seq(Event))
           /\ Len(Appended(lg, r, e)) = Len(lg)
           /\ LedgerKept(lg, Appended(lg, r, e))
           /\ Appended(lg, r, e)[r] = Append(lg[r], e)
           /\ \A s \in 1..Len(lg) : s # r => Appended(lg, r, e)[s] = lg[s]
           /\ LoggedIn(Appended(lg, r, e), r, e)
<1> DEFINE l == Append(lg[r], e)
           lg2 == Updated(lg, r, l)
<1>1. lg[r] \in Seq(Event)
  BY ElementOfSeq
<1>2. /\ l \in Seq(Event) /\ Len(l) = Len(lg[r]) + 1
      /\ \A k \in 1..Len(lg[r]) : l[k] = lg[r][k]
      /\ l[Len(lg[r]) + 1] = e
  BY <1>1, AppendProperties
<1>3. Appended(lg, r, e) = lg2
  BY DEF Updated, Appended
<1> HIDE DEF l
<1>4. /\ lg2 \in Seq(Seq(Event)) /\ Len(lg2) = Len(lg)
      /\ \A s \in 1..Len(lg) : lg2[s] = IF s = r THEN l ELSE lg[s]
  <2>1. lg \in Seq(Seq(Event)) /\ l \in Seq(Event) /\ r \in 1..Len(lg)
    BY <1>2
  <2>2. \A S, v : lg \in Seq(S) /\ v \in S =>
              /\ Updated(lg, r, v) \in Seq(S) /\ Len(Updated(lg, r, v)) = Len(lg)
              /\ \A s \in 1..Len(lg) : Updated(lg, r, v)[s] = IF s = r THEN v ELSE lg[s]
    BY SeqExcept
  <2> QED
    BY <2>1, <2>2
<1> HIDE DEF lg2
<1>5. \A s \in 1..Len(lg) : Len(lg[s]) \in Nat
  BY ElementOfSeq, LenProperties
<1>6. LedgerKept(lg, lg2)
  <2>1. ASSUME NEW s \in 1..Len(lg)
        PROVE  /\ Len(lg[s]) <= Len(lg2[s])
               /\ \A k \in 1..Len(lg[s]) : lg2[s][k] = lg[s][k]
    <3>1. CASE s = r
      BY <1>2, <1>4, <1>5, <3>1
    <3>2. CASE s # r
      BY <1>4, <1>5, <3>2
    <3> QED
      BY <3>1, <3>2
  <2>2. Len(lg) <= Len(lg2)
    BY <1>4, LenProperties
  <2> QED
    BY <2>1, <2>2 DEF LedgerKept
<1>7. LoggedIn(lg2, r, e)
  <2>1. lg2[r] = l
    BY <1>4
  <2> QED
    BY <1>2, <1>5, <2>1 DEF LoggedIn
<1> QED
  BY <1>2, <1>3, <1>4, <1>6, <1>7 DEF l

\* What a kept ledger logs stays logged.
LEMMA LoggedKept ==
    ASSUME NEW lg \in Seq(Seq(Event)), NEW lg2 \in Seq(Seq(Event)), LedgerKept(lg, lg2),
           NEW r \in 1..Len(lg), NEW e, LoggedIn(lg, r, e)
    PROVE  LoggedIn(lg2, r, e)
<1>1. r \in 1..Len(lg2)
  BY LenProperties DEF LedgerKept
<1>2. lg[r] \in Seq(Event) /\ lg2[r] \in Seq(Event)
  BY <1>1, ElementOfSeq
<1>3. Len(lg[r]) \in Nat /\ Len(lg2[r]) \in Nat
  BY <1>2, LenProperties
<1>4. PICK k \in 1..Len(lg[r]) : lg[r][k] = e
  BY DEF LoggedIn
<1>5. Len(lg[r]) <= Len(lg2[r]) /\ lg2[r][k] = e
  BY <1>4 DEF LedgerKept
<1>6. k \in 1..Len(lg2[r])
  BY <1>3, <1>5
<1> QED
  BY <1>5, <1>6 DEF LoggedIn

\* A GraphState tied to its run stays tied to it while the tables only grow.
LEMMA StateKept ==
    ASSUME NEW rs \in Seq(RunRow), NEW rs2 \in Seq(RunRow), RunsKept(rs, rs2),
           NEW lg \in Seq(Seq(Event)), NEW lg2 \in Seq(Seq(Event)), LedgerKept(lg, lg2),
           Len(lg) = Len(rs),
           NEW i, NEW st \in GraphState, StateIn(rs, lg, i, st)
    PROVE  StateIn(rs2, lg2, i, st)
<1>1. CASE st.run = NoRun
  BY <1>1 DEF StateIn
<1>2. CASE st.run # NoRun
  <2>1. /\ st.run \in 1..Len(rs) /\ st.run \in 1..Len(lg) /\ st.run \in 1..Len(rs2)
    BY <1>2, LenProperties DEF StateIn, RunsKept
  <2>2. \A e : LoggedIn(lg, st.run, e) => LoggedIn(lg2, st.run, e)
    BY <2>1, LoggedKept
  <2>3. BackedIn(rs2, lg2, st)
    BY <1>2, <2>1, <2>2 DEF StateIn, BackedIn
  <2> QED
    BY <1>2, <2>1, <2>3 DEF StateIn, RunsKept
<1> QED
  BY <1>1, <1>2

-----------------------------------------------------------------------------
(* The parts of the invariant, over the tables *)

OneLiveIn(rs) ==
    \A r, s \in 1..Len(rs) :
        /\ rs[r].inv = rs[s].inv
        /\ rs[r].status # "REJECTED" /\ rs[s].status # "REJECTED"
        => r = s

BeforeIn(lg, r, k, e) == \E j \in 1..(k - 1) : lg[r][j] = e

JustifiedIn(lg) ==
    \A r \in 1..Len(lg) : \A k \in 1..Len(lg[r]) :
        lg[r][k] = Ev("invoice.auto_approved") =>
            /\ BeforeIn(lg, r, k, <<"validate.completed", "ok">>)
            /\ BeforeIn(lg, r, k, <<"match.completed", "MATCH">>)
            /\ BeforeIn(lg, r, k, <<"policy.evaluated", "clear">>)
            /\ BeforeIn(lg, r, k, <<"gate.decided", "AUTO">>)

ReplayableIn(rs, dq) ==
    \A r \in 1..Len(rs) : rs[r].status = "FAILED" =>
        \E d \in 1..Len(dq) : dq[d].run = r /\ dq[d].status = "PENDING"

RequestIn(xs, rq) ==
    rq.pc \in {"claim", "commit", "resume"} =>
        rq.exc \in 1..Len(xs) /\ rq.user \in Users /\ rq.action \in Actions

\* RowsOK without its requests.
RowsIn(is, rs, xs, dq) ==
    /\ \A r \in 1..Len(rs) : is[rs[r].inv] # "ABSENT"
    /\ \A d \in 1..Len(dq) : dq[d].run \in 1..Len(rs)
          /\ rs[dq[d].run].status # "REJECTED"
    /\ \A x \in 1..Len(xs) : xs[x].run \in 1..Len(rs)

\* SystemInv as a conjunction of parts over explicit tables.
LEMMA InvParts ==
    SystemInv <=>
        /\ TypeOK
        /\ RowsIn(invoices, runs, exceptions, dlq)
        /\ \A q \in Requests : RequestIn(exceptions, requests[q])
        /\ OneLiveIn(runs)
        /\ \A i \in Invoices : CheckpointIn(runs, ledger, i, checkpoint[i])
        /\ \A w \in Workers : ExecIn(runs, ledger, dlq, exec[w])
        /\ JustifiedIn(ledger)
        /\ ReplayableIn(runs, dlq)
<1>1. RowsOK <=> /\ RowsIn(invoices, runs, exceptions, dlq)
                 /\ \A q \in Requests : RequestIn(exceptions, requests[q])
  BY DEF RowsOK, RowsIn, RequestIn
<1>2. OneLiveRun <=> OneLiveIn(runs)
  BY DEF OneLiveRun, OneLiveIn
<1>3. AutoApprovalJustified <=> JustifiedIn(ledger)
  BY DEF AutoApprovalJustified, JustifiedIn, LoggedBefore, BeforeIn
<1>4. FailedRunIsReplayable <=> ReplayableIn(runs, dlq)
  BY DEF FailedRunIsReplayable, ReplayableIn
<1> QED
  BY <1>1, <1>2, <1>3, <1>4, CheckpointOKEquiv, ExecOKEquiv DEF SystemInv

\* An executor's state stays in order while the tables grow.
LEMMA ExecKept ==
    ASSUME NEW rs \in Seq(RunRow), NEW rs2 \in Seq(RunRow), RunsKept(rs, rs2),
           NEW lg \in Seq(Seq(Event)), NEW lg2 \in Seq(Seq(Event)), LedgerKept(lg, lg2),
           Len(lg) = Len(rs), NEW dq \in Seq(DLQRow), NEW dq2 \in Seq(DLQRow),
           Len(dq) <= Len(dq2), NEW e \in Execs, ExecIn(rs, lg, dq, e)
    PROVE  ExecIn(rs2, lg2, dq2, e)
<1>1. e.st \in GraphState
  BY DEF Execs
<1>2. StateIn(rs, lg, e.inv, e.st) => StateIn(rs2, lg2, e.inv, e.st)
  BY <1>1, StateKept
<1>3. Len(dq) \in Nat /\ Len(dq2) \in Nat
  BY LenProperties
<1> QED
  BY <1>2, <1>3 DEF ExecIn

\* A checkpoint stays in order while the tables grow.
LEMMA CheckpointKept ==
    ASSUME NEW rs \in Seq(RunRow), NEW rs2 \in Seq(RunRow), RunsKept(rs, rs2),
           NEW lg \in Seq(Seq(Event)), NEW lg2 \in Seq(Seq(Event)), LedgerKept(lg, lg2),
           Len(lg) = Len(rs), NEW i, NEW c \in Checkpoints, CheckpointIn(rs, lg, i, c)
    PROVE  CheckpointIn(rs2, lg2, i, c)
<1>1. c.st \in GraphState
  BY DEF Checkpoints
<1> QED
  BY <1>1, StateKept DEF CheckpointIn

\* A step that extends the tables and leaves each checkpoint, worker and
\* request alone or in order preserves the invariant.
LEMMA Glue ==
    ASSUME SystemInv, TypeOK',
           RunsKept(runs, runs'), LedgerKept(ledger, ledger'),
           Len(dlq) <= Len(dlq'), Len(exceptions) <= Len(exceptions'),
           RowsIn(invoices', runs', exceptions', dlq'),
           OneLiveIn(runs'), JustifiedIn(ledger'), ReplayableIn(runs', dlq'),
           \A i \in Invoices : \/ checkpoint'[i] = checkpoint[i]
                               \/ CheckpointIn(runs', ledger', i, checkpoint'[i]),
           \A w \in Workers : \/ exec'[w] = exec[w]
                              \/ ExecIn(runs', ledger', dlq', exec'[w]),
           \A q \in Requests : \/ requests'[q] = requests[q]
                               \/ RequestIn(exceptions', requests'[q])
    PROVE  SystemInv'
<1>1. /\ runs \in Seq(RunRow) /\ ledger \in Seq(Seq(Event)) /\ Len(ledger) = Len(runs)
      /\ dlq \in Seq(DLQRow) /\ exceptions \in Seq(ExceptionRow)
      /\ \A i \in Invoices : checkpoint[i] \in Checkpoints
      /\ \A w \in Workers : exec[w] \in Execs
  BY DEF SystemInv, TypeOK
<1>2. /\ runs' \in Seq(RunRow) /\ ledger' \in Seq(Seq(Event))
      /\ dlq' \in Seq(DLQRow) /\ exceptions' \in Seq(ExceptionRow)
  BY DEF TypeOK
<1>3. \A i \in Invoices : CheckpointIn(runs', ledger', i, checkpoint'[i])
  <2> SUFFICES ASSUME NEW i \in Invoices, checkpoint'[i] = checkpoint[i]
               PROVE  CheckpointIn(runs', ledger', i, checkpoint[i])
    OBVIOUS
  <2>1. CheckpointIn(runs, ledger, i, checkpoint[i]) /\ checkpoint[i] \in Checkpoints
    BY <1>1, InvParts
  <2> QED
    BY <1>1, <1>2, <2>1, CheckpointKept
<1>4. \A w \in Workers : ExecIn(runs', ledger', dlq', exec'[w])
  <2> SUFFICES ASSUME NEW w \in Workers, exec'[w] = exec[w]
               PROVE  ExecIn(runs', ledger', dlq', exec[w])
    OBVIOUS
  <2>1. ExecIn(runs, ledger, dlq, exec[w]) /\ exec[w] \in Execs
    BY <1>1, InvParts
  <2> QED
    BY <1>1, <1>2, <2>1, ExecKept
<1>5. \A q \in Requests : RequestIn(exceptions', requests'[q])
  <2> SUFFICES ASSUME NEW q \in Requests, requests'[q] = requests[q]
               PROVE  RequestIn(exceptions', requests[q])
    OBVIOUS
  <2>1. RequestIn(exceptions, requests[q])
    BY InvParts
  <2>2. Len(exceptions) \in Nat /\ Len(exceptions') \in Nat
    BY <1>1, <1>2, LenProperties
  <2> QED
    BY <2>1, <2>2 DEF RequestIn
<1>6. InvParts'
  BY InvParts, PTL
<1> QED
  BY <1>3, <1>4, <1>5, <1>6 DEF InvParts

-----------------------------------------------------------------------------
(* Steps that leave the tables of runs, ledger, DLQ and exceptions alone *)

\* Tables that stay as they are are kept.
LEMMA NothingChanged ==
    ASSUME TypeOK
    PROVE  RunsKept(runs, runs) /\ LedgerKept(ledger, ledger)
<1>1. runs \in Seq(RunRow) /\ ledger \in Seq(Seq(Event))
  BY DEF TypeOK
<1>2. Len(runs) \in Nat /\ Len(ledger) \in Nat
  BY <1>1, LenProperties
<1>3. \A r \in 1..Len(ledger) : Len(ledger[r]) \in Nat
  BY <1>1, ElementOfSeq, LenProperties
<1> QED
  BY <1>2, <1>3 DEF RunsKept, LedgerKept

\* A step that writes none of these tables only has to keep what it rewrites
\* in order: checkpoints, workers and requests.
LEMMA Quiet ==
    ASSUME SystemInv, TypeOK',
           UNCHANGED <<invoices, runs, exceptions, dlq, ledger>>,
           \A i \in Invoices : \/ checkpoint'[i] = checkpoint[i]
                               \/ CheckpointIn(runs, ledger, i, checkpoint'[i]),
           \A w \in Workers : \/ exec'[w] = exec[w]
                              \/ ExecIn(runs, ledger, dlq, exec'[w]),
           \A q \in Requests : \/ requests'[q] = requests[q]
                               \/ RequestIn(exceptions, requests'[q])
    PROVE  SystemInv'
<1>1. TypeOK
  BY DEF SystemInv
<1>2. RunsKept(runs, runs') /\ LedgerKept(ledger, ledger')
  BY <1>1, NothingChanged
<1>3. Len(dlq) <= Len(dlq') /\ Len(exceptions) <= Len(exceptions')
  BY <1>1, LenProperties DEF TypeOK
<1>4. /\ RowsIn(invoices', runs', exceptions', dlq')
      /\ OneLiveIn(runs') /\ JustifiedIn(ledger') /\ ReplayableIn(runs', dlq')
  BY InvParts
<1> QED
  BY <1>2, <1>3, <1>4, Glue

\* The runner's steps of one worker: only exec[w] and one checkpoint change.
LEMMA QuietWorker ==
    ASSUME SystemInv, NEW w \in Workers, NEW E \in Execs,
           exec' = [exec EXCEPT ![w] = E], ExecIn(runs, ledger, dlq, E),
           UNCHANGED <<invoices, runs, exceptions, dlq, ledger, decisions, requests>>,
           readModel' \subseteq Invoices, embeddings' \subseteq Invoices,
           faults' \in Nat, reruns' \in Nat,
           \/ checkpoint' = checkpoint
           \/ \E i \in Invoices, c \in Checkpoints :
                 /\ checkpoint' = [checkpoint EXCEPT ![i] = c]
                 /\ CheckpointIn(runs, ledger, i, c)
    PROVE  SystemInv'
<1>1. TypeOK
  BY DEF SystemInv
<1>2. /\ exec' \in [Workers -> Execs] /\ exec'[w] = E
      /\ \A v \in Workers : v # w => exec'[v] = exec[v]
  BY <1>1 DEF TypeOK
<1>3. /\ checkpoint' \in [Invoices -> Checkpoints]
      /\ \A i \in Invoices : \/ checkpoint'[i] = checkpoint[i]
                             \/ CheckpointIn(runs, ledger, i, checkpoint'[i])
  <2>1. CASE checkpoint' = checkpoint
    BY <1>1, <2>1 DEF TypeOK
  <2>2. ASSUME NEW i \in Invoices, NEW c \in Checkpoints,
               checkpoint' = [checkpoint EXCEPT ![i] = c],
               CheckpointIn(runs, ledger, i, c)
        PROVE  /\ checkpoint' \in [Invoices -> Checkpoints]
               /\ \A j \in Invoices : \/ checkpoint'[j] = checkpoint[j]
                                      \/ CheckpointIn(runs, ledger, j, checkpoint'[j])
    BY <1>1, <2>2 DEF TypeOK
  <2> QED
    BY <2>1, <2>2
<1>4. TypeOK'
  BY <1>1, <1>2, <1>3 DEF TypeOK
<1>5. \A v \in Workers : exec'[v] = exec[v] \/ ExecIn(runs, ledger, dlq, exec'[v])
  BY <1>2
<1> QED
  BY <1>3, <1>4, <1>5, Quiet

\* What the invariant says of one worker.
LEMMA WorkerFacts ==
    ASSUME SystemInv, NEW w \in Workers
    PROVE  /\ exec \in [Workers -> Execs] /\ exec[w] \in Execs
           /\ exec[w].st \in GraphState
           /\ ExecIn(runs, ledger, dlq, exec[w])
           /\ faults \in Nat /\ reruns \in Nat
           /\ readModel \subseteq Invoices /\ embeddings \subseteq Invoices
BY InvParts DEF TypeOK, Execs

\* An idle worker and a blank GraphState are in order.
LEMMA IdleOK ==
    /\ Idle \in Execs /\ EmptyState \in GraphState
    /\ ExecIn(runs, ledger, dlq, Idle)
BY DEF Idle, Execs, PCs, EmptyState, GraphState, NoRun, NoDecision, ExecIn

\* Completing a worker's checkpoint write is safe.
LEMMA FlushOK ==
    ASSUME SystemInv, NEW w \in Workers,
           exec[w].pc \in {"node", "second", "returning"}, Flush(w)
    PROVE  \/ checkpoint' = checkpoint
           \/ \E i \in Invoices, c \in Checkpoints :
                 /\ checkpoint' = [checkpoint EXCEPT ![i] = c]
                 /\ CheckpointIn(runs, ledger, i, c)
<1>1. CASE exec[w].saved
  BY <1>1 DEF Flush
<1>2. CASE ~exec[w].saved
  <2>1. checkpoint' = [checkpoint EXCEPT ![exec[w].inv] = Live(w)]
    BY <1>2 DEF Flush
  <2>2. exec[w].inv \in Invoices
    BY WorkerFacts DEF ExecIn
  <2>3. Live(w) \in Checkpoints
    BY WorkerFacts DEF Live, Checkpoints, Execs
  <2>4. CheckpointIn(runs, ledger, exec[w].inv, Live(w))
    BY WorkerFacts DEF Live, CheckpointIn, ExecIn
  <2> QED
    BY <2>1, <2>2, <2>3, <2>4
<1> QED
  BY <1>1, <1>2

\* A worker that has just entered run_invoice is in order.
LEMMA CalledOK ==
    ASSUME NEW i \in Invoices, NEW n \in Nat
    PROVE  Called(i, n) \in Execs /\ ExecIn(runs, ledger, dlq, Called(i, n))
BY IdleOK DEF Called, Idle, Execs, PCs, ExecIn

-----------------------------------------------------------------------------
(* One lemma per action of the runner *)

\* run_invoice only reads the snapshot.
LEMMA RunInvoiceOK ==
    ASSUME SystemInv, NEW w \in Workers, RunInvoice(w), UNCHANGED <<decisions, requests>>
    PROVE  SystemInv'
<1>1. PICK E \in {Idle, [exec[w] EXCEPT !.pc = "resume"], [exec[w] EXCEPT !.pc = "fresh"]} :
          exec' = [exec EXCEPT ![w] = E]
  BY DEF RunInvoice
<1>2. exec[w].pc = "call"
  BY DEF RunInvoice
<1>3. E \in Execs /\ ExecIn(runs, ledger, dlq, E)
  BY <1>1, <1>2, WorkerFacts, IdleOK DEF Execs, PCs, ExecIn
<1> QED
  BY <1>1, <1>3, WorkerFacts, QuietWorker DEF RunInvoice, tables, bounds

\* The worker takes over a checkpointed state, which is in order.
LEMMA ResumeOK ==
    ASSUME SystemInv, NEW w \in Workers, Resume(w), UNCHANGED <<decisions, requests>>
    PROVE  SystemInv'
<1> DEFINE c == checkpoint[exec[w].inv]
           E == IF c.next \in Nodes
                THEN [exec[w] EXCEPT !.pc = "node", !.node = c.next, !.st = c.st,
                                     !.saved = TRUE]
                ELSE Idle
<1>1. exec[w].pc = "resume" /\ exec' = [exec EXCEPT ![w] = E]
  BY DEF Resume
<1>2. exec[w].inv \in Invoices /\ exec[w] \in Execs
  BY <1>1, WorkerFacts DEF ExecIn
<1>3. c \in Checkpoints /\ CheckpointIn(runs, ledger, exec[w].inv, c)
  BY <1>2, InvParts DEF TypeOK
<1>4. E \in Execs /\ ExecIn(runs, ledger, dlq, E)
  BY <1>2, <1>3, IdleOK, ZenonT(40) DEF Execs, PCs, ExecIn, CheckpointIn, Checkpoints
<1> QED
  BY <1>1, <1>4, WorkerFacts, QuietWorker DEF Resume, tables, bounds

\* The worker starts from the thread's state at the ingest node.
LEMMA StartOK ==
    ASSUME SystemInv, NEW w \in Workers, Start(w), UNCHANGED <<decisions, requests>>
    PROVE  SystemInv'
<1> DEFINE c == checkpoint[exec[w].inv]
           E == [exec[w] EXCEPT !.pc = "node", !.node = "ingest", !.st = c.st,
                                !.saved = FALSE]
<1>1. exec[w].pc = "fresh" /\ exec' = [exec EXCEPT ![w] = E]
  BY DEF Start
<1>2. exec[w].inv \in Invoices /\ exec[w] \in Execs
  BY <1>1, WorkerFacts DEF ExecIn
<1>3. c \in Checkpoints /\ CheckpointIn(runs, ledger, exec[w].inv, c)
  BY <1>2, InvParts DEF TypeOK
<1>4. E \in Execs /\ ExecIn(runs, ledger, dlq, E)
  BY <1>2, <1>3, ZenonT(40) DEF Execs, PCs, ExecIn, CheckpointIn, Checkpoints, Ready, Nodes
<1> QED
  BY <1>1, <1>4, WorkerFacts, QuietWorker DEF Start, tables, bounds

\* An operator's call of run_invoice.
LEMMA RerunOK ==
    ASSUME SystemInv, NEW w \in Workers, NEW i \in Invoices, Rerun(w, i),
           UNCHANGED <<decisions, requests>>
    PROVE  SystemInv'
<1>1. exec' = [exec EXCEPT ![w] = Called(i, RetryAttempts)]
  BY DEF Rerun
<1>2. /\ Called(i, RetryAttempts) \in Execs
      /\ ExecIn(runs, ledger, dlq, Called(i, RetryAttempts))
  BY CalledOK, PipelineAssumption
<1>3. faults' \in Nat /\ reruns' \in Nat
  BY WorkerFacts DEF Rerun
<1> QED
  BY <1>1, <1>2, <1>3, WorkerFacts, QuietWorker DEF Rerun, tables

\* A background checkpoint write stores the worker's state, which is in order.
LEMMA PersistOK ==
    ASSUME SystemInv, NEW w \in Workers, Persist(w), UNCHANGED <<decisions, requests>>
    PROVE  SystemInv'
<1> DEFINE E == [exec[w] EXCEPT !.saved = TRUE]
<1>1. exec[w].pc \in {"node", "second"} /\ exec' = [exec EXCEPT ![w] = E] /\ Flush(w)
  BY DEF Persist
<1>2. E \in Execs /\ ExecIn(runs, ledger, dlq, E)
  BY WorkerFacts DEF Execs, ExecIn
<1> QED
  BY <1>1, <1>2, WorkerFacts, FlushOK, QuietWorker DEF Persist, tables, bounds

\* ainvoke returns: the last checkpoint write stores a state in order.
LEMMA ReturnOK ==
    ASSUME SystemInv, NEW w \in Workers, Return(w), UNCHANGED <<decisions, requests>>
    PROVE  SystemInv'
<1>1. exec[w].pc = "returning" /\ exec' = [exec EXCEPT ![w] = Idle] /\ Flush(w)
  BY DEF Return
<1> QED
  BY <1>1, IdleOK, WorkerFacts, FlushOK, QuietWorker DEF Return, tables, bounds

\* ainvoke raises: the checkpoints are flushed, the worker's state is dropped.
LEMMA RaiseOK ==
    ASSUME SystemInv, NEW w \in Workers, exec[w].pc \in {"node", "second"},
           Raise(w), UNCHANGED tables, faults' \in Nat, reruns' \in Nat,
           UNCHANGED <<decisions, requests>>
    PROVE  SystemInv'
<1> DEFINE E == [exec[w] EXCEPT !.pc = "raised"]
<1>1. exec' = [exec EXCEPT ![w] = E] /\ Flush(w)
  BY DEF Raise
<1>2. E \in Execs /\ ExecIn(runs, ledger, dlq, E)
  BY WorkerFacts DEF Execs, PCs, ExecIn
<1> QED
  BY <1>1, <1>2, WorkerFacts, FlushOK, QuietWorker DEF tables

\* The fault counter stays a number.
LEMMA FaultCount ==
    ASSUME SystemInv, NEW kind, Fault(kind)
    PROVE  faults' \in Nat
BY DEF Fault, SystemInv, TypeOK

\* A retried node starts over with the same state.
LEMMA InfraFailureOK ==
    ASSUME SystemInv, NEW w \in Workers, InfraFailure(w), UNCHANGED <<decisions, requests>>
    PROVE  SystemInv'
<1>1. faults' \in Nat /\ reruns' \in Nat /\ exec[w].pc \in {"node", "second"}
  BY FaultCount, WorkerFacts DEF InfraFailure
<1>2. CASE exec[w].attempt < exec[w].limit
  <2> DEFINE E == [exec[w] EXCEPT !.attempt = @ + 1, !.pc = "node"]
  <2>1. exec' = [exec EXCEPT ![w] = E] /\ checkpoint' = checkpoint
    BY <1>2 DEF InfraFailure
  <2>2. exec[w].attempt + 1 \in Nat
    BY WorkerFacts DEF Execs
  <2>3. E \in Execs
    BY <2>2, WorkerFacts DEF Execs, PCs
  <2>4. ExecIn(runs, ledger, dlq, E)
    BY <1>1, WorkerFacts DEF Execs, ExecIn
  <2> QED
    BY <1>1, <2>1, <2>3, <2>4, WorkerFacts, QuietWorker DEF InfraFailure, tables
<1>3. CASE ~(exec[w].attempt < exec[w].limit)
  BY <1>1, <1>3, RaiseOK DEF InfraFailure
<1> QED
  BY <1>2, <1>3

\* A BUSINESS error raises at once.
LEMMA BusinessFailureOK ==
    ASSUME SystemInv, NEW w \in Workers, BusinessFailure(w), UNCHANGED <<decisions, requests>>
    PROVE  SystemInv'
BY FaultCount, WorkerFacts, RaiseOK DEF BusinessFailure

\* The ingest node found no run and raises.
LEMMA IngestNoRunOK ==
    ASSUME SystemInv, NEW w \in Workers, IngestNoRun(w), UNCHANGED <<decisions, requests>>
    PROVE  SystemInv'
BY WorkerFacts, RaiseOK DEF IngestNoRun, At, bounds

\* A checkpoint write fails: the older checkpoint is kept.
LEMMA PersistFailureOK ==
    ASSUME SystemInv, NEW w \in Workers, PersistFailure(w), UNCHANGED <<decisions, requests>>
    PROVE  SystemInv'
<1> DEFINE E == [exec[w] EXCEPT !.pc = "raised"]
<1>1. exec' = [exec EXCEPT ![w] = E] /\ exec[w].pc \in {"node", "second", "returning"}
  BY DEF PersistFailure
<1>2. E \in Execs /\ ExecIn(runs, ledger, dlq, E)
  BY <1>1, WorkerFacts DEF Execs, PCs, ExecIn
<1>3. faults' \in Nat
  BY FaultCount DEF PersistFailure
<1> QED
  BY <1>1, <1>2, <1>3, WorkerFacts, QuietWorker DEF PersistFailure, tables

\* The worker stops: crash, refused or failed DLQ record.
LEMMA StopOK ==
    ASSUME SystemInv, NEW w \in Workers, exec' = [exec EXCEPT ![w] = Idle],
           UNCHANGED <<tables, checkpoint, decisions, requests>>,
           faults' \in Nat, reruns' \in Nat
    PROVE  SystemInv'
BY IdleOK, WorkerFacts, QuietWorker DEF tables

\* A replay has read an existing entry.
LEMMA ReplayReadOK ==
    ASSUME SystemInv, NEW w \in Workers, NEW d \in 1..Len(dlq), ReplayRead(w, d),
           UNCHANGED <<decisions, requests>>
    PROVE  SystemInv'
<1> DEFINE E == [Idle EXCEPT !.pc = "claim", !.inv = dlq[d].inv, !.entry = d]
<1>1. exec' = [exec EXCEPT ![w] = E]
  BY DEF ReplayRead
<1>2. dlq \in Seq(DLQRow) /\ d \in Nat
  BY LenProperties DEF SystemInv, TypeOK
<1>3. dlq[d].inv \in Invoices
  <2>1. dlq[d] \in DLQRow
    BY <1>2, ElementOfSeq
  <2> QED
    BY <2>1 DEF DLQRow
<1>4. E \in Execs /\ ExecIn(runs, ledger, dlq, E)
  BY <1>2, <1>3, IdleOK DEF Idle, Execs, PCs, ExecIn
<1> QED
  BY <1>1, <1>4, WorkerFacts, QuietWorker DEF ReplayRead, tables, bounds

-----------------------------------------------------------------------------
(* Steps that write the tables *)

\* Rewriting the row of a live run.
LEMMA RunsUpdate ==
    ASSUME NEW rs \in Seq(RunRow), OneLiveIn(rs), NEW r \in 1..Len(rs), NEW row \in RunRow,
           row.inv = rs[r].inv, row.status # "REJECTED", rs[r].status # "REJECTED"
    PROVE  /\ Updated(rs, r, row) \in Seq(RunRow) /\ Len(Updated(rs, r, row)) = Len(rs)
           /\ Updated(rs, r, row)[r] = row
           /\ \A s \in 1..Len(rs) : s # r => Updated(rs, r, row)[s] = rs[s]
           /\ RunsKept(rs, Updated(rs, r, row)) /\ OneLiveIn(Updated(rs, r, row))
<1> DEFINE rs2 == Updated(rs, r, row)
<1>1. /\ rs2 \in Seq(RunRow) /\ Len(rs2) = Len(rs)
      /\ rs2[r] = row /\ \A s \in 1..Len(rs) : rs2[s] = IF s = r THEN row ELSE rs[s]
  BY SeqExcept
<1> HIDE DEF rs2
<1>2. RunsKept(rs, rs2)
  BY <1>1, LenProperties DEF RunsKept
<1>3. OneLiveIn(rs2)
  BY <1>1 DEF OneLiveIn
<1> QED
  BY <1>1, <1>2, <1>3 DEF rs2

\* A runs table is itself with any of its rows rewritten to the same.
LEMMA RunsSame ==
    ASSUME NEW rs \in Seq(RunRow), NEW r \in 1..Len(rs)
    PROVE  rs[r] \in RunRow /\ rs = Updated(rs, r, rs[r])
<1>1. rs[r] \in RunRow
  BY ElementOfSeq
<1> QED
  BY <1>1 DEF Updated

\* An auto-approval is only ever appended after what justifies it.
LEMMA JustifiedKept ==
    ASSUME NEW lg \in Seq(Seq(Event)), NEW r \in 1..Len(lg), NEW e \in Event,
           JustifiedIn(lg),
           e = Ev("invoice.auto_approved") =>
              /\ LoggedIn(lg, r, <<"validate.completed", "ok">>)
              /\ LoggedIn(lg, r, <<"match.completed", "MATCH">>)
              /\ LoggedIn(lg, r, <<"policy.evaluated", "clear">>)
              /\ LoggedIn(lg, r, <<"gate.decided", "AUTO">>)
    PROVE  JustifiedIn(Appended(lg, r, e))
<1> DEFINE lg2 == Appended(lg, r, e)
<1>1. /\ lg2[r] = Append(lg[r], e) /\ \A s \in 1..Len(lg) : s # r => lg2[s] = lg[s]
      /\ Len(lg2) = Len(lg)
  BY LedgerAppendLemma
<1> HIDE DEF lg2
<1>2. lg[r] \in Seq(Event)
  BY ElementOfSeq
<1>3. /\ Len(lg2[r]) = Len(lg[r]) + 1 /\ Len(lg[r]) \in Nat
      /\ lg2[r][Len(lg[r]) + 1] = e
      /\ \A k \in 1..Len(lg[r]) : lg2[r][k] = lg[r][k]
  BY <1>1, <1>2, AppendProperties, LenProperties
<1>4. \A f : LoggedIn(lg, r, f) => BeforeIn(lg2, r, Len(lg[r]) + 1, f)
  BY <1>3 DEF LoggedIn, BeforeIn
<1>5. ASSUME NEW k \in 1..Len(lg[r]), NEW f, BeforeIn(lg, r, k, f)
      PROVE  BeforeIn(lg2, r, k, f)
  <2>1. PICK j \in 1..(k - 1) : lg[r][j] = f
    BY <1>5 DEF BeforeIn
  <2>2. j \in 1..Len(lg[r])
    BY <1>3
  <2> QED
    BY <1>3, <2>1, <2>2 DEF BeforeIn
<1>6. SUFFICES ASSUME NEW s \in 1..Len(lg2), NEW k \in 1..Len(lg2[s]),
                      lg2[s][k] = Ev("invoice.auto_approved")
               PROVE  /\ BeforeIn(lg2, s, k, <<"validate.completed", "ok">>)
                      /\ BeforeIn(lg2, s, k, <<"match.completed", "MATCH">>)
                      /\ BeforeIn(lg2, s, k, <<"policy.evaluated", "clear">>)
                      /\ BeforeIn(lg2, s, k, <<"gate.decided", "AUTO">>)
  BY DEF JustifiedIn, lg2
<1>7. CASE s # r
  <2>1. /\ s \in 1..Len(lg) /\ lg2[s] = lg[s] /\ k \in 1..Len(lg[s])
        /\ lg[s][k] = Ev("invoice.auto_approved")
    BY <1>1, <1>6, <1>7
  <2>2. \A f : BeforeIn(lg, s, k, f) => BeforeIn(lg2, s, k, f)
    BY <2>1 DEF BeforeIn
  <2> QED
    BY <2>1, <2>2 DEF JustifiedIn
<1>8. CASE s = r /\ k = Len(lg[r]) + 1
  BY <1>3, <1>4, <1>6, <1>8
<1>9. CASE s = r /\ k # Len(lg[r]) + 1
  <2>1. k \in 1..Len(lg[r]) /\ lg[r][k] = Ev("invoice.auto_approved")
    BY <1>3, <1>6, <1>9, SMTT(20)
  <2> QED
    BY <1>1, <1>5, <1>9, <2>1 DEF JustifiedIn
<1> QED
  BY <1>7, <1>8, <1>9

\* The ledger has grown at run r, among others by e.
GrownIn(lg, lg2, r, e) ==
    /\ lg2 \in Seq(Seq(Event)) /\ Len(lg2) = Len(lg)
    /\ LedgerKept(lg, lg2)
    /\ LoggedIn(lg2, r, e)
    /\ JustifiedIn(lg2)

\* One entry makes the ledger grow.
LEMMA AppendGrows ==
    ASSUME NEW lg \in Seq(Seq(Event)), NEW r \in 1..Len(lg), NEW e \in Event,
           JustifiedIn(lg),
           e = Ev("invoice.auto_approved") =>
              /\ LoggedIn(lg, r, <<"validate.completed", "ok">>)
              /\ LoggedIn(lg, r, <<"match.completed", "MATCH">>)
              /\ LoggedIn(lg, r, <<"policy.evaluated", "clear">>)
              /\ LoggedIn(lg, r, <<"gate.decided", "AUTO">>)
    PROVE  GrownIn(lg, Appended(lg, r, e), r, e)
BY LedgerAppendLemma, JustifiedKept DEF GrownIn

\* So do two entries of one transaction, when the second justifies itself.
LEMMA AppendBothGrows ==
    ASSUME NEW lg \in Seq(Seq(Event)), NEW r \in 1..Len(lg),
           NEW e \in Event, NEW f \in Event, JustifiedIn(lg),
           e # Ev("invoice.auto_approved"), f # Ev("invoice.auto_approved")
    PROVE  GrownIn(lg, [lg EXCEPT ![r] = Append(Append(@, e), f)], r, e)
<1> DEFINE one == Appended(lg, r, e)
           both == Appended(one, r, f)
<1>1. GrownIn(lg, one, r, e) /\ one[r] = Append(lg[r], e)
  BY AppendGrows, LedgerAppendLemma
<1>2. [lg EXCEPT ![r] = Append(Append(@, e), f)] = both
  BY <1>1 DEF Appended
<1> HIDE DEF one
<1>3. /\ one \in Seq(Seq(Event)) /\ r \in 1..Len(one) /\ Len(one) = Len(lg)
      /\ JustifiedIn(one) /\ LedgerKept(lg, one) /\ LoggedIn(one, r, e)
  BY <1>1 DEF GrownIn
<1>4. GrownIn(one, both, r, f)
  BY <1>3, AppendGrows
<1> HIDE DEF both
<1>5. /\ both \in Seq(Seq(Event)) /\ Len(both) = Len(lg)
      /\ JustifiedIn(both) /\ LedgerKept(one, both)
  BY <1>3, <1>4 DEF GrownIn
<1>6. \A s \in 1..Len(lg) : Len(lg[s]) \in Nat /\ Len(one[s]) \in Nat /\ Len(both[s]) \in Nat
  <2>1. \A s \in 1..Len(lg) :
           lg[s] \in Seq(Event) /\ one[s] \in Seq(Event) /\ both[s] \in Seq(Event)
    BY <1>3, <1>5, ElementOfSeq
  <2> QED
    BY <2>1, LenProperties
<1>7. LedgerKept(lg, both)
  <2>1. ASSUME NEW s \in 1..Len(lg)
        PROVE  /\ Len(lg[s]) <= Len(both[s])
               /\ \A k \in 1..Len(lg[s]) : both[s][k] = lg[s][k]
    <3>1. /\ Len(lg[s]) <= Len(one[s]) /\ Len(one[s]) <= Len(both[s])
          /\ \A k \in 1..Len(lg[s]) : one[s][k] = lg[s][k]
          /\ \A k \in 1..Len(one[s]) : both[s][k] = one[s][k]
      BY <1>3, <1>5 DEF LedgerKept
    <3> QED
      BY <1>6, <3>1
  <2>2. Len(lg) \in Nat /\ Len(both) = Len(lg)
    BY <1>5, LenProperties
  <2> QED
    BY <2>1, <2>2 DEF LedgerKept
<1>8. LoggedIn(both, r, e)
  <2>1. PICK k \in 1..Len(one[r]) : one[r][k] = e
    BY <1>3 DEF LoggedIn
  <2>2. /\ Len(one[r]) <= Len(both[r]) /\ both[r][k] = one[r][k]
    BY <1>3, <1>5, <2>1 DEF LedgerKept
  <2>3. k \in 1..Len(both[r])
    BY <1>3, <1>6, <2>1, <2>2
  <2> QED
    BY <2>1, <2>2, <2>3 DEF LoggedIn
<1> QED
  BY <1>2, <1>5, <1>7, <1>8 DEF GrownIn

\* A worker's transaction on its run: it rewrites the run's row, appends to the
\* run's ledger and possibly settles invoices and opens exceptions.
LEMMA RunStep ==
    ASSUME SystemInv, NEW r \in 1..Len(runs), NEW e, GrownIn(ledger, ledger', r, e),
           NEW row \in RunRow, runs' = Updated(runs, r, row),
           row.inv = runs[r].inv, row.status # "REJECTED", runs[r].status # "REJECTED",
           row.status = "FAILED" => runs[r].status = "FAILED",
           dlq' = dlq,
           invoices' \in [Invoices -> InvoiceStatus],
           \A i \in Invoices : invoices[i] # "ABSENT" => invoices'[i] # "ABSENT",
           exceptions' \in Seq(ExceptionRow), Len(exceptions) <= Len(exceptions'),
           \A x \in 1..Len(exceptions') : exceptions'[x].run \in 1..Len(runs),
           NEW w \in Workers, NEW E \in Execs, exec' = [exec EXCEPT ![w] = E],
           ExecIn(runs', ledger', dlq, E),
           UNCHANGED <<readModel, embeddings, checkpoint, bounds, decisions, requests>>
    PROVE  SystemInv'
<1>1. /\ runs \in Seq(RunRow) /\ ledger \in Seq(Seq(Event)) /\ Len(ledger) = Len(runs)
      /\ dlq \in Seq(DLQRow) /\ exec \in [Workers -> Execs] /\ TypeOK
      /\ r \in 1..Len(ledger)
  BY DEF SystemInv, TypeOK
<1>2. /\ RowsIn(invoices, runs, exceptions, dlq)
      /\ OneLiveIn(runs) /\ JustifiedIn(ledger) /\ ReplayableIn(runs, dlq)
  BY InvParts
<1>3. /\ runs' \in Seq(RunRow) /\ Len(runs') = Len(runs)
      /\ runs'[r] = row /\ \A s \in 1..Len(runs) : s # r => runs'[s] = runs[s]
      /\ RunsKept(runs, runs') /\ OneLiveIn(runs')
  BY <1>1, <1>2, RunsUpdate, ZenonT(40)
<1>5. /\ ledger' \in Seq(Seq(Event)) /\ Len(ledger') = Len(ledger)
      /\ LedgerKept(ledger, ledger')
  BY DEF GrownIn
<1>6. JustifiedIn(ledger')
  BY DEF GrownIn
<1>7. ReplayableIn(runs', dlq')
  BY <1>2, <1>3 DEF ReplayableIn
<1>8. RowsIn(invoices', runs', exceptions', dlq')
  <2>1. \A s \in 1..Len(runs) : /\ runs[s] \in RunRow /\ runs'[s].inv = runs[s].inv
                                /\ runs'[s].status = "REJECTED" <=> runs[s].status = "REJECTED"
    BY <1>1, <1>3, ElementOfSeq DEF RunsKept
  <2>2. \A s \in 1..Len(runs') : invoices'[runs'[s].inv] # "ABSENT"
    BY <1>2, <1>3, <2>1 DEF RowsIn, RunRow
  <2>3. \A d \in 1..Len(dlq') : dlq'[d].run \in 1..Len(runs')
                                /\ runs'[dlq'[d].run].status # "REJECTED"
    BY <1>2, <1>3, <2>1 DEF RowsIn
  <2> QED
    BY <1>3, <2>2, <2>3 DEF RowsIn
<1>9. /\ exec' \in [Workers -> Execs]
      /\ \A v \in Workers : exec'[v] = exec[v] \/ ExecIn(runs', ledger', dlq', exec'[v])
  BY <1>1
<1>10. TypeOK'
  BY <1>1, <1>3, <1>5, <1>9 DEF TypeOK, bounds
<1>11. Len(dlq) <= Len(dlq')
  BY <1>1, LenProperties
<1> QED
  BY <1>3, <1>5, <1>6, <1>7, <1>8, <1>9, <1>10, <1>11, Glue

-----------------------------------------------------------------------------
(* One lemma per node *)

\* Routing stays inside the graph.
LEMMA NextNodeOK ==
    ASSUME NEW node \in Nodes, NEW st
    PROVE  NextNode(node, st) \in Nodes \cup {"end"}
BY DEF NextNode, Nodes, route_after_validate, route_after_match,
       route_after_policy, route_after_gate

\* The run of a worker that is past the ingest node.
LEMMA WorkerRun ==
    ASSUME SystemInv, NEW w \in Workers, exec[w].pc \in {"node", "second"},
           exec[w].node # "ingest"
    PROVE  /\ exec[w].st.run \in 1..Len(runs) /\ exec[w].st.run # NoRun
           /\ runs[exec[w].st.run].inv = exec[w].inv
           /\ runs[exec[w].st.run].status # "REJECTED"
           /\ StateIn(runs, ledger, exec[w].inv, exec[w].st)
           /\ Ready(exec[w].node, exec[w].st)
           /\ exec[w].inv \in Invoices /\ exec[w].node \in Nodes
<1>1. /\ StateIn(runs, ledger, exec[w].inv, exec[w].st)
      /\ Ready(exec[w].node, exec[w].st)
      /\ exec[w].inv \in Invoices /\ exec[w].node \in Nodes
  BY WorkerFacts DEF ExecIn
<1>2. exec[w].st.run # NoRun
  BY <1>1 DEF Ready
<1> QED
  BY <1>1, <1>2 DEF StateIn

\* The worker's next program counter and state after a node.
LEMMA AdvanceOK ==
    ASSUME NEW w \in Workers, exec[w] \in Execs, exec[w].inv \in Invoices,
           exec[w].node \in Nodes, NEW st \in GraphState, Advance(w, st),
           NEW rs, NEW lg, NEW dq, StateIn(rs, lg, exec[w].inv, st),
           Ready(NextNode(exec[w].node, st), st)
    PROVE  \E E \in Execs : exec' = [exec EXCEPT ![w] = E] /\ ExecIn(rs, lg, dq, E)
<1> DEFINE next == NextNode(exec[w].node, st)
           pc == IF next = "end" \/ exec[w].node \in InterruptAfter
                 THEN "returning" ELSE "node"
           E == [exec[w] EXCEPT !.st = st, !.node = next, !.attempt = 1,
                                !.saved = FALSE, !.pc = pc]
<1>1. exec' = [exec EXCEPT ![w] = E]
  BY DEF Advance
<1>2. next \in Nodes \cup {"end"}
  BY NextNodeOK
<1>3. pc \in {"node", "returning"} /\ (pc = "node" => next # "end")
  OBVIOUS
<1> HIDE DEF next, pc
<1>4. E \in Execs
  BY <1>2, <1>3 DEF Execs, PCs
<1>5. /\ E.pc = pc /\ E.inv = exec[w].inv /\ E.st = st /\ E.node = next
  BY DEF Execs
<1>6. ExecIn(rs, lg, dq, E)
  BY <1>2, <1>3, <1>5 DEF ExecIn, next
<1> QED
  BY <1>1, <1>4, <1>6

\* Ledger entries are typed, and only an auto-approval is one.
LEMMA EventFacts ==
    /\ \A s \in EventNames : Ev(s) \in Event
    /\ \A s \in EventNames, t \in Outcomes : <<s, t>> \in Event
    /\ \A s \in EventNames : s # "invoice.auto_approved" => Ev(s) # Ev("invoice.auto_approved")
    /\ \A s \in EventNames, t \in Outcomes :
          s # "invoice.auto_approved" => <<s, t>> # Ev("invoice.auto_approved")
<1>1. \A s \in EventNames, t \in Outcomes : <<s, t>> \in Event
  BY DEF Event
<1>2. "none" \in Outcomes
  BY DEF Outcomes
<1>3. \A s \in EventNames : Ev(s) \in Event
  BY <1>1, <1>2 DEF Ev
<1>4. \A s \in EventNames, t \in Outcomes :
          s # "invoice.auto_approved" => <<s, t>> # Ev("invoice.auto_approved")
  BY DEF Ev
<1>5. \A s \in EventNames : s # "invoice.auto_approved" => Ev(s) # Ev("invoice.auto_approved")
  BY DEF Ev
<1> QED
  BY <1>1, <1>3, <1>4, <1>5

\* A node whose transaction only appends to its run's ledger.
LEMMA LogNode ==
    ASSUME SystemInv, NEW w \in Workers, exec[w].pc \in {"node", "second"},
           exec[w].node # "ingest",
           NEW e \in Event, e # Ev("invoice.auto_approved"),
           LedgerAppend(exec[w].st.run, e),
           NEW st \in GraphState, Advance(w, st),
           UNCHANGED <<invoices, runs, exceptions, dlq, readModel, embeddings,
                       checkpoint, bounds, decisions, requests>>,
           /\ StateIn(runs, ledger', exec[w].inv, exec[w].st)
           /\ LoggedIn(ledger', exec[w].st.run, e)
           => StateIn(runs, ledger', exec[w].inv, st),
           Ready(NextNode(exec[w].node, st), st)
    PROVE  SystemInv'
<1> DEFINE r == exec[w].st.run
<1>1. /\ r \in 1..Len(runs) /\ runs[r].status # "REJECTED"
      /\ StateIn(runs, ledger, exec[w].inv, exec[w].st)
      /\ exec[w].inv \in Invoices /\ exec[w].node \in Nodes
  BY WorkerRun
<1>2. /\ runs \in Seq(RunRow) /\ ledger \in Seq(Seq(Event)) /\ Len(ledger) = Len(runs)
      /\ exceptions \in Seq(ExceptionRow) /\ TypeOK
  BY DEF SystemInv, TypeOK
<1>3. runs[r] \in RunRow /\ runs' = Updated(runs, r, runs[r])
  BY <1>1, <1>2, RunsSame
<1>4. ledger' = Appended(ledger, r, e)
  BY DEF LedgerAppend, Appended
<1>5. /\ ledger' \in Seq(Seq(Event)) /\ LedgerKept(ledger, ledger')
      /\ LoggedIn(ledger', r, e)
  BY <1>1, <1>2, <1>4, LedgerAppendLemma
<1>6. RunsKept(runs, runs)
  BY <1>2, NothingChanged
<1>7. StateIn(runs, ledger', exec[w].inv, exec[w].st)
  BY <1>1, <1>2, <1>5, <1>6, WorkerFacts, StateKept
<1>8. PICK E \in Execs : exec' = [exec EXCEPT ![w] = E] /\ ExecIn(runs, ledger', dlq, E)
  BY <1>1, <1>5, <1>7, WorkerFacts, AdvanceOK
<1>9. \A x \in 1..Len(exceptions) : exceptions[x].run \in 1..Len(runs)
  BY InvParts DEF RowsIn
<1>10. Len(exceptions) <= Len(exceptions') /\ invoices' \in [Invoices -> InvoiceStatus]
  BY <1>2, LenProperties DEF TypeOK
<1>11. GrownIn(ledger, ledger', r, e)
  BY <1>1, <1>2, <1>4, InvParts, AppendGrows
<1> QED
  BY <1>1, <1>3, <1>8, <1>9, <1>10, <1>11, <1>2, RunStep

\* extract adds the extraction it has logged.
LEMMA ExtractOK ==
    ASSUME SystemInv, NEW w \in Workers, Extract(w), UNCHANGED <<decisions, requests>>
    PROVE  SystemInv'
<1> DEFINE st == exec[w].st
           st2 == [st EXCEPT !.extraction = TRUE]
           e == Ev("extract.completed")
<1>1. /\ exec[w].pc = "node" /\ exec[w].node = "extract"
      /\ LedgerAppend(st.run, e) /\ Advance(w, st2)
      /\ UNCHANGED <<invoices, runs, exceptions, dlq, readModel, embeddings,
                     checkpoint, bounds>>
  BY DEF Extract, LogOnly, At
<1>2. st2 \in GraphState
  BY WorkerFacts DEF GraphState
<1>5. e \in Event /\ e # Ev("invoice.auto_approved")
  BY EventFacts DEF EventNames
<1>3. StateIn(runs, ledger', exec[w].inv, st) /\ LoggedIn(ledger', st.run, e)
      => StateIn(runs, ledger', exec[w].inv, st2)
  BY <1>1, WorkerRun, WorkerFacts, ZenonT(40) DEF StateIn, BackedIn, GraphState
<1>4. Ready(NextNode("extract", st2), st2)
  BY <1>1, WorkerRun, WorkerFacts DEF Ready, NextNode, GraphState, Nodes
<1> HIDE DEF st2, e
<1> QED
  BY <1>1, <1>2, <1>3, <1>4, <1>5, LogNode

\* validate adds the findings it has logged, and routes on them.
LEMMA ValidateOK ==
    ASSUME SystemInv, NEW w \in Workers, Validate(w), UNCHANGED <<decisions, requests>>
    PROVE  SystemInv'
<1>1. PICK v \in {"ok", "ERROR"} :
          LogOnly(w, "validate", <<"validate.completed", v>>, [exec[w].st EXCEPT !.validation = v])
  BY DEF Validate
<1> DEFINE st == exec[w].st
           st2 == [st EXCEPT !.validation = v]
           e == <<"validate.completed", v>>
<1>2. /\ exec[w].pc = "node" /\ exec[w].node = "validate"
      /\ LedgerAppend(st.run, e) /\ Advance(w, st2)
      /\ UNCHANGED <<invoices, runs, exceptions, dlq, readModel, embeddings,
                     checkpoint, bounds>>
  BY <1>1 DEF LogOnly, At
<1>3. st2 \in GraphState
  BY WorkerFacts DEF GraphState
<1>4. e \in Event /\ e # Ev("invoice.auto_approved")
  BY EventFacts DEF EventNames, Outcomes
<1>5. StateIn(runs, ledger', exec[w].inv, st) /\ LoggedIn(ledger', st.run, e)
      => StateIn(runs, ledger', exec[w].inv, st2)
  BY <1>2, WorkerRun, WorkerFacts, ZenonT(40) DEF StateIn, BackedIn, GraphState
<1>6. Ready(NextNode("validate", st2), st2)
  <2>1. Ready("validate", st) /\ st \in GraphState
    BY <1>2, WorkerRun, WorkerFacts
  <2> QED
    BY <2>1 DEF Ready, NextNode, GraphState, Nodes, HasFindings, route_after_validate
<1> HIDE DEF st2, e
<1> QED
  BY <1>2, <1>3, <1>4, <1>5, <1>6, LogNode

\* match3way adds the outcome it has logged, and routes on it.
LEMMA Match3wayOK ==
    ASSUME SystemInv, NEW w \in Workers, Match3way(w), UNCHANGED <<decisions, requests>>
    PROVE  SystemInv'
<1>1. PICK v \in {"MATCH", "MISMATCH"} :
          SecondLog(w, "match3way", <<"match.completed", v>>, [exec[w].st EXCEPT !.match = v])
  BY DEF Match3way
<1> DEFINE st == exec[w].st
           st2 == [st EXCEPT !.match = v]
           e == <<"match.completed", v>>
<1>2. /\ exec[w].pc = "second" /\ exec[w].node = "match3way"
      /\ LedgerAppend(st.run, e) /\ Advance(w, st2)
      /\ UNCHANGED <<invoices, runs, exceptions, dlq, readModel, embeddings,
                     checkpoint, bounds>>
  BY <1>1 DEF SecondLog, At
<1>3. st2 \in GraphState
  BY WorkerFacts DEF GraphState
<1>4. e \in Event /\ e # Ev("invoice.auto_approved")
  BY EventFacts DEF EventNames, Outcomes
<1>5. StateIn(runs, ledger', exec[w].inv, st) /\ LoggedIn(ledger', st.run, e)
      => StateIn(runs, ledger', exec[w].inv, st2)
  BY <1>2, WorkerRun, WorkerFacts, ZenonT(40) DEF StateIn, BackedIn, GraphState
<1>6. Ready(NextNode("match3way", st2), st2)
  <2>1. Ready("match3way", st) /\ st \in GraphState
    BY <1>2, WorkerRun, WorkerFacts
  <2> QED
    BY <2>1 DEF Ready, NextNode, GraphState, Nodes, HasFindings, route_after_match
<1> HIDE DEF st2, e
<1> QED
  BY <1>2, <1>3, <1>4, <1>5, <1>6, LogNode

\* policy adds the findings it has logged, and routes on them.
LEMMA PolicyOK ==
    ASSUME SystemInv, NEW w \in Workers, Policy(w), UNCHANGED <<decisions, requests>>
    PROVE  SystemInv'
<1>1. PICK v \in {"clear", "HIGH"} :
          SecondLog(w, "policy", <<"policy.evaluated", v>>, [exec[w].st EXCEPT !.policy = v])
  BY DEF Policy
<1> DEFINE st == exec[w].st
           st2 == [st EXCEPT !.policy = v]
           e == <<"policy.evaluated", v>>
<1>2. /\ exec[w].pc = "second" /\ exec[w].node = "policy"
      /\ LedgerAppend(st.run, e) /\ Advance(w, st2)
      /\ UNCHANGED <<invoices, runs, exceptions, dlq, readModel, embeddings,
                     checkpoint, bounds>>
  BY <1>1 DEF SecondLog, At
<1>3. st2 \in GraphState
  BY WorkerFacts DEF GraphState
<1>4. e \in Event /\ e # Ev("invoice.auto_approved")
  BY EventFacts DEF EventNames, Outcomes
<1>5. StateIn(runs, ledger', exec[w].inv, st) /\ LoggedIn(ledger', st.run, e)
      => StateIn(runs, ledger', exec[w].inv, st2)
  BY <1>2, WorkerRun, WorkerFacts, ZenonT(40) DEF StateIn, BackedIn, GraphState
<1>6. Ready(NextNode("policy", st2), st2)
  <2>1. Ready("policy", st) /\ st \in GraphState
    BY <1>2, WorkerRun, WorkerFacts
  <2> QED
    BY <2>1 DEF Ready, NextNode, GraphState, Nodes, HasFindings, route_after_policy
<1> HIDE DEF st2, e
<1> QED
  BY <1>2, <1>3, <1>4, <1>5, <1>6, LogNode

\* gate adds the decision it has logged, and routes on it.
LEMMA GateOK ==
    ASSUME SystemInv, NEW w \in Workers, Gate(w), UNCHANGED <<decisions, requests>>
    PROVE  SystemInv'
<1>1. PICK v \in {"AUTO", "EXCEPTION"} :
          LogOnly(w, "gate", <<"gate.decided", v>>, [exec[w].st EXCEPT !.gate = v])
  BY DEF Gate
<1> DEFINE st == exec[w].st
           st2 == [st EXCEPT !.gate = v]
           e == <<"gate.decided", v>>
<1>2. /\ exec[w].pc = "node" /\ exec[w].node = "gate"
      /\ LedgerAppend(st.run, e) /\ Advance(w, st2)
      /\ UNCHANGED <<invoices, runs, exceptions, dlq, readModel, embeddings,
                     checkpoint, bounds>>
  BY <1>1 DEF LogOnly, At
<1>3. st2 \in GraphState
  BY WorkerFacts DEF GraphState
<1>4. e \in Event /\ e # Ev("invoice.auto_approved")
  BY EventFacts DEF EventNames, Outcomes
<1>5. StateIn(runs, ledger', exec[w].inv, st) /\ LoggedIn(ledger', st.run, e)
      => StateIn(runs, ledger', exec[w].inv, st2)
  BY <1>2, WorkerRun, WorkerFacts, ZenonT(40) DEF StateIn, BackedIn, GraphState
<1>6. Ready(NextNode("gate", st2), st2)
  <2>1. Ready("gate", st) /\ st \in GraphState
    BY <1>2, WorkerRun, WorkerFacts
  <2> QED
    BY <2>1 DEF Ready, NextNode, GraphState, Nodes, HasFindings, route_after_gate
<1> HIDE DEF st2, e
<1> QED
  BY <1>2, <1>3, <1>4, <1>5, <1>6, LogNode

\* human_review logs and changes nothing.
LEMMA HumanReviewOK ==
    ASSUME SystemInv, NEW w \in Workers, HumanReview(w), UNCHANGED <<decisions, requests>>
    PROVE  SystemInv'
<1> DEFINE st == exec[w].st
           e == <<"human_review.completed",
                  IF st.decision = NoDecision THEN "undecided" ELSE "decided">>
<1>1. /\ exec[w].pc = "node" /\ exec[w].node = "human_review"
      /\ LedgerAppend(st.run, e) /\ Advance(w, st)
      /\ UNCHANGED <<invoices, runs, exceptions, dlq, readModel, embeddings,
                     checkpoint, bounds>>
  BY DEF HumanReview, LogOnly, At
<1>2. e \in Event /\ e # Ev("invoice.auto_approved")
  BY EventFacts DEF EventNames, Outcomes
<1>3. Ready(NextNode("human_review", st), st)
  BY <1>1, WorkerRun DEF Ready, NextNode, Nodes
<1> HIDE DEF e
<1> QED
  BY <1>1, <1>2, <1>3, WorkerFacts, LogNode

\* The first transactions of match3way and policy touch no row the invariant reads.
LEMMA FirstTransactionOK ==
    ASSUME SystemInv, NEW w \in Workers, Backfill(w) \/ Embed(w),
           UNCHANGED <<decisions, requests>>
    PROVE  SystemInv'
<1> DEFINE E == [exec[w] EXCEPT !.pc = "second"]
<1>1. /\ exec[w].pc = "node" /\ exec' = [exec EXCEPT ![w] = E]
      /\ UNCHANGED <<invoices, runs, exceptions, dlq, ledger, checkpoint, bounds>>
      /\ readModel' \subseteq readModel \cup {exec[w].inv}
      /\ embeddings' \subseteq embeddings \cup {exec[w].inv}
  BY DEF Backfill, Embed, At
<1>2. exec[w].inv \in Invoices
  BY <1>1, WorkerFacts DEF ExecIn
<1>3. E \in Execs /\ ExecIn(runs, ledger, dlq, E)
  BY <1>1, WorkerFacts DEF Execs, PCs, ExecIn
<1>4. readModel' \subseteq Invoices /\ embeddings' \subseteq Invoices
  BY <1>1, <1>2, WorkerFacts
<1> QED
  BY <1>1, <1>3, <1>4, WorkerFacts, QuietWorker DEF bounds

\* A node whose transaction also rewrites its run's row.
LEMMA RowNode ==
    ASSUME SystemInv, NEW w \in Workers, exec[w].pc \in {"node", "second"},
           exec[w].node # "ingest",
           NEW e, GrownIn(ledger, ledger', exec[w].st.run, e),
           NEW row \in RunRow, runs' = Updated(runs, exec[w].st.run, row),
           row.inv = runs[exec[w].st.run].inv, row.status # "REJECTED",
           row.status = "FAILED" => runs[exec[w].st.run].status = "FAILED",
           invoices' \in [Invoices -> InvoiceStatus],
           \A i \in Invoices : invoices[i] # "ABSENT" => invoices'[i] # "ABSENT",
           exceptions' \in Seq(ExceptionRow), Len(exceptions) <= Len(exceptions'),
           \A x \in 1..Len(exceptions') : exceptions'[x].run \in 1..Len(runs),
           NEW st \in GraphState, Advance(w, st),
           UNCHANGED <<dlq, readModel, embeddings, checkpoint, bounds, decisions, requests>>,
           /\ StateIn(runs', ledger', exec[w].inv, exec[w].st)
           /\ LoggedIn(ledger', exec[w].st.run, e)
           => StateIn(runs', ledger', exec[w].inv, st),
           Ready(NextNode(exec[w].node, st), st)
    PROVE  SystemInv'
<1> DEFINE r == exec[w].st.run
<1>1. /\ r \in 1..Len(runs) /\ runs[r].status # "REJECTED"
      /\ StateIn(runs, ledger, exec[w].inv, exec[w].st)
      /\ exec[w].inv \in Invoices /\ exec[w].node \in Nodes
  BY WorkerRun
<1>2. /\ runs \in Seq(RunRow) /\ ledger \in Seq(Seq(Event)) /\ Len(ledger) = Len(runs)
  BY DEF SystemInv, TypeOK
<1>3. runs' \in Seq(RunRow) /\ RunsKept(runs, runs')
  BY <1>1, <1>2, InvParts, RunsUpdate
<1>5. /\ ledger' \in Seq(Seq(Event)) /\ LedgerKept(ledger, ledger')
      /\ LoggedIn(ledger', r, e)
  BY DEF GrownIn
<1>6. StateIn(runs', ledger', exec[w].inv, exec[w].st)
  BY <1>1, <1>2, <1>3, <1>5, WorkerFacts, StateKept
<1>7. PICK E \in Execs : exec' = [exec EXCEPT ![w] = E] /\ ExecIn(runs', ledger', dlq, E)
  BY <1>1, <1>5, <1>6, WorkerFacts, AdvanceOK
<1> QED
  BY <1>1, <1>7, RunStep

\* auto_approve is reached with everything logged that justifies it.
LEMMA AutoApproveOK ==
    ASSUME SystemInv, NEW w \in Workers, AutoApprove(w), UNCHANGED <<decisions, requests>>
    PROVE  SystemInv'
<1> DEFINE st == exec[w].st
           st2 == [st EXCEPT !.route = "AUTO"]
           r == st.run
           e == Ev("invoice.auto_approved")
           row == [runs[r] EXCEPT !.route = "AUTO"]
<1>1. /\ exec[w].pc = "node" /\ exec[w].node = "auto_approve"
      /\ invoices' = [invoices EXCEPT ![exec[w].inv] = "AUTO_APPROVED"]
      /\ runs' = Updated(runs, r, row)
      /\ LedgerAppend(r, e) /\ Advance(w, st2)
      /\ UNCHANGED <<exceptions, dlq, readModel, embeddings, checkpoint, bounds>>
  BY DEF AutoApprove, At, Updated
<1>2. /\ r \in 1..Len(runs) /\ r # NoRun /\ runs[r].status # "REJECTED"
      /\ Ready("auto_approve", st) /\ StateIn(runs, ledger, exec[w].inv, st)
      /\ exec[w].inv \in Invoices /\ st \in GraphState
  BY <1>1, WorkerRun, WorkerFacts
<1>3. /\ LoggedIn(ledger, r, <<"validate.completed", "ok">>)
      /\ LoggedIn(ledger, r, <<"match.completed", "MATCH">>)
      /\ LoggedIn(ledger, r, <<"policy.evaluated", "clear">>)
      /\ LoggedIn(ledger, r, <<"gate.decided", "AUTO">>)
  BY <1>2 DEF Ready, StateIn, BackedIn
<1>4. /\ row \in RunRow /\ row.inv = runs[r].inv /\ row.status = runs[r].status
  <2>1. runs[r] \in RunRow
    BY <1>2, ElementOfSeq DEF SystemInv, TypeOK
  <2> QED
    BY <2>1 DEF RunRow, Routes
<1>5. /\ invoices' \in [Invoices -> InvoiceStatus]
      /\ \A i \in Invoices : invoices[i] # "ABSENT" => invoices'[i] # "ABSENT"
  BY <1>1, <1>2 DEF SystemInv, TypeOK, InvoiceStatus
<1>6. /\ exceptions' \in Seq(ExceptionRow) /\ Len(exceptions) <= Len(exceptions')
      /\ \A x \in 1..Len(exceptions') : exceptions'[x].run \in 1..Len(runs)
  BY <1>1, InvParts, LenProperties DEF TypeOK, RowsIn
<1>7. st2 \in GraphState
  BY <1>2 DEF GraphState
<1>8. e \in Event
  BY EventFacts DEF EventNames
<1>9. StateIn(runs', ledger', exec[w].inv, st) /\ LoggedIn(ledger', r, e)
      => StateIn(runs', ledger', exec[w].inv, st2)
  BY <1>2 DEF StateIn, BackedIn, GraphState
<1>10. Ready(NextNode("auto_approve", st2), st2)
  BY <1>2 DEF Ready, NextNode, GraphState, Nodes
<1> HIDE DEF st2, e, row
<1>11. GrownIn(ledger, ledger', r, e)
  <2>1. /\ ledger \in Seq(Seq(Event)) /\ r \in 1..Len(ledger) /\ JustifiedIn(ledger)
        /\ ledger' = Appended(ledger, r, e)
    BY <1>1, <1>2, InvParts DEF SystemInv, TypeOK, LedgerAppend, Appended
  <2> QED
    BY <1>3, <1>8, <2>1, AppendGrows
<1> QED
  BY <1>1, <1>2, <1>4, <1>5, <1>6, <1>7, <1>9, <1>10, <1>11, RowNode

\* exception_triage opens an exception of the worker's run.
LEMMA ExceptionTriageOK ==
    ASSUME SystemInv, NEW w \in Workers, ExceptionTriage(w), UNCHANGED <<decisions, requests>>
    PROVE  SystemInv'
<1> DEFINE st == exec[w].st
           st2 == [st EXCEPT !.route = "EXCEPTION"]
           r == st.run
           i == exec[w].inv
           e == Ev("exception.opened")
           row == [runs[r] EXCEPT !.route = "EXCEPTION", !.status = "AWAITING_DECISION"]
           x == [inv |-> i, run |-> r, status |-> "OPEN", assignee |-> NoUser]
<1>1. /\ exec[w].pc = "node" /\ exec[w].node = "exception_triage"
      /\ exceptions' = Append(exceptions, x)
      /\ invoices' = [invoices EXCEPT ![i] = "EXCEPTION"]
      /\ LedgerAppend(r, e) \/ LedgerAppendBoth(r, e, Ev("triage.completed"))
      /\ Advance(w, st2)
      /\ UNCHANGED <<dlq, readModel, embeddings, checkpoint, bounds>>
  BY DEF ExceptionTriage, At
<1>2. /\ r \in 1..Len(runs) /\ r # NoRun /\ runs[r].status # "REJECTED"
      /\ StateIn(runs, ledger, i, st) /\ i \in Invoices /\ st \in GraphState
      /\ runs \in Seq(RunRow) /\ runs[r] \in RunRow
  <2>1. /\ r \in 1..Len(runs) /\ r # NoRun /\ runs[r].status # "REJECTED"
        /\ StateIn(runs, ledger, i, st) /\ i \in Invoices /\ st \in GraphState
    BY <1>1, WorkerRun, WorkerFacts
  <2> QED
    BY <2>1, ElementOfSeq DEF SystemInv, TypeOK
<1>3. runs' = Updated(runs, r, row)
  BY <1>2 DEF ExceptionTriage, Updated
<1>4. row \in RunRow /\ row.inv = runs[r].inv /\ row.status = "AWAITING_DECISION"
  BY <1>2 DEF RunRow, Routes, RunStatus
<1>5. /\ invoices' \in [Invoices -> InvoiceStatus]
      /\ \A j \in Invoices : invoices[j] # "ABSENT" => invoices'[j] # "ABSENT"
  BY <1>1, <1>2 DEF SystemInv, TypeOK, InvoiceStatus
<1>6. /\ exceptions' \in Seq(ExceptionRow) /\ Len(exceptions) <= Len(exceptions')
      /\ \A y \in 1..Len(exceptions') : exceptions'[y].run \in 1..Len(runs)
  <2>1. x \in ExceptionRow
    BY <1>2 DEF ExceptionRow, GraphState, Assignees
  <2>2. exceptions \in Seq(ExceptionRow)
    BY DEF SystemInv, TypeOK
  <2>3. \A y \in 1..Len(exceptions) : exceptions[y].run \in 1..Len(runs)
    BY InvParts DEF RowsIn
  <2>4. /\ exceptions' \in Seq(ExceptionRow) /\ Len(exceptions') = Len(exceptions) + 1
        /\ \A y \in 1..Len(exceptions) : exceptions'[y] = exceptions[y]
        /\ exceptions'[Len(exceptions) + 1] = x
    BY <1>1, <2>1, <2>2, AppendProperties
  <2>5. Len(exceptions) \in Nat
    BY <2>2, LenProperties
  <2> QED
    BY <1>2, <2>3, <2>4, <2>5
<1>7. st2 \in GraphState
  BY <1>2 DEF GraphState
<1>8. GrownIn(ledger, ledger', r, e)
  <2> DEFINE f == Ev("triage.completed")
  <2>1. /\ e \in Event /\ e # Ev("invoice.auto_approved")
        /\ f \in Event /\ f # Ev("invoice.auto_approved")
    BY EventFacts DEF EventNames
  <2>2. ledger \in Seq(Seq(Event)) /\ r \in 1..Len(ledger) /\ JustifiedIn(ledger)
    BY <1>2, InvParts DEF SystemInv, TypeOK
  <2>3. \/ ledger' = Appended(ledger, r, e)
        \/ ledger' = [ledger EXCEPT ![r] = Append(Append(@, e), f)]
    BY <1>1 DEF LedgerAppend, LedgerAppendBoth, Appended
  <2> HIDE DEF e, f
  <2> QED
    BY <2>1, <2>2, <2>3, AppendGrows, AppendBothGrows
<1>9. StateIn(runs', ledger', i, st) /\ LoggedIn(ledger', r, e)
      => StateIn(runs', ledger', i, st2)
  BY <1>2 DEF StateIn, BackedIn, GraphState
<1>10. Ready(NextNode("exception_triage", st2), st2)
  BY <1>2 DEF Ready, NextNode, GraphState, Nodes
<1> HIDE DEF st2, e, row, x
<1> QED
  BY <1>1, <1>2, <1>3, <1>4, <1>5, <1>6, <1>7, <1>8, <1>9, <1>10, RowNode

\* archive completes the worker's run.
LEMMA ArchiveOK ==
    ASSUME SystemInv, NEW w \in Workers, Archive(w), UNCHANGED <<decisions, requests>>
    PROVE  SystemInv'
<1> DEFINE st == exec[w].st
           r == st.run
           e == Ev("run.archived")
           route == IF st.route = "none" THEN runs[r].route ELSE st.route
           row == [runs[r] EXCEPT !.status = "COMPLETED", !.route = route]
<1>1. /\ exec[w].pc = "node" /\ exec[w].node = "archive"
      /\ LedgerAppend(r, e) /\ Advance(w, st)
      /\ UNCHANGED <<invoices, exceptions, dlq, readModel, embeddings, checkpoint, bounds>>
  BY DEF Archive, At
<1>2. /\ r \in 1..Len(runs) /\ runs[r].status # "REJECTED"
      /\ st \in GraphState /\ runs \in Seq(RunRow) /\ runs[r] \in RunRow
  <2>1. r \in 1..Len(runs) /\ runs[r].status # "REJECTED" /\ st \in GraphState
    BY <1>1, WorkerRun, WorkerFacts
  <2> QED
    BY <2>1, ElementOfSeq DEF SystemInv, TypeOK
<1>3. runs' = Updated(runs, r, row)
  BY <1>2 DEF Archive, Updated
<1>4. row \in RunRow /\ row.inv = runs[r].inv /\ row.status = "COMPLETED"
  <2>1. route \in Routes
    BY <1>2 DEF RunRow, Routes, GraphState
  <2> HIDE DEF route
  <2> QED
    BY <1>2, <2>1 DEF RunRow, RunStatus
<1>5. invoices' \in [Invoices -> InvoiceStatus]
  BY <1>1 DEF SystemInv, TypeOK
<1>6. /\ exceptions' \in Seq(ExceptionRow) /\ Len(exceptions) <= Len(exceptions')
      /\ \A x \in 1..Len(exceptions') : exceptions'[x].run \in 1..Len(runs)
  BY <1>1, InvParts, LenProperties DEF TypeOK, RowsIn
<1>7. e \in Event /\ e # Ev("invoice.auto_approved")
  BY EventFacts DEF EventNames
<1>8. Ready(NextNode("archive", st), st)
  BY DEF Ready, NextNode, Nodes
<1> HIDE DEF e, row
<1>9. GrownIn(ledger, ledger', r, e)
  <2>1. /\ ledger \in Seq(Seq(Event)) /\ r \in 1..Len(ledger) /\ JustifiedIn(ledger)
        /\ ledger' = Appended(ledger, r, e)
    BY <1>1, <1>2, InvParts DEF SystemInv, TypeOK, LedgerAppend, Appended
  <2> QED
    BY <1>7, <2>1, AppendGrows
<1> QED
  BY <1>1, <1>2, <1>3, <1>4, <1>5, <1>6, <1>8, <1>9, RowNode

\* The run the ingest node picks is the invoice's only live run, so a state
\* that already has a run keeps it.
LEMMA IngestOK ==
    ASSUME SystemInv, NEW w \in Workers, Ingest(w), UNCHANGED <<decisions, requests>>
    PROVE  SystemInv'
<1> DEFINE i == exec[w].inv
           st == exec[w].st
           e == Ev("run.started")
<1>1. PICK r \in IngestRuns(i) :
         /\ runs' = [runs EXCEPT ![r].status = "RUNNING"]
         /\ LedgerAppend(r, e) /\ Advance(w, [st EXCEPT !.run = r])
  BY DEF Ingest
<1> DEFINE st2 == [st EXCEPT !.run = r]
           row == [runs[r] EXCEPT !.status = "RUNNING"]
<1>2. /\ exec[w].pc = "node" /\ exec[w].node = "ingest"
      /\ UNCHANGED <<invoices, exceptions, dlq, readModel, embeddings, checkpoint, bounds>>
  BY DEF Ingest, At
<1>3. /\ r \in 1..Len(runs) /\ runs[r].inv = i
      /\ runs[r].status \in {"QUEUED", "RUNNING"}
  BY <1>1 DEF IngestRuns, RunsWith
<1>4. /\ runs \in Seq(RunRow) /\ ledger \in Seq(Seq(Event)) /\ Len(ledger) = Len(runs)
  BY DEF SystemInv, TypeOK
<1>5. /\ StateIn(runs, ledger, i, st) /\ i \in Invoices /\ st \in GraphState
      /\ exec[w].node \in Nodes /\ exec[w] \in Execs
  BY <1>2, WorkerFacts DEF ExecIn
<1>6. runs' = Updated(runs, r, row)
  BY <1>1 DEF Updated
<1>7. row \in RunRow /\ row.inv = runs[r].inv /\ row.status = "RUNNING"
  <2>1. runs[r] \in RunRow
    BY <1>3, <1>4, ElementOfSeq
  <2> QED
    BY <2>1 DEF RunRow, RunStatus
<1>8. e \in Event /\ e # Ev("invoice.auto_approved")
  BY EventFacts DEF EventNames
<1>9. runs' \in Seq(RunRow) /\ RunsKept(runs, runs') /\ Len(runs') = Len(runs) /\ runs'[r] = row
  <2> HIDE DEF row
  <2> QED
    BY <1>3, <1>4, <1>6, <1>7, InvParts, RunsUpdate
<1>10. ledger' = Appended(ledger, r, e)
  BY <1>1 DEF LedgerAppend, Appended
<1>11. /\ ledger' \in Seq(Seq(Event)) /\ LedgerKept(ledger, ledger')
       /\ LoggedIn(ledger', r, e)
  <2> HIDE DEF e
  <2> QED
    BY <1>3, <1>4, <1>8, <1>10, LedgerAppendLemma
<1>12. StateIn(runs', ledger', i, st)
  BY <1>4, <1>5, <1>9, <1>11, StateKept
<1>13. st2 \in GraphState /\ st2.run = r
  <2>1. r \in Nat
    BY <1>3
  <2> QED
    BY <1>5, <2>1 DEF GraphState
<1>14. StateIn(runs', ledger', i, st2)
  <2>1. CASE st.run = NoRun
    <3>1. /\ ~st.extraction /\ st.validation = "none" /\ st.match = "none"
          /\ st.policy = "none" /\ st.gate = "none" /\ st.route = "none"
      BY <1>5, <2>1 DEF StateIn
    <3>2. /\ ~st2.extraction /\ st2.validation = "none" /\ st2.match = "none"
          /\ st2.policy = "none" /\ st2.gate = "none" /\ st2.route = "none"
      BY <1>5, <3>1 DEF GraphState
    <3>3. BackedIn(runs', ledger', st2)
      BY <1>3, <1>9, <1>11, <1>13, <3>2 DEF BackedIn
    <3>4. r # NoRun
      BY <1>3 DEF NoRun
    <3> HIDE DEF st2
    <3> QED
      BY <1>3, <1>7, <1>9, <1>13, <3>3, <3>4 DEF StateIn
  <2>2. CASE st.run # NoRun
    <3>1. /\ st.run \in 1..Len(runs) /\ runs[st.run].inv = i
          /\ runs[st.run].status # "REJECTED"
      BY <1>5, <2>2 DEF StateIn
    <3>2. OneLiveIn(runs)
      BY InvParts
    <3>3. st.run = r
      BY <1>3, <3>1, <3>2 DEF OneLiveIn
    <3>4. st2 = st
      BY <1>5, <3>3 DEF GraphState
    <3> QED
      BY <1>12, <3>4
  <2> QED
    BY <2>1, <2>2
<1>15. Ready(NextNode("ingest", st2), st2)
  <2>1. st2.run # NoRun
    BY <1>3, <1>13 DEF NoRun
  <2> HIDE DEF st2
  <2> QED
    BY <2>1 DEF Ready, NextNode, Nodes
<1>16. PICK E \in Execs : exec' = [exec EXCEPT ![w] = E] /\ ExecIn(runs', ledger', dlq, E)
  <2> HIDE DEF st2
  <2>1. Advance(w, st2)
    BY <1>1 DEF st2
  <2> QED
    BY <1>2, <1>5, <1>13, <1>14, <1>15, <2>1, AdvanceOK
<1>17. /\ exceptions' \in Seq(ExceptionRow) /\ Len(exceptions) <= Len(exceptions')
       /\ \A x \in 1..Len(exceptions') : exceptions'[x].run \in 1..Len(runs)
       /\ invoices' \in [Invoices -> InvoiceStatus]
  BY <1>2, InvParts, LenProperties DEF TypeOK, RowsIn
<1> HIDE DEF e, row, st2
<1>18. GrownIn(ledger, ledger', r, e)
  BY <1>3, <1>4, <1>8, <1>10, InvParts, AppendGrows
<1> QED
  BY <1>2, <1>3, <1>6, <1>7, <1>16, <1>17, <1>18, RunStep

-----------------------------------------------------------------------------
(* The dead-letter queue *)

\* record_failure: the run of the checkpoint is a live run.
LEMMA RecordFailureOK ==
    ASSUME SystemInv, NEW w \in Workers, RecordFailure(w), UNCHANGED <<decisions, requests>>
    PROVE  SystemInv'
<1> DEFINE i == exec[w].inv
           e == Ev("run.failed")
<1>0. PICK r : r = SnapshotRun(w)
  OBVIOUS
<1> DEFINE d == [inv |-> i, run |-> r, status |-> "PENDING"]
           row == [runs[r] EXCEPT !.status = "FAILED"]
<1>1. /\ exec[w].pc = "raised" /\ r # NoRun
      /\ dlq' = Append(dlq, d) /\ LedgerAppend(r, e) /\ exec' = [exec EXCEPT ![w] = Idle]
      /\ UNCHANGED <<invoices, exceptions, readModel, embeddings, checkpoint, bounds>>
  BY <1>0 DEF RecordFailure
<1>2. /\ runs \in Seq(RunRow) /\ ledger \in Seq(Seq(Event)) /\ Len(ledger) = Len(runs)
      /\ dlq \in Seq(DLQRow) /\ exec \in [Workers -> Execs] /\ TypeOK
  BY DEF SystemInv, TypeOK
<1>3. i \in Invoices
  BY <1>1, WorkerFacts DEF ExecIn
<1>4. /\ StateIn(runs, ledger, i, checkpoint[i].st) /\ checkpoint[i].st \in GraphState
  BY <1>3, InvParts DEF CheckpointIn, TypeOK, Checkpoints
<1>5. /\ r \in 1..Len(runs) /\ runs[r].status # "REJECTED" /\ r \in Nat
  BY <1>0, <1>1, <1>4 DEF SnapshotRun, StateIn
<1>6. /\ runs' = Updated(runs, r, row)
  BY <1>0 DEF RecordFailure, Updated
<1>7. row \in RunRow /\ row.inv = runs[r].inv /\ row.status = "FAILED"
  <2>1. runs[r] \in RunRow
    BY <1>2, <1>5, ElementOfSeq
  <2> QED
    BY <2>1 DEF RunRow, RunStatus
<1> HIDE DEF row
<1>8. /\ runs' \in Seq(RunRow) /\ Len(runs') = Len(runs)
      /\ runs'[r] = row /\ \A s \in 1..Len(runs) : s # r => runs'[s] = runs[s]
      /\ RunsKept(runs, runs') /\ OneLiveIn(runs')
  <2>1. OneLiveIn(runs)
    BY InvParts
  <2>2. row.status # "REJECTED"
    BY <1>7
  <2> QED
    BY <1>2, <1>5, <1>6, <1>7, <2>1, <2>2, RunsUpdate, ZenonT(40)
<1>9. e \in Event /\ e # Ev("invoice.auto_approved")
  BY EventFacts DEF EventNames
<1>10. ledger' = Appended(ledger, r, e)
  BY <1>1 DEF LedgerAppend, Appended
<1> HIDE DEF e
<1>11. /\ ledger' \in Seq(Seq(Event)) /\ Len(ledger') = Len(ledger)
       /\ LedgerKept(ledger, ledger') /\ JustifiedIn(ledger')
  BY <1>2, <1>5, <1>9, <1>10, InvParts, LedgerAppendLemma, JustifiedKept
<1>12. d \in DLQRow /\ d.run = r /\ d.status = "PENDING"
  BY <1>3, <1>5 DEF DLQRow
<1> HIDE DEF d
<1>13. /\ dlq' \in Seq(DLQRow) /\ Len(dlq') = Len(dlq) + 1 /\ Len(dlq) \in Nat
       /\ \A k \in 1..Len(dlq) : dlq'[k] = dlq[k]
       /\ dlq'[Len(dlq) + 1] = d
  BY <1>1, <1>2, <1>12, AppendProperties, LenProperties
<1>14. ReplayableIn(runs', dlq')
  <2> SUFFICES ASSUME NEW s \in 1..Len(runs'), runs'[s].status = "FAILED"
               PROVE  \E k \in 1..Len(dlq') : dlq'[k].run = s /\ dlq'[k].status = "PENDING"
    BY DEF ReplayableIn
  <2>1. CASE s = r
    BY <1>12, <1>13, <2>1
  <2>2. CASE s # r
    BY <1>8, <1>13, <2>2, InvParts DEF ReplayableIn
  <2> QED
    BY <2>1, <2>2
<1>15. RowsIn(invoices', runs', exceptions', dlq')
  <2>1. \A s \in 1..Len(runs) : /\ runs[s] \in RunRow /\ runs'[s].inv = runs[s].inv
                                /\ runs'[s].status = "REJECTED" <=> runs[s].status = "REJECTED"
    BY <1>2, <1>8, ElementOfSeq DEF RunsKept
  <2>2. RowsIn(invoices, runs, exceptions, dlq)
    BY InvParts
  <2>3. \A s \in 1..Len(runs') : invoices'[runs'[s].inv] # "ABSENT"
    BY <1>1, <1>8, <2>1, <2>2 DEF RowsIn
  <2>4. \A k \in 1..Len(dlq') : dlq'[k].run \in 1..Len(runs')
                                /\ runs'[dlq'[k].run].status # "REJECTED"
    <3> SUFFICES ASSUME NEW k \in 1..Len(dlq')
                 PROVE  dlq'[k].run \in 1..Len(runs')
                        /\ runs'[dlq'[k].run].status # "REJECTED"
      OBVIOUS
    <3>1. CASE k = Len(dlq) + 1
      BY <1>5, <1>7, <1>8, <1>12, <1>13, <3>1
    <3>2. CASE k # Len(dlq) + 1
      BY <1>8, <1>13, <2>1, <2>2, <3>2 DEF RowsIn
    <3> QED
      BY <3>1, <3>2
  <2> QED
    BY <1>1, <1>8, <2>2, <2>3, <2>4 DEF RowsIn
<1>16. /\ exec' \in [Workers -> Execs]
       /\ \A v \in Workers : exec'[v] = exec[v] \/ ExecIn(runs', ledger', dlq', exec'[v])
  <2>1. Idle \in Execs /\ ExecIn(runs', ledger', dlq', Idle)
    BY IdleOK DEF ExecIn, Idle
  <2> QED
    BY <1>1, <1>2, <2>1
<1>17. TypeOK'
  BY <1>1, <1>2, <1>8, <1>11, <1>13, <1>16 DEF TypeOK, bounds
<1>18. Len(dlq) <= Len(dlq') /\ Len(exceptions) <= Len(exceptions')
  BY <1>1, <1>2, <1>13, LenProperties DEF TypeOK
<1> QED
  BY <1>1, <1>8, <1>11, <1>14, <1>15, <1>16, <1>17, <1>18, Glue

\* Rewriting an entry of the DLQ.
LEMMA DLQUpdate ==
    ASSUME NEW dq \in Seq(DLQRow), NEW d \in 1..Len(dq), NEW row \in DLQRow
    PROVE  /\ Updated(dq, d, row) \in Seq(DLQRow) /\ Len(Updated(dq, d, row)) = Len(dq)
           /\ Updated(dq, d, row)[d] = row
           /\ \A k \in 1..Len(dq) : k # d => Updated(dq, d, row)[k] = dq[k]
<1>1. \A k \in 1..Len(dq) : Updated(dq, d, row)[k] = IF k = d THEN row ELSE dq[k]
  BY SeqExcept
<1>2. Updated(dq, d, row) \in Seq(DLQRow) /\ Len(Updated(dq, d, row)) = Len(dq)
  BY SeqExcept
<1> QED
  BY <1>1, <1>2

\* replay: the claimed entry's run leaves FAILED together with it, and no other
\* run's PENDING entry is touched.
LEMMA ReplayClaimOK ==
    ASSUME SystemInv, NEW w \in Workers, ReplayClaim(w), UNCHANGED <<decisions, requests>>
    PROVE  SystemInv'
<1> DEFINE e == Ev("dlq.replayed")
<1>0. PICK d : d = exec[w].entry
  OBVIOUS
<1>1. PICK r : r = dlq[d].run
  OBVIOUS
<1> DEFINE row == [runs[r] EXCEPT !.status = "RUNNING"]
           claimed == [dlq[d] EXCEPT !.status = "REPLAYED"]
           E == Called(dlq[d].inv, 1)
<1>2. /\ exec[w].pc = "claim" /\ dlq' = Updated(dlq, d, claimed)
      /\ runs' = Updated(runs, r, row) /\ ledger' = Appended(ledger, r, e)
      /\ exec' = [exec EXCEPT ![w] = E]
      /\ UNCHANGED <<invoices, exceptions, readModel, embeddings, checkpoint, bounds>>
  BY <1>0, <1>1 DEF ReplayClaim, LedgerAppend, Appended, Updated
<1>3. /\ runs \in Seq(RunRow) /\ ledger \in Seq(Seq(Event)) /\ Len(ledger) = Len(runs)
      /\ dlq \in Seq(DLQRow) /\ exec \in [Workers -> Execs] /\ TypeOK
      /\ Len(dlq) \in Nat
  BY LenProperties DEF SystemInv, TypeOK
<1>4. RowsIn(invoices, runs, exceptions, dlq) /\ OneLiveIn(runs) /\ JustifiedIn(ledger)
      /\ ReplayableIn(runs, dlq)
  BY InvParts
<1>5. d \in 1..Len(dlq)
  BY <1>0, <1>2, WorkerFacts DEF ExecIn
<1>6. r \in 1..Len(runs) /\ runs[r].status # "REJECTED"
  BY <1>1, <1>4, <1>5 DEF RowsIn
<1>7. dlq[d] \in DLQRow /\ runs[r] \in RunRow
  BY <1>3, <1>5, <1>6, ElementOfSeq
<1>8. /\ row \in RunRow /\ row.inv = runs[r].inv /\ row.status = "RUNNING"
      /\ row.status # "REJECTED" /\ row.status # "FAILED"
  BY <1>7 DEF RunRow, RunStatus
<1>9. claimed \in DLQRow /\ claimed.run = r
  BY <1>1, <1>7 DEF DLQRow
<1>10. e \in Event /\ e # Ev("invoice.auto_approved")
  BY EventFacts DEF EventNames
<1>11. dlq[d].inv \in Invoices
  BY <1>7 DEF DLQRow
<1>12. E \in Execs /\ ExecIn(runs', ledger', dlq', E)
  BY <1>11, IdleOK DEF Called, Idle, Execs, PCs, ExecIn
<1> HIDE DEF row, claimed, e, E
<1>13. /\ runs' \in Seq(RunRow) /\ Len(runs') = Len(runs)
       /\ runs'[r] = row /\ \A s \in 1..Len(runs) : s # r => runs'[s] = runs[s]
       /\ RunsKept(runs, runs') /\ OneLiveIn(runs')
  BY <1>2, <1>3, <1>4, <1>6, <1>8, RunsUpdate, ZenonT(40)
<1>14. /\ dlq' \in Seq(DLQRow) /\ Len(dlq') = Len(dlq) /\ dlq'[d] = claimed
       /\ \A k \in 1..Len(dlq) : k # d => dlq'[k] = dlq[k]
  BY <1>2, <1>3, <1>5, <1>9, DLQUpdate
<1>15. /\ ledger' \in Seq(Seq(Event)) /\ Len(ledger') = Len(ledger)
       /\ LedgerKept(ledger, ledger') /\ JustifiedIn(ledger')
  BY <1>2, <1>3, <1>4, <1>6, <1>10, LedgerAppendLemma, JustifiedKept
<1>16. ReplayableIn(runs', dlq')
  <2> SUFFICES ASSUME NEW s \in 1..Len(runs'), runs'[s].status = "FAILED"
               PROVE  \E k \in 1..Len(dlq') : dlq'[k].run = s /\ dlq'[k].status = "PENDING"
    BY DEF ReplayableIn
  <2>1. s # r /\ s \in 1..Len(runs) /\ runs[s].status = "FAILED"
    BY <1>8, <1>13
  <2>2. PICK k \in 1..Len(dlq) : dlq[k].run = s /\ dlq[k].status = "PENDING"
    BY <1>4, <2>1 DEF ReplayableIn
  <2> QED
    BY <1>1, <1>14, <2>1, <2>2
<1>17. RowsIn(invoices', runs', exceptions', dlq')
  <2>1. \A s \in 1..Len(runs) : /\ runs'[s].inv = runs[s].inv
                                /\ runs'[s].status = "REJECTED" <=> runs[s].status = "REJECTED"
    BY <1>13 DEF RunsKept
  <2>2. \A k \in 1..Len(dlq') : dlq'[k].run = dlq[k].run
    BY <1>1, <1>9, <1>14
  <2>3. \A k \in 1..Len(dlq') : /\ dlq'[k].run \in 1..Len(runs')
                                /\ runs'[dlq'[k].run].status # "REJECTED"
    BY <1>4, <1>13, <1>14, <2>1, <2>2 DEF RowsIn
  <2>4. \A s \in 1..Len(runs') : invoices'[runs'[s].inv] # "ABSENT"
    BY <1>2, <1>4, <1>13, <2>1 DEF RowsIn
  <2>5. \A x \in 1..Len(exceptions') : exceptions'[x].run \in 1..Len(runs')
    BY <1>2, <1>4, <1>13 DEF RowsIn
  <2> QED
    BY <2>3, <2>4, <2>5 DEF RowsIn
<1>18. /\ exec' \in [Workers -> Execs]
       /\ \A v \in Workers : exec'[v] = exec[v] \/ ExecIn(runs', ledger', dlq', exec'[v])
  BY <1>2, <1>3, <1>12
<1>19. TypeOK'
  BY <1>2, <1>3, <1>13, <1>14, <1>15, <1>18 DEF TypeOK, bounds
<1>20. Len(dlq) <= Len(dlq') /\ Len(exceptions) <= Len(exceptions')
  BY <1>2, <1>3, <1>14, LenProperties DEF TypeOK
<1> QED
  BY <1>2, <1>13, <1>15, <1>16, <1>17, <1>18, <1>19, <1>20, Glue

-----------------------------------------------------------------------------
(* Ingest: a new run row *)

NoRunOf(rs, i) == \A s \in 1..Len(rs) : rs[s].inv # i

\* A run appended together with its first ledger entry.
LEMMA NewRun ==
    \A rs, lg, dq, row, e :
       /\ rs \in Seq(RunRow) /\ lg \in Seq(Seq(Event)) /\ row \in RunRow /\ e \in Event
       /\ Len(lg) = Len(rs)
       /\ e # Ev("invoice.auto_approved") /\ row.status # "FAILED"
       /\ OneLiveIn(rs) /\ JustifiedIn(lg) /\ ReplayableIn(rs, dq)
       /\ row.status = "REJECTED" \/ NoRunOf(rs, row.inv)
       => /\ Append(rs, row) \in Seq(RunRow) /\ Append(lg, <<e>>) \in Seq(Seq(Event))
          /\ Len(Append(rs, row)) = Len(rs) + 1 /\ Len(rs) \in Nat
          /\ Len(Append(lg, <<e>>)) = Len(Append(rs, row))
          /\ \A s \in 1..Len(rs) : Append(rs, row)[s] = rs[s]
          /\ Append(rs, row)[Len(rs) + 1] = row
          /\ RunsKept(rs, Append(rs, row)) /\ LedgerKept(lg, Append(lg, <<e>>))
          /\ OneLiveIn(Append(rs, row)) /\ JustifiedIn(Append(lg, <<e>>))
          /\ ReplayableIn(Append(rs, row), dq)
<1> TAKE rs, lg, dq, row, e
<1> HAVE /\ rs \in Seq(RunRow) /\ lg \in Seq(Seq(Event)) /\ row \in RunRow /\ e \in Event
         /\ Len(lg) = Len(rs)
         /\ e # Ev("invoice.auto_approved") /\ row.status # "FAILED"
         /\ OneLiveIn(rs) /\ JustifiedIn(lg) /\ ReplayableIn(rs, dq)
         /\ row.status = "REJECTED" \/ NoRunOf(rs, row.inv)
<1> DEFINE n == Len(rs)
           rs2 == Append(rs, row)
           l == <<e>>
           lg2 == Append(lg, l)
<1>1. l \in Seq(Event) /\ Len(l) = 1 /\ l[1] = e
  OBVIOUS
<1> HIDE DEF l
<1>2. /\ rs2 \in Seq(RunRow) /\ Len(rs2) = n + 1 /\ n \in Nat
      /\ rs2[n + 1] = row /\ \A s \in 1..n : rs2[s] = rs[s]
  BY AppendProperties, LenProperties
<1>3. /\ lg2 \in Seq(Seq(Event)) /\ Len(lg2) = n + 1
      /\ lg2[n + 1] = l /\ \A s \in 1..n : lg2[s] = lg[s]
  BY <1>1, AppendProperties
<1> HIDE DEF rs2, lg2
<1>4. RunsKept(rs, rs2)
  BY <1>2 DEF RunsKept
<1>5. \A s \in 1..n : Len(lg[s]) \in Nat
  BY ElementOfSeq, LenProperties
<1>6. LedgerKept(lg, lg2)
  BY <1>2, <1>3, <1>5 DEF LedgerKept
<1>7. OneLiveIn(rs2)
  <2> SUFFICES ASSUME NEW a \in 1..Len(rs2), NEW b \in 1..Len(rs2),
                      rs2[a].inv = rs2[b].inv,
                      rs2[a].status # "REJECTED", rs2[b].status # "REJECTED"
               PROVE  a = b
    BY DEF OneLiveIn
  <2>1. ASSUME NEW c \in 1..n, rs2[c].inv = row.inv, row.status # "REJECTED"
        PROVE  FALSE
    BY <1>2, <2>1 DEF NoRunOf
  <2>2. CASE a = n + 1 \/ b = n + 1
    BY <1>2, <2>1, <2>2
  <2>3. CASE a # n + 1 /\ b # n + 1
    <3>1. a \in 1..n /\ b \in 1..n /\ rs2[a] = rs[a] /\ rs2[b] = rs[b]
      BY <1>2, <2>3
    <3> QED
      BY <3>1 DEF OneLiveIn
  <2> QED
    BY <2>2, <2>3
<1>8. ReplayableIn(rs2, dq)
  <2> SUFFICES ASSUME NEW s \in 1..Len(rs2), rs2[s].status = "FAILED"
               PROVE  \E d \in 1..Len(dq) : dq[d].run = s /\ dq[d].status = "PENDING"
    BY DEF ReplayableIn
  <2>1. s \in 1..n /\ rs2[s] = rs[s]
    BY <1>2
  <2> QED
    BY <2>1 DEF ReplayableIn
<1>9. JustifiedIn(lg2)
  <2> SUFFICES ASSUME NEW s \in 1..Len(lg2), NEW k \in 1..Len(lg2[s]),
                      lg2[s][k] = Ev("invoice.auto_approved")
               PROVE  /\ BeforeIn(lg2, s, k, <<"validate.completed", "ok">>)
                      /\ BeforeIn(lg2, s, k, <<"match.completed", "MATCH">>)
                      /\ BeforeIn(lg2, s, k, <<"policy.evaluated", "clear">>)
                      /\ BeforeIn(lg2, s, k, <<"gate.decided", "AUTO">>)
    BY DEF JustifiedIn
  <2>1. s # n + 1
    BY <1>1, <1>3
  <2>2. s \in 1..n /\ lg2[s] = lg[s]
    BY <1>2, <1>3, <2>1
  <2>3. \A f : BeforeIn(lg, s, k, f) => BeforeIn(lg2, s, k, f)
    BY <2>2 DEF BeforeIn
  <2> QED
    BY <2>2, <2>3 DEF JustifiedIn
<1> QED
  BY <1>2, <1>3, <1>4, <1>6, <1>7, <1>8, <1>9 DEF rs2, lg2, l

\* The system's invariant after a run row was appended.
LEMMA CreateRunOK ==
    ASSUME SystemInv, NEW i \in Invoices, NEW status \in {"QUEUED", "REJECTED"},
           NEW route \in Routes, NEW e \in Event, e # Ev("invoice.auto_approved"),
           CreateRun(i, status, route, e),
           status = "REJECTED" \/ invoices[i] = "ABSENT",
           invoices' \in [Invoices -> InvoiceStatus], invoices'[i] # "ABSENT",
           \A j \in Invoices : invoices[j] # "ABSENT" => invoices'[j] # "ABSENT",
           exec' \in [Workers -> Execs],
           \A w \in Workers : exec'[w] = exec[w] \/ ExecIn(runs', ledger', dlq', exec'[w]),
           UNCHANGED <<exceptions, dlq, readModel, embeddings, checkpoint, bounds,
                       decisions, requests>>
    PROVE  SystemInv'
<1> DEFINE row == [inv |-> i, status |-> status, route |-> route]
<1>1. /\ runs \in Seq(RunRow) /\ ledger \in Seq(Seq(Event)) /\ Len(ledger) = Len(runs)
      /\ TypeOK
  BY DEF SystemInv, TypeOK
<1>2. RowsIn(invoices, runs, exceptions, dlq) /\ OneLiveIn(runs) /\ JustifiedIn(ledger)
      /\ ReplayableIn(runs, dlq)
  BY InvParts
<1>3. /\ row \in RunRow /\ row.inv = i /\ row.status = status /\ row.status # "FAILED"
  BY DEF RunRow, RunStatus
<1>4. row.status = "REJECTED" \/ NoRunOf(runs, row.inv)
  BY <1>2, <1>3 DEF RowsIn, NoRunOf
<1>5. runs' = Append(runs, row) /\ ledger' = Append(ledger, <<e>>)
  BY DEF CreateRun
<1> HIDE DEF row
<1>6. /\ runs' \in Seq(RunRow) /\ ledger' \in Seq(Seq(Event))
      /\ Len(runs') = Len(runs) + 1 /\ Len(runs) \in Nat /\ Len(ledger') = Len(runs')
      /\ \A s \in 1..Len(runs) : runs'[s] = runs[s]
      /\ runs'[Len(runs) + 1] = row
      /\ RunsKept(runs, runs') /\ LedgerKept(ledger, ledger')
      /\ OneLiveIn(runs') /\ JustifiedIn(ledger') /\ ReplayableIn(runs', dlq)
  <2>1. /\ Append(runs, row) \in Seq(RunRow) /\ Append(ledger, <<e>>) \in Seq(Seq(Event))
        /\ Len(Append(runs, row)) = Len(runs) + 1 /\ Len(runs) \in Nat
        /\ Len(Append(ledger, <<e>>)) = Len(Append(runs, row))
        /\ \A s \in 1..Len(runs) : Append(runs, row)[s] = runs[s]
        /\ Append(runs, row)[Len(runs) + 1] = row
        /\ RunsKept(runs, Append(runs, row)) /\ LedgerKept(ledger, Append(ledger, <<e>>))
        /\ OneLiveIn(Append(runs, row)) /\ JustifiedIn(Append(ledger, <<e>>))
        /\ ReplayableIn(Append(runs, row), dlq)
    BY <1>1, <1>2, <1>3, <1>4, NewRun
  <2> QED
    BY <1>5, <2>1
<1>7. RowsIn(invoices', runs', exceptions', dlq')
  <2>1. \A s \in 1..Len(runs) : runs[s] \in RunRow /\ runs[s].inv \in Invoices
    <3>1. \A s \in 1..Len(runs) : runs[s] \in RunRow
      BY <1>1, ElementOfSeq
    <3> QED
      BY <3>1 DEF RunRow
  <2>2. \A s \in 1..Len(runs) : invoices'[runs'[s].inv] # "ABSENT"
    BY <1>2, <1>6, <2>1 DEF RowsIn
  <2>3. invoices'[runs'[Len(runs) + 1].inv] # "ABSENT"
    BY <1>3, <1>6
  <2>4. \A s \in 1..Len(runs') : invoices'[runs'[s].inv] # "ABSENT"
    BY <1>6, <2>2, <2>3
  <2>5. \A s \in 1..Len(runs) : s \in 1..Len(runs') /\ runs'[s] = runs[s]
    BY <1>6
  <2>6. /\ \A d \in 1..Len(dlq') : /\ dlq'[d].run \in 1..Len(runs')
                                  /\ runs'[dlq'[d].run].status # "REJECTED"
        /\ \A x \in 1..Len(exceptions') : exceptions'[x].run \in 1..Len(runs')
    BY <1>2, <2>5 DEF RowsIn
  <2> QED
    BY <2>4, <2>6 DEF RowsIn
<1>8. TypeOK'
  BY <1>1, <1>6 DEF TypeOK, bounds
<1>9. Len(dlq) <= Len(dlq') /\ Len(exceptions) <= Len(exceptions')
  BY <1>1, LenProperties DEF TypeOK
<1> QED
  BY <1>6, <1>7, <1>8, <1>9, Glue

\* A new document: its invoice was ABSENT, so no run row refers to it.
LEMMA AcceptOK ==
    ASSUME SystemInv, NEW w \in Workers, NEW i \in Invoices, Accept(w, i),
           UNCHANGED <<decisions, requests>>
    PROVE  SystemInv'
<1>1. /\ invoices[i] = "ABSENT" /\ invoices' = [invoices EXCEPT ![i] = "RECEIVED"]
      /\ CreateRun(i, "QUEUED", "none", Ev("ingest.accepted"))
      /\ exec' = [exec EXCEPT ![w] = Called(i, RetryAttempts)]
      /\ UNCHANGED <<exceptions, dlq, readModel, embeddings, checkpoint, bounds>>
  BY DEF Accept
<1>2. /\ invoices \in [Invoices -> InvoiceStatus] /\ exec \in [Workers -> Execs]
  BY DEF SystemInv, TypeOK
<1>3. /\ invoices' \in [Invoices -> InvoiceStatus] /\ invoices'[i] # "ABSENT"
      /\ \A j \in Invoices : invoices[j] # "ABSENT" => invoices'[j] # "ABSENT"
  BY <1>1, <1>2 DEF InvoiceStatus
<1>4. /\ Called(i, RetryAttempts) \in Execs
      /\ ExecIn(runs', ledger', dlq', Called(i, RetryAttempts))
  BY IdleOK, PipelineAssumption DEF Called, Idle, Execs, PCs, ExecIn
<1>5. /\ exec' \in [Workers -> Execs]
      /\ \A v \in Workers : exec'[v] = exec[v] \/ ExecIn(runs', ledger', dlq', exec'[v])
  BY <1>1, <1>2, <1>4
<1>6. /\ Ev("ingest.accepted") \in Event
      /\ Ev("ingest.accepted") # Ev("invoice.auto_approved")
  BY EventFacts DEF EventNames
<1>7. "none" \in Routes
  BY DEF Routes
<1> QED
  BY <1>1, <1>3, <1>5, <1>6, <1>7, CreateRunOK

\* The same bytes again: the new row is born REJECTED.
LEMMA DuplicateOK ==
    ASSUME SystemInv, NEW i \in Invoices, Duplicate(i), UNCHANGED <<decisions, requests>>
    PROVE  SystemInv'
<1>1. /\ invoices[i] # "ABSENT"
      /\ CreateRun(i, "REJECTED", "REJECT", Ev("ingest.duplicate"))
      /\ UNCHANGED <<invoices, exceptions, dlq, readModel, embeddings, checkpoint, exec,
                     bounds>>
  BY DEF Duplicate
<1>2. invoices' \in [Invoices -> InvoiceStatus] /\ exec' \in [Workers -> Execs]
  BY <1>1 DEF SystemInv, TypeOK
<1>3. /\ Ev("ingest.duplicate") \in Event
      /\ Ev("ingest.duplicate") # Ev("invoice.auto_approved")
  BY EventFacts DEF EventNames
<1>4. "REJECT" \in Routes
  BY DEF Routes
<1> QED
  BY <1>1, <1>2, <1>3, <1>4, CreateRunOK

-----------------------------------------------------------------------------
(* The decision service *)

\* A step that only moves one request on.
LEMMA RequestOnly ==
    ASSUME SystemInv, NEW q \in Requests, NEW R \in RequestState,
           requests' = [requests EXCEPT ![q] = R], RequestIn(exceptions, R),
           UNCHANGED <<tables, checkpoint, exec, reruns, decisions>>, faults' \in Nat
    PROVE  SystemInv'
<1>1. TypeOK /\ requests \in [Requests -> RequestState]
  BY DEF SystemInv, TypeOK
<1>2. /\ requests' \in [Requests -> RequestState]
      /\ \A p \in Requests : requests'[p] = requests[p] \/ RequestIn(exceptions, requests'[p])
  BY <1>1
<1>3. TypeOK'
  BY <1>1, <1>2 DEF TypeOK, tables
<1>4. UNCHANGED <<invoices, runs, exceptions, dlq, ledger>>
  BY DEF tables
<1> QED
  BY <1>2, <1>3, <1>4, Quiet

\* A finished request says nothing about the exceptions.
LEMMA DoneOK ==
    ASSUME NEW q \in Requests, Done(q)
    PROVE  \E R \in RequestState : /\ requests' = [requests EXCEPT ![q] = R]
                                   /\ \A xs : RequestIn(xs, R)
<1> DEFINE R == [NewRequest EXCEPT !.pc = "done"]
<1>1. R \in RequestState /\ R.pc = "done"
  BY DEF NewRequest, RequestState, NoDecision
<1>2. \A xs : RequestIn(xs, R)
  BY <1>1 DEF RequestIn
<1>3. requests' = [requests EXCEPT ![q] = R]
  BY DEF Done
<1> QED
  BY <1>1, <1>2, <1>3

\* What the invariant says of a request in flight.
LEMMA RequestFacts ==
    ASSUME SystemInv, NEW q \in Requests, requests[q].pc \in {"claim", "commit", "resume"}
    PROVE  /\ requests[q] \in RequestState /\ requests[q].exc \in 1..Len(exceptions)
           /\ requests[q].user \in Users /\ requests[q].action \in Actions
           /\ exceptions \in Seq(ExceptionRow)
           /\ exceptions[requests[q].exc] \in ExceptionRow
           /\ exceptions[requests[q].exc].run \in 1..Len(runs)
<1>1. RequestIn(exceptions, requests[q]) /\ RowsIn(invoices, runs, exceptions, dlq)
  BY InvParts
<1>2. requests[q] \in RequestState /\ exceptions \in Seq(ExceptionRow)
  BY DEF SystemInv, TypeOK
<1>3. requests[q].exc \in 1..Len(exceptions)
  BY <1>1 DEF RequestIn
<1>4. exceptions[requests[q].exc] \in ExceptionRow
  BY <1>2, <1>3, ElementOfSeq
<1> QED
  BY <1>1, <1>2, <1>3, <1>4 DEF RequestIn, RowsIn

\* Rewriting an exception's row.
LEMMA ExceptionUpdate ==
    ASSUME NEW xs \in Seq(ExceptionRow), NEW x \in 1..Len(xs), NEW row \in ExceptionRow
    PROVE  /\ Updated(xs, x, row) \in Seq(ExceptionRow) /\ Len(Updated(xs, x, row)) = Len(xs)
           /\ Updated(xs, x, row)[x] = row
           /\ \A y \in 1..Len(xs) : y # x => Updated(xs, x, row)[y] = xs[y]
<1>1. \A y \in 1..Len(xs) : Updated(xs, x, row)[y] = IF y = x THEN row ELSE xs[y]
  BY SeqExcept
<1>2. Updated(xs, x, row) \in Seq(ExceptionRow) /\ Len(Updated(xs, x, row)) = Len(xs)
  BY SeqExcept
<1> QED
  BY <1>1, <1>2

\* A transaction of the decision service: it rewrites the exception it read
\* and may record a decision, settle the invoice and append to the ledger.
LEMMA DecisionStepOK ==
    ASSUME SystemInv, NEW q \in Requests, NEW R \in RequestState,
           requests' = [requests EXCEPT ![q] = R], RequestIn(exceptions, R),
           NEW x \in 1..Len(exceptions), NEW row \in ExceptionRow,
           exceptions' = Updated(exceptions, x, row), row.run = exceptions[x].run,
           \/ ledger' = ledger
           \/ LedgerAppend(exceptions[x].run, Ev("decision.recorded")),
           decisions' \in Seq(DecisionRow),
           invoices' \in [Invoices -> InvoiceStatus],
           \A i \in Invoices : invoices[i] # "ABSENT" => invoices'[i] # "ABSENT",
           UNCHANGED <<runs, dlq, readModel, embeddings, checkpoint, exec, bounds>>
    PROVE  SystemInv'
<1>1. /\ runs \in Seq(RunRow) /\ ledger \in Seq(Seq(Event)) /\ Len(ledger) = Len(runs)
      /\ dlq \in Seq(DLQRow) /\ exceptions \in Seq(ExceptionRow) /\ TypeOK
      /\ requests \in [Requests -> RequestState]
  BY DEF SystemInv, TypeOK
<1>2. /\ RowsIn(invoices, runs, exceptions, dlq) /\ OneLiveIn(runs)
      /\ JustifiedIn(ledger) /\ ReplayableIn(runs, dlq)
      /\ \A p \in Requests : RequestIn(exceptions, requests[p])
  BY InvParts
<1>3. RunsKept(runs, runs')
  BY <1>1, NothingChanged
<1>4. /\ exceptions' \in Seq(ExceptionRow) /\ Len(exceptions') = Len(exceptions)
      /\ exceptions'[x] = row
      /\ \A y \in 1..Len(exceptions) : y # x => exceptions'[y] = exceptions[y]
  BY <1>1, ExceptionUpdate, ZenonT(40)
<1>5. /\ ledger' \in Seq(Seq(Event)) /\ Len(ledger') = Len(ledger)
      /\ LedgerKept(ledger, ledger') /\ JustifiedIn(ledger')
  <2>1. CASE ledger' = ledger
    BY <1>1, <1>2, <2>1, NothingChanged
  <2>2. CASE LedgerAppend(exceptions[x].run, Ev("decision.recorded"))
    <3> DEFINE e == Ev("decision.recorded")
    <3>1. e \in Event /\ e # Ev("invoice.auto_approved")
      BY EventFacts DEF EventNames
    <3> HIDE DEF e
    <3>2. PICK r : r = exceptions[x].run
      OBVIOUS
    <3>3. r \in 1..Len(ledger)
      BY <1>1, <1>2, <3>2 DEF RowsIn
    <3>4. ledger' = Appended(ledger, r, e)
      BY <2>2, <3>2 DEF LedgerAppend, Appended, e
    <3> QED
      BY <1>1, <1>2, <3>1, <3>3, <3>4, LedgerAppendLemma, JustifiedKept
  <2> QED
    BY <2>1, <2>2
<1>6. RowsIn(invoices', runs', exceptions', dlq')
  <2>1. \A r \in 1..Len(runs) : runs[r].inv \in Invoices
    <3>1. \A r \in 1..Len(runs) : runs[r] \in RunRow
      BY <1>1, ElementOfSeq
    <3> QED
      BY <3>1 DEF RunRow
  <2>2. \A r \in 1..Len(runs') : invoices'[runs'[r].inv] # "ABSENT"
    BY <1>2, <2>1 DEF RowsIn
  <2>3. \A y \in 1..Len(exceptions') : exceptions'[y].run = exceptions[y].run
    BY <1>4
  <2>4. \A y \in 1..Len(exceptions') : exceptions'[y].run \in 1..Len(runs')
    BY <1>2, <1>4, <2>3 DEF RowsIn
  <2> QED
    BY <1>2, <2>2, <2>4 DEF RowsIn
<1>7. /\ requests' \in [Requests -> RequestState]
      /\ \A p \in Requests : requests'[p] = requests[p] \/ RequestIn(exceptions', requests'[p])
  <2>1. RequestIn(exceptions', R)
    BY <1>4 DEF RequestIn
  <2> QED
    BY <1>1, <2>1
<1>8. TypeOK'
  BY <1>1, <1>4, <1>5, <1>7 DEF TypeOK, bounds
<1>9. Len(dlq) <= Len(dlq') /\ Len(exceptions) <= Len(exceptions')
  BY <1>1, <1>4, LenProperties
<1>10. OneLiveIn(runs') /\ ReplayableIn(runs', dlq')
  BY <1>2
<1> QED
  BY <1>3, <1>5, <1>6, <1>7, <1>8, <1>9, <1>10, Glue

\* The row is read; nothing is written.
LEMMA DecideReadOK ==
    ASSUME SystemInv, NEW q \in Requests, NEW x \in 1..Len(exceptions), NEW u \in Users,
           NEW a \in Actions, DecideRead(q, x, u, a)
    PROVE  SystemInv'
<1> DEFINE R == [pc |-> IF exceptions[x].assignee = NoUser THEN "claim" ELSE "commit",
                 exc |-> x, user |-> u, action |-> a, decision |-> NoDecision]
<1>1. /\ requests' = [requests EXCEPT ![q] = R]
      /\ UNCHANGED <<tables, checkpoint, exec, bounds, decisions>>
  BY DEF DecideRead, pipelineVars
<1>2. x \in Nat
  BY LenProperties DEF SystemInv, TypeOK
<1>3. R \in RequestState
  BY <1>2 DEF RequestState, NoDecision
<1>4. RequestIn(exceptions, R)
  BY DEF RequestIn
<1>5. faults' \in Nat /\ UNCHANGED reruns
  BY <1>1 DEF SystemInv, TypeOK, bounds
<1> HIDE DEF R
<1> QED
  BY <1>1, <1>3, <1>4, <1>5, RequestOnly

\* The decision or the resume fails; the request ends.
LEMMA DecideStopOK ==
    ASSUME SystemInv, NEW q \in Requests, DecideFailure(q) \/ ResumeFailure(q)
    PROVE  SystemInv'
<1>1. /\ Done(q) /\ faults' \in Nat
      /\ UNCHANGED <<tables, checkpoint, exec, reruns, decisions>>
  BY FaultCount DEF DecideFailure, ResumeFailure
<1> QED
  BY <1>1, DoneOK, RequestOnly

\* Claim-on-touch keeps the exception's run.
LEMMA DecideClaimOK ==
    ASSUME SystemInv, NEW q \in Requests, DecideClaim(q)
    PROVE  SystemInv'
<1>1. PICK x : x = requests[q].exc
  OBVIOUS
<1>2. PICK row : row = [exceptions[x] EXCEPT !.assignee = requests[q].user]
  OBVIOUS
<1>3. /\ requests[q].pc = "claim" /\ exceptions' = Updated(exceptions, x, row)
      /\ UNCHANGED <<invoices, runs, dlq, ledger, readModel, embeddings, checkpoint, exec,
                     bounds, decisions>>
  BY <1>1, <1>2 DEF DecideClaim, Updated
<1>4. /\ requests[q] \in RequestState /\ x \in 1..Len(exceptions)
      /\ requests[q].user \in Users /\ requests[q].action \in Actions
      /\ exceptions[x] \in ExceptionRow
  BY <1>1, <1>3, RequestFacts
<1>5. row \in ExceptionRow /\ row.run = exceptions[x].run
  BY <1>2, <1>4 DEF ExceptionRow, Assignees
<1>6. PICK R \in RequestState : /\ requests' = [requests EXCEPT ![q] = R]
                               /\ RequestIn(exceptions, R)
  <2>1. CASE requests[q].action = "APPROVE"
    BY <2>1, DoneOK DEF DecideClaim
  <2>2. CASE requests[q].action # "APPROVE"
    <3> DEFINE R == [requests[q] EXCEPT !.pc = "commit"]
    <3>1. requests' = [requests EXCEPT ![q] = R]
      BY <2>2 DEF DecideClaim
    <3>2. R \in RequestState /\ RequestIn(exceptions, R)
      BY <1>1, <1>4 DEF RequestState, RequestIn
    <3> QED
      BY <3>1, <3>2
  <2> QED
    BY <2>1, <2>2
<1>7. decisions' \in Seq(DecisionRow) /\ invoices' \in [Invoices -> InvoiceStatus]
  BY <1>3 DEF SystemInv, TypeOK
<1> QED
  BY <1>3, <1>4, <1>5, <1>6, <1>7, DecisionStepOK

\* The recorded decision is a row of the decisions table.
LEMMA RecordDecisionOK ==
    ASSUME SystemInv, NEW q \in Requests, requests[q].pc = "commit", RecordDecision(q)
    PROVE  decisions' \in Seq(DecisionRow) /\ Len(decisions) \in Nat
<1> DEFINE d == [exc |-> requests[q].exc, actor |-> requests[q].user,
                 action |-> requests[q].action]
<1>1. decisions' = Append(decisions, d)
  BY DEF RecordDecision
<1>2. d \in DecisionRow
  BY RequestFacts DEF RequestState, DecisionRow
<1>3. decisions \in Seq(DecisionRow)
  BY DEF SystemInv, TypeOK
<1> HIDE DEF d
<1> QED
  BY <1>1, <1>2, <1>3, AppendProperties, LenProperties

\* An escalation reassigns the exception and keeps its run.
LEMMA DecideEscalateOK ==
    ASSUME SystemInv, NEW q \in Requests, NEW t \in Users \cup {ManagerQueue},
           DecideEscalate(q, t)
    PROVE  SystemInv'
<1>1. PICK x : x = requests[q].exc
  OBVIOUS
<1>2. PICK row : row = [exceptions[x] EXCEPT !.assignee = t]
  OBVIOUS
<1>3. /\ requests[q].pc = "commit" /\ exceptions' = Updated(exceptions, x, row)
      /\ RecordDecision(q) /\ Done(q)
      /\ LedgerAppend(exceptions[x].run, Ev("decision.recorded"))
      /\ UNCHANGED <<invoices, runs, dlq, readModel, embeddings, checkpoint, exec, bounds>>
  BY <1>1, <1>2 DEF DecideEscalate, Updated
<1>4. x \in 1..Len(exceptions) /\ exceptions[x] \in ExceptionRow
  BY <1>1, <1>3, RequestFacts
<1>5. row \in ExceptionRow /\ row.run = exceptions[x].run
  BY <1>2, <1>4 DEF ExceptionRow, Assignees
<1>6. PICK R \in RequestState : /\ requests' = [requests EXCEPT ![q] = R]
                               /\ RequestIn(exceptions, R)
  BY <1>3, DoneOK
<1>7. decisions' \in Seq(DecisionRow) /\ invoices' \in [Invoices -> InvoiceStatus]
  BY <1>3, RecordDecisionOK DEF SystemInv, TypeOK
<1> QED
  BY <1>3, <1>4, <1>5, <1>6, <1>7, DecisionStepOK

\* A resolution settles the exception and its invoice.
LEMMA DecideResolveOK ==
    ASSUME SystemInv, NEW q \in Requests, DecideResolve(q)
    PROVE  SystemInv'
<1>1. PICK x : x = requests[q].exc
  OBVIOUS
<1>2. PICK row : row = [exceptions[x] EXCEPT !.status = "RESOLVED"]
  OBVIOUS
<1>3. /\ requests[q].pc = "commit" /\ exceptions' = Updated(exceptions, x, row)
      /\ RecordDecision(q)
      /\ LedgerAppend(exceptions[x].run, Ev("decision.recorded"))
      /\ UNCHANGED <<runs, dlq, readModel, embeddings, checkpoint, exec, bounds>>
  BY <1>1, <1>2 DEF DecideResolve, Updated
<1>4. /\ x \in 1..Len(exceptions) /\ exceptions[x] \in ExceptionRow
      /\ requests[q] \in RequestState
      /\ requests[q].user \in Users /\ requests[q].action \in Actions
  BY <1>1, <1>3, RequestFacts
<1>5. row \in ExceptionRow /\ row.run = exceptions[x].run
  BY <1>2, <1>4 DEF ExceptionRow
<1>6. decisions' \in Seq(DecisionRow) /\ Len(decisions) \in Nat
  BY <1>3, RecordDecisionOK
<1>7. PICK R \in RequestState : /\ requests' = [requests EXCEPT ![q] = R]
                               /\ RequestIn(exceptions, R)
  <2>1. PICK n \in Nat : n = Len(decisions) + 1
    BY <1>6
  <2> DEFINE R == [requests[q] EXCEPT !.pc = "resume", !.decision = n]
  <2>2. requests' = [requests EXCEPT ![q] = R]
    BY <2>1 DEF DecideResolve
  <2>3. R \in RequestState /\ RequestIn(exceptions, R)
    BY <1>1, <1>4 DEF RequestState, RequestIn
  <2> QED
    BY <2>2, <2>3
<1>8. PICK v \in {"DECISION_APPROVED", "RETURNED_TO_VENDOR"} :
         invoices' = [invoices EXCEPT ![exceptions[x].inv] = v]
  BY <1>1 DEF DecideResolve
<1>9. /\ invoices' \in [Invoices -> InvoiceStatus]
      /\ \A i \in Invoices : invoices[i] # "ABSENT" => invoices'[i] # "ABSENT"
  BY <1>8 DEF SystemInv, TypeOK, InvoiceStatus
<1> QED
  BY <1>3, <1>4, <1>5, <1>6, <1>7, <1>9, DecisionStepOK

\* submit_decision writes a field of the checkpoint that routing ignores.
LEMMA DecideResumeOK ==
    ASSUME SystemInv, NEW q \in Requests, NEW w \in Workers, DecideResume(q, w)
    PROVE  SystemInv'
<1>1. PICK i : i = exceptions[requests[q].exc].inv
  OBVIOUS
<1>2. PICK n : n = requests[q].decision
  OBVIOUS
<1> DEFINE c == [checkpoint[i] EXCEPT !.st.decision = n]
           E == [Called(i, RetryAttempts) EXCEPT !.pc = "resume"]
<1>3. /\ requests[q].pc = "resume" /\ Done(q)
      /\ exec' = [exec EXCEPT ![w] = E]
      /\ UNCHANGED <<tables, bounds, decisions>>
  BY <1>1 DEF DecideResume, SubmitDecision
<1>4. checkpoint' = [checkpoint EXCEPT ![i] = c]
  BY <1>1, <1>2 DEF DecideResume, SubmitDecision
<1>5. i \in Invoices /\ n \in Nat
  BY <1>1, <1>2, <1>3, RequestFacts DEF ExceptionRow, RequestState
<1>6. /\ TypeOK /\ checkpoint[i] \in Checkpoints /\ checkpoint[i].st \in GraphState
      /\ checkpoint \in [Invoices -> Checkpoints] /\ exec \in [Workers -> Execs]
      /\ requests \in [Requests -> RequestState]
      /\ CheckpointIn(runs, ledger, i, checkpoint[i])
  BY <1>5, InvParts DEF TypeOK, Checkpoints
<1>7. c \in Checkpoints
  <2>1. [checkpoint[i].st EXCEPT !.decision = n] \in GraphState
    BY <1>5, <1>6 DEF GraphState
  <2> QED
    BY <1>6, <2>1 DEF Checkpoints
<1>8. CheckpointIn(runs, ledger, i, c)
  <2> DEFINE st == checkpoint[i].st
             st2 == [st EXCEPT !.decision = n]
  <2>1. c.st = st2 /\ c.next = checkpoint[i].next
    BY <1>6 DEF Checkpoints
  <2>2. /\ st2.run = st.run /\ st2.extraction = st.extraction
        /\ st2.validation = st.validation /\ st2.match = st.match
        /\ st2.policy = st.policy /\ st2.gate = st.gate /\ st2.route = st.route
    BY <1>6 DEF GraphState
  <2>3. StateIn(runs, ledger, i, st) /\ Ready(c.next, st)
    BY <1>6, <2>1 DEF CheckpointIn
  <2> HIDE DEF st, st2, c
  <2>4. StateIn(runs, ledger, i, st2)
    BY <2>2, <2>3 DEF StateIn, BackedIn
  <2>5. Ready(c.next, st2)
    BY <2>2, <2>3 DEF Ready, HasFindings
  <2> QED
    BY <2>1, <2>4, <2>5 DEF CheckpointIn
<1>9. E \in Execs /\ ExecIn(runs, ledger, dlq, E)
  BY <1>5, IdleOK, PipelineAssumption DEF Called, Idle, Execs, PCs, ExecIn
<1>10. PICK R \in RequestState : /\ requests' = [requests EXCEPT ![q] = R]
                                /\ RequestIn(exceptions, R)
  BY <1>3, DoneOK
<1> HIDE DEF c, E
<1>11. /\ checkpoint' \in [Invoices -> Checkpoints] /\ exec' \in [Workers -> Execs]
       /\ requests' \in [Requests -> RequestState]
  BY <1>3, <1>4, <1>6, <1>7, <1>9, <1>10
<1>12. /\ \A j \in Invoices : checkpoint'[j] = checkpoint[j]
                              \/ CheckpointIn(runs, ledger, j, checkpoint'[j])
       /\ \A v \in Workers : exec'[v] = exec[v] \/ ExecIn(runs, ledger, dlq, exec'[v])
       /\ \A p \in Requests : requests'[p] = requests[p]
                              \/ RequestIn(exceptions, requests'[p])
  BY <1>3, <1>4, <1>5, <1>6, <1>8, <1>9, <1>10
<1>13. TypeOK'
  BY <1>3, <1>6, <1>11 DEF TypeOK, tables, bounds
<1>14. UNCHANGED <<invoices, runs, exceptions, dlq, ledger>>
  BY <1>3 DEF tables
<1> QED
  BY <1>12, <1>13, <1>14, Quiet

-----------------------------------------------------------------------------
(* The theorems *)

\* The tables start empty and no thread has a checkpoint.
LEMMA InitOK == ASSUME Init PROVE SystemInv
<1>1. /\ invoices = [i \in Invoices |-> "ABSENT"] /\ runs = <<>> /\ exceptions = <<>>
      /\ dlq = <<>> /\ ledger = <<>> /\ readModel = {} /\ embeddings = {}
      /\ checkpoint = [i \in Invoices |-> [next |-> "new", st |-> EmptyState]]
      /\ exec = [w \in Workers |-> Idle] /\ faults = 0 /\ reruns = 0
      /\ decisions = <<>> /\ requests = [q \in Requests |-> NewRequest]
  BY DEF Init, PipelineInit
<1>2. NewRequest \in RequestState /\ \A xs : RequestIn(xs, NewRequest)
  BY DEF NewRequest, RequestState, NoDecision, RequestIn
<1>3. [next |-> "new", st |-> EmptyState] \in Checkpoints
  BY IdleOK DEF Checkpoints
<1>4. \A i : CheckpointIn(runs, ledger, i, [next |-> "new", st |-> EmptyState])
  BY DEF CheckpointIn, StateIn, EmptyState, Ready, Nodes
<1>5. \A S : <<>> \in Seq(S)
  OBVIOUS
<1>6. Len(<<>>) = 0 /\ \A k : k \notin 1..Len(<<>>)
  OBVIOUS
<1>7. TypeOK
  BY <1>1, <1>2, <1>3, <1>5, IdleOK DEF TypeOK, InvoiceStatus
<1>8. /\ RowsIn(invoices, runs, exceptions, dlq) /\ OneLiveIn(runs)
      /\ JustifiedIn(ledger) /\ ReplayableIn(runs, dlq)
  BY <1>1, <1>6 DEF RowsIn, OneLiveIn, JustifiedIn, ReplayableIn
<1> QED
  BY <1>1, <1>2, <1>4, <1>7, <1>8, IdleOK, InvParts

\* A step of a worker's node.
LEMMA NodeStepOK ==
    ASSUME SystemInv, NEW w \in Workers, NodeStep(w), UNCHANGED <<decisions, requests>>
    PROVE  SystemInv'
BY IngestOK, ExtractOK, ValidateOK, FirstTransactionOK, Match3wayOK, PolicyOK, GateOK,
   AutoApproveOK, ExceptionTriageOK, HumanReviewOK, ArchiveOK DEF NodeStep

\* A step of the runner around the nodes.
LEMMA RunnerStepOK ==
    ASSUME SystemInv, NEW w \in Workers, RunnerStep(w), UNCHANGED <<decisions, requests>>
    PROVE  SystemInv'
<1>1. CASE RecordFailureRefused(w)
  BY <1>1, WorkerFacts, StopOK DEF RecordFailureRefused, bounds
<1>2. CASE ~RecordFailureRefused(w)
  BY <1>2, RunInvoiceOK, ResumeOK, StartOK, PersistOK, ReturnOK, IngestNoRunOK,
     RecordFailureOK, ReplayClaimOK DEF RunnerStep
<1> QED
  BY <1>1, <1>2

\* A fault.
LEMMA FaultStepOK ==
    ASSUME SystemInv, NEW w \in Workers, FaultStep(w), UNCHANGED <<decisions, requests>>
    PROVE  SystemInv'
<1>1. CASE RecordFailureFails(w)
  BY <1>1, FaultCount, WorkerFacts, StopOK DEF RecordFailureFails
<1>2. CASE Crash(w)
  BY <1>2, FaultCount, WorkerFacts, StopOK DEF Crash
<1>3. CASE ~RecordFailureFails(w) /\ ~Crash(w)
  BY <1>3, InfraFailureOK, BusinessFailureOK, PersistFailureOK DEF FaultStep
<1> QED
  BY <1>1, <1>2, <1>3

\* Every step, and stuttering, preserves the invariant.
LEMMA NextOK == ASSUME SystemInv, [Next]_vars PROVE SystemInv'
<1>1. CASE UNCHANGED vars
  <2>1. TypeOK'
    BY <1>1 DEF SystemInv, TypeOK, vars, pipelineVars, tables, bounds
  <2> QED
    BY <1>1, <2>1, Quiet DEF vars, pipelineVars, tables, bounds
<1>2. CASE PipelineNext /\ UNCHANGED <<decisions, requests>>
  <2>1. ASSUME NEW w \in Workers, NodeStep(w) \/ RunnerStep(w) \/ FaultStep(w)
        PROVE  SystemInv'
    BY <1>2, <2>1, NodeStepOK, RunnerStepOK, FaultStepOK
  <2>2. ASSUME NEW w \in Workers, RequestStep(w) PROVE SystemInv'
    BY <1>2, <2>2, AcceptOK, RerunOK, ReplayReadOK DEF RequestStep
  <2>3. ASSUME NEW i \in Invoices, Duplicate(i) PROVE SystemInv'
    BY <1>2, <2>3, DuplicateOK
  <2> QED
    BY <1>2, <2>1, <2>2, <2>3 DEF PipelineNext
<1>3. ASSUME NEW q \in Requests, DecisionStep(q) PROVE SystemInv'
  BY <1>3, DecideReadOK, DecideClaimOK, DecideResolveOK, DecideEscalateOK, DecideResumeOK,
     DecideStopOK DEF DecisionStep
<1> QED
  BY <1>1, <1>2, <1>3 DEF Next

\* The composed system keeps its inductive invariant: whatever the number of
\* workers, requests, faults, replays and duplicate uploads, no in-memory or
\* checkpointed GraphState ever departs from its run's ledger (GraphRunner,
\* PipelineNodes, DLQService and DecisionService together).
THEOREM SystemInvariant == Spec => []SystemInv
<1>1. Init => SystemInv
  BY InitOK
<1>2. SystemInv /\ [Next]_vars => SystemInv'
  BY NextOK
<1> QED
  BY <1>1, <1>2, PTL DEF Spec

\* Rows and in-memory values keep their shapes, and every run of the runs
\* table has its ledger.
THEOREM TypeCorrect == Spec => []TypeOK
<1>1. SystemInv => TypeOK
  BY DEF SystemInv
<1> QED
  BY <1>1, SystemInvariant, PTL

\* An invoice has at most one run that is not a rejected duplicate, with any
\* number of uploads, replays and executions of its thread.
THEOREM OneRunPerInvoice == Spec => []OneLiveRun
<1>1. SystemInv => OneLiveRun
  BY DEF SystemInv
<1> QED
  BY <1>1, SystemInvariant, PTL

\* Resuming a thread from its checkpoint cannot skip a node: whatever the
\* checkpoint claims is committed in the run's ledger.
THEOREM CheckpointSound == Spec => []CheckpointBackedByLedger
<1>1. SystemInv => CheckpointBackedByLedger
  <2>1. ASSUME NEW i \in Invoices, CheckpointOK(i) PROVE Backed(checkpoint[i].st)
    BY <2>1 DEF CheckpointOK, StateOK, Backed
  <2> QED
    BY <2>1 DEF SystemInv, CheckpointBackedByLedger
<1> QED
  BY <1>1, SystemInvariant, PTL

\* The nodes' asserts and their "routing bug" and "node ordering bug" errors
\* are unreachable, from fresh starts and from every resumed checkpoint.
THEOREM NodesReady == Spec => []NodesGetWhatTheyNeed
<1>1. SystemInv => NodesGetWhatTheyNeed
  BY DEF SystemInv, NodesGetWhatTheyNeed, ExecOK, Running
<1> QED
  BY <1>1, SystemInvariant, PTL

\* No auto-approval without a clean validation, an accepted match, a clear
\* policy evaluation and an AUTO gate decision earlier in the same run's
\* ledger, even with concurrent executions of one thread.
THEOREM AutoApprovalSound == Spec => []AutoApprovalJustified
<1>1. SystemInv => AutoApprovalJustified
  BY DEF SystemInv
<1> QED
  BY <1>1, SystemInvariant, PTL

\* A FAILED run can always be replayed from the dead-letter queue.
THEOREM FailedIsReplayable == Spec => []FailedRunIsReplayable
<1>1. SystemInv => FailedRunIsReplayable
  BY DEF SystemInv
<1> QED
  BY <1>1, SystemInvariant, PTL
=============================================================================
