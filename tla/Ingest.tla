------------------------------- MODULE Ingest -------------------------------
(***************************************************************************)
(* The intake of documents: POST /v1/invoices (api/routes/invoices.py) and *)
(* the email webhook (api/routes/webhook.py) over IngestService            *)
(* (api/services/ingest.py), with the Idempotency-Key store                *)
(* (api/middleware.py), the object store and restarts of the API process   *)
(* (lifespan in api/main.py).                                              *)
(*                                                                         *)
(* invoices, runs and stored are durable; the key store, the calls in      *)
(* flight, the background tasks and the graph runner live in the process.  *)
(* A call is one HTTP request; each await on the database or the object    *)
(* store ends a step.  Requests refused before the key store is read       *)
(* (authentication, size, content type, malformed key) are not steps.      *)
(* What the pipeline does with a run it is handed is module Pipeline.      *)
(***************************************************************************)
EXTENDS Integers, Sequences, FiniteSets

CONSTANTS
    Calls,        \* HTTP requests
    Documents,    \* contents; a document stands for its SHA-256
    Keys, NoKey,  \* Idempotency-Key headers and message ids; None
    Faults,       \* the kinds of fault the environment may inject
    MaxFaults,    \* bound: how many faults in one behaviour
    MaxRestarts   \* bound: restarts of the process

ASSUME IngestAssumption ==
    /\ NoKey \notin Keys /\ Documents # {}
    /\ Faults \subseteq {"rows", "put"}
    /\ MaxFaults \in Nat /\ MaxRestarts \in Nat

VARIABLES
    invoices,  \* invoices table: the document of invoice_id = index
    runs,      \* runs table as inserted, run_id = index: [invoice, status]
    stored,    \* documents in the object store
    cache,     \* the in-memory idempotency store
    calls,     \* per call: its program counter, payload and answer
    runner,    \* app.state.graph_runner is not None
    handed,    \* invoices the pipeline's run_invoice was called for, in order
    restarts, failures  \* restarts and faults so far

durable == <<invoices, runs, stored>>
vars == <<durable, cache, calls, runner, handed, restarts, failures>>

-----------------------------------------------------------------------------
(* Domains *)

Channels == {"upload", "email"}

\* InvoiceAccepted: the row ids and whether the document was a duplicate.
Answers == [invoice : Nat, run : Nat, duplicate : BOOLEAN]
NoAnswer == [invoice |-> 0, run |-> 0, duplicate |-> FALSE]

\* ingest: the key missed, the rows are next; inserted: the rows are flushed
\* and their transaction holds the content_hash; conflict: IntegrityError,
\* rolled back; put: committed, the document is next; respond: ingest has
\* returned.  task: the request's background task has not run yet.
InFlight == {"ingest", "inserted", "conflict", "put", "respond"}
CallState == [pc : InFlight \cup {"new", "answered", "failed", "lost"},
              channel : Channels, doc : Documents,
              key : Keys \cup {NoKey}, answer : Answers, task : BOOLEAN]

NewCall == [pc |-> "new", channel |-> "upload",
            doc |-> CHOOSE d \in Documents : TRUE, key |-> NoKey,
            answer |-> NoAnswer, task |-> FALSE]

\* A committed row has this content_hash.
Invoiced(d) == \E i \in 1..Len(invoices) : invoices[i] = d
InvoiceOf(d) == CHOOSE i \in 1..Len(invoices) : invoices[i] = d

Handed(i) == \E k \in 1..Len(handed) : handed[k] = i

Goto(c, pc) == calls' = [calls EXCEPT ![c].pc = pc]

-----------------------------------------------------------------------------
(* The routes up to the service *)

\* The key has a stored response: it is returned as it is.
Replay(c, ch, d, k) ==
    /\ calls[c].pc = "new"
    /\ k # NoKey /\ cache[<<ch, k>>] # NoAnswer
    /\ calls' = [calls EXCEPT ![c] =
          [pc |-> "answered", channel |-> ch, doc |-> d, key |-> k,
           answer |-> cache[<<ch, k>>], task |-> FALSE]]
    /\ UNCHANGED <<durable, cache, runner, handed, restarts, failures>>

\* No key, or nothing stored for it; an email always has its message id.
Receive(c, ch, d, k) ==
    /\ calls[c].pc = "new"
    /\ ch = "email" => k # NoKey
    /\ k # NoKey => cache[<<ch, k>>] = NoAnswer
    /\ calls' = [calls EXCEPT ![c] =
          [pc |-> "ingest", channel |-> ch, doc |-> d, key |-> k,
           answer |-> NoAnswer, task |-> FALSE]]
    /\ UNCHANGED <<durable, cache, runner, handed, restarts, failures>>

-----------------------------------------------------------------------------
(* IngestService.ingest *)

\* Mutant: a lookup before the insert in place of the unique constraint.
InsertAfterLookup(c) ==
    /\ calls[c].pc = "ingest"
    /\ ~Invoiced(calls[c].doc)
    /\ Goto(c, "inserted")
    /\ UNCHANGED <<durable, cache, runner, handed, restarts, failures>>

\* The flush of the invoice row waits while another open transaction holds
\* the same content_hash.
Insert(c) ==
    /\ calls[c].pc = "ingest"
    /\ ~Invoiced(calls[c].doc)
    /\ \A o \in Calls : calls[o].pc = "inserted" => calls[o].doc # calls[c].doc
    /\ Goto(c, "inserted")
    /\ UNCHANGED <<durable, cache, runner, handed, restarts, failures>>

\* Mutant: the insert is tried again instead of looking the row up.
ConflictRetry(c) ==
    /\ calls[c].pc = "ingest"
    /\ Invoiced(calls[c].doc)
    /\ UNCHANGED vars

\* The unique content_hash lost the race, or the upload is a late duplicate.
Conflict(c) ==
    /\ calls[c].pc = "ingest"
    /\ Invoiced(calls[c].doc)
    /\ Goto(c, "conflict")
    /\ UNCHANGED <<durable, cache, runner, handed, restarts, failures>>

\* Mutant: the document is left to be stored after the response.
CommitRowsOnly(c) ==
    /\ calls[c].pc = "inserted"
    /\ invoices' = Append(invoices, calls[c].doc)
    /\ runs' = Append(runs, [invoice |-> Len(invoices) + 1, status |-> "QUEUED"])
    /\ calls' = [calls EXCEPT
          ![c].pc = "respond",
          ![c].answer = [invoice |-> Len(invoices) + 1, run |-> Len(runs) + 1,
                         duplicate |-> FALSE]]
    /\ UNCHANGED <<stored, cache, runner, handed, restarts, failures>>

\* Invoice, run and "ingest.accepted" are committed together.
CommitRows(c) ==
    /\ calls[c].pc = "inserted"
    /\ invoices' = Append(invoices, calls[c].doc)
    /\ runs' = Append(runs, [invoice |-> Len(invoices) + 1, status |-> "QUEUED"])
    /\ calls' = [calls EXCEPT
          ![c].pc = "put",
          ![c].answer = [invoice |-> Len(invoices) + 1, run |-> Len(runs) + 1,
                         duplicate |-> FALSE]]
    /\ UNCHANGED <<stored, cache, runner, handed, restarts, failures>>

PutObject(c) ==
    /\ calls[c].pc = "put"
    /\ stored' = stored \cup {calls[c].doc}
    /\ Goto(c, "respond")
    /\ UNCHANGED <<invoices, runs, cache, runner, handed, restarts, failures>>

\* Mutant: InvoiceAccepted is built without its duplicate flag.
RecordDuplicateUnmarked(c) ==
    /\ calls[c].pc = "conflict"
    /\ LET i == InvoiceOf(calls[c].doc)
       IN  /\ runs' = Append(runs, [invoice |-> i, status |-> "REJECTED"])
           /\ calls' = [calls EXCEPT
                 ![c].pc = "respond",
                 ![c].answer = [invoice |-> i, run |-> Len(runs) + 1,
                                duplicate |-> FALSE]]
    /\ UNCHANGED <<invoices, stored, cache, runner, handed, restarts, failures>>

\* A REJECTED run on the original invoice.  Invoices are never deleted, so the
\* lookup after the rollback finds the row that won.
RecordDuplicate(c) ==
    /\ calls[c].pc = "conflict"
    /\ LET i == InvoiceOf(calls[c].doc)
       IN  /\ runs' = Append(runs, [invoice |-> i, status |-> "REJECTED"])
           /\ calls' = [calls EXCEPT
                 ![c].pc = "respond",
                 ![c].answer = [invoice |-> i, run |-> Len(runs) + 1,
                                duplicate |-> TRUE]]
    /\ UNCHANGED <<invoices, stored, cache, runner, handed, restarts, failures>>

-----------------------------------------------------------------------------
(* The routes after the service, and the background task *)

\* Stores the response under the key and answers; what of it is scheduled is
\* the argument.
RespondScheduling(c, schedule) ==
    /\ calls[c].pc = "respond"
    /\ calls' = [calls EXCEPT ![c].pc = "answered", ![c].task = schedule]
    /\ cache' = IF calls[c].key = NoKey THEN cache
                ELSE [cache EXCEPT ![<<calls[c].channel, calls[c].key>>] =
                         calls[c].answer]
    /\ UNCHANGED <<durable, runner, handed, restarts, failures>>

\* Mutant: every upload schedules the pipeline.
RespondAlwaysScheduling(c) == RespondScheduling(c, calls[c].channel = "upload")

\* Mutant: the task is scheduled under "if idem_key is not None".
RespondSchedulingKeyed(c) ==
    RespondScheduling(c, /\ calls[c].channel = "upload"
                         /\ ~calls[c].answer.duplicate
                         /\ calls[c].key # NoKey)

\* A fresh upload schedules the pipeline, a duplicate or an email does not.
Respond(c) ==
    RespondScheduling(c, calls[c].channel = "upload" /\ ~calls[c].answer.duplicate)

\* Mutant: the task is taken from a queue that delivers at least once.
RunPipelineRedelivered(c) ==
    /\ calls[c].task
    /\ \/ calls' = [calls EXCEPT ![c].task = FALSE]
       \/ UNCHANGED calls
    /\ handed' = IF runner THEN Append(handed, calls[c].answer.invoice) ELSE handed
    /\ UNCHANGED <<durable, cache, runner, restarts, failures>>

\* _run_pipeline: without a runner it only logs a warning.
RunPipeline(c) ==
    /\ calls[c].task
    /\ calls' = [calls EXCEPT ![c].task = FALSE]
    /\ handed' = IF runner THEN Append(handed, calls[c].answer.invoice) ELSE handed
    /\ UNCHANGED <<durable, cache, runner, restarts, failures>>

-----------------------------------------------------------------------------
(* Faults and restarts *)

Fault(f) == f \in Faults /\ failures < MaxFaults /\ failures' = failures + 1

\* A statement or the commit of a row transaction raises: rolled back, 500.
RowsFail(c) ==
    /\ Fault("rows")
    /\ calls[c].pc \in {"ingest", "inserted", "conflict"}
    /\ Goto(c, "failed")
    /\ UNCHANGED <<durable, cache, runner, handed, restarts>>

\* The object store raises: 500, but the rows stay committed.
PutFail(c) ==
    /\ Fault("put")
    /\ calls[c].pc = "put"
    /\ Goto(c, "failed")
    /\ UNCHANGED <<durable, cache, runner, handed, restarts>>

\* The process ends and boots again; the eager build of the graph runner may
\* fail.  Nothing looks for runs that are still QUEUED.
Restart(built) ==
    /\ restarts < MaxRestarts
    /\ restarts' = restarts + 1
    /\ runner' = built
    /\ cache' = [x \in Channels \X Keys |-> NoAnswer]
    /\ calls' = [c \in Calls |->
          [calls[c] EXCEPT !.pc = IF @ \in InFlight THEN "lost" ELSE @,
                           !.task = FALSE]]
    /\ UNCHANGED <<durable, handed, failures>>

-----------------------------------------------------------------------------
(* Specification *)

IngestInit ==
    /\ invoices = <<>> /\ runs = <<>> /\ stored = {} /\ handed = <<>>
    /\ cache = [x \in Channels \X Keys |-> NoAnswer]
    /\ calls = [c \in Calls |-> NewCall]
    /\ runner \in BOOLEAN
    /\ restarts = 0 /\ failures = 0

CallStep(c) ==
    \/ Insert(c) \/ Conflict(c) \/ CommitRows(c) \/ PutObject(c)
    \/ RecordDuplicate(c) \/ Respond(c) \/ RunPipeline(c)

IngestNext ==
    \/ \E c \in Calls, ch \in Channels, d \in Documents, k \in Keys \cup {NoKey} :
          Replay(c, ch, d, k) \/ Receive(c, ch, d, k)
    \/ \E c \in Calls : CallStep(c) \/ RowsFail(c) \/ PutFail(c)
    \/ \E built \in BOOLEAN : Restart(built)

IngestSpec == IngestInit /\ [][IngestNext]_vars

\* The event loop and Postgres go on: a call in flight takes its steps, and a
\* scheduled task runs.  Clients need not call, and nothing has to fail.
IngestFairSpec == IngestSpec /\ \A c \in Calls : WF_vars(CallStep(c))

-----------------------------------------------------------------------------
(* Invariants *)

TypeOK ==
    /\ invoices \in Seq(Documents)
    /\ runs \in Seq([invoice : Nat, status : {"QUEUED", "REJECTED"}])
    /\ stored \subseteq Documents
    /\ cache \in [Channels \X Keys -> Answers]
    /\ calls \in [Calls -> CallState]
    /\ runner \in BOOLEAN
    /\ handed \in Seq(Nat)
    /\ restarts \in Nat /\ failures \in Nat

\* Copies of one document that race for its content_hash collapse to one
\* invoice, and an invoice has exactly one run that is not REJECTED.
OneRunPerDocument ==
    /\ \A i, j \in 1..Len(invoices) : invoices[i] = invoices[j] => i = j
    /\ \A i \in 1..Len(invoices) : \E r \in 1..Len(runs) :
          runs[r] = [invoice |-> i, status |-> "QUEUED"]
    /\ \A r, s \in 1..Len(runs) :
          runs[r] = runs[s] /\ runs[r].status = "QUEUED" => r = s

\* The answer speaks of committed rows, and of a duplicate exactly when its
\* run is REJECTED.
TrueAnswer(a) ==
    /\ a.invoice \in 1..Len(invoices) /\ a.run \in 1..Len(runs)
    /\ runs[a.run].invoice = a.invoice
    /\ a.duplicate <=> runs[a.run].status = "REJECTED"

\* The call has been made with this key on this channel.
MadeWith(o, x) == calls[o].pc # "new" /\ <<calls[o].channel, calls[o].key>> = x

\* A stored response, and an answered call's, is true of the committed rows,
\* and of the document of a call made with the same key.
CachedTrue(x) ==
    cache[x] # NoAnswer =>
        /\ TrueAnswer(cache[x])
        /\ \E o \in Calls : MadeWith(o, x) /\ calls[o].doc = invoices[cache[x].invoice]

AnsweredTrue(c) ==
    calls[c].pc = "answered" =>
        /\ TrueAnswer(calls[c].answer)
        /\ \/ calls[c].doc = invoices[calls[c].answer.invoice]
           \/ /\ calls[c].key # NoKey
              /\ \E o \in Calls :
                    /\ MadeWith(o, <<calls[c].channel, calls[c].key>>)
                    /\ calls[o].doc = invoices[calls[c].answer.invoice]

\* Whatever a client is told, now or when a key is replayed, is true of the
\* committed rows, and of the document the caller sent unless the caller's key
\* was used for another one.
AnswersTrue ==
    /\ \A x \in Channels \X Keys : CachedTrue(x)
    /\ \A c \in Calls : AnsweredTrue(c)

\* No task of the pipeline is scheduled, and no invoice handed to it, before
\* its document is in the object store, where the extract node reads it.
PipelineFindsDocument ==
    /\ \A c \in Calls : calls[c].task => calls[c].doc \in stored
    /\ \A k \in 1..Len(handed) : invoices[handed[k]] \in stored

\* A call that accepted its document and has not handed it to the pipeline.
Pending(c) ==
    \/ calls[c].task
    \/ calls[c].pc \in {"put", "respond"} /\ ~calls[c].answer.duplicate

\* The program counter agrees with the tables and the other calls.
CallOK(c) ==
    /\ calls[c].pc = "inserted" =>
          /\ ~Invoiced(calls[c].doc)
          /\ \A o \in Calls \ {c} : calls[o].pc = "inserted"
                                    => calls[o].doc # calls[c].doc
    /\ calls[c].pc = "conflict" => Invoiced(calls[c].doc)
    /\ calls[c].pc \in {"put", "respond"} \/ calls[c].task =>
          /\ TrueAnswer(calls[c].answer)
          /\ invoices[calls[c].answer.invoice] = calls[c].doc
    /\ calls[c].pc = "put" \/ calls[c].task => ~calls[c].answer.duplicate
    /\ calls[c].pc = "respond" /\ ~calls[c].answer.duplicate
          => calls[c].doc \in stored
    /\ calls[c].task => calls[c].pc = "answered"
    /\ Pending(c) =>
          /\ ~Handed(calls[c].answer.invoice)
          /\ \A o \in Calls \ {c} : Pending(o)
                => calls[o].answer.invoice # calls[c].answer.invoice

\* The inductive invariant of the intake.
IngestInv ==
    /\ TypeOK
    /\ \A r \in 1..Len(runs) : runs[r].invoice \in 1..Len(invoices)
    /\ \A k \in 1..Len(handed) : handed[k] \in 1..Len(invoices)
    /\ OneRunPerDocument
    /\ AnswersTrue
    /\ PipelineFindsDocument
    /\ \A c \in Calls : CallOK(c)

\* The intake as its clients and the pipeline see it.
Outcomes == [r \in 1..Len(runs) |->
    [doc |-> invoices[runs[r].invoice], duplicate |-> runs[r].status = "REJECTED"]]
StartedDocuments == [k \in 1..Len(handed) |-> invoices[handed[k]]]

Abstract == INSTANCE Intake WITH outcomes <- Outcomes, started <- StartedDocuments

\* Calls, locks, lost races, failures and restarts implement the abstract
\* intake: one acceptance per document, copies rejected after it, the pipeline
\* started at most once.
ImplementsIntake == Abstract!IntakeSpec

-----------------------------------------------------------------------------
(* Liveness *)

\* A call that waits for another one's transaction is released, and every call
\* in flight is answered, fails, or is lost in a restart.
CallsSettle ==
    \A c \in Calls : calls[c].pc \in InFlight
                     ~> calls[c].pc \in {"answered", "failed", "lost"}

\* An accepted upload is handed to the pipeline if there is a runner and the
\* process does not restart first.
AcceptedUploadStarts ==
    \A c \in Calls, n \in 0..MaxRestarts :
        /\ runner /\ restarts = n
        /\ calls[c].pc = "respond" /\ calls[c].channel = "upload"
        /\ ~calls[c].answer.duplicate
        ~> Handed(calls[c].answer.invoice) \/ restarts > n

=============================================================================
