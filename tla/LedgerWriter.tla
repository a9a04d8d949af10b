---------------------------- MODULE LedgerWriter ----------------------------
(***************************************************************************)
(* Concurrent transactions that append to the ledger (ledger/api.py) under *)
(* READ COMMITTED and the unique constraint uq_ledger_run_seq.             *)
(*                                                                         *)
(* An append reads max(seq) of its run, then inserts seq + 1.  The insert  *)
(* waits for a transaction that holds the same key uncommitted, and fails  *)
(* when a committed row has it.  A failed transaction is rolled back as a  *)
(* whole; a graph node runs again under with_retries, a request does not.  *)
(***************************************************************************)
EXTENDS Integers, Sequences, FiniteSets

CONSTANTS Runs,
          Writers,          \* the nodes and requests that append
          RunOf,            \* the run each appends to
          Appends,          \* how many entries each appends in its transaction
          Attempts          \* how often each is started, 1 for a request

ASSUME WriterAssumption ==
    /\ RunOf \in [Writers -> Runs]
    /\ Appends \in [Writers -> Nat \ {0}]
    /\ Attempts \in [Writers -> Nat \ {0}]

VARIABLES table,            \* run -> seq -> entry: the committed rows
          own,              \* writer -> seq -> entry: rows it has not committed
          pc, seq, attempt

vars == <<table, own, pc, seq, attempt>>

Entry(w, k) == [writer |-> w, attempt |-> attempt[w], index |-> k]

LedgerInit ==
    /\ table = [r \in Runs |-> << >>]
    /\ own = [w \in Writers |-> << >>]
    /\ pc = [w \in Writers |-> "read"]
    /\ seq = [w \in Writers |-> 0]
    /\ attempt = [w \in Writers |-> 1]

\* func.coalesce(func.max(LedgerEntry.seq), 0)
MaxSeq(S) == IF S = {} THEN 0 ELSE CHOOSE m \in S : \A s \in S : s <= m

\* A transaction sees what is committed and what it wrote itself.
Visible(w) == DOMAIN table[RunOf[w]] \cup DOMAIN own[w]

\* Mutant: the read also sees what others have not committed.
NextSeqDirty(w) ==
    /\ pc[w] = "read"
    /\ LET held == UNION {DOMAIN own[v] : v \in {u \in Writers : RunOf[u] = RunOf[w]}}
       IN  seq' = [seq EXCEPT ![w] = MaxSeq(Visible(w) \cup held) + 1]
    /\ pc' = [pc EXCEPT ![w] = "insert"]
    /\ UNCHANGED <<table, own, attempt>>

NextSeq(w) ==
    /\ pc[w] = "read"
    /\ seq' = [seq EXCEPT ![w] = MaxSeq(Visible(w)) + 1]
    /\ pc' = [pc EXCEPT ![w] = "insert"]
    /\ UNCHANGED <<table, own, attempt>>

\* Mutant: a constraint on seq alone.
WaitsForAnyRun(w, v) ==
    /\ pc[w] = "insert" /\ v # w
    /\ seq[w] \in DOMAIN own[v]

\* The rows of two runs never collide: the constraint is on (run_id, seq).
WaitsFor(w, v) ==
    /\ pc[w] = "insert" /\ v # w
    /\ RunOf[v] = RunOf[w] /\ seq[w] \in DOMAIN own[v]

Taken(w) == seq[w] \in DOMAIN table[RunOf[w]]

\* own[w] extended by the new row.
WithRow(w) ==
    [s \in DOMAIN own[w] \cup {seq[w]} |->
        IF s = seq[w] THEN Entry(w, Cardinality(DOMAIN own[w]) + 1) ELSE own[w][s]]

\* Mutant: the transaction ends one entry early, when it has one.
InsertShort(w) ==
    /\ pc[w] = "insert"
    /\ ~Taken(w) /\ \A v \in Writers : ~WaitsFor(w, v)
    /\ own' = [own EXCEPT ![w] = WithRow(w)]
    /\ pc' = [pc EXCEPT ![w] = IF Cardinality(DOMAIN WithRow(w)) < Appends[w] - 1 THEN "read" ELSE "commit"]
    /\ UNCHANGED <<table, seq, attempt>>

Insert(w) ==
    /\ pc[w] = "insert"
    /\ ~Taken(w) /\ \A v \in Writers : ~WaitsFor(w, v)
    /\ own' = [own EXCEPT ![w] = WithRow(w)]
    /\ pc' = [pc EXCEPT ![w] = IF Cardinality(DOMAIN WithRow(w)) < Appends[w] THEN "read" ELSE "commit"]
    /\ UNCHANGED <<table, seq, attempt>>

\* Rolled back; what with_retries or the caller then makes of the error.
Abort(w) ==
    /\ own' = [own EXCEPT ![w] = << >>]
    /\ seq' = [seq EXCEPT ![w] = 0]
    /\ IF attempt[w] < Attempts[w]
       THEN /\ attempt' = [attempt EXCEPT ![w] = @ + 1]
            /\ pc' = [pc EXCEPT ![w] = "read"]
       ELSE /\ pc' = [pc EXCEPT ![w] = "failed"]
            /\ UNCHANGED attempt

\* Mutant: the insert is tried again with the number it has.
ConflictRetriesInPlace(w) ==
    /\ pc[w] = "insert" /\ Taken(w)
    /\ UNCHANGED vars

\* IntegrityError at the flush.
Conflict(w) ==
    /\ pc[w] = "insert" /\ Taken(w)
    /\ Abort(w)
    /\ UNCHANGED table

Committed(w) ==
    [table EXCEPT ![RunOf[w]] =
        [s \in DOMAIN @ \cup DOMAIN own[w] |-> IF s \in DOMAIN own[w] THEN own[w][s] ELSE @[s]]]

\* Mutant: every row is committed by itself, and a failure keeps the first ones.
FailKeepingRows(w) ==
    /\ pc[w] \in {"read", "insert", "commit"}
    /\ table' = Committed(w)
    /\ Abort(w)

\* Anything else that ends the transaction: a lost connection, a refused row,
\* an UPDATE or DELETE of a ledger row, which its trigger rejects.
Fail(w) ==
    /\ pc[w] \in {"read", "insert", "commit"}
    /\ Abort(w)
    /\ UNCHANGED table

Commit(w) ==
    /\ pc[w] = "commit"
    /\ table' = Committed(w)
    /\ own' = [own EXCEPT ![w] = << >>]
    /\ pc' = [pc EXCEPT ![w] = "done"]
    /\ UNCHANGED <<seq, attempt>>

\* The commit is durable but its acknowledgement is lost: the node or the
\* caller takes it for a failure.
CommitUnacknowledged(w) ==
    /\ pc[w] = "commit"
    /\ table' = Committed(w)
    /\ Abort(w)

WriterStep(w) == NextSeq(w) \/ Insert(w) \/ Conflict(w) \/ Commit(w)
WriterFault(w) == Fail(w) \/ CommitUnacknowledged(w)

LedgerNext == \E w \in Writers : WriterStep(w) \/ WriterFault(w)

LedgerSpec == LedgerInit /\ [][LedgerNext]_vars

\* Every session is scheduled, and the database answers it.
LedgerFairSpec == LedgerSpec /\ \A w \in Writers : WF_vars(WriterStep(w))

-----------------------------------------------------------------------------
Entries == [writer : Writers, attempt : Nat, index : Nat]

\* The type invariant.
LedgerTypeOK ==
    /\ DOMAIN table = Runs
    /\ \A r \in Runs : DOMAIN table[r] \subseteq Nat /\ \A s \in DOMAIN table[r] : table[r][s] \in Entries
    /\ DOMAIN own = Writers
    /\ \A w \in Writers : DOMAIN own[w] \subseteq Nat /\ \A s \in DOMAIN own[w] : own[w][s] \in Entries
    /\ pc \in [Writers -> {"read", "insert", "commit", "done", "failed"}]
    /\ seq \in [Writers -> Nat]
    /\ \A w \in Writers : attempt[w] \in 1..Attempts[w]

\* No reader ever finds a gap: the committed entries of a run are numbered
\* from 1 without holes, although numbers are taken from a read that other
\* transactions outdate and transactions that hold a number may roll back.
NoGaps == \A r \in Runs : DOMAIN table[r] = 1..Cardinality(DOMAIN table[r])

\* The constraint makes a run's writers take turns: only one transaction at a
\* time holds uncommitted entries of a run.
OneWriterPerRun ==
    \A v, w \in Writers :
        DOMAIN own[v] # {} /\ DOMAIN own[w] # {} /\ RunOf[v] = RunOf[w] => v = w

\* A transaction that others wait for waits for nobody: the appends of
\* concurrent transactions cannot deadlock.
NobodyWaitsInACircle ==
    \A u, v, w \in Writers : ~(WaitsFor(u, v) /\ WaitsFor(v, w))

\* A writer that was told its transaction is committed finds all its entries
\* in the log, next to each other and in the order it appended them.
DoneIsOnRecord ==
    \A w \in Writers :
        pc[w] = "done" =>
            \E s \in DOMAIN table[RunOf[w]] :
                \A k \in 1..Appends[w] :
                    /\ s + k - 1 \in DOMAIN table[RunOf[w]]
                    /\ table[RunOf[w]][s + k - 1] = Entry(w, k)

\* Every transaction ends, however the others hold the numbers it needs.
WritersSettle == \A w \in Writers : <>(pc[w] \in {"done", "failed"})

\* With dense numbers the rows of a run are a sequence, the abstract log.
Batch(w, a) == [k \in 1..Appends[w] |-> [writer |-> w, attempt |-> a, index |-> k]]

Log == INSTANCE AuditLog WITH
    log <- table,
    Batches <- UNION {{Batch(w, a) : a \in 1..Attempts[w]} : w \in Writers}

\* The table is an append-only log that grows by whole transactions.
ImplementsAuditLog == Log!LogSpec
=============================================================================
