---------------------------- MODULE NearDuplicate ----------------------------
(***************************************************************************)
(* The near-duplicate check of concurrent policy nodes                     *)
(* (tools/near_dup.py, PipelineNodes.policy): embed the invoice, look for  *)
(* similar ones among the committed embeddings, store the own one, commit, *)
(* and report the hits in a transaction of their own.  Each node runs      *)
(* under with_retries, and a failed one may be replayed from the           *)
(* dead-letter queue.  The embedder and pgvector are external: they give   *)
(* a symmetric similarity in percent.                                      *)
(***************************************************************************)
EXTENDS Integers, FiniteSets

CONSTANTS Invoices,
          Similarities,     \* bound: the percentages a pair may have
          NEAR_DUP_SIMILARITY_THRESHOLD,
          TOP_K,
          Attempts,         \* RetryPolicy.attempts
          MaxFailures       \* bound: failures in one behaviour

ASSUME NearDupAssumption ==
    /\ IsFiniteSet(Invoices)
    /\ Similarities \subseteq 0..100 /\ NEAR_DUP_SIMILARITY_THRESHOLD \in 0..100
    /\ TOP_K \in Nat \ {0} /\ Attempts \in Nat \ {0} /\ MaxFailures \in Nat

VARIABLES similarity,       \* of each pair
          embedded,         \* invoices whose embedding is committed
          pc, attempt,
          hits,             \* what the transaction found
          report,           \* what the node reported: {} is a pass
          failures,
          before            \* history: embedded when the transaction began

vars == <<similarity, embedded, pc, attempt, hits, report, failures, before>>

Pairs == {p \in SUBSET Invoices : Cardinality(p) = 2}

Init ==
    /\ similarity \in [Pairs -> Similarities]
    /\ embedded = {}
    /\ pc = [i \in Invoices |-> "begin"]
    /\ attempt = [i \in Invoices |-> 1]
    /\ failures = 0
    /\ hits = [i \in Invoices |-> {}]
    /\ report = [i \in Invoices |-> {}]
    /\ before = [i \in Invoices |-> {}]

Goto(i, label) == pc' = [pc EXCEPT ![i] = label]

\* The session opens and the embedder is awaited.
Begin(i) ==
    /\ pc[i] = "begin"
    /\ before' = [before EXCEPT ![i] = embedded]
    /\ Goto(i, "query")
    /\ UNCHANGED <<similarity, embedded, attempt, failures, hits, report>>

\* Mutant: a similarity exactly at the threshold counts.
NearDuplicatesAtThreshold(i) ==
    {j \in embedded \ {i} : similarity[{i, j}] >= NEAR_DUP_SIMILARITY_THRESHOLD}

\* distance < 1 - threshold, strictly.
NearDuplicates(i) ==
    {j \in embedded \ {i} : similarity[{i, j}] > NEAR_DUP_SIMILARITY_THRESHOLD}

\* Mutant: a limit without an order.
BestOfUnordered(i, S) ==
    {B \in SUBSET S : Cardinality(B) = IF Cardinality(S) < TOP_K THEN Cardinality(S) ELSE TOP_K}

\* The first TOP_K by distance; the order of equals is the database's.
BestOf(i, S) ==
    {B \in SUBSET S :
        /\ Cardinality(B) = IF Cardinality(S) < TOP_K THEN Cardinality(S) ELSE TOP_K
        /\ \A b \in B, o \in S \ B : similarity[{i, b}] >= similarity[{i, o}]}

FindSimilar(i) ==
    /\ pc[i] = "query"
    /\ \E B \in BestOf(i, NearDuplicates(i)) : hits' = [hits EXCEPT ![i] = B]
    /\ Goto(i, "store")
    /\ UNCHANGED <<similarity, embedded, attempt, failures, report, before>>

\* The UPDATE of the own row, the evaluation of the rules and the commit.
StoreAndCommit(i) ==
    /\ pc[i] = "store"
    /\ embedded' = embedded \cup {i}
    /\ Goto(i, "report")
    /\ UNCHANGED <<similarity, attempt, failures, hits, report, before>>

\* policy.evaluated and the state the node returns.
Report(i) ==
    /\ pc[i] = "report"
    /\ report' = [report EXCEPT ![i] = hits[i]]
    /\ hits' = [hits EXCEPT ![i] = {}]
    /\ Goto(i, "done")
    /\ UNCHANGED <<similarity, embedded, attempt, failures, before>>

\* An infrastructure failure anywhere in the node, whose open transaction is
\* rolled back: an embedding committed by then stays.
Fail(i) ==
    /\ pc[i] \in {"query", "store", "report"} /\ failures < MaxFailures
    /\ failures' = failures + 1
    /\ hits' = [hits EXCEPT ![i] = {}]
    /\ IF attempt[i] < Attempts
       THEN Goto(i, "begin") /\ attempt' = [attempt EXCEPT ![i] = @ + 1]
       ELSE Goto(i, "failed") /\ UNCHANGED attempt
    /\ UNCHANGED <<similarity, embedded, report, before>>

Replay(i) ==
    /\ pc[i] = "failed"
    /\ attempt' = [attempt EXCEPT ![i] = 1]
    /\ Goto(i, "begin")
    /\ UNCHANGED <<similarity, embedded, hits, report, failures, before>>

Next == \E i \in Invoices :
    Begin(i) \/ FindSimilar(i) \/ StoreAndCommit(i) \/ Report(i) \/ Fail(i) \/ Replay(i)

Spec == Init /\ [][Next]_vars

-----------------------------------------------------------------------------
Labels == {"begin", "query", "store", "report", "done", "failed"}
Done(i) == pc[i] = "done"
NearDup(i, j) == similarity[{i, j}] > NEAR_DUP_SIMILARITY_THRESHOLD

\* The type invariant.
TypeOK ==
    /\ similarity \in [Pairs -> Similarities]
    /\ embedded \subseteq Invoices
    /\ pc \in [Invoices -> Labels]
    /\ attempt \in [Invoices -> 1..Attempts]
    /\ failures \in 0..MaxFailures
    /\ hits \in [Invoices -> SUBSET Invoices]
    /\ report \in [Invoices -> SUBSET Invoices]
    /\ before \in [Invoices -> SUBSET Invoices]

\* A resubmission is caught: an invoice whose check began after a similar
\* one's embedding was committed is reported, whatever failed, was retried or
\* replayed on either side in between.
LaterOneIsFlagged ==
    \A i, j \in Invoices : Done(i) /\ j \in before[i] /\ i # j /\ NearDup(i, j) => report[i] # {}

\* The evidence is real: no invoice is accused with itself, with one below
\* the threshold or with one whose embedding was rolled back.
EvidenceIsReal ==
    \A i \in Invoices : \A j \in hits[i] \cup report[i] : j # i /\ j \in embedded /\ NearDup(i, j)

\* The evidence holds the best match there was when the check began, or one
\* as good, however many others there were.
BestEvidenceIsKept ==
    \A i, j \in Invoices :
        Done(i) /\ j \in before[i] /\ i # j /\ NearDup(i, j)
            => \E b \in report[i] : similarity[{i, b}] >= similarity[{i, j}]
=============================================================================
