------------------------------ MODULE AuditLog ------------------------------
(***************************************************************************)
(* What the ledger promises its readers (ADR 0004): for every run one log  *)
(* that only ever grows at its end, by all the entries of one committed    *)
(* transaction at a time, in the order the transaction appended them.      *)
(***************************************************************************)
EXTENDS Sequences, Naturals

CONSTANTS Runs, Batches   \* what one transaction may append

VARIABLE log

LogInit == log = [r \in Runs |-> << >>]

AppendBatch(r) == \E b \in Batches : log' = [log EXCEPT ![r] = @ \o b]

LogNext == \E r \in Runs : AppendBatch(r)

LogSpec == LogInit /\ [][LogNext]_log
=============================================================================
