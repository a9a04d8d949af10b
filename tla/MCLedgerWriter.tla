--------------------------- MODULE MCLedgerWriter ---------------------------
(* An instance of LedgerWriter for TLC. *)
EXTENDS LedgerWriter

CONSTANTS r1, r2, node, triage, request, other

MCRuns == {r1, r2}
MCWriters == {node, triage, request, other}
MCRunOf == [w \in MCWriters |-> IF w = other THEN r2 ELSE r1]
MCAppends == [w \in MCWriters |-> IF w = triage THEN 2 ELSE 1]
MCAttempts == [w \in MCWriters |-> IF w = request THEN 1 ELSE 2]
=============================================================================
