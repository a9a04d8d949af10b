-------------------------- MODULE MCHumanDecision --------------------------
(* Instances of HumanDecision and the views of it for TLC. *)
EXTENDS OperatorView, TLC

CONSTANT MaxLedger  \* bound: ledger entries of one run (MCShortLedger)

\* Workers and requests are interchangeable: nothing orders or names them.
MCSymmetry == Permutations(Workers) \cup Permutations(Requests)

\* Two concurrent executions interleave their ledger entries in too many
\* orders; runs that use this constraint stop after MaxLedger entries.
MCShortLedger == \A r \in 1..Len(ledger) : Len(ledger[r]) <= MaxLedger
=============================================================================
