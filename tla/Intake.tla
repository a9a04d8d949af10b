------------------------------- MODULE Intake -------------------------------
(***************************************************************************)
(* What the intake of documents promises, without calls, locks, caches or  *)
(* failures: a document is accepted once, every further copy of it is      *)
(* rejected, and the pipeline is started at most once for what is accepted.*)
(***************************************************************************)
EXTENDS Naturals, Sequences

CONSTANT Documents

VARIABLES
    outcomes,  \* what became of each ingested copy, in order
    started    \* documents handed to the pipeline, in order

intakeVars == <<outcomes, started>>

Accepted(d) ==
    \E k \in 1..Len(outcomes) : outcomes[k].doc = d /\ ~outcomes[k].duplicate

Started(d) == \E k \in 1..Len(started) : started[k] = d

IntakeInit == outcomes = <<>> /\ started = <<>>

AcceptFirst(d) ==
    /\ ~Accepted(d)
    /\ outcomes' = Append(outcomes, [doc |-> d, duplicate |-> FALSE])
    /\ UNCHANGED started

RejectCopy(d) ==
    /\ Accepted(d)
    /\ outcomes' = Append(outcomes, [doc |-> d, duplicate |-> TRUE])
    /\ UNCHANGED started

StartPipeline(d) ==
    /\ Accepted(d) /\ ~Started(d)
    /\ started' = Append(started, d)
    /\ UNCHANGED outcomes

IntakeNext ==
    \E d \in Documents : AcceptFirst(d) \/ RejectCopy(d) \/ StartPipeline(d)

IntakeSpec == IntakeInit /\ [][IntakeNext]_intakeVars
=============================================================================
