---------------------------- MODULE PolicyEngine ----------------------------
(***************************************************************************)
(* The policy rules (tools/policy.py, tools/policy_config.py).  A finding  *)
(* carries the taxonomy code, whose severity it must have.  Findings name  *)
(* their rule by their code; evidence other than the approver is left out. *)
(***************************************************************************)
EXTENDS ThreeWayMatch, ExceptionTaxonomy

AUTO_APPROVE_LIMITS == [EUR |-> 2500000]       \* 2,500.00
MANAGER_LIMITS      == [EUR |-> 10000000]      \* 10,000.00; above it (up to a sentinel) a director
STALE_PO_DAYS       == 90

PolicyFinding(code, approver) ==
    [code |-> code, severity |-> TAXONOMY[code].severity, approver |-> approver]

Iso(currency) == IF currency = Absent THEN "" ELSE currency.iso

ApproverRole(iso, amount) ==
    IF iso \notin DOMAIN MANAGER_LIMITS THEN Absent
    ELSE IF amount <= MANAGER_LIMITS[iso] THEN "manager" ELSE "director"

\* Mutant: the limit itself is no longer within it.
WithinLimitExclusive(iso, amount) ==
    iso \in DOMAIN AUTO_APPROVE_LIMITS /\ amount < AUTO_APPROVE_LIMITS[iso]

\* A currency without a band is never within its limit.
WithinLimit(iso, amount) ==
    iso \in DOMAIN AUTO_APPROVE_LIMITS /\ amount <= AUTO_APPROVE_LIMITS[iso]

RuleSpendLimit(e) ==
    IF e.total_amount = Absent \/ WithinLimit(Iso(e.currency), e.total_amount) THEN {}
    ELSE {PolicyFinding("APPROVAL_REQUIRED", ApproverRole(Iso(e.currency), e.total_amount))}

Overdue(e, po) == po.ordered_at # Absent /\ e.issue_date - po.ordered_at > STALE_PO_DAYS

RuleStalePo(e, po) ==
    IF po # Absent /\ e.issue_date # Absent /\ (po.status = "CLOSED" \/ Overdue(e, po))
    THEN {PolicyFinding("STALE_PO", Absent)} ELSE {}

NormIban(iban) == iban.account

RuleBankChange(e, po) ==
    IF /\ e.iban # Absent /\ po # Absent /\ po.vendor.iban # Absent
       /\ NormIban(e.iban) # NormIban(po.vendor.iban)
    THEN {PolicyFinding("BANK_CHANGE", Absent)} ELSE {}

RuleNearDup(hits) == {PolicyFinding("DUP_NEAR", Absent) : h \in hits}

EvaluatePolicy(e, po, hits) ==
    RuleSpendLimit(e) \cup RuleStalePo(e, po) \cup RuleBankChange(e, po) \cup RuleNearDup(hits)

=============================================================================
