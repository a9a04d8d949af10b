------------------------------ MODULE Verdict ------------------------------
(***************************************************************************)
(* One invoice through the deterministic nodes of the graph                *)
(* (graph/nodes/pipeline.py, graph/routing.py), with the data the engines  *)
(* compare: what Pipeline chooses nondeterministically (has the validation *)
(* an error? is there a mismatch?) is computed here.  Pipeline has the     *)
(* failures, retries, crashes and checkpoints of the same nodes; here a    *)
(* node succeeds once, or its input makes it fail every time.              *)
(*                                                                         *)
(* A case is what the run meets: the model's answer, the ERP, the orders   *)
(* in it that have several goods receipts, and the invoice's near          *)
(* duplicates.                                                             *)
(***************************************************************************)
EXTENDS PolicyEngine, ConfidenceGate

CONSTANTS Cases,    \* [answer, erp, several, hits] to consider
          Clock,    \* the injected clock, in hours
          Advice    \* what the triage agent answers, when it answers

Answers == [vendor_name : Optional(Names) \cup {Blank}, invoice_number : Optional(STRING) \cup {Blank},
            po_number : Optional(STRING) \cup {Blank}, issue_date : Optional(Int) \cup {Blank},
            due_date : Optional(Int) \cup {Blank}, currency : Optional(Currencies) \cup {Blank},
            total_amount : Optional(Int), tax_total : Optional(Int), iban : Optional(Ibans) \cup {Blank},
            lines : Seq(ExtractionLine), confidences : [ConfidenceKeys -> Optional(Int)]]

ASSUME CasesAssumption ==
    \A c \in Cases :
        /\ c.answer \in Answers /\ c.several \subseteq DOMAIN c.erp
        /\ \A p \in DOMAIN c.erp : p \in STRING /\ c.erp[p] \in PurchaseOrder

\* No gate decision and no route yet is neither of them.
ASSUME NoRouteAssumption == Absent \notin {"AUTO", "EXCEPTION"}

VARIABLES case, node, state, invoice, exception, ledger

vars == <<case, node, state, invoice, exception, ledger>>

EmptyState == [extraction |-> Absent, validation |-> {}, match |-> Absent, policy |-> {},
               confidence |-> Absent, gate |-> Absent, route |-> Absent]

EmptyRow == [invoice_number |-> Absent, currency |-> Absent, amount_total |-> Absent,
             issue_date |-> Absent, order |-> Absent, status |-> "RECEIVED"]

Init ==
    /\ case \in Cases
    /\ node = "extract"
    /\ state = EmptyState
    /\ invoice = EmptyRow
    /\ exception = Absent
    /\ ledger = <<>>

Log(event, facts) == ledger' = Append(ledger, [event |-> event, facts |-> facts])

E  == state.extraction
Po == LoadPo(case.erp, E.po_number)

-----------------------------------------------------------------------------
HasFailure(findings, severity) == \E f \in findings : f.severity = severity

RouteAfterValidate(s) == IF HasFailure(s.validation, "ERROR") THEN "exception_triage" ELSE "match3way"

RouteAfterMatch(s) ==
    IF s.match # Absent /\ s.match.outcome = "MISMATCH" THEN "exception_triage" ELSE "policy"

RouteAfterPolicy(s) == IF HasFailure(s.policy, "HIGH") THEN "exception_triage" ELSE "gate"

\* Mutant: exactly at tau the gate and the routing disagree.
RouteAfterGateAboveTau(s) ==
    IF s.confidence = Absent \/ s.confidence.num <= TAU * s.confidence.den
    THEN "exception_triage" ELSE "auto_approve"

\* Below tau, or without a confidence, never approved; at tau, approved.
RouteAfterGate(s) ==
    IF s.confidence = Absent \/ s.confidence.num < TAU * s.confidence.den
    THEN "exception_triage" ELSE "auto_approve"

-----------------------------------------------------------------------------
Extract ==
    /\ node = "extract"
    /\ state' = [state EXCEPT !.extraction = Extracted(case.answer)]
    /\ Log("extract.completed", {})
    /\ node' = "validate"
    /\ UNCHANGED <<case, invoice, exception>>

Validate ==
    /\ node = "validate"
    /\ state' = [state EXCEPT !.validation = ValidateExtraction(E)]
    /\ Log("validate.completed", ValidateExtraction(E))
    /\ node' = RouteAfterValidate(state')
    /\ UNCHANGED <<case, invoice, exception>>

\* The queue's read model is filled in from the extraction, and with the
\* order when there is one.
Backfilled ==
    [invoice EXCEPT !.invoice_number = E.invoice_number, !.currency = E.currency,
                    !.amount_total = E.total_amount, !.issue_date = E.issue_date,
                    !.order = IF Po = Absent THEN @ ELSE E.po_number]

MatchOf(e, po) == Match3way(InvoiceForMatch(e), po)

\* scalar_one_or_none raises for an order with several receipts, before the
\* node has written anything; a retry or a replay raises again.
LoadPoRaises ==
    /\ node = "match3way"
    /\ E.po_number \in case.several
    /\ node' = "raised"
    /\ UNCHANGED <<case, state, invoice, exception, ledger>>

Match3wayNode ==
    /\ node = "match3way"
    /\ E.po_number \notin case.several
    /\ invoice' = Backfilled
    /\ state' = [state EXCEPT !.match = MatchOf(E, Po)]
    /\ Log("match.completed", MatchOf(E, Po).findings)
    /\ node' = RouteAfterMatch(state')
    /\ UNCHANGED <<case, exception>>

Policy ==
    /\ node = "policy"
    /\ state' = [state EXCEPT !.policy = EvaluatePolicy(E, Po, case.hits)]
    /\ Log("policy.evaluated", EvaluatePolicy(E, Po, case.hits))
    /\ node' = RouteAfterPolicy(state')
    /\ UNCHANGED <<case, invoice, exception>>

Gate ==
    /\ node = "gate"
    /\ LET confidence == Confidence(E.confidences, state.match, state.policy)
       IN  /\ state' = [state EXCEPT !.confidence = confidence, !.gate = Decide(confidence)]
           /\ Log("gate.decided", {Decide(confidence)})
    /\ node' = RouteAfterGate(state')
    /\ UNCHANGED <<case, invoice, exception>>

AutoApprove ==
    /\ node = "auto_approve"
    /\ invoice' = [invoice EXCEPT !.status = "AUTO_APPROVED"]
    /\ state' = [state EXCEPT !.route = "AUTO"]
    /\ Log("invoice.auto_approved", {})
    /\ node' = "archive"
    /\ UNCHANGED <<case, exception>>

\* Mutant: warnings open exceptions too.
EntriesWithWarnings(s) ==
    {CodeForValidation(f) : f \in s.validation}
    \cup {CodeForMatching(f) : f \in IF s.match = Absent THEN {} ELSE s.match.findings}
    \cup {f.code : f \in s.policy}

\* The taxonomy codes of everything that can open an exception.
Entries(s) ==
    {CodeForValidation(f) : f \in Errors(s.validation)}
    \cup {CodeForMatching(f) : f \in IF s.match = Absent THEN {} ELSE Errors(s.match.findings)}
    \cup {f.code : f \in s.policy}

Draft(code) == [code |-> code, severity |-> TAXONOMY[code].severity,
                sla_due_at |-> SlaDueAt(Clock, code)]

\* With no finding at all, the gate must have escalated.
TriageCode(s) == IF Entries(s) = {} THEN "APPROVAL_REQUIRED" ELSE PrimaryCode(Entries(s))

\* A run that gets here with no finding and no escalation is refused:
\* "exception_triage reached with no findings - routing bug".
ExceptionTriage(advice) ==
    /\ node = "exception_triage"
    /\ IF Entries(state) = {} /\ state.gate # "EXCEPTION"
       THEN node' = "failed" /\ UNCHANGED <<state, invoice, exception, ledger>>
       ELSE LET code   == TriageCode(state)
                opened == [event |-> "exception.opened", facts |-> {code}]
                agent  == IF advice = Absent THEN <<>>
                          ELSE <<[event |-> "triage.completed", facts |-> {advice}]>>
            IN  /\ exception' = [draft |-> Draft(code), recommendation |-> advice, status |-> "OPEN"]
                /\ ledger' = ledger \o <<opened>> \o agent
                /\ invoice' = [invoice EXCEPT !.status = "EXCEPTION"]
                /\ state' = [state EXCEPT !.route = "EXCEPTION"]
                /\ node' = "human_review"
    /\ UNCHANGED case

Next ==
    \/ Extract \/ Validate \/ LoadPoRaises \/ Match3wayNode \/ Policy \/ Gate \/ AutoApprove
    \/ \E advice \in Optional(Advice) : ExceptionTriage(advice)

Spec == Init /\ [][Next]_vars

-----------------------------------------------------------------------------
\* Every document that gets a verdict gets the one the payment rule gives it,
\* whichever nodes it passes: findings, severities, taxonomy codes, the four routing
\* functions and the gate together approve exactly the payable invoices.
Rule == INSTANCE PaymentRule WITH
            verdict <- IF state.route = Absent THEN "pending" ELSE state.route

ImplementsPaymentRule == Rule!Spec

\* Triage always has a reason to give: the two places that compare the
\* confidence with tau (the gate and the routing function) and the two that
\* read severities (the routing functions and triage) never disagree, so
\* the "routing bug" branch is dead and an approval is the gate's own.
TriageHasReason ==
    /\ node # "failed"
    /\ node = "exception_triage" => Entries(state) # {} \/ state.gate = "EXCEPTION"
    /\ state.route = "AUTO" => Entries(state) = {} /\ state.gate = "AUTO"

\* The exception's code is at least as severe as every finding behind it:
\* the order of CODE_PRECEDENCE agrees with the severities of TAXONOMY, and
\* the record carries the severity of its own code.
PrimaryIsMostSevere ==
    exception # Absent =>
        /\ exception.draft.severity = TAXONOMY[exception.draft.code].severity
        /\ \A code \in Entries(state) :
              SeverityRank[TAXONOMY[code].severity] <= SeverityRank[exception.draft.severity]

\* An auditor who has only the ledger can recompute the verdict: an approval
\* follows four engine entries without an error, a policy finding or an
\* escalation, and the code of an exception follows from the entries.
Facts(event) == UNION {ledger[i].facts : i \in {j \in DOMAIN ledger : ledger[j].event = event}}
LedgerCodes ==
    {CodeForValidation(f) : f \in Errors(Facts("validate.completed"))}
    \cup {CodeForMatching(f) : f \in Errors(Facts("match.completed"))}
    \cup {f.code : f \in Facts("policy.evaluated")}
AuditRecomputes ==
    /\ state.route = "AUTO" =>
          /\ LedgerCodes = {} /\ Facts("gate.decided") = {"AUTO"}
          /\ {ledger[i].event : i \in DOMAIN ledger} =
                {"extract.completed", "validate.completed", "match.completed", "policy.evaluated",
                 "gate.decided", "invoice.auto_approved"}
    /\ exception # Absent =>
          /\ Facts("exception.opened") = {exception.draft.code}
          /\ LedgerCodes # {} => exception.draft.code = PrimaryCode(LedgerCodes)
          /\ LedgerCodes = {} => /\ exception.draft.code = "APPROVAL_REQUIRED"
                                 /\ Facts("gate.decided") = {"EXCEPTION"}
=============================================================================
