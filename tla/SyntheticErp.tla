---------------------------- MODULE SyntheticErp ----------------------------
(***************************************************************************)
(* The synthetic ERP the demo and the evaluation run against               *)
(* (data/erp.py), composed with the verdict: the orders the generator can  *)
(* emit, with every random draw a choice, and the clean invoice of one.    *)
(***************************************************************************)
EXTENDS Verdict

CONSTANTS Vendors,      \* [name, iban, currency]: the generated vendors
          Quantities,   \* tenths; the whole ones may be pieces
          Prices,       \* cents
          Ages,         \* days before the reference date
          REFERENCE     \* the reference date

UOM_EACH       == {"EA", "PCS", "BOX"}
UOM_FRACTIONAL == {"KG", "M"}

\* A quantity of pieces is whole, one of kilograms or metres has one decimal.
GeneratedLines(no) ==
    {l \in [line_no : {no}, qty : Quantities, uom : UOM_EACH \cup UOM_FRACTIONAL,
            unit_price : Prices, tax_code : DOMAIN TAX_RATES] :
        l.uom \in UOM_EACH => l.qty % 10 = 0}

\* Full receipt, the vendor's home currency, any status and age.
GeneratedOrder(vendor, status, age, lines) ==
    [vendor |-> [name |-> vendor.name, iban |-> vendor.iban],
     currency |-> vendor.currency, status |-> status, ordered_at |-> REFERENCE - age,
     lines |-> lines,
     receipt |-> [i \in DOMAIN lines |-> [line_no |-> lines[i].line_no, qty |-> lines[i].qty]]]

LineTotal(line) == line.qty * line.unit_price
NetTotal(lines) == SumOver(lines, [i \in DOMAIN lines |-> LineTotal(lines[i])])
\* Mutant: the standard rate for every line.
TaxTotalStandard(lines) == NetTotal(lines) * TAX_RATES.S

TaxTotal(lines) == SumOver(lines, [i \in DOMAIN lines |-> LineTotal(lines[i]) * TAX_RATES[lines[i].tax_code]])

\* What a clean invoice of a generated order says; the confidences are the
\* reader's and not part of it.
CleanInvoiceFor(po_number, po, number, issue_date, confidences) ==
    [vendor_name |-> po.vendor.name, invoice_number |-> number, po_number |-> po_number,
     issue_date |-> issue_date, due_date |-> issue_date + 30, currency |-> po.currency,
     total_amount |-> NetTotal(po.lines), tax_total |-> TaxTotal(po.lines),
     iban |-> po.vendor.iban,
     lines |-> [i \in DOMAIN po.lines |->
        [line_no |-> po.lines[i].line_no, qty |-> po.lines[i].qty, uom |-> po.lines[i].uom,
         unit_price |-> po.lines[i].unit_price, tax_code |-> po.lines[i].tax_code,
         line_total |-> LineTotal(po.lines[i])]],
     confidences |-> confidences]

\* What the generator says of every row it emits.
GroundTruth(po) ==
    /\ po.vendor.iban # Absent /\ po.vendor.iban.structure = "valid"
    /\ po.currency # Absent /\ po.currency.shaped
    /\ po.ordered_at # Absent
    /\ po.lines # <<>> /\ \A i \in DOMAIN po.lines : po.lines[i].tax_code \in DOMAIN TAX_RATES
    /\ \A i, j \in DOMAIN po.lines : po.lines[i].line_no = po.lines[j].line_no => i = j
    /\ po.receipt = [i \in DOMAIN po.lines |-> [line_no |-> po.lines[i].line_no, qty |-> po.lines[i].qty]]

IsClean(c) ==
    /\ {c.answer.issue_date, c.answer.invoice_number} \cap {Absent, Blank} = {}
    /\ \E p \in DOMAIN c.erp :
           /\ GroundTruth(c.erp[p])
           /\ c.answer = CleanInvoiceFor(p, c.erp[p], c.answer.invoice_number, c.answer.issue_date,
                                         c.answer.confidences)

-----------------------------------------------------------------------------
\* "A spec built from a generated PO passes every deterministic check": no
\* validation finding, a perfect match, and from the policy only what the
\* order itself gives cause for (a closed or old order, an amount or a
\* currency beyond the limits, a near duplicate).
CleanPassesEveryCheck ==
    IsClean(case) =>
        /\ state.validation = {}
        /\ state.match # Absent =>
              state.match.outcome = "MATCH" /\ state.match.delta.num = 0 /\ state.match.findings = {}
        /\ \A f \in state.policy :
              \/ f.code = "STALE_PO" /\ (Po.status = "CLOSED" \/ E.issue_date - Po.ordered_at > 90)
              \/ f.code = "APPROVAL_REQUIRED" /\ (Po.currency.iso # "EUR" \/ NetTotal(Po.lines) > 2500000)
              \/ f.code = "DUP_NEAR" /\ case.hits # {}

=============================================================================
