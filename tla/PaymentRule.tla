---------------------------- MODULE PaymentRule ----------------------------
(***************************************************************************)
(* What the deterministic engines promise together, with no findings,      *)
(* severities, codes or nodes: an invoice is paid without a human exactly  *)
(* when its answer, its order and the corpus make it payable.  The module  *)
(* Verdict is shown to implement this specification.                       *)
(***************************************************************************)
EXTENDS ThreeWayMatch

VARIABLES case,      \* [answer, erp, hits and others], any
          verdict

Given(answer, f) == answer[f] # Absent /\ (f \in BlankFields => answer[f] # Blank)

Complete(answer) == \A f \in REQUIRED_ERROR_FIELDS : Given(answer, f)

WellFormed(answer) ==
    /\ answer.currency.shaped
    /\ Given(answer, "iban") => answer.iban.structure \in {"valid", "unknown_country"}

\* Every complete line and the invoice add up; so does its tax, when every
\* code is known.
AddsUp(answer) ==
    /\ \A i \in DOMAIN answer.lines :
          LET l == answer.lines[i] IN
          (l.qty # Absent /\ l.unit_price # Absent /\ l.line_total # Absent)
              => l.line_total = l.qty * l.unit_price
    /\ Totalled(answer) # {} => answer.total_amount = StatedSum(answer)
    /\ (answer.tax_total # Absent /\ Taxed(answer) # {} /\ UnknownCodes(answer) = {})
          => /\ answer.tax_total <= ExpectedTax(answer) + 1000
             /\ answer.tax_total >= ExpectedTax(answer) - 1000

\* A line is covered by the order line and the receipt entry of its number:
\* no more than was received, at a price within 2% or 50 cents.
Covered(line, po) ==
    /\ OnPo(line, po)
    /\ Rows(Receipt(po), line.line_no) # {}
    /\ OrZero(line.qty) <= LastRow(Receipt(po), line.line_no).qty
    /\ LET ordered == LastRow(po.lines, line.line_no)
           drift   == AbsVal(OrZero(line.unit_price) - ordered.unit_price)
       IN  /\ drift <= 50 \/ 50 * drift <= ordered.unit_price
           /\ (line.uom # Absent /\ ordered.uom # Absent) => line.uom = ordered.uom

OrderCovers(answer, po) ==
    /\ answer.vendor_name.party = po.vendor.name.party
    /\ po.currency # Absent => answer.currency.iso = po.currency.iso
    /\ \A i \in DOMAIN answer.lines : Covered(answer.lines[i], po)

\* At most EUR 2,500.00, on an open order of the last 90 days, to the
\* account the vendor is known by.
Safe(answer, po) ==
    /\ answer.currency.iso = "EUR" /\ answer.total_amount <= 2500000
    /\ po.status # "CLOSED"
    /\ po.ordered_at # Absent => answer.issue_date - po.ordered_at <= 90
    /\ (Given(answer, "iban") /\ po.vendor.iban # Absent)
          => answer.iban.account = po.vendor.iban.account

\* The least sure critical field and the largest price drift together cost
\* at most 0.15: f + 100 (1 - r) >= 162.5 for the confidence f of every
\* critical field and the drift ratio r of every line.
CriticalFields == ConfidenceKeys \ {"due_date", "line.description"}
Recorded(answer) == {k \in CriticalFields : answer.confidences[k] # Absent}
Sure(answer, po) ==
    LET NonNegative(n) == IF n < 0 THEN 0 ELSE n
        DriftOf(line) == 50 * AbsVal(OrZero(line.unit_price) - LastRow(po.lines, line.line_no).unit_price)
        BandOf(line)  == PriceBand50(LastRow(po.lines, line.line_no).unit_price)
    IN  /\ Recorded(answer) # {}
        /\ \A k \in Recorded(answer) :
              /\ 4 * NonNegative(answer.confidences[k]) >= 250
              /\ \A i \in DOMAIN answer.lines :
                    LET l == answer.lines[i] IN
                    (4 * NonNegative(answer.confidences[k]) - 250) * BandOf(l) >= 400 * DriftOf(l)

Payable(c) ==
    /\ Complete(c.answer) /\ WellFormed(c.answer) /\ AddsUp(c.answer)
    /\ c.answer.po_number \in DOMAIN c.erp
    /\ LET po == c.erp[c.answer.po_number]
       IN  OrderCovers(c.answer, po) /\ Safe(c.answer, po) /\ Sure(c.answer, po)
    /\ c.hits = {}

Init == verdict = "pending"

Judge ==
    /\ verdict = "pending"
    /\ verdict' = IF Payable(case) THEN "AUTO" ELSE "EXCEPTION"
    /\ UNCHANGED case

Spec == Init /\ [][Judge]_<<case, verdict>>

=============================================================================
