--------------------------- MODULE ThreeWayMatch ---------------------------
(***************************************************************************)
(* The three-way matcher, invoice against purchase order against goods     *)
(* receipt (tools/matching.py), and how the pipeline feeds it              *)
(* (graph/nodes/pipeline.py).                                              *)
(*                                                                         *)
(* The ERP is a function from the PO numbers it knows to                   *)
(* [vendor, currency, status, ordered_at, lines, receipt]; the vendor is   *)
(* the master record [name, iban] and receipt is Absent or the sequence of *)
(* received [line_no, qty].  A ratio is the fraction num / den.            *)
(***************************************************************************)
EXTENDS Validation

PoLine  == [line_no : STRING, qty : Int, uom : Optional(STRING), unit_price : Int, tax_code : STRING]
GrLine  == [line_no : STRING, qty : Int]
Vendor  == [name : Names, iban : Optional(Ibans)]
PurchaseOrder ==
    [vendor : Vendor, currency : Optional(Currencies), status : {"OPEN", "CLOSED"},
     ordered_at : Optional(Int), lines : Seq(PoLine), receipt : Optional(Seq(GrLine))]

QTY_TOLERANCE       == 0
PRICE_ABS_TOLERANCE == 50      \* cents
PRICE_PCT_DIVISOR   == 50      \* 2% of the PO price

\* The order, its receipt and its vendor, or nothing for an unknown number.
\* With several receipts for the order it raises instead (Verdict!LoadPoRaises).
LoadPo(erp, po_number) == IF po_number \in DOMAIN erp THEN erp[po_number] ELSE Absent

\* A missing quantity or unit price reaches the matcher as zero.
OrZero(n) == IF n = Absent THEN 0 ELSE n
InvoiceForMatch(e) ==
    [e EXCEPT !.lines = [i \in DOMAIN e.lines |->
        [line_no |-> e.lines[i].line_no, qty |-> OrZero(e.lines[i].qty), uom |-> e.lines[i].uom,
         unit_price |-> OrZero(e.lines[i].unit_price)]]]

\* A dict built from a sequence of rows: the last row of a line number wins.
Rows(rows, no) == {i \in DOMAIN rows : rows[i].line_no = no}
LastRow(rows, no) == rows[CHOOSE i \in Rows(rows, no) : \A j \in Rows(rows, no) : j <= i]
Receipt(po) == IF po.receipt = Absent THEN <<>> ELSE po.receipt

MatchFinding(code, severity, no) == [code |-> code, severity |-> severity, line_no |-> no]

Fraction(n, d) == [num |-> n, den |-> d]
Fractions == [num : Int, den : Int \ {0}]

ReasonCode == {"MISSING_PO", "VENDOR_MM", "CCY_MM", "UOM_MM", "GR_LINE_MISSING", "QTY_MM",
               "PRICE_DRIFT", "PRICE_MM", "LINE_NOT_ON_PO"}
MatchFindings == [code : ReasonCode, severity : {"ERROR", "WARN"}, line_no : Optional(STRING)]
MatchResult ==
    [outcome : {"MATCH", "TOLERABLE", "MISMATCH"}, findings : SUBSET MatchFindings, delta : Fractions]

\* No order, no receipt and no result is not an order, a receipt or a result.
ASSUME NoResultAssumption ==
    /\ Absent \notin PurchaseOrder /\ Absent \notin Seq(GrLine)
    /\ Absent \notin MatchResult /\ Absent \notin Fractions

\* Fifty times the price band, max(0.50, 2% of the PO price), in cents.
PriceBand50(price) ==
    IF price > PRICE_PCT_DIVISOR * PRICE_ABS_TOLERANCE THEN price
    ELSE PRICE_PCT_DIVISOR * PRICE_ABS_TOLERANCE

\* |delta| / band, clipped to 1.
Ratio(delta, band) == IF delta < band THEN Fraction(delta, band) ELSE Fraction(1, 1)

NormName(name) == name.party

MatchVendor(inv, po) ==
    IF inv.vendor_name # Absent /\ NormName(inv.vendor_name) # NormName(po.vendor.name)
    THEN {MatchFinding("VENDOR_MM", "ERROR", Absent)} ELSE {}

MatchCurrency(inv, po) ==
    IF /\ inv.currency # Absent /\ po.currency # Absent
       /\ inv.currency.iso # po.currency.iso
    THEN {MatchFinding("CCY_MM", "ERROR", Absent)} ELSE {}

MatchUom(line, po_line) ==
    IF line.uom # Absent /\ po_line.uom # Absent /\ line.uom # po_line.uom
    THEN {MatchFinding("UOM_MM", "ERROR", line.line_no)} ELSE {}

\* Only the excess over the receipt counts, line by line.
OverReceived(line, received) == line.qty - received > QTY_TOLERANCE

MatchQty(line, po) ==
    IF Rows(Receipt(po), line.line_no) = {}
    THEN {MatchFinding("GR_LINE_MISSING", "ERROR", line.line_no)}
    ELSE IF OverReceived(line, LastRow(Receipt(po), line.line_no).qty)
         THEN {MatchFinding("QTY_MM", "ERROR", line.line_no)} ELSE {}

\* A price exactly at the band is still drift, not a mismatch.
Drift50(line, po_line) == PRICE_PCT_DIVISOR * AbsVal(line.unit_price - po_line.unit_price)
MatchPrice(line, po_line) ==
    IF line.unit_price = po_line.unit_price THEN {}
    ELSE IF Drift50(line, po_line) <= PriceBand50(po_line.unit_price)
         THEN {MatchFinding("PRICE_DRIFT", "WARN", line.line_no)}
         ELSE {MatchFinding("PRICE_MM", "ERROR", line.line_no)}

OnPo(line, po) == Rows(po.lines, line.line_no) # {}

MatchLine(line, po) ==
    IF OnPo(line, po)
    THEN MatchQty(line, po) \cup MatchPrice(line, LastRow(po.lines, line.line_no))
             \cup MatchUom(line, LastRow(po.lines, line.line_no))
    ELSE {MatchFinding("LINE_NOT_ON_PO", "ERROR", line.line_no)}

\* The price drift against its band, and the excess quantity against one unit.
LineRatios(line, po) ==
    IF ~OnPo(line, po) THEN {}
    ELSE {Ratio(Drift50(line, LastRow(po.lines, line.line_no)),
                PriceBand50(LastRow(po.lines, line.line_no).unit_price))}
         \cup {Ratio(line.qty - LastRow(Receipt(po), line.line_no).qty, 10) :
                   f \in {g \in MatchQty(line, po) : g.code = "QTY_MM"}}

\* The largest of a finite set of ratios; 0 when nothing was compared.
Worst(ratios) ==
    CHOOSE r \in ratios \cup {Fraction(0, 1)} :
        \A s \in ratios \cup {Fraction(0, 1)} : s.num * r.den <= r.num * s.den

Outcome(findings) ==
    IF Errors(findings) # {} THEN "MISMATCH"
    ELSE IF findings # {} THEN "TOLERABLE" ELSE "MATCH"

Match3way(inv, po) ==
    IF po = Absent
    THEN [outcome |-> "MISMATCH", findings |-> {MatchFinding("MISSING_PO", "ERROR", Absent)},
          delta |-> Fraction(1, 1)]
    ELSE LET lines == {inv.lines[i] : i \in DOMAIN inv.lines}
             findings == MatchVendor(inv, po) \cup MatchCurrency(inv, po)
                             \cup UNION {MatchLine(l, po) : l \in lines}
         IN  [outcome |-> Outcome(findings), findings |-> findings,
              delta |-> Worst(UNION {LineRatios(l, po) : l \in lines})]

=============================================================================
