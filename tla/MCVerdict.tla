----------------------------- MODULE MCVerdict -----------------------------
(***************************************************************************)
(* The cases for TLC: the clean invoice of every generated order, and one  *)
(* clean invoice with up to two edits, each to the answer, its lines, its  *)
(* confidences, the order or the corpus, at the boundaries of the rules.   *)
(***************************************************************************)
EXTENDS SyntheticErp, TLC

Name(party, spelling) == [party |-> party, spelling |-> spelling]
Iban(account, structure) == [account |-> account, spelling |-> "compact", structure |-> structure]
Currency(iso, shaped) == [iso |-> iso, shaped |-> shaped]

MCVendors == {[name |-> Name("acme", "Acme"), iban |-> Iban("a1", "valid"), currency |-> Currency("EUR", TRUE)],
              [name |-> Name("bolt", "Bolt"), iban |-> Iban("b1", "valid"), currency |-> Currency("USD", TRUE)]}
MCQuantities == {15, 20, 500}
MCPrices     == {1000, 5000, 5001}
MCAges       == {1, 90, 91}

SureOf(k, n) == [[f \in ConfidenceKeys |-> 100] EXCEPT ![k] = n]

CleanCase(po, hits) ==
    [answer |-> CleanInvoiceFor("PO-1", po, "INV-1", REFERENCE, [f \in ConfidenceKeys |-> 100]),
     erp |-> ("PO-1" :> po), several |-> {}, hits |-> hits]

GeneratedCases ==
    {CleanCase(GeneratedOrder(v, st, age, <<l>>), {}) :
        v \in Vendors, st \in {"OPEN", "CLOSED"}, age \in Ages, l \in GeneratedLines("1")}

BaseOrder ==
    [vendor |-> [name |-> Name("acme", "Acme"), iban |-> Iban("a1", "valid")],
     currency |-> Currency("EUR", TRUE), status |-> "OPEN", ordered_at |-> REFERENCE - 30,
     lines |-> <<[line_no |-> "1", qty |-> 20, uom |-> "EA", unit_price |-> 10000, tax_code |-> "S"],
                 [line_no |-> "2", qty |-> 15, uom |-> "KG", unit_price |-> 1000, tax_code |-> "R"]>>,
     receipt |-> <<[line_no |-> "1", qty |-> 20], [line_no |-> "2", qty |-> 15]>>]
BaseCase == CleanCase(BaseOrder, {})

Set(c, f, v) == [c EXCEPT !.answer[f] = v]
AnswerEdits(c) ==
    UNION {
      {Set(c, "vendor_name", v) : v \in {Absent, Blank, Name("acme", "ACME  "), Name("bolt", "Bolt")}},
      {Set(c, "po_number", v) : v \in {Absent, Blank, "PO-9"}},
      {Set(c, "invoice_number", Blank), Set(c, "due_date", Blank)},
      {Set(c, "issue_date", v) : v \in {Blank, REFERENCE + 60, REFERENCE + 61}},
      {Set(c, "currency", v) : v \in {Blank, Currency("EUR", FALSE), Currency("USD", TRUE)}},
      {Set(c, "total_amount", v) : v \in {Absent, NetTotal(BaseOrder.lines) + 1}},
      {Set(c, "tax_total", v) : v \in {Absent} \cup {TaxTotal(BaseOrder.lines) + d : d \in {-1001, 1000, 1001}}},
      {Set(c, "iban", v) : v \in {Absent, Blank, Iban("a1", "malformed"), Iban("a1", "unknown_country"),
                                  Iban("a2", "valid")}},
      {Set(c, "confidences", v) : v \in {SureOf("iban", 62), SureOf("iban", 63), SureOf("line.qty", 80),
            SureOf("due_date", 0), SureOf("iban", Absent), SureOf("iban", -5),
            [f \in ConfidenceKeys |-> Absent], [f \in ConfidenceKeys |-> 150]}}}

\* The first line replaced, with the totals that follow from the lines.
Relined(c, lines) ==
    LET amount == [i \in DOMAIN lines |-> IF lines[i].line_total = Absent THEN 0 ELSE lines[i].line_total]
        tax    == [i \in DOMAIN lines |->
                     IF lines[i].tax_code \in DOMAIN TAX_RATES THEN amount[i] * TAX_RATES[lines[i].tax_code] ELSE 0]
    IN  [c EXCEPT !.answer.lines = lines, !.answer.total_amount = SumOver(lines, amount),
                  !.answer.tax_total = SumOver(lines, tax)]
Line(no, q, u, p, code, total) ==
    [line_no |-> no, qty |-> q, uom |-> u, unit_price |-> p, tax_code |-> code, line_total |-> total]
Priced(p) == Line("1", 20, "EA", p, "S", 20 * p)
FirstLines ==
    {Priced(p) : p \in {9000, 9925, 10075, 10076, 10200, 10201}}
    \cup {Line("1", q, "EA", 10000, "S", q * 10000) : q \in {10, 21, 250}}
    \cup {Line("1", 20, u, 10000, "S", 200000) : u \in {Absent, "BOX"}}
    \cup {Line("7", 20, "EA", 10000, "S", 200000), Line("1", 20, "EA", 10000, "S", 200001),
          Line("1", Absent, "EA", 10000, "S", 900000), Line("1", 20, "EA", Absent, "S", 200000),
          Line("1", 20, "EA", 10000, "S", Absent), Line("1", 20, "EA", 10000, "X", 200000),
          Line("1", 20, "EA", 10000, Absent, 200000)}
LineEdits(c) ==
    {Relined(c, <<l, BaseCase.answer.lines[2]>>) : l \in FirstLines}
    \cup {Relined(c, <<>>), Relined(c, <<Priced(10000), Priced(10000)>>)}

Order(c, f, v) == [c EXCEPT !.erp["PO-1"][f] = v]
OrderEdits(c) ==
    {Order(c, "status", "CLOSED"), Order(c, "currency", Absent), Order(c, "receipt", Absent)}
    \cup {Order(c, "ordered_at", v) : v \in {Absent, REFERENCE - 90, REFERENCE - 91}}
    \cup {Order(c, "vendor", [name |-> Name("acme", "Acme"), iban |-> v]) : v \in {Absent, Iban("a2", "valid")}}
    \cup {Order(c, "receipt", r) : r \in
            {<<[line_no |-> "1", qty |-> 20]>>,
             <<[line_no |-> "1", qty |-> 19], [line_no |-> "2", qty |-> 15]>>,
             <<[line_no |-> "1", qty |-> 10], [line_no |-> "2", qty |-> 15], [line_no |-> "1", qty |-> 20]>>}}

Edits(c) == AnswerEdits(c) \cup LineEdits(c) \cup OrderEdits(c)
                \cup {[c EXCEPT !.hits = {7}], [c EXCEPT !.several = {"PO-1"}]}

MCCases == GeneratedCases \cup {BaseCase} \cup Edits(BaseCase) \cup UNION {Edits(c) : c \in Edits(BaseCase)}

=============================================================================
