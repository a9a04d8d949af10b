--------------------------- MODULE VerdictProofs ---------------------------
(***************************************************************************)
(* Verdict, for any cases, clock and advice.  The parts, in order:         *)
(*   - every engine names only reasons that the taxonomy maps, and         *)
(*     severities never increase along CODE_PRECEDENCE, so the primary     *)
(*     code is at least as severe as every finding behind it;              *)
(*   - the values of the engines: the ratios of a match have a largest     *)
(*     one, the confidence is a fraction, and what it takes to reach tau;  *)
(*   - RouteInv: the state holds what the engines make of the case, and    *)
(*     the node says which of them had nothing against it;                 *)
(*   - AuditInv: the ledger holds the same facts;                          *)
(*   - sums over the lines, and the clean invoice of a generated order;    *)
(*   - the engines against the payment rule, one conjunct of the rule at a *)
(*     time, and the step-by-step refinement.                              *)
(***************************************************************************)
EXTENDS SyntheticErp, WellFoundedInduction, TLAPS

Rank(code) == SeverityRank[TAXONOMY[code].severity]

-----------------------------------------------------------------------------
LEMMA Precedence ==
    /\ DOMAIN CODE_PRECEDENCE = 1..11
    /\ \A code \in {"DUP_EXACT", "DUP_NEAR", "BANK_CHANGE", "MISSING_PO", "PRICE_MM", "QTY_MM",
                    "APPROVAL_REQUIRED", "STALE_PO", "CCY_MM", "TAX_ERR", "MATH_ERR"} : code \in ExceptionCode
<1>1. DOMAIN CODE_PRECEDENCE = 1..11
  BY DEF CODE_PRECEDENCE
<1>2. /\ CODE_PRECEDENCE[1] = "DUP_EXACT" /\ CODE_PRECEDENCE[2] = "DUP_NEAR"
      /\ CODE_PRECEDENCE[3] = "BANK_CHANGE" /\ CODE_PRECEDENCE[4] = "MISSING_PO"
      /\ CODE_PRECEDENCE[5] = "PRICE_MM" /\ CODE_PRECEDENCE[6] = "QTY_MM"
      /\ CODE_PRECEDENCE[7] = "APPROVAL_REQUIRED" /\ CODE_PRECEDENCE[8] = "STALE_PO"
      /\ CODE_PRECEDENCE[9] = "CCY_MM" /\ CODE_PRECEDENCE[10] = "TAX_ERR"
      /\ CODE_PRECEDENCE[11] = "MATH_ERR"
  BY DEF CODE_PRECEDENCE
<1>3. \A i \in 1..11 : CODE_PRECEDENCE[i] \in ExceptionCode
  BY <1>1 DEF ExceptionCode
<1> QED BY <1>1, <1>2, <1>3

\* Severities never increase along the precedence.
LEMMA RanksDescend ==
    ASSUME NEW i \in 1..11, NEW j \in 1..11, i <= j
    PROVE  Rank(CODE_PRECEDENCE[j]) <= Rank(CODE_PRECEDENCE[i])
<1>1. Rank("DUP_EXACT") = 4
  BY DEF Rank, SeverityRank, TAXONOMY, Meta
<1>2. \A c \in {"DUP_NEAR", "BANK_CHANGE", "MISSING_PO", "PRICE_MM", "QTY_MM", "APPROVAL_REQUIRED", "STALE_PO"} :
        Rank(c) = 3
  BY DEF Rank, SeverityRank, TAXONOMY, Meta
<1>3. \A c \in {"CCY_MM", "TAX_ERR", "MATH_ERR"} : Rank(c) = 2
  BY DEF Rank, SeverityRank, TAXONOMY, Meta
<1>4. \A k \in 1..11 : Rank(CODE_PRECEDENCE[k]) = IF k = 1 THEN 4 ELSE IF k <= 8 THEN 3 ELSE 2
  <2> TAKE k \in 1..11
  <2>1. CODE_PRECEDENCE[1] = "DUP_EXACT"
    BY DEF CODE_PRECEDENCE
  <2>2. k \in 2..8 => CODE_PRECEDENCE[k] \in
            {"DUP_NEAR", "BANK_CHANGE", "MISSING_PO", "PRICE_MM", "QTY_MM", "APPROVAL_REQUIRED", "STALE_PO"}
    BY DEF CODE_PRECEDENCE
  <2>3. k \in 9..11 => CODE_PRECEDENCE[k] \in {"CCY_MM", "TAX_ERR", "MATH_ERR"}
    BY DEF CODE_PRECEDENCE
  <2>4. k = 1 \/ k \in 2..8 \/ k \in 9..11
    OBVIOUS
  <2> QED BY <1>1, <1>2, <1>3, <2>1, <2>2, <2>3, <2>4
<1> QED BY <1>4

\* One of finitely many positions is the first.
LEMMA FirstOne ==
    ASSUME NEW S, NEW n \in 1..11, n \in S
    PROVE  \E i \in 1..11 : i \in S /\ \A j \in 1..(i - 1) : j \notin S
<1>1. CASE 1 \in S
  BY <1>1
<1>2. CASE 1 \notin S /\ 2 \in S
  BY <1>2
<1>3. CASE 1 \notin S /\ 2 \notin S /\ 3 \in S
  BY <1>3
<1>4. CASE 1 \notin S /\ 2 \notin S /\ 3 \notin S /\ 4 \in S
  BY <1>4
<1>5. CASE (\A j \in 1..4 : j \notin S) /\ 5 \in S
  BY <1>5
<1>6. CASE (\A j \in 1..5 : j \notin S) /\ 6 \in S
  BY <1>6
<1>7. CASE (\A j \in 1..6 : j \notin S) /\ 7 \in S
  BY <1>7
<1>8. CASE (\A j \in 1..7 : j \notin S) /\ 8 \in S
  BY <1>8
<1>9. CASE (\A j \in 1..8 : j \notin S) /\ 9 \in S
  BY <1>9
<1>10. CASE (\A j \in 1..9 : j \notin S) /\ 10 \in S
  BY <1>10
<1>11. CASE (\A j \in 1..10 : j \notin S) /\ 11 \in S
  BY <1>11
<1> QED BY <1>1, <1>2, <1>3, <1>4, <1>5, <1>6, <1>7, <1>8, <1>9, <1>10, <1>11

\* The primary code is one of the codes, and the most severe of them.
LEMMA PrimaryCodeIsMostSevere ==
    ASSUME NEW codes \in SUBSET ExceptionCode, codes # {}
    PROVE  /\ PrimaryCode(codes) \in codes
           /\ \A code \in codes : Rank(code) <= Rank(PrimaryCode(codes))
<1> DEFINE Present == {i \in 1..11 : CODE_PRECEDENCE[i] \in codes}
           FirstPresent(i) == /\ CODE_PRECEDENCE[i] \in codes
                              /\ \A j \in 1..(i - 1) : CODE_PRECEDENCE[j] \notin codes
           first == CHOOSE i \in DOMAIN CODE_PRECEDENCE : FirstPresent(i)
<1>1. \A code \in codes : \E i \in 1..11 : i \in Present /\ CODE_PRECEDENCE[i] = code
  BY Precedence DEF ExceptionCode
<1>2. \E i \in 1..11 : i \in Present /\ \A j \in 1..(i - 1) : j \notin Present
  BY <1>1, FirstOne
<1>3. \E i \in DOMAIN CODE_PRECEDENCE : FirstPresent(i)
  BY <1>2, Precedence
<1>4. first \in 1..11 /\ FirstPresent(first)
  BY <1>3, Precedence
<1>5. PrimaryCode(codes) = CODE_PRECEDENCE[first]
  BY DEF PrimaryCode
<1> HIDE DEF first
<1>6. \A i \in Present : first <= i
  BY <1>4
<1>7. \A code \in codes : Rank(code) <= Rank(CODE_PRECEDENCE[first])
  BY <1>1, <1>4, <1>6, RanksDescend
<1> QED BY <1>4, <1>5, <1>7

-----------------------------------------------------------------------------
\* Every reason of the engines has a code.
LEMMA ValidationCoded ==
    ASSUME NEW e, NEW f \in ValidateExtraction(e)
    PROVE  CodeForValidation(f) \in ExceptionCode
<1>1. \E code, severity, field : f = Check(code, severity, field) /\ code \in
        {"SCHEMA_MISSING_FIELD", "SCHEMA_BAD_CURRENCY", "SCHEMA_BAD_IBAN", "MATH_ERR", "MATH_LINE_ERR",
         "TAX_ERR", "TAX_UNKNOWN_CODE", "TAX_MISSING_CODE"}
  <2>1. CASE f \in CheckRequiredFields(e)
    BY <2>1 DEF CheckRequiredFields
  <2>2. CASE f \in CheckCurrency(e)
    BY <2>2 DEF CheckCurrency
  <2>3. CASE f \in CheckIban(e)
    BY <2>3 DEF CheckIban
  <2>4. CASE f \in CheckLineMath(e)
    BY <2>4 DEF CheckLineMath
  <2>5. CASE f \in CheckTax(e)
    BY <2>5 DEF CheckTax
  <2> QED BY <2>1, <2>2, <2>3, <2>4, <2>5 DEF ValidateExtraction
<1>2. f.code \in {"SCHEMA_MISSING_FIELD", "SCHEMA_BAD_CURRENCY", "SCHEMA_BAD_IBAN", "MATH_ERR", "MATH_LINE_ERR",
                  "TAX_ERR", "TAX_UNKNOWN_CODE", "TAX_MISSING_CODE"}
  BY <1>1 DEF Check
<1>3. VALIDATION_CODE[f.code] \in ExceptionCode
  BY <1>2, Precedence DEF VALIDATION_CODE
<1>4. f.field \in DOMAIN MISSING_FIELD_CODE => MISSING_FIELD_CODE[f.field] \in ExceptionCode
  BY Precedence DEF MISSING_FIELD_CODE
<1> QED BY <1>3, <1>4 DEF CodeForValidation

\* The matcher and the policy name only mapped reasons, too.
LEMMA MatchingCoded ==
    ASSUME NEW inv, NEW po, NEW f \in Match3way(inv, po).findings
    PROVE  CodeForMatching(f) \in ExceptionCode
<1> DEFINE Codes == {"MISSING_PO", "PRICE_MM", "PRICE_DRIFT", "QTY_MM", "CCY_MM", "VENDOR_MM", "UOM_MM",
                     "LINE_NOT_ON_PO", "GR_LINE_MISSING"}
<1>1. \A l, g : g \in MatchLine(l, po) => g.code \in Codes
  BY DEF MatchLine, MatchQty, MatchPrice, MatchUom, MatchFinding
<1>2. \A g : g \in MatchVendor(inv, po) \cup MatchCurrency(inv, po) => g.code \in Codes
  BY DEF MatchVendor, MatchCurrency, MatchFinding
<1>3. MatchFinding("MISSING_PO", "ERROR", Absent).code \in Codes
  BY DEF MatchFinding
<1>4. f.code \in Codes
  BY <1>1, <1>2, <1>3 DEF Match3way
<1> QED BY <1>4, Precedence DEF CodeForMatching, MATCHING_CODE

LEMMA PolicyCoded ==
    ASSUME NEW e, NEW po, NEW hits, NEW f \in EvaluatePolicy(e, po, hits)
    PROVE  f.code \in ExceptionCode
<1>1. f.code \in {"APPROVAL_REQUIRED", "STALE_PO", "BANK_CHANGE", "DUP_NEAR"}
  BY DEF EvaluatePolicy, RuleSpendLimit, RuleStalePo, RuleBankChange, RuleNearDup, PolicyFinding
<1> QED BY <1>1, Precedence

-----------------------------------------------------------------------------
Coded(s) ==
    /\ \A f \in s.validation : CodeForValidation(f) \in ExceptionCode
    /\ s.match # Absent => \A f \in s.match.findings : CodeForMatching(f) \in ExceptionCode
    /\ \A f \in s.policy : f.code \in ExceptionCode

Fields == {"extraction", "validation", "match", "policy", "confidence", "gate", "route"}

VInv ==
    /\ state = [f \in Fields |-> state[f]]
    /\ Coded(state)
    /\ exception # Absent => node = "human_review"
    /\ PrimaryIsMostSevere

LEMMA EntriesCoded == ASSUME NEW s, Coded(s) PROVE Entries(s) \subseteq ExceptionCode
BY DEF Coded, Entries, Errors

LEMMA VInitOK == Init => VInv
<1> SUFFICES ASSUME Init PROVE VInv
  OBVIOUS
<1>1. state = EmptyState /\ exception = Absent
  BY DEF Init
<1>2. Coded(state)
  BY <1>1 DEF Coded, EmptyState
<1>3. state = [f \in Fields |-> state[f]]
  BY <1>1 DEF EmptyState, Fields
<1> QED BY <1>1, <1>2, <1>3 DEF VInv, PrimaryIsMostSevere

\* Opening the exception: its code is the primary one of the findings, or
\* the gate's when there are none.
LEMMA TriageOK == ASSUME VInv, NEW advice, ExceptionTriage(advice) PROVE VInv'
<1>1. CASE Entries(state) = {} /\ state.gate # "EXCEPTION"
  BY <1>1 DEF ExceptionTriage, VInv, PrimaryIsMostSevere
<1>2. CASE ~(Entries(state) = {} /\ state.gate # "EXCEPTION")
  <2> DEFINE code == TriageCode(state)
  <2>1. /\ exception' = [draft |-> Draft(code), recommendation |-> advice, status |-> "OPEN"]
        /\ state' = [state EXCEPT !.route = "EXCEPTION"]
        /\ node' = "human_review"
    BY <1>2 DEF ExceptionTriage
  <2>2. state'.validation = state.validation /\ state'.match = state.match /\ state'.policy = state.policy
    BY <2>1 DEF VInv, Fields
  <2>3. state' = [f \in Fields |-> state'[f]]
    BY <2>1 DEF VInv, Fields
  <2>4. Coded(state)' /\ Entries(state)' = Entries(state)
    BY <2>2 DEF VInv, Coded, Entries
  <2>5. \A c \in Entries(state) : Rank(c) <= Rank(code)
    BY EntriesCoded, PrimaryCodeIsMostSevere DEF VInv, TriageCode
  <2>6. exception'.draft.code = code /\ exception'.draft.severity = TAXONOMY[code].severity
    BY <2>1 DEF Draft
  <2>7. PrimaryIsMostSevere'
    BY <2>4, <2>5, <2>6 DEF PrimaryIsMostSevere, Rank
  <2> QED BY <2>1, <2>3, <2>4, <2>7 DEF VInv
<1> QED BY <1>1, <1>2

\* The other nodes run while there is no exception; what they put into the
\* state has codes.
LEMMA VNextOK == VInv /\ [Next]_vars => VInv'
<1> SUFFICES ASSUME VInv, [Next]_vars PROVE VInv'
  OBVIOUS
<1>1. CASE UNCHANGED vars
  BY <1>1 DEF vars, VInv, Coded, PrimaryIsMostSevere, Entries
<1>2. CASE \E advice \in Optional(Advice) : ExceptionTriage(advice)
  BY <1>2, TriageOK
<1>3. CASE Validate
  BY <1>3, ValidationCoded DEF Validate, VInv, Coded, Fields, PrimaryIsMostSevere
<1>4. CASE Match3wayNode
  BY <1>4, MatchingCoded DEF Match3wayNode, MatchOf, VInv, Coded, Fields, PrimaryIsMostSevere
<1>5. CASE Policy
  BY <1>5, PolicyCoded DEF Policy, VInv, Coded, Fields, PrimaryIsMostSevere
<1>6. CASE Extract \/ LoadPoRaises \/ Gate \/ AutoApprove
  BY <1>6 DEF Extract, LoadPoRaises, Gate, AutoApprove, VInv, Coded, Fields, PrimaryIsMostSevere
<1> QED BY <1>1, <1>2, <1>3, <1>4, <1>5, <1>6 DEF Next

\* The exception's code and severity never hide a more severe finding.
THEOREM PrimaryNeverHides == Spec => []PrimaryIsMostSevere
<1>1. VInv => PrimaryIsMostSevere
  BY DEF VInv
<1> QED BY <1>1, VInitOK, VNextOK, PTL DEF Spec

-----------------------------------------------------------------------------
\* A set of natural numbers has a least element.
LEMMA LeastOne ==
    ASSUME NEW S, S \subseteq Nat, S # {}
    PROVE  \E n \in S : \A m \in S : n <= m
<1>1. PICK n \in S : \A m \in S : <<m, n>> \notin OpToRel(<, Nat)
  BY WFMin, NatLessThanWellFounded
<1>2. \A m \in S : ~(m < n)
  BY <1>1 DEF OpToRel
<1> QED BY <1>2

\* Induction over the natural numbers, for a set.
LEMMA NatInduct ==
    ASSUME NEW S, 0 \in S, \A n \in Nat : n \in S => n + 1 \in S
    PROVE  \A n \in Nat : n \in S
<1> SUFFICES ASSUME Nat \ S # {} PROVE FALSE
  OBVIOUS
<1>1. PICK n \in Nat \ S : \A m \in Nat \ S : n <= m
  BY LeastOne
<1>2. n - 1 \in Nat /\ n - 1 \in S
  BY <1>1
<1> QED BY <1>2

\* The largest of finitely many positions exists.
LEMMA LastOne ==
    ASSUME NEW n \in Nat, NEW S, S \subseteq 1..n, S # {}
    PROVE  \E i \in S : \A j \in S : j <= i
<1> DEFINE T == {m \in Nat : n - m \in S}
<1>1. T # {}
  <2>1. PICK i \in S : TRUE
    OBVIOUS
  <2>2. n - i \in Nat /\ n - (n - i) = i
    OBVIOUS
  <2> QED BY <2>1, <2>2
<1>2. PICK m \in T : \A k \in T : m <= k
  BY <1>1, LeastOne
<1>3. \A j \in S : n - j \in T /\ j \in Int
  <2> TAKE j \in S
  <2>1. n - j \in Nat /\ n - (n - j) = j
    OBVIOUS
  <2> QED BY <2>1
<1>4. n - m \in S /\ \A j \in S : j <= n - m
  BY <1>2, <1>3
<1> QED BY <1>4

-----------------------------------------------------------------------------
\* What the extraction holds of an answer: its fields, without the blanks.
LEMMA ExtractedFields ==
    ASSUME NEW a \in Answers
    PROVE  /\ Extracted(a) \in InvoiceExtraction
           /\ Extracted(a).total_amount = a.total_amount /\ Extracted(a).tax_total = a.tax_total
           /\ Extracted(a).lines = a.lines /\ Extracted(a).confidences = a.confidences
           /\ \A f \in BlankFields : Extracted(a)[f] = IF a[f] = Blank THEN Absent ELSE a[f]
<1> DEFINE AnswerFields == {"vendor_name", "invoice_number", "po_number", "issue_date", "due_date", "currency",
                            "total_amount", "tax_total", "iban", "lines", "confidences"}
<1>1. DOMAIN a = AnswerFields
  BY DEF Answers
<1>2. \A f \in AnswerFields : Extracted(a)[f] = IF f \in BlankFields /\ a[f] = Blank THEN Absent ELSE a[f]
  BY <1>1 DEF Extracted
<1>3. /\ Extracted(a).total_amount = a.total_amount /\ Extracted(a).tax_total = a.tax_total
      /\ Extracted(a).lines = a.lines /\ Extracted(a).confidences = a.confidences
  BY <1>2 DEF BlankFields
<1>4. \A f \in BlankFields : Extracted(a)[f] = IF a[f] = Blank THEN Absent ELSE a[f]
  BY <1>2 DEF BlankFields
<1>5. /\ Extracted(a).vendor_name \in Optional(Names) /\ Extracted(a).invoice_number \in Optional(STRING)
      /\ Extracted(a).po_number \in Optional(STRING) /\ Extracted(a).issue_date \in Optional(Int)
      /\ Extracted(a).due_date \in Optional(Int) /\ Extracted(a).currency \in Optional(Currencies)
      /\ Extracted(a).iban \in Optional(Ibans)
  BY <1>4 DEF Answers, Optional, BlankFields
<1>6. /\ a.total_amount \in Optional(Int) /\ a.tax_total \in Optional(Int)
      /\ a.lines \in Seq(ExtractionLine) /\ a.confidences \in [ConfidenceKeys -> Optional(Int)]
  BY DEF Answers
<1>7. DOMAIN Extracted(a) = AnswerFields /\ Extracted(a) = [f \in AnswerFields |-> Extracted(a)[f]]
  BY <1>1 DEF Extracted
<1>8. Extracted(a) \in InvoiceExtraction
  BY <1>3, <1>5, <1>6, <1>7 DEF InvoiceExtraction
<1> QED BY <1>3, <1>4, <1>8

-----------------------------------------------------------------------------
\* The row a dict keeps for a line number is one of the rows, the last one.
LEMMA LastRowIsARow ==
    ASSUME NEW rows, NEW T, rows \in Seq(T), NEW no, Rows(rows, no) # {}
    PROVE  \E i \in Rows(rows, no) : /\ LastRow(rows, no) = rows[i] /\ rows[i] \in T
                                     /\ \A j \in Rows(rows, no) : j <= i
<1> DEFINE last == CHOOSE i \in Rows(rows, no) : \A j \in Rows(rows, no) : j <= i
<1>1. Rows(rows, no) \subseteq 1..Len(rows) /\ Len(rows) \in Nat
  BY DEF Rows
<1>2. \E i \in Rows(rows, no) : \A j \in Rows(rows, no) : j <= i
  BY <1>1, LastOne
<1>3. last \in Rows(rows, no) /\ \A j \in Rows(rows, no) : j <= last
  BY <1>2
<1>4. LastRow(rows, no) = rows[last]
  BY DEF LastRow
<1> HIDE DEF last
<1>5. rows[last] \in T
  BY <1>1, <1>3
<1> QED BY <1>3, <1>4, <1>5

\* A line as the matcher compares it.
MatchLineType == [line_no : STRING, qty : Int, uom : Optional(STRING), unit_price : Int]

MatchedLine(l) ==
    [line_no |-> l.line_no, qty |-> OrZero(l.qty), uom |-> l.uom, unit_price |-> OrZero(l.unit_price)]

\* What the matcher gets of every extracted line.
LEMMA LinesForMatch ==
    ASSUME NEW e \in InvoiceExtraction
    PROVE  /\ InvoiceForMatch(e).vendor_name = e.vendor_name /\ InvoiceForMatch(e).currency = e.currency
           /\ DOMAIN InvoiceForMatch(e).lines = 1..Len(e.lines) /\ Len(e.lines) \in Nat
           /\ DOMAIN e.lines = 1..Len(e.lines)
           /\ \A i \in 1..Len(e.lines) :
                 /\ e.lines[i] \in ExtractionLine
                 /\ InvoiceForMatch(e).lines[i] = MatchedLine(e.lines[i])
                 /\ MatchedLine(e.lines[i]) \in MatchLineType
<1>1. InvoiceForMatch(e) = [e EXCEPT !.lines = [i \in DOMAIN e.lines |-> MatchedLine(e.lines[i])]]
  BY DEF InvoiceForMatch, MatchedLine
<1>2. /\ InvoiceForMatch(e).vendor_name = e.vendor_name /\ InvoiceForMatch(e).currency = e.currency
      /\ InvoiceForMatch(e).lines = [i \in DOMAIN e.lines |-> MatchedLine(e.lines[i])]
  BY <1>1 DEF InvoiceExtraction
<1>3. e.lines \in Seq(ExtractionLine)
  BY DEF InvoiceExtraction
<1>4. /\ DOMAIN e.lines = 1..Len(e.lines) /\ Len(e.lines) \in Nat
      /\ \A i \in 1..Len(e.lines) : e.lines[i] \in ExtractionLine
  BY <1>3
<1>5. \A l \in ExtractionLine : MatchedLine(l) \in MatchLineType
  BY DEF ExtractionLine, OrZero, Optional, MatchedLine, MatchLineType
<1> QED BY <1>2, <1>4, <1>5

-----------------------------------------------------------------------------
\* Multiplying and cancelling in inequalities.
LEMMA TimesMonotone ==
    ASSUME NEW a \in Int, NEW b \in Int, NEW c \in Nat, a <= b
    PROVE  a * c <= b * c
<1>1. (b - a) * c >= 0
  OBVIOUS
<1> QED BY <1>1

LEMMA TimesCancel ==
    ASSUME NEW a \in Int, NEW b \in Int, NEW c \in Nat \ {0}, a * c <= b * c
    PROVE  a <= b
<1> SUFFICES ASSUME a > b PROVE FALSE
  OBVIOUS
<1>1. (a - b - 1) * c >= 0
  OBVIOUS
<1>2. (a - b - 1) * c = a * c - b * c - c
  OBVIOUS
<1> QED BY <1>1, <1>2

\* a / m <= b / n and b / n <= c / k imply a / m <= c / k.
LEMMA CrossTransitive ==
    ASSUME NEW a \in Int, NEW b \in Int, NEW c \in Int,
           NEW m \in Nat \ {0}, NEW n \in Nat \ {0}, NEW k \in Nat \ {0},
           a * n <= b * m, b * k <= c * n
    PROVE  a * k <= c * m
<1>1. (a * n) * k <= (b * m) * k
  BY TimesMonotone
<1>2. (b * k) * m <= (c * n) * m
  BY TimesMonotone
<1>3. (a * n) * k = (a * k) * n /\ (b * m) * k = (b * k) * m /\ (c * n) * m = (c * m) * n
  OBVIOUS
<1>4. (a * k) * n <= (c * m) * n
  BY <1>1, <1>2, <1>3
<1> QED BY <1>4, TimesCancel

-----------------------------------------------------------------------------
Shares == [num : Nat, den : Nat \ {0}]

\* A ratio is a fraction of naturals.
LEMMA RatioIsAShare ==
    ASSUME NEW delta \in Nat, NEW band \in Nat \ {0}
    PROVE  Ratio(delta, band) \in Shares
BY DEF Ratio, Fraction, Shares

\* Drift and band are naturals, and the band is not zero.
LEMMA DriftAndBand ==
    ASSUME NEW l \in MatchLineType, NEW p \in PoLine
    PROVE  Drift50(l, p) \in Nat /\ PriceBand50(p.unit_price) \in Nat \ {0}
<1>1. l.unit_price \in Int /\ p.unit_price \in Int
  BY DEF MatchLineType, PoLine
<1> QED BY <1>1 DEF Drift50, AbsVal, PriceBand50, PRICE_PCT_DIVISOR, PRICE_ABS_TOLERANCE

\* An order without a receipt has the empty one.
LEMMA ReceiptIsRows ==
    ASSUME NEW po \in PurchaseOrder
    PROVE  Receipt(po) \in Seq(GrLine) /\ po.lines \in Seq(PoLine)
<1>1. po.receipt \in Optional(Seq(GrLine)) /\ po.lines \in Seq(PoLine)
  BY DEF PurchaseOrder
<1>2. <<>> \in Seq(GrLine)
  OBVIOUS
<1> QED BY <1>1, <1>2 DEF Receipt, Optional

\* The ratios of a line: none, the price drift, or the drift and the excess.
LEMMA LineRatiosAre ==
    ASSUME NEW l \in MatchLineType, NEW po \in PurchaseOrder
    PROVE  \E a \in Shares : \E b \in Shares : LineRatios(l, po) \in {{}, {a}, {a, b}}
<1>1. CASE ~OnPo(l, po)
  <2>1. LineRatios(l, po) = {}
    BY <1>1 DEF LineRatios
  <2>2. Ratio(0, 1) \in Shares
    BY RatioIsAShare
  <2> QED BY <2>1, <2>2
<1>2. CASE OnPo(l, po)
  <2> DEFINE p == LastRow(po.lines, l.line_no)
             excess == l.qty - LastRow(Receipt(po), l.line_no).qty
             Excesses == {Ratio(excess, 10) : f \in {g \in MatchQty(l, po) : g.code = "QTY_MM"}}
             a == Ratio(Drift50(l, p), PriceBand50(p.unit_price))
             b == Ratio(excess, 10)
  <2>1. LineRatios(l, po) = {a} \cup Excesses
    BY <1>2 DEF LineRatios
  <2>2. p \in PoLine
    BY <1>2, ReceiptIsRows, LastRowIsARow DEF OnPo
  <2>3. a \in Shares
    BY <2>2, DriftAndBand, RatioIsAShare
  <2>4. CASE \E g \in MatchQty(l, po) : g.code = "QTY_MM"
    <3>1. Rows(Receipt(po), l.line_no) # {} /\ excess > 0
      BY <2>4 DEF MatchQty, MatchFinding, OverReceived, QTY_TOLERANCE
    <3>2. LastRow(Receipt(po), l.line_no) \in GrLine
      BY <3>1, ReceiptIsRows, LastRowIsARow
    <3>3. l.qty \in Int /\ LastRow(Receipt(po), l.line_no).qty \in Int
      BY <3>2 DEF GrLine, MatchLineType
    <3>4. excess \in Nat
      BY <3>1, <3>3
    <3>5. b \in Shares
      BY <3>4, RatioIsAShare
    <3>6. Excesses = {b}
      BY <2>4
    <3>7. LineRatios(l, po) = {a, b}
      BY <2>1, <3>6
    <3> QED BY <2>3, <3>5, <3>7
  <2>5. CASE ~\E g \in MatchQty(l, po) : g.code = "QTY_MM"
    <3>1. Excesses = {}
      BY <2>5
    <3>2. LineRatios(l, po) = {a}
      BY <2>1, <3>1
    <3> QED BY <2>3, <3>2
  <2> QED BY <2>4, <2>5
<1> QED BY <1>1, <1>2

-----------------------------------------------------------------------------
\* A set of ratios has a largest one.
AtMost(s, r) == s.num * r.den <= r.num * s.den
HasWorst(S) == \E r \in S \cup {Fraction(0, 1)} : \A s \in S \cup {Fraction(0, 1)} : AtMost(s, r)

\* Fractions of naturals are totally ordered.
LEMMA AtMostTransitive ==
    ASSUME NEW a \in Shares, NEW b \in Shares, NEW c \in Shares, AtMost(a, b), AtMost(b, c)
    PROVE  AtMost(a, c)
BY CrossTransitive DEF AtMost, Shares

LEMMA AtMostTotal ==
    ASSUME NEW a \in Shares, NEW b \in Shares
    PROVE  AtMost(a, b) \/ AtMost(b, a)
<1>1. a.num * b.den \in Int /\ b.num * a.den \in Int
  BY DEF Shares
<1> QED BY <1>1 DEF AtMost

LEMMA ZeroIsAShare == Fraction(0, 1) \in Shares
BY DEF Fraction, Shares

\* One more ratio leaves a largest one.
LEMMA WorstOfOneMore ==
    ASSUME NEW S \in SUBSET Shares, HasWorst(S), NEW x \in Shares
    PROVE  HasWorst(S \cup {x})
<1> DEFINE T == S \cup {Fraction(0, 1)}
<1>1. PICK r \in T : \A s \in T : AtMost(s, r)
  BY DEF HasWorst
<1>2. T \subseteq Shares
  BY ZeroIsAShare
<1>3. (S \cup {x}) \cup {Fraction(0, 1)} = T \cup {x}
  OBVIOUS
<1>4. CASE AtMost(x, r)
  BY <1>1, <1>3, <1>4 DEF HasWorst
<1>5. CASE AtMost(r, x)
  <2>1. \A s \in T : AtMost(s, x)
    BY <1>1, <1>2, <1>5, AtMostTransitive
  <2>2. AtMost(x, x)
    BY AtMostTotal
  <2> QED BY <1>3, <2>1, <2>2 DEF HasWorst
<1> QED BY <1>1, <1>2, <1>4, <1>5, AtMostTotal

\* By induction over the lines, their ratios have a largest one.
LEMMA WorstOfLines ==
    ASSUME NEW n \in Nat, NEW F,
           \A i \in 1..n : \E a \in Shares : \E b \in Shares : F[i] \in {{}, {a}, {a, b}}
    PROVE  HasWorst(UNION {F[i] : i \in 1..n}) /\ UNION {F[i] : i \in 1..n} \subseteq Shares
<1> DEFINE Upto(m) == UNION {F[i] : i \in 1..m}
           S == {m \in Nat : m <= n => HasWorst(Upto(m)) /\ Upto(m) \subseteq Shares}
<1>1. 0 \in S
  <2>1. Upto(0) = {}
    OBVIOUS
  <2>2. AtMost(Fraction(0, 1), Fraction(0, 1))
    BY ZeroIsAShare, AtMostTotal
  <2> QED BY <2>1, <2>2 DEF HasWorst
<1>2. \A m \in Nat : m \in S => m + 1 \in S
  <2> SUFFICES ASSUME NEW m \in Nat, m \in S, m + 1 <= n PROVE HasWorst(Upto(m + 1)) /\ Upto(m + 1) \subseteq Shares
    OBVIOUS
  <2>1. HasWorst(Upto(m)) /\ Upto(m) \subseteq Shares
    OBVIOUS
  <2>2. Upto(m + 1) = Upto(m) \cup F[m + 1]
    <3>1. 1..(m + 1) = 1..m \cup {m + 1}
      OBVIOUS
    <3> QED BY <3>1
  <2>3. PICK a \in Shares : \E b \in Shares : F[m + 1] \in {{}, {a}, {a, b}}
    <3>1. m + 1 \in 1..n
      OBVIOUS
    <3> QED BY <3>1
  <2>4. PICK b \in Shares : F[m + 1] \in {{}, {a}, {a, b}}
    BY <2>3
  <2> HIDE DEF Upto
  <2>5. HasWorst(Upto(m) \cup {a}) /\ Upto(m) \cup {a} \in SUBSET Shares
    BY <2>1, WorstOfOneMore
  <2>6. HasWorst((Upto(m) \cup {a}) \cup {b})
    BY <2>5, WorstOfOneMore
  <2>7. Upto(m) \cup {a, b} = (Upto(m) \cup {a}) \cup {b} /\ Upto(m) \cup {} = Upto(m)
    OBVIOUS
  <2>8. CASE F[m + 1] = {}
    BY <2>1, <2>2, <2>7, <2>8
  <2>9. CASE F[m + 1] = {a}
    BY <2>2, <2>5, <2>9
  <2>10. CASE F[m + 1] = {a, b}
    BY <2>2, <2>1, <2>6, <2>7, <2>10
  <2> QED BY <2>4, <2>8, <2>9, <2>10
<1>3. n \in S
  <2> HIDE DEF S
  <2> QED BY <1>1, <1>2, NatInduct
<1> QED BY <1>3

\* The worst of a set that has one is the largest, or the zero it starts from.
LEMMA WorstIs ==
    ASSUME NEW S, HasWorst(S)
    PROVE  /\ Worst(S) \in S \cup {Fraction(0, 1)}
           /\ \A s \in S \cup {Fraction(0, 1)} : AtMost(s, Worst(S))
<1>1. \E r \in S \cup {Fraction(0, 1)} : \A s \in S \cup {Fraction(0, 1)} : s.num * r.den <= r.num * s.den
  BY DEF HasWorst, AtMost
<1>2. /\ Worst(S) \in S \cup {Fraction(0, 1)}
      /\ \A s \in S \cup {Fraction(0, 1)} : s.num * Worst(S).den <= Worst(S).num * s.den
  BY <1>1 DEF Worst
<1> QED BY <1>2 DEF AtMost

-----------------------------------------------------------------------------
AllRatios(e, po) == UNION {LineRatios(MatchedLine(e.lines[i]), po) : i \in 1..Len(e.lines)}
AllFindings(e, po) ==
    MatchVendor(e, po) \cup MatchCurrency(e, po)
        \cup UNION {MatchLine(MatchedLine(e.lines[i]), po) : i \in 1..Len(e.lines)}

\* The match of an extraction, line by line.
LEMMA MatchIs ==
    ASSUME NEW e \in InvoiceExtraction, NEW po \in PurchaseOrder
    PROVE  /\ MatchOf(e, po).outcome = Outcome(AllFindings(e, po))
           /\ MatchOf(e, po).findings = AllFindings(e, po)
           /\ MatchOf(e, po).delta = Worst(AllRatios(e, po))
           /\ MatchOf(e, po) = [outcome |-> Outcome(AllFindings(e, po)), findings |-> AllFindings(e, po),
                                delta |-> Worst(AllRatios(e, po))]
<1> DEFINE inv == InvoiceForMatch(e)
           lines == {inv.lines[i] : i \in DOMAIN inv.lines}
<1>1. po # Absent
  BY NoResultAssumption
<1>2. lines = {MatchedLine(e.lines[i]) : i \in 1..Len(e.lines)}
  BY LinesForMatch
<1>3. /\ UNION {LineRatios(l, po) : l \in lines} = AllRatios(e, po)
      /\ UNION {MatchLine(l, po) : l \in lines} = UNION {MatchLine(MatchedLine(e.lines[i]), po) : i \in 1..Len(e.lines)}
  BY <1>2 DEF AllRatios
<1>4. MatchVendor(inv, po) = MatchVendor(e, po) /\ MatchCurrency(inv, po) = MatchCurrency(e, po)
  BY LinesForMatch DEF MatchVendor, MatchCurrency
<1>5. MatchVendor(inv, po) \cup MatchCurrency(inv, po) \cup UNION {MatchLine(l, po) : l \in lines} = AllFindings(e, po)
  BY <1>3, <1>4 DEF AllFindings
<1>6. MatchOf(e, po) = [outcome |-> Outcome(AllFindings(e, po)), findings |-> AllFindings(e, po),
                        delta |-> Worst(AllRatios(e, po))]
  BY <1>1, <1>3, <1>5 DEF MatchOf, Match3way
<1> QED BY <1>6

\* The outcome is a mismatch exactly when a finding is an error.
LEMMA MismatchIsError ==
    ASSUME NEW e, NEW po
    PROVE  MatchOf(e, po).outcome = "MISMATCH" <=> Errors(MatchOf(e, po).findings) # {}
<1>1. CASE po = Absent
  <2>1. /\ MatchOf(e, po).outcome = "MISMATCH"
        /\ MatchOf(e, po).findings = {MatchFinding("MISSING_PO", "ERROR", Absent)}
    BY <1>1 DEF MatchOf, Match3way
  <2>2. MatchFinding("MISSING_PO", "ERROR", Absent).severity = "ERROR"
    BY DEF MatchFinding
  <2> QED BY <2>1, <2>2 DEF Errors
<1>2. CASE po # Absent
  <2>1. MatchOf(e, po).outcome = Outcome(MatchOf(e, po).findings)
    BY <1>2 DEF MatchOf, Match3way
  <2> QED BY <2>1 DEF Outcome
<1> QED BY <1>1, <1>2

\* The ratios of a match have a largest one, which is its delta.
LEMMA DeltaOfMatch ==
    ASSUME NEW e \in InvoiceExtraction, NEW po \in PurchaseOrder
    PROVE  /\ AllRatios(e, po) \subseteq Shares
           /\ MatchOf(e, po).delta \in AllRatios(e, po) \cup {Fraction(0, 1)}
           /\ \A r \in AllRatios(e, po) \cup {Fraction(0, 1)} : AtMost(r, MatchOf(e, po).delta)
<1>1. PICK F : F = [i \in 1..Len(e.lines) |-> LineRatios(MatchedLine(e.lines[i]), po)]
  OBVIOUS
<1>2. \A i \in 1..Len(e.lines) : \E a \in Shares : \E b \in Shares : F[i] \in {{}, {a}, {a, b}}
  BY <1>1, LinesForMatch, LineRatiosAre
<1>3. AllRatios(e, po) = UNION {F[i] : i \in 1..Len(e.lines)}
  BY <1>1 DEF AllRatios
<1>4. HasWorst(AllRatios(e, po)) /\ AllRatios(e, po) \subseteq Shares
  <2>1. Len(e.lines) \in Nat
    BY LinesForMatch
  <2>2. HasWorst(UNION {F[i] : i \in 1..Len(e.lines)}) /\ UNION {F[i] : i \in 1..Len(e.lines)} \subseteq Shares
    BY <1>2, <2>1, WorstOfLines
  <2> QED BY <1>3, <2>2
<1>5. MatchOf(e, po).delta = Worst(AllRatios(e, po))
  BY MatchIs
<1> QED BY <1>4, <1>5, WorstIs

LEMMA FindingTyped ==
    ASSUME NEW code \in ReasonCode, NEW severity \in {"ERROR", "WARN"}, NEW no \in Optional(STRING)
    PROVE  MatchFinding(code, severity, no) \in MatchFindings
BY DEF MatchFinding, MatchFindings

\* The matcher emits only its own codes, severities and line numbers.
LEMMA FindingsTyped ==
    ASSUME NEW e \in InvoiceExtraction, NEW po \in PurchaseOrder
    PROVE  AllFindings(e, po) \subseteq MatchFindings
<1>1. Absent \in Optional(STRING) /\ \A no \in STRING : no \in Optional(STRING)
  BY DEF Optional
<1>2. MatchVendor(e, po) \subseteq MatchFindings /\ MatchCurrency(e, po) \subseteq MatchFindings
  BY <1>1, FindingTyped DEF MatchVendor, MatchCurrency, ReasonCode
<1>3. \A l \in MatchLineType : MatchLine(l, po) \subseteq MatchFindings
  <2> TAKE l \in MatchLineType
  <2>1. l.line_no \in Optional(STRING)
    BY <1>1 DEF MatchLineType
  <2>2. MatchQty(l, po) \subseteq MatchFindings
    BY <2>1, FindingTyped DEF MatchQty, ReasonCode
  <2>3. \A p : MatchPrice(l, p) \subseteq MatchFindings /\ MatchUom(l, p) \subseteq MatchFindings
    BY <2>1, FindingTyped DEF MatchPrice, MatchUom, ReasonCode
  <2> QED BY <2>1, <2>2, <2>3, FindingTyped DEF MatchLine, ReasonCode
<1>4. \A i \in 1..Len(e.lines) : MatchedLine(e.lines[i]) \in MatchLineType
  BY LinesForMatch
<1> QED BY <1>2, <1>3, <1>4 DEF AllFindings

\* A match is a result, with a positive denominator.
LEMMA MatchTyped ==
    ASSUME NEW e \in InvoiceExtraction, NEW po \in PurchaseOrder \cup {Absent}
    PROVE  MatchOf(e, po) \in MatchResult /\ MatchOf(e, po) # Absent
           /\ MatchOf(e, po).delta.num \in Int /\ MatchOf(e, po).delta.den \in Nat \ {0}
<1>1. CASE po = Absent
  <2>1. MatchOf(e, po) = [outcome |-> "MISMATCH", findings |-> {MatchFinding("MISSING_PO", "ERROR", Absent)},
                          delta |-> Fraction(1, 1)]
    BY <1>1 DEF MatchOf, Match3way
  <2>2. MatchFinding("MISSING_PO", "ERROR", Absent) \in MatchFindings
    BY FindingTyped DEF Optional, ReasonCode
  <2>3. Fraction(1, 1) \in Fractions /\ Fraction(1, 1).num = 1 /\ Fraction(1, 1).den = 1
    BY DEF Fraction, Fractions
  <2>4. MatchOf(e, po) \in MatchResult
    BY <2>1, <2>2, <2>3 DEF MatchResult
  <2>5. MatchOf(e, po).delta = Fraction(1, 1)
    BY <2>1
  <2> QED BY <2>3, <2>4, <2>5, NoResultAssumption
<1>2. CASE po \in PurchaseOrder
  <2>1. MatchOf(e, po).delta \in Shares
    BY <1>2, DeltaOfMatch, ZeroIsAShare
  <2>2. MatchOf(e, po).delta \in Fractions /\ MatchOf(e, po).delta.num \in Int /\ MatchOf(e, po).delta.den \in Nat \ {0}
    BY <2>1 DEF Shares, Fractions
  <2>3. Outcome(AllFindings(e, po)) \in {"MATCH", "TOLERABLE", "MISMATCH"}
    BY DEF Outcome
  <2>4. MatchOf(e, po) = [outcome |-> Outcome(AllFindings(e, po)), findings |-> AllFindings(e, po),
                          delta |-> Worst(AllRatios(e, po))]
        /\ MatchOf(e, po).delta = Worst(AllRatios(e, po))
    BY <1>2, MatchIs
  <2>5. MatchOf(e, po) \in MatchResult
    BY <1>2, <2>2, <2>3, <2>4, FindingsTyped DEF MatchResult
  <2> QED BY <2>2, <2>5, NoResultAssumption
<1> QED BY <1>1, <1>2

-----------------------------------------------------------------------------
\* The least critical confidence exists: the clamped values are natural.
LEMMA LeastConfidence ==
    ASSUME NEW c \in [ConfidenceKeys -> Optional(Int)], CriticalKeys(c) # {}
    PROVE  /\ MinCriticalConfidence(c) \in Nat
           /\ \E k \in CriticalKeys(c) : MinCriticalConfidence(c) = Clamp(c[k], 0)
           /\ \A k \in CriticalKeys(c) : c[k] \in Int /\ MinCriticalConfidence(c) <= Clamp(c[k], 0)
<1> DEFINE values == {Clamp(c[k], 0) : k \in CriticalKeys(c)}
<1>1. \A k \in CriticalKeys(c) : c[k] \in Int
  <2>1. CriticalKeys(c) \subseteq ConfidenceKeys
    BY DEF CriticalKeys, CRITICAL_FIELDS, CRITICAL_LINE_FIELDS, ConfidenceKeys
  <2>2. \A k \in CriticalKeys(c) : c[k] # Absent
    BY DEF CriticalKeys
  <2> QED BY <2>1, <2>2 DEF Optional
<1>2. values \subseteq Nat /\ values # {}
  BY <1>1 DEF Clamp
<1>3. \E v \in values : \A w \in values : v <= w
  BY <1>2, LeastOne
<1>4. /\ MinCriticalConfidence(c) \in values
      /\ \A w \in values : MinCriticalConfidence(c) <= w
  <2>1. MinCriticalConfidence(c) = CHOOSE v \in values : \A w \in values : v <= w
    BY DEF MinCriticalConfidence
  <2> QED BY <1>3, <2>1
<1> QED BY <1>1, <1>2, <1>4

\* With no critical field it counts as zero.
LEMMA LeastConfidenceTyped ==
    ASSUME NEW c \in [ConfidenceKeys -> Optional(Int)]
    PROVE  MinCriticalConfidence(c) \in Nat
<1>1. CASE CriticalKeys(c) = {}
  BY <1>1 DEF MinCriticalConfidence
<1> QED BY <1>1, LeastConfidence

\* Without a finding the policy costs nothing.
LEMMA NoFindingNoPenalty == PolicySeverityTerm({}) = 100
<1> DEFINE Sums(g) == [F \in SUBSET {} |->
              IF F = {} THEN 0
              ELSE LET f == CHOOSE f \in F : TRUE IN SEVERITY_PENALTY[f.severity] + g[F \ {f}]]
           sum == CHOOSE g : g = Sums(g)
<1>1. \E g : g = Sums(g)
  <2>1. PICK g : g = [F \in SUBSET {} |-> 0]
    OBVIOUS
  <2>2. Sums(g) = [F \in SUBSET {} |-> 0]
    OBVIOUS
  <2> QED BY <2>1, <2>2
<1>2. sum = Sums(sum)
  BY <1>1
<1>3. sum[{}] = 0
  BY <1>2
<1>4. PolicySeverityTerm({}) = Clamp(100 - sum[{}], 0)
  BY DEF PolicySeverityTerm
<1> QED BY <1>3, <1>4 DEF Clamp

\* With no policy finding the confidence is a fraction, and what it takes to
\* reach tau.
LEMMA ConfidenceIs ==
    ASSUME NEW c \in [ConfidenceKeys -> Optional(Int)], NEW m, m # Absent,
           m.delta.num \in Int, m.delta.den \in Nat \ {0}
    PROVE  /\ Confidence(c, m, {}).num \in Int /\ Confidence(c, m, {}).den = m.delta.den
           /\ Confidence(c, m, {}) # Absent
           /\ ReachesTau(Confidence(c, m, {})) <=>
                400 * m.delta.num <= (4 * MinCriticalConfidence(c) - 250) * m.delta.den
<1> DEFINE least == MinCriticalConfidence(c)
           den   == m.delta.den
           num   == 100 * (den - m.delta.num)
           score == (W_FIELD * least + W_POLICY * PolicySeverityTerm({})) * den + W_MATCH * num
           best  == IF score > 1000 * den THEN 1000 * den ELSE score
<1>1. MatchTerm(m) = Fraction(num, den) /\ MatchTerm(m).num = num /\ MatchTerm(m).den = den
  BY DEF MatchTerm, Fraction
<1>2. Confidence(c, m, {}) = Fraction(best, den)
  BY <1>1 DEF Confidence
<1>3. least \in Nat /\ PolicySeverityTerm({}) = 100 /\ den \in Nat \ {0} /\ num \in Int
  BY LeastConfidenceTyped, NoFindingNoPenalty
<1>4. score = (4 * least + 200) * den + 4 * num
  BY <1>3 DEF W_FIELD, W_POLICY, W_MATCH
<1> HIDE DEF least
<1>5. score \in Int /\ best \in Int
  BY <1>3, <1>4
<1>6. Fraction(best, den) \in Fractions /\ Fraction(best, den).num = best /\ Fraction(best, den).den = den
  BY <1>3, <1>5 DEF Fraction, Fractions
<1>7. best >= 850 * den <=> score >= 850 * den
  BY <1>3, <1>5
<1>8. score = (4 * least) * den + 600 * den - 400 * m.delta.num
  BY <1>3, <1>4
<1>9. (4 * least - 250) * den = (4 * least) * den - 250 * den
  BY <1>3
<1>10. score >= 850 * den <=> 400 * m.delta.num <= (4 * least - 250) * den
  BY <1>3, <1>8, <1>9
<1> QED BY SMTT(20), <1>2, <1>5, <1>6, <1>7, <1>10, NoResultAssumption DEF ReachesTau, TAU, least

-----------------------------------------------------------------------------
\* What the engines make of a case.
ExtractionOf(c) == Extracted(c.answer)
OrderOf(c)      == LoadPo(c.erp, ExtractionOf(c).po_number)
ChecksOf(c)     == ValidateExtraction(ExtractionOf(c))
MatchingOf(c)   == MatchOf(ExtractionOf(c), OrderOf(c))
PolicyOf(c)     == EvaluatePolicy(ExtractionOf(c), OrderOf(c), c.hits)
ConfidenceOf(c) == Confidence(ExtractionOf(c).confidences, MatchingOf(c), {})

Passes(c) ==
    /\ Errors(ChecksOf(c)) = {} /\ Errors(MatchingOf(c).findings) = {} /\ PolicyOf(c) = {}
    /\ ReachesTau(ConfidenceOf(c))

Approving == {"auto_approve", "archive"}
Escalated == {"exception_triage", "human_review"}

\* The state holds what the engines make of the case, as far as the run is,
\* and the node says which of them had nothing against it.
StateFollows ==
    /\ state = [f \in Fields |-> state[f]]
    /\ node # "extract" => state.extraction = ExtractionOf(case)
    /\ state.validation = IF node \in {"extract", "validate"} THEN {} ELSE ChecksOf(case)
    /\ state.match \in {Absent, MatchingOf(case)}
    /\ node \in {"extract", "validate", "match3way"} => state.match = Absent
    /\ state.policy \in {{}, PolicyOf(case)}
    /\ node \in {"extract", "validate", "match3way", "policy"} => state.policy = {}
    /\ state.gate \in {Absent, "AUTO", "EXCEPTION"}
    /\ node \in {"extract", "validate", "match3way", "policy", "gate"} => state.gate = Absent
    /\ state.route = IF node = "archive" THEN "AUTO" ELSE IF node = "human_review" THEN "EXCEPTION" ELSE Absent

NodeFollows ==
    /\ node \in {"extract", "validate", "match3way", "raised", "policy", "gate"} \cup Approving \cup Escalated
    /\ node \in {"match3way", "policy", "gate"} \cup Approving => Errors(ChecksOf(case)) = {}
    /\ node \in {"policy", "gate"} \cup Approving =>
          state.match = MatchingOf(case) /\ Errors(MatchingOf(case).findings) = {}
    /\ node \in {"gate"} \cup Approving => PolicyOf(case) = {}
    /\ node \in Approving => state.gate = "AUTO" /\ ReachesTau(ConfidenceOf(case))
    /\ node \in Escalated =>
          \/ Errors(ChecksOf(case)) # {}
          \/ state.match = MatchingOf(case) /\ Errors(MatchingOf(case).findings) # {}
          \/ state.policy = PolicyOf(case) /\ PolicyOf(case) # {}
          \/ state.gate = "EXCEPTION" /\ ~ReachesTau(ConfidenceOf(case))
    /\ state.gate # Absent => state.match = MatchingOf(case)

RouteInv == case \in Cases /\ StateFollows /\ NodeFollows

\* The engines' values have their types.
LEMMA CaseTyped ==
    ASSUME NEW c \in Cases
    PROVE  /\ c.answer \in Answers /\ ExtractionOf(c) \in InvoiceExtraction
           /\ OrderOf(c) \in PurchaseOrder \cup {Absent}
           /\ MatchingOf(c) # Absent
           /\ ConfidenceOf(c) # Absent
           /\ ConfidenceOf(c).num \in Int /\ ConfidenceOf(c).den \in Int
<1>1. c.answer \in Answers /\ \A p \in DOMAIN c.erp : c.erp[p] \in PurchaseOrder
  BY CasesAssumption
<1>2. ExtractionOf(c) \in InvoiceExtraction
  BY <1>1, ExtractedFields DEF ExtractionOf
<1>3. OrderOf(c) \in PurchaseOrder \cup {Absent}
  BY <1>1 DEF OrderOf, LoadPo
<1>4. /\ MatchingOf(c) # Absent
      /\ MatchingOf(c).delta.num \in Int /\ MatchingOf(c).delta.den \in Nat \ {0}
  BY <1>2, <1>3, MatchTyped DEF MatchingOf
<1>5. ExtractionOf(c).confidences \in [ConfidenceKeys -> Optional(Int)]
  BY <1>2 DEF InvoiceExtraction
<1>6. /\ ConfidenceOf(c).num \in Int /\ ConfidenceOf(c).den = MatchingOf(c).delta.den
      /\ ConfidenceOf(c) # Absent
  BY <1>4, <1>5, ConfidenceIs DEF ConfidenceOf
<1> QED BY <1>1, <1>2, <1>3, <1>4, <1>6

\* Every policy finding is severe enough to stop an approval.
LEMMA PolicyIsHigh == ASSUME NEW e, NEW po, NEW hits
                      PROVE  HasFailure(EvaluatePolicy(e, po, hits), "HIGH") <=> EvaluatePolicy(e, po, hits) # {}
<1>1. \A code \in {"APPROVAL_REQUIRED", "STALE_PO", "BANK_CHANGE", "DUP_NEAR"} :
        \A approver : PolicyFinding(code, approver).severity = "HIGH"
  BY DEF PolicyFinding, TAXONOMY, Meta
<1>2. \A f \in EvaluatePolicy(e, po, hits) : f.severity = "HIGH"
  BY <1>1 DEF EvaluatePolicy, RuleSpendLimit, RuleStalePo, RuleBankChange, RuleNearDup
<1> QED BY <1>2 DEF HasFailure

\* The routing functions' test and triage's agree.
LEMMA FailureIsError == ASSUME NEW S PROVE HasFailure(S, "ERROR") <=> Errors(S) # {}
BY DEF HasFailure, Errors

-----------------------------------------------------------------------------
\* RouteInv holds at first and every node preserves it.
LEMMA RouteInit == Init => RouteInv
<1> SUFFICES ASSUME Init PROVE RouteInv
  OBVIOUS
<1>1. state = EmptyState /\ node = "extract" /\ case \in Cases
  BY DEF Init
<1>2. state = [f \in Fields |-> state[f]]
  BY <1>1 DEF EmptyState, Fields
<1>3. /\ state.validation = {} /\ state.match = Absent /\ state.policy = {} /\ state.gate = Absent
      /\ state.route = Absent
  BY <1>1 DEF EmptyState
<1>4. StateFollows
  BY <1>1, <1>2, <1>3 DEF StateFollows
<1>5. NodeFollows
  BY <1>1, <1>3 DEF NodeFollows, Approving, Escalated
<1> QED BY <1>1, <1>4, <1>5 DEF RouteInv

\* A node that writes one field leaves the others alone.
LEMMA Written ==
    ASSUME state = [f \in Fields |-> state[f]], NEW g \in Fields, NEW v, state' = [state EXCEPT ![g] = v]
    PROVE  /\ state' = [f \in Fields |-> state'[f]] /\ state'[g] = v
           /\ \A f \in Fields : f # g => state'[f] = state[f]
<1>1. DOMAIN state = Fields
  OBVIOUS
<1> QED BY <1>1

LEMMA ExtractRoute == ASSUME RouteInv, Extract PROVE RouteInv'
<1>1. /\ state' = [state EXCEPT !["extraction"] = ExtractionOf(case)]
      /\ node = "extract" /\ node' = "validate" /\ case' = case
  BY DEF Extract, ExtractionOf
<1>2. /\ state' = [f \in Fields |-> state'[f]] /\ state'["extraction"] = ExtractionOf(case)
      /\ \A f \in Fields : f # "extraction" => state'[f] = state[f]
  BY <1>1, Written DEF RouteInv, StateFollows, Fields
<1>3. /\ state'.extraction = ExtractionOf(case) /\ state'.validation = {} /\ state'.match = Absent
      /\ state'.policy = {} /\ state'.gate = Absent /\ state'.route = Absent
  BY <1>1, <1>2 DEF RouteInv, StateFollows, Fields
<1>4. StateFollows'
  BY <1>1, <1>2, <1>3 DEF StateFollows
<1>5. NodeFollows'
  BY <1>1, <1>3 DEF NodeFollows, Approving, Escalated
<1> QED BY <1>1, <1>4, <1>5 DEF RouteInv

LEMMA ValidateRoute == ASSUME RouteInv, Validate PROVE RouteInv'
<1>1. /\ state' = [state EXCEPT !["validation"] = ChecksOf(case)]
      /\ node = "validate" /\ node' = RouteAfterValidate(state') /\ case' = case
  BY DEF Validate, E, ChecksOf, RouteInv, StateFollows
<1>2. /\ state' = [f \in Fields |-> state'[f]] /\ state'["validation"] = ChecksOf(case)
      /\ \A f \in Fields : f # "validation" => state'[f] = state[f]
  BY <1>1, Written DEF RouteInv, StateFollows, Fields
<1>3. /\ state'.extraction = ExtractionOf(case) /\ state'.validation = ChecksOf(case)
      /\ state'.match = Absent /\ state'.policy = {} /\ state'.gate = Absent /\ state'.route = Absent
  BY <1>1, <1>2 DEF RouteInv, StateFollows, Fields
<1>4. \/ node' = "exception_triage" /\ Errors(ChecksOf(case)) # {}
      \/ node' = "match3way" /\ Errors(ChecksOf(case)) = {}
  BY <1>1, <1>3, FailureIsError DEF RouteAfterValidate
<1>5. StateFollows'
  BY <1>1, <1>2, <1>3, <1>4 DEF StateFollows
<1>6. NodeFollows'
  BY <1>1, <1>3, <1>4 DEF NodeFollows, Approving, Escalated
<1> QED BY <1>1, <1>5, <1>6 DEF RouteInv

LEMMA RaisesRoute == ASSUME RouteInv, LoadPoRaises PROVE RouteInv'
BY DEF LoadPoRaises, RouteInv, StateFollows, NodeFollows, Approving, Escalated

LEMMA MatchRoute == ASSUME RouteInv, Match3wayNode PROVE RouteInv'
<1>1. /\ state' = [state EXCEPT !["match"] = MatchingOf(case)]
      /\ node = "match3way" /\ node' = RouteAfterMatch(state') /\ case' = case
  BY DEF Match3wayNode, E, Po, MatchingOf, OrderOf, RouteInv, StateFollows
<1>2. /\ state' = [f \in Fields |-> state'[f]] /\ state'["match"] = MatchingOf(case)
      /\ \A f \in Fields : f # "match" => state'[f] = state[f]
  BY <1>1, Written DEF RouteInv, StateFollows, Fields
<1>3. /\ state'.extraction = ExtractionOf(case) /\ state'.validation = ChecksOf(case)
      /\ state'.match = MatchingOf(case) /\ state'.policy = {} /\ state'.gate = Absent /\ state'.route = Absent
      /\ Errors(ChecksOf(case)) = {}
  BY <1>1, <1>2 DEF RouteInv, StateFollows, NodeFollows, Fields
<1>4. \/ node' = "exception_triage" /\ Errors(MatchingOf(case).findings) # {}
      \/ node' = "policy" /\ Errors(MatchingOf(case).findings) = {}
  <2>1. MatchingOf(case) # Absent
    BY CaseTyped DEF RouteInv
  <2>2. MatchingOf(case).outcome = "MISMATCH" <=> Errors(MatchingOf(case).findings) # {}
    BY MismatchIsError DEF MatchingOf
  <2> QED BY <1>1, <1>3, <2>1, <2>2 DEF RouteAfterMatch
<1>5. StateFollows'
  BY <1>1, <1>2, <1>3, <1>4 DEF StateFollows
<1>6. NodeFollows'
  BY <1>1, <1>3, <1>4 DEF NodeFollows, Approving, Escalated
<1> QED BY <1>1, <1>5, <1>6 DEF RouteInv

LEMMA PolicyRoute == ASSUME RouteInv, Policy PROVE RouteInv'
<1>1. /\ state' = [state EXCEPT !["policy"] = PolicyOf(case)]
      /\ node = "policy" /\ node' = RouteAfterPolicy(state') /\ case' = case
  BY DEF Policy, E, Po, PolicyOf, OrderOf, RouteInv, StateFollows
<1>2. /\ state' = [f \in Fields |-> state'[f]] /\ state'["policy"] = PolicyOf(case)
      /\ \A f \in Fields : f # "policy" => state'[f] = state[f]
  BY <1>1, Written DEF RouteInv, StateFollows, Fields
<1>3. /\ state'.extraction = ExtractionOf(case) /\ state'.validation = ChecksOf(case)
      /\ state'.match = MatchingOf(case) /\ state'.policy = PolicyOf(case)
      /\ state'.gate = Absent /\ state'.route = Absent
      /\ Errors(ChecksOf(case)) = {} /\ Errors(MatchingOf(case).findings) = {}
  BY <1>1, <1>2 DEF RouteInv, StateFollows, NodeFollows, Fields
<1>4. \/ node' = "exception_triage" /\ PolicyOf(case) # {}
      \/ node' = "gate" /\ PolicyOf(case) = {}
  BY <1>1, <1>3, PolicyIsHigh DEF RouteAfterPolicy, PolicyOf
<1>5. StateFollows'
  BY <1>1, <1>2, <1>3, <1>4 DEF StateFollows
<1>6. NodeFollows'
  BY <1>1, <1>3, <1>4 DEF NodeFollows, Approving, Escalated
<1> QED BY <1>1, <1>5, <1>6 DEF RouteInv

\* The gate and the routing function read the same confidence, which is a
\* number: they cannot disagree.
LEMMA GateRoute == ASSUME RouteInv, Gate PROVE RouteInv'
<1> DEFINE C == ConfidenceOf(case)
<1>1. /\ state.extraction = ExtractionOf(case) /\ state.match = MatchingOf(case) /\ state.policy = {}
      /\ state.validation = ChecksOf(case) /\ state.route = Absent /\ node = "gate"
      /\ Errors(ChecksOf(case)) = {} /\ Errors(MatchingOf(case).findings) = {} /\ PolicyOf(case) = {}
  BY DEF Gate, RouteInv, StateFollows, NodeFollows
<1>2. Confidence(E.confidences, state.match, state.policy) = C
  BY <1>1 DEF E, ConfidenceOf
<1>3. /\ state' = [state EXCEPT !.confidence = C, !.gate = Decide(C)]
      /\ node' = RouteAfterGate(state') /\ case' = case
  BY <1>2 DEF Gate
<1>4. C # Absent /\ C.num \in Int /\ C.den \in Int
  BY CaseTyped DEF RouteInv
<1> HIDE DEF C
<1>5. /\ state' = [f \in Fields |-> state'[f]]
      /\ state'.confidence = C /\ state'.gate = Decide(C)
      /\ state'.extraction = state.extraction /\ state'.validation = state.validation
      /\ state'.match = state.match /\ state'.policy = state.policy /\ state'.route = state.route
  <2>1. state = [f \in Fields |-> state[f]]
    BY DEF RouteInv, StateFollows
  <2> QED BY <1>3, <2>1 DEF Fields
<1>6. \/ node' = "auto_approve" /\ state'.gate = "AUTO" /\ ReachesTau(C)
      \/ node' = "exception_triage" /\ state'.gate = "EXCEPTION" /\ ~ReachesTau(C)
  <2>1. C.num < TAU * C.den <=> ~ReachesTau(C)
    BY <1>4 DEF TAU, ReachesTau
  <2> QED BY <1>3, <1>4, <1>5, <2>1 DEF RouteAfterGate, Decide
<1>7. StateFollows'
  BY <1>1, <1>3, <1>5, <1>6 DEF StateFollows
<1>8. NodeFollows'
  BY <1>1, <1>3, <1>5, <1>6 DEF NodeFollows, Approving, Escalated, C
<1> QED BY <1>3, <1>7, <1>8 DEF RouteInv

LEMMA ApproveRoute == ASSUME RouteInv, AutoApprove PROVE RouteInv'
<1>1. /\ state' = [state EXCEPT !["route"] = "AUTO"]
      /\ node = "auto_approve" /\ node' = "archive" /\ case' = case
  BY DEF AutoApprove
<1>2. /\ state' = [f \in Fields |-> state'[f]] /\ state'["route"] = "AUTO"
      /\ \A f \in Fields : f # "route" => state'[f] = state[f]
  BY <1>1, Written DEF RouteInv, StateFollows, Fields
<1>3. /\ state'.extraction = state.extraction /\ state'.validation = state.validation
      /\ state'.match = state.match /\ state'.policy = state.policy /\ state'.gate = state.gate
      /\ state'.route = "AUTO"
  BY <1>2 DEF Fields
<1>4. StateFollows'
  BY <1>1, <1>2, <1>3 DEF RouteInv, StateFollows
<1>5. NodeFollows'
  BY <1>1, <1>3 DEF RouteInv, NodeFollows, Approving, Escalated
<1> QED BY <1>1, <1>4, <1>5 DEF RouteInv

\* A reason to be here is an entry or the gate's decision.
LEMMA EscalatedHasReason == ASSUME RouteInv, node \in Escalated PROVE Entries(state) # {} \/ state.gate = "EXCEPTION"
<1>1. state.validation = ChecksOf(case) /\ MatchingOf(case) # Absent
  BY CaseTyped DEF RouteInv, StateFollows, Escalated
<1>2. \/ Errors(ChecksOf(case)) # {}
      \/ state.match = MatchingOf(case) /\ Errors(MatchingOf(case).findings) # {}
      \/ state.policy = PolicyOf(case) /\ PolicyOf(case) # {}
      \/ state.gate = "EXCEPTION"
  BY DEF RouteInv, NodeFollows
<1> QED BY <1>1, <1>2 DEF Entries

\* An approved run has nothing against it.
LEMMA ApprovedHasNoEntries == ASSUME RouteInv, node \in Approving PROVE Entries(state) = {} /\ state.gate = "AUTO"
<1>1. state.validation = ChecksOf(case)
  BY DEF RouteInv, StateFollows, Approving
<1>2. state.policy = {}
  BY DEF RouteInv, StateFollows, NodeFollows
<1>3. Errors(state.validation) = {} /\ Errors(state.match.findings) = {}
  BY <1>1 DEF RouteInv, NodeFollows
<1> QED BY <1>2, <1>3 DEF Entries, RouteInv, NodeFollows

\* Triage always finds a reason, so it opens an exception.
LEMMA TriageRoute ==
    ASSUME RouteInv, NEW advice, ExceptionTriage(advice)
    PROVE  /\ RouteInv' /\ node' = "human_review"
           /\ state' = [state EXCEPT !["route"] = "EXCEPTION"]
           /\ exception' = [draft |-> Draft(TriageCode(state)), recommendation |-> advice, status |-> "OPEN"]
<1>1. node = "exception_triage" /\ case' = case
  BY DEF ExceptionTriage
<1>2. ~(Entries(state) = {} /\ state.gate # "EXCEPTION")
  BY <1>1, EscalatedHasReason DEF Escalated
<1>3. /\ state' = [state EXCEPT !["route"] = "EXCEPTION"] /\ node' = "human_review"
      /\ exception' = [draft |-> Draft(TriageCode(state)), recommendation |-> advice, status |-> "OPEN"]
  BY <1>2 DEF ExceptionTriage
<1>4. /\ state' = [f \in Fields |-> state'[f]] /\ state'["route"] = "EXCEPTION"
      /\ \A f \in Fields : f # "route" => state'[f] = state[f]
  BY <1>3, Written DEF RouteInv, StateFollows, Fields
<1>5. /\ state'.extraction = state.extraction /\ state'.validation = state.validation
      /\ state'.match = state.match /\ state'.policy = state.policy /\ state'.gate = state.gate
      /\ state'.route = "EXCEPTION"
  BY <1>4 DEF Fields
<1>6. StateFollows'
  BY <1>1, <1>3, <1>4, <1>5 DEF RouteInv, StateFollows
<1>7. NodeFollows'
  BY <1>1, <1>3, <1>5 DEF RouteInv, NodeFollows, Approving, Escalated
<1> QED BY <1>1, <1>3, <1>6, <1>7 DEF RouteInv

LEMMA RouteNext == RouteInv /\ [Next]_vars => RouteInv'
<1> SUFFICES ASSUME RouteInv, [Next]_vars PROVE RouteInv'
  OBVIOUS
<1>1. CASE UNCHANGED vars
  BY <1>1 DEF vars, RouteInv, StateFollows, NodeFollows
<1>2. CASE \E advice \in Optional(Advice) : ExceptionTriage(advice)
  BY <1>2, TriageRoute
<1> QED BY <1>1, <1>2, ExtractRoute, ValidateRoute, RaisesRoute, MatchRoute, PolicyRoute, GateRoute,
        ApproveRoute DEF Next

LEMMA RouteAlways == Spec => []RouteInv
BY RouteInit, RouteNext, PTL DEF Spec

\* The two places that compare the confidence with tau and the two that read
\* severities never disagree: triage always has a reason to give, and an
\* approval is the gate's own.
THEOREM TriageAlwaysHasReason == Spec => []TriageHasReason
<1>1. RouteInv => TriageHasReason
  <2> SUFFICES ASSUME RouteInv PROVE TriageHasReason
    OBVIOUS
  <2>1. node # "failed"
    BY DEF RouteInv, NodeFollows, Approving, Escalated
  <2>2. node = "exception_triage" => Entries(state) # {} \/ state.gate = "EXCEPTION"
    BY EscalatedHasReason DEF Escalated
  <2>3. state.route = "AUTO" => node = "archive"
    BY NoRouteAssumption DEF RouteInv, StateFollows
  <2>4. state.route = "AUTO" => Entries(state) = {} /\ state.gate = "AUTO"
    BY <2>3, ApprovedHasNoEntries DEF Approving
  <2> QED BY <2>1, <2>2, <2>4 DEF TriageHasReason
<1> QED BY <1>1, RouteAlways, PTL

-----------------------------------------------------------------------------
\* What a ledger records under an event, and which events it has.
FactsIn(l, event) == UNION {l[i].facts : i \in {j \in DOMAIN l : l[j].event = event}}
EventsIn(l) == {l[i].event : i \in DOMAIN l}
IsLedger(l) == \E S : l \in Seq(S)
Entry(event, facts) == [event |-> event, facts |-> facts]
Plus(l, x) == Append(l, x)

\* Appending an entry adds its event and its facts, and no others.
LEMMA OneMoreEntry ==
    ASSUME NEW l, IsLedger(l), NEW event, NEW facts
    PROVE  /\ IsLedger(Plus(l, Entry(event, facts)))
           /\ EventsIn(Plus(l, Entry(event, facts))) = EventsIn(l) \cup {event}
           /\ FactsIn(Plus(l, Entry(event, facts)), event) = FactsIn(l, event) \cup facts
           /\ \A other : other # event => FactsIn(Plus(l, Entry(event, facts)), other) = FactsIn(l, other)
<1>1. PICK S : l \in Seq(S)
  BY DEF IsLedger
<1>2. PICK x : x = Entry(event, facts)
  OBVIOUS
<1>3. PICK m : m = Plus(l, x)
  OBVIOUS
<1>4. x.event = event /\ x.facts = facts
  BY <1>2 DEF Entry
<1>5. l \in Seq(S \cup {x})
  BY <1>1
<1>6. m \in Seq(S \cup {x})
  BY <1>3, <1>5 DEF Plus
<1>7. /\ DOMAIN l = 1..Len(l) /\ DOMAIN m = 1..(Len(l) + 1) /\ Len(l) \in Nat
      /\ m[Len(l) + 1] = x /\ \A i \in 1..Len(l) : m[i] = l[i]
  BY <1>3, <1>5 DEF Plus
<1>8. DOMAIN m = DOMAIN l \cup {Len(l) + 1} /\ Len(l) + 1 \notin DOMAIN l
  BY <1>7
<1>9. EventsIn(m) = EventsIn(l) \cup {event}
  BY <1>4, <1>7, <1>8 DEF EventsIn
<1>10. ASSUME NEW other, NEW y
       PROVE  y \in FactsIn(m, other) <=> y \in FactsIn(l, other) \/ (other = event /\ y \in facts)
  <2>1. y \in FactsIn(m, other) <=> \E i \in DOMAIN m : m[i].event = other /\ y \in m[i].facts
    BY DEF FactsIn
  <2>2. y \in FactsIn(l, other) <=> \E i \in DOMAIN l : l[i].event = other /\ y \in l[i].facts
    BY DEF FactsIn
  <2>3. \A i \in DOMAIN l : m[i] = l[i]
    BY <1>7
  <2> QED BY <1>4, <1>7, <1>8, <2>1, <2>2, <2>3
<1>11. FactsIn(m, event) = FactsIn(l, event) \cup facts
  BY <1>10
<1>12. \A other : other # event => FactsIn(m, other) = FactsIn(l, other)
  BY <1>10
<1>13. IsLedger(m)
  BY <1>6 DEF IsLedger
<1> QED BY <1>2, <1>3, <1>9, <1>11, <1>12, <1>13

-----------------------------------------------------------------------------
EventsAt ==
    [extract      |-> {},
     validate     |-> {"extract.completed"},
     match3way    |-> {"extract.completed", "validate.completed"},
     policy       |-> {"extract.completed", "validate.completed", "match.completed"},
     gate         |-> {"extract.completed", "validate.completed", "match.completed", "policy.evaluated"},
     auto_approve |-> {"extract.completed", "validate.completed", "match.completed", "policy.evaluated",
                       "gate.decided"},
     archive      |-> {"extract.completed", "validate.completed", "match.completed", "policy.evaluated",
                       "gate.decided", "invoice.auto_approved"}]

MatchFacts(s) == IF s.match = Absent THEN {} ELSE s.match.findings
GateFacts(s)  == IF s.gate = Absent THEN {} ELSE {s.gate}

\* The ledger holds what the state holds, and an open exception is in it with
\* the code that follows from the state.
LedgerFollows ==
    /\ IsLedger(ledger)
    /\ FactsIn(ledger, "validate.completed") = state.validation
    /\ FactsIn(ledger, "match.completed") = MatchFacts(state)
    /\ FactsIn(ledger, "policy.evaluated") = state.policy
    /\ FactsIn(ledger, "gate.decided") = GateFacts(state)
    /\ node # "human_review" => FactsIn(ledger, "exception.opened") = {}
    /\ node = "human_review" => /\ FactsIn(ledger, "exception.opened") = {exception.draft.code}
                                /\ exception.draft.code = TriageCode(state)
    /\ node \in DOMAIN EventsAt => EventsIn(ledger) = EventsAt[node]

AuditInv == RouteInv /\ LedgerFollows

\* The events that can be in the ledger at a node.
LEMMA EventsAtNode ==
    /\ EventsAt["extract"] = {}
    /\ EventsAt["validate"] = EventsAt["extract"] \cup {"extract.completed"}
    /\ EventsAt["match3way"] = EventsAt["validate"] \cup {"validate.completed"}
    /\ EventsAt["policy"] = EventsAt["match3way"] \cup {"match.completed"}
    /\ EventsAt["gate"] = EventsAt["policy"] \cup {"policy.evaluated"}
    /\ EventsAt["auto_approve"] = EventsAt["gate"] \cup {"gate.decided"}
    /\ EventsAt["archive"] = EventsAt["auto_approve"] \cup {"invoice.auto_approved"}
    /\ DOMAIN EventsAt = {"extract", "validate", "match3way", "policy", "gate", "auto_approve", "archive"}
BY DEF EventsAt

\* AuditInv holds at first and every node preserves it.
LEMMA AuditInit == Init => AuditInv
<1> SUFFICES ASSUME Init PROVE AuditInv
  OBVIOUS
<1>1. state = EmptyState /\ node = "extract" /\ ledger = <<>>
  BY DEF Init
<1>2. /\ state.validation = {} /\ state.match = Absent /\ state.policy = {} /\ state.gate = Absent
  BY <1>1 DEF EmptyState
<1>3. IsLedger(ledger) /\ EventsIn(ledger) = {} /\ \A event : FactsIn(ledger, event) = {}
  BY <1>1 DEF IsLedger, EventsIn, FactsIn
<1>4. LedgerFollows
  BY <1>1, <1>2, <1>3, EventsAtNode DEF LedgerFollows, MatchFacts, GateFacts
<1> QED BY <1>4, RouteInit DEF AuditInv

\* The fields of the state that the ledger follows, after a node that writes
\* at most the field g.
LEMMA ExtractAudit == ASSUME AuditInv, Extract PROVE LedgerFollows'
<1>1. /\ state' = [state EXCEPT !["extraction"] = Extracted(case.answer)]
      /\ ledger' = Plus(ledger, Entry("extract.completed", {}))
      /\ node = "extract" /\ node' = "validate"
  BY DEF Extract, Log, Plus, Entry
<1>2. \A f \in Fields : f # "extraction" => state'[f] = state[f]
  BY <1>1, Written DEF AuditInv, RouteInv, StateFollows, Fields
<1>3. /\ state'.validation = state.validation /\ state'.match = state.match
      /\ state'.policy = state.policy /\ state'.gate = state.gate
  BY <1>2 DEF Fields
<1>4. /\ IsLedger(ledger') /\ EventsIn(ledger') = EventsIn(ledger) \cup {"extract.completed"}
      /\ \A event : event # "extract.completed" => FactsIn(ledger', event) = FactsIn(ledger, event)
  BY <1>1, OneMoreEntry DEF AuditInv, LedgerFollows
<1> QED BY <1>1, <1>3, <1>4, EventsAtNode DEF AuditInv, LedgerFollows, MatchFacts, GateFacts

LEMMA ValidateAudit == ASSUME AuditInv, Validate PROVE LedgerFollows'
<1> DEFINE V == ValidateExtraction(E)
<1>1. /\ state' = [state EXCEPT !["validation"] = V]
      /\ ledger' = Plus(ledger, Entry("validate.completed", V))
      /\ node = "validate" /\ node' \in {"exception_triage", "match3way"}
  BY DEF Validate, Log, Plus, Entry, RouteAfterValidate
<1> HIDE DEF V
<1>2. state'["validation"] = V /\ \A f \in Fields : f # "validation" => state'[f] = state[f]
  BY <1>1, Written DEF AuditInv, RouteInv, StateFollows, Fields
<1>3. /\ state'.validation = V /\ state'.match = state.match
      /\ state'.policy = state.policy /\ state'.gate = state.gate
  BY <1>2 DEF Fields
<1>4. /\ IsLedger(ledger') /\ EventsIn(ledger') = EventsIn(ledger) \cup {"validate.completed"}
      /\ FactsIn(ledger', "validate.completed") = FactsIn(ledger, "validate.completed") \cup V
      /\ \A event : event # "validate.completed" => FactsIn(ledger', event) = FactsIn(ledger, event)
  BY <1>1, OneMoreEntry DEF AuditInv, LedgerFollows
<1>5. FactsIn(ledger, "validate.completed") = {}
  BY <1>1 DEF AuditInv, LedgerFollows, RouteInv, StateFollows
<1> QED BY <1>1, <1>3, <1>4, <1>5, EventsAtNode DEF AuditInv, LedgerFollows, MatchFacts, GateFacts

LEMMA RaisesAudit == ASSUME AuditInv, LoadPoRaises PROVE LedgerFollows'
BY EventsAtNode DEF LoadPoRaises, AuditInv, LedgerFollows, MatchFacts, GateFacts

LEMMA MatchAudit == ASSUME AuditInv, Match3wayNode PROVE LedgerFollows'
<1> DEFINE M == MatchingOf(case)
<1>1. /\ state' = [state EXCEPT !["match"] = M]
      /\ ledger' = Plus(ledger, Entry("match.completed", M.findings))
      /\ node = "match3way" /\ node' \in {"exception_triage", "policy"}
  BY DEF Match3wayNode, Log, Plus, Entry, RouteAfterMatch, E, Po, MatchingOf, OrderOf, AuditInv, RouteInv,
         StateFollows
<1>2. M # Absent
  BY CaseTyped DEF AuditInv, RouteInv
<1> HIDE DEF M
<1>3. state'["match"] = M /\ \A f \in Fields : f # "match" => state'[f] = state[f]
  BY <1>1, Written DEF AuditInv, RouteInv, StateFollows, Fields
<1>4. /\ state'.match = M /\ state'.validation = state.validation
      /\ state'.policy = state.policy /\ state'.gate = state.gate
  BY <1>3 DEF Fields
<1>5. /\ IsLedger(ledger') /\ EventsIn(ledger') = EventsIn(ledger) \cup {"match.completed"}
      /\ FactsIn(ledger', "match.completed") = FactsIn(ledger, "match.completed") \cup M.findings
      /\ \A event : event # "match.completed" => FactsIn(ledger', event) = FactsIn(ledger, event)
  BY <1>1, OneMoreEntry DEF AuditInv, LedgerFollows
<1>6. FactsIn(ledger, "match.completed") = {}
  BY <1>1 DEF AuditInv, LedgerFollows, RouteInv, StateFollows, MatchFacts
<1> QED BY SMTT(20), <1>1, <1>2, <1>4, <1>5, <1>6, EventsAtNode DEF AuditInv, LedgerFollows, MatchFacts, GateFacts

LEMMA PolicyAudit == ASSUME AuditInv, Policy PROVE LedgerFollows'
<1> DEFINE P == EvaluatePolicy(E, Po, case.hits)
<1>1. /\ state' = [state EXCEPT !["policy"] = P]
      /\ ledger' = Plus(ledger, Entry("policy.evaluated", P))
      /\ node = "policy" /\ node' \in {"exception_triage", "gate"}
  BY DEF Policy, Log, Plus, Entry, RouteAfterPolicy
<1> HIDE DEF P
<1>2. state'["policy"] = P /\ \A f \in Fields : f # "policy" => state'[f] = state[f]
  BY <1>1, Written DEF AuditInv, RouteInv, StateFollows, Fields
<1>3. /\ state'.policy = P /\ state'.validation = state.validation
      /\ state'.match = state.match /\ state'.gate = state.gate
  BY <1>2 DEF Fields
<1>4. /\ IsLedger(ledger') /\ EventsIn(ledger') = EventsIn(ledger) \cup {"policy.evaluated"}
      /\ FactsIn(ledger', "policy.evaluated") = FactsIn(ledger, "policy.evaluated") \cup P
      /\ \A event : event # "policy.evaluated" => FactsIn(ledger', event) = FactsIn(ledger, event)
  BY <1>1, OneMoreEntry DEF AuditInv, LedgerFollows
<1>5. FactsIn(ledger, "policy.evaluated") = {}
  BY <1>1 DEF AuditInv, LedgerFollows, RouteInv, StateFollows
<1> QED BY <1>1, <1>3, <1>4, <1>5, EventsAtNode DEF AuditInv, LedgerFollows, MatchFacts, GateFacts

LEMMA GateAudit == ASSUME AuditInv, Gate PROVE LedgerFollows'
<1>1. PICK C : /\ C = Confidence(E.confidences, state.match, state.policy)
               /\ state' = [state EXCEPT !.confidence = C, !.gate = Decide(C)]
               /\ ledger' = Plus(ledger, Entry("gate.decided", {Decide(C)}))
  BY DEF Gate, Log, Plus, Entry
<1>2. node = "gate" /\ node' \in {"exception_triage", "auto_approve"}
  BY DEF Gate, RouteAfterGate
<1>3. /\ state'.gate = Decide(C) /\ state'.validation = state.validation
      /\ state'.match = state.match /\ state'.policy = state.policy
  <2>1. state = [f \in Fields |-> state[f]]
    BY DEF AuditInv, RouteInv, StateFollows
  <2> QED BY <1>1, <2>1 DEF Fields
<1>4. Decide(C) # Absent
  BY NoRouteAssumption DEF Decide
<1>5. PICK d : d = Decide(C)
  OBVIOUS
<1>6. PICK ds : ds = {d}
  OBVIOUS
<1>7. ledger' = Plus(ledger, Entry("gate.decided", ds))
  BY <1>1, <1>5, <1>6
<1>8. /\ IsLedger(ledger') /\ EventsIn(ledger') = EventsIn(ledger) \cup {"gate.decided"}
      /\ FactsIn(ledger', "gate.decided") = FactsIn(ledger, "gate.decided") \cup ds
      /\ \A event : event # "gate.decided" => FactsIn(ledger', event) = FactsIn(ledger, event)
  BY <1>7, OneMoreEntry DEF AuditInv, LedgerFollows
<1>9. FactsIn(ledger, "gate.decided") = {}
  BY <1>2 DEF AuditInv, LedgerFollows, RouteInv, StateFollows, GateFacts
<1>10. FactsIn(ledger', "gate.decided") = GateFacts(state')
  BY <1>3, <1>4, <1>5, <1>6, <1>8, <1>9 DEF GateFacts
<1> QED BY <1>2, <1>3, <1>8, <1>10, EventsAtNode DEF AuditInv, LedgerFollows, MatchFacts

LEMMA ApproveAudit == ASSUME AuditInv, AutoApprove PROVE LedgerFollows'
<1>1. /\ state' = [state EXCEPT !["route"] = "AUTO"]
      /\ ledger' = Plus(ledger, Entry("invoice.auto_approved", {}))
      /\ node = "auto_approve" /\ node' = "archive"
  BY DEF AutoApprove, Log, Plus, Entry
<1>2. \A f \in Fields : f # "route" => state'[f] = state[f]
  BY <1>1, Written DEF AuditInv, RouteInv, StateFollows, Fields
<1>3. /\ state'.validation = state.validation /\ state'.match = state.match
      /\ state'.policy = state.policy /\ state'.gate = state.gate
  BY <1>2 DEF Fields
<1>4. /\ IsLedger(ledger') /\ EventsIn(ledger') = EventsIn(ledger) \cup {"invoice.auto_approved"}
      /\ \A event : event # "invoice.auto_approved" => FactsIn(ledger', event) = FactsIn(ledger, event)
  BY <1>1, OneMoreEntry DEF AuditInv, LedgerFollows
<1> QED BY <1>1, <1>3, <1>4, EventsAtNode DEF AuditInv, LedgerFollows, MatchFacts, GateFacts

\* Opening the exception, with or without the agent's recommendation.
LEMMA TriageAudit == ASSUME AuditInv, NEW advice, ExceptionTriage(advice) PROVE LedgerFollows'
<1>1. PICK code : code = TriageCode(state)
  OBVIOUS
<1>2. /\ node = "exception_triage" /\ node' = "human_review"
      /\ state' = [state EXCEPT !["route"] = "EXCEPTION"]
      /\ exception' = [draft |-> Draft(code), recommendation |-> advice, status |-> "OPEN"]
  BY <1>1, TriageRoute DEF AuditInv, ExceptionTriage
<1>3. exception'.draft.code = code
  BY <1>2 DEF Draft
<1>4. \A f \in Fields : f # "route" => state'[f] = state[f]
  BY <1>2, Written DEF AuditInv, RouteInv, StateFollows, Fields
<1>5. /\ state'.validation = state.validation /\ state'.match = state.match
      /\ state'.policy = state.policy /\ state'.gate = state.gate
  BY <1>4 DEF Fields
<1>6. TriageCode(state') = code
  BY <1>1, <1>5 DEF TriageCode, Entries
<1>7. PICK codes : codes = {code}
  OBVIOUS
<1>8. PICK opened : opened = Plus(ledger, Entry("exception.opened", codes))
  OBVIOUS
<1>9. /\ IsLedger(opened)
      /\ FactsIn(opened, "exception.opened") = FactsIn(ledger, "exception.opened") \cup codes
      /\ \A event : event # "exception.opened" => FactsIn(opened, event) = FactsIn(ledger, event)
  BY <1>8, OneMoreEntry DEF AuditInv, LedgerFollows
<1>10. \/ ledger' = opened
       \/ \E facts : ledger' = Plus(opened, Entry("triage.completed", facts))
  <2>1. PICK S : ledger \in Seq(S)
    BY DEF AuditInv, LedgerFollows, IsLedger
  <2>2. PICK o : o = [event |-> "exception.opened", facts |-> {code}]
    OBVIOUS
  <2>3. PICK a : a = [event |-> "triage.completed", facts |-> {advice}]
    OBVIOUS
  <2>4. ~(Entries(state) = {} /\ state.gate # "EXCEPTION")
    BY <1>2, EscalatedHasReason DEF AuditInv, Escalated
  <2>5. ledger' = ledger \o <<o>> \o (IF advice = Absent THEN <<>> ELSE <<a>>)
    BY <1>1, <2>2, <2>3, <2>4 DEF ExceptionTriage
  <2>6. ledger \in Seq(S \cup {o, a})
    BY <2>1
  <2>7. ledger \o <<o>> = Append(ledger, o) /\ Append(ledger, o) \in Seq(S \cup {o, a})
    BY <2>6
  <2>8. \A l \in Seq(S \cup {o, a}) : l \o <<>> = l /\ l \o <<a>> = Append(l, a)
    OBVIOUS
  <2>9. ledger' = Append(ledger, o) \/ ledger' = Append(Append(ledger, o), a)
    BY <2>5, <2>7, <2>8
  <2>10. opened = Append(ledger, o)
    BY <1>7, <1>8, <2>2 DEF Plus, Entry
  <2>11. a = Entry("triage.completed", {advice})
    BY <2>3 DEF Entry
  <2> QED BY <2>9, <2>10, <2>11 DEF Plus
<1>11. /\ IsLedger(ledger')
       /\ \A event : event # "triage.completed" => FactsIn(ledger', event) = FactsIn(opened, event)
  BY <1>9, <1>10, OneMoreEntry
<1>12. FactsIn(ledger, "exception.opened") = {}
  BY <1>2 DEF AuditInv, LedgerFollows
<1>13. FactsIn(ledger', "exception.opened") = {exception'.draft.code}
  BY <1>3, <1>7, <1>9, <1>11, <1>12
<1>14. /\ FactsIn(ledger', "validate.completed") = FactsIn(ledger, "validate.completed")
       /\ FactsIn(ledger', "match.completed") = FactsIn(ledger, "match.completed")
       /\ FactsIn(ledger', "policy.evaluated") = FactsIn(ledger, "policy.evaluated")
       /\ FactsIn(ledger', "gate.decided") = FactsIn(ledger, "gate.decided")
  BY <1>9, <1>11
<1> QED BY <1>2, <1>3, <1>5, <1>6, <1>11, <1>13, <1>14, EventsAtNode
        DEF AuditInv, LedgerFollows, MatchFacts, GateFacts

LEMMA AuditNext == AuditInv /\ [Next]_vars => AuditInv'
<1> SUFFICES ASSUME AuditInv, [Next]_vars PROVE LedgerFollows'
  BY RouteNext DEF AuditInv
<1>1. CASE UNCHANGED vars
  BY <1>1 DEF vars, AuditInv, LedgerFollows, MatchFacts, GateFacts, TriageCode, Entries
<1>2. CASE \E advice \in Optional(Advice) : ExceptionTriage(advice)
  BY <1>2, TriageAudit
<1> QED BY <1>1, <1>2, ExtractAudit, ValidateAudit, RaisesAudit, MatchAudit, PolicyAudit, GateAudit,
        ApproveAudit DEF Next

\* The codes that the ledger gives are those of the state.
LEMMA LedgerCodesAreEntries == ASSUME AuditInv PROVE LedgerCodes = Entries(state)
<1>1. /\ Facts("validate.completed") = state.validation
      /\ Facts("match.completed") = MatchFacts(state)
      /\ Facts("policy.evaluated") = state.policy
  BY DEF AuditInv, LedgerFollows, Facts, FactsIn
<1>2. Errors(MatchFacts(state)) = IF state.match = Absent THEN {} ELSE Errors(state.match.findings)
  BY DEF MatchFacts, Errors
<1> QED BY <1>1, <1>2 DEF LedgerCodes, Entries

\* An auditor who has only the ledger can recompute the verdict and the code.
THEOREM AuditorCanRecompute == Spec => []AuditRecomputes
<1>1. VInv /\ AuditInv => AuditRecomputes
  <2> SUFFICES ASSUME VInv, AuditInv PROVE AuditRecomputes
    OBVIOUS
  <2>1. Facts("gate.decided") = GateFacts(state) /\ EventsIn(ledger) = {ledger[i].event : i \in DOMAIN ledger}
    BY DEF AuditInv, LedgerFollows, Facts, FactsIn, EventsIn
  <2>2. ASSUME state.route = "AUTO"
        PROVE  /\ LedgerCodes = {} /\ Facts("gate.decided") = {"AUTO"}
               /\ {ledger[i].event : i \in DOMAIN ledger} = EventsAt["archive"]
    <3>1. node = "archive"
      BY <2>2, NoRouteAssumption DEF AuditInv, RouteInv, StateFollows
    <3>2. Entries(state) = {} /\ state.gate = "AUTO"
      BY <3>1, ApprovedHasNoEntries DEF AuditInv, Approving
    <3>3. EventsIn(ledger) = EventsAt["archive"]
      BY <3>1, EventsAtNode DEF AuditInv, LedgerFollows
    <3> QED BY <2>1, <3>2, <3>3, LedgerCodesAreEntries, NoRouteAssumption DEF GateFacts
  <2>3. ASSUME exception # Absent
        PROVE  /\ Facts("exception.opened") = {exception.draft.code}
               /\ LedgerCodes # {} => exception.draft.code = PrimaryCode(LedgerCodes)
               /\ LedgerCodes = {} => /\ exception.draft.code = "APPROVAL_REQUIRED"
                                      /\ Facts("gate.decided") = {"EXCEPTION"}
    <3>1. node = "human_review"
      BY <2>3 DEF VInv
    <3>2. /\ FactsIn(ledger, "exception.opened") = {exception.draft.code}
          /\ exception.draft.code = TriageCode(state)
      BY <3>1 DEF AuditInv, LedgerFollows
    <3>3. Entries(state) # {} \/ state.gate = "EXCEPTION"
      BY <3>1, EscalatedHasReason DEF AuditInv, Escalated
    <3>4. Facts("exception.opened") = FactsIn(ledger, "exception.opened")
      BY DEF Facts, FactsIn
    <3> QED BY <2>1, <3>2, <3>3, <3>4, LedgerCodesAreEntries, NoRouteAssumption DEF TriageCode, GateFacts
  <2> QED BY <2>2, <2>3 DEF AuditRecomputes, EventsAt
<1> QED BY <1>1, VInitOK, VNextOK, AuditInit, AuditNext, PTL DEF Spec

-----------------------------------------------------------------------------
\* Sums over the positions 1..n.
Adds(n, f, g) == g = [i \in 0..n |-> IF i = 0 THEN 0 ELSE g[i - 1] + f[i]]
SumUpto(n, f) == (CHOOSE g : Adds(n, f, g))[n]

LEMMA SumOverIs == ASSUME NEW s, NEW f PROVE SumOver(s, f) = SumUpto(Len(s), f)
BY DEF SumOver, SumUpto, Adds

\* The partial sums exist and are integers.
LEMMA PartialSums ==
    ASSUME NEW n \in Nat, NEW f, \A i \in 1..n : f[i] \in Int
    PROVE  \E g : Adds(n, f, g) /\ \A i \in 0..n : g[i] \in Int
<1> DEFINE Good(m, g) == Adds(m, f, g) /\ \A i \in 0..m : g[i] \in Int
           S == {m \in Nat : m <= n => \E g : Good(m, g)}
<1>1. 0 \in S
  <2>1. PICK g : g = [i \in 0..0 |-> 0]
    OBVIOUS
  <2>2. \A i \in 0..0 : i = 0 /\ g[i] = 0
    BY <2>1
  <2>3. g = [i \in 0..0 |-> IF i = 0 THEN 0 ELSE g[i - 1] + f[i]]
    BY <2>1, <2>2
  <2> QED BY <2>2, <2>3 DEF Adds
<1>2. \A m \in Nat : m \in S => m + 1 \in S
  <2> SUFFICES ASSUME NEW m \in Nat, m \in S, m + 1 <= n PROVE \E g : Good(m + 1, g)
    OBVIOUS
  <2>1. PICK h : Good(m, h)
    OBVIOUS
  <2>2. PICK g : g = [i \in 0..(m + 1) |-> IF i <= m THEN h[i] ELSE h[m] + f[m + 1]]
    OBVIOUS
  <2>3. /\ h = [i \in 0..m |-> IF i = 0 THEN 0 ELSE h[i - 1] + f[i]]
        /\ \A i \in 0..m : h[i] \in Int
    BY <2>1 DEF Adds
  <2>4. h[0] = 0 /\ \A i \in 1..m : h[i] = h[i - 1] + f[i]
    BY <2>3
  <2>5. g[0] = 0 /\ g[m + 1] = h[m] + f[m + 1] /\ \A i \in 0..m : g[i] = h[i]
    BY <2>2, <2>4
  <2>6. \A i \in 1..(m + 1) : g[i] = g[i - 1] + f[i]
    <3> TAKE i \in 1..(m + 1)
    <3>1. CASE i <= m
      <4>1. i \in 1..m /\ i \in 0..m /\ i - 1 \in 0..m
        BY <3>1
      <4> QED BY <2>4, <2>5, <4>1
    <3>2. CASE i = m + 1
      <4>1. i - 1 = m /\ m \in 0..m
        BY <3>2
      <4> QED BY <2>5, <3>2, <4>1
    <3> QED BY <3>1, <3>2
  <2>7. \A i \in 0..(m + 1) : g[i] = IF i = 0 THEN 0 ELSE g[i - 1] + f[i]
    BY <2>5, <2>6
  <2>8. DOMAIN g = 0..(m + 1) /\ g = [i \in 0..(m + 1) |-> g[i]]
    BY <2>2
  <2>9. g = [i \in 0..(m + 1) |-> IF i = 0 THEN 0 ELSE g[i - 1] + f[i]]
    BY <2>7, <2>8
  <2>10. \A i \in 0..(m + 1) : g[i] \in Int
    <3>1. h[m] \in Int /\ f[m + 1] \in Int
      BY <2>3
    <3>2. \A i \in 0..(m + 1) : i \in 0..m \/ i = m + 1
      OBVIOUS
    <3> QED BY <2>3, <2>5, <3>1, <3>2
  <2> QED BY <2>9, <2>10 DEF Adds
<1>3. n \in S
  <2> HIDE DEF S
  <2> QED BY <1>1, <1>2, NatInduct
<1> QED BY <1>3

\* Two functions that add up the same way agree.
LEMMA PartialSumsUnique ==
    ASSUME NEW n \in Nat, NEW f, NEW g, NEW h, Adds(n, f, g), Adds(n, f, h)
    PROVE  g[n] = h[n]
<1> DEFINE S == {m \in Nat : m <= n => g[m] = h[m]}
<1>1. /\ g = [i \in 0..n |-> IF i = 0 THEN 0 ELSE g[i - 1] + f[i]]
      /\ h = [i \in 0..n |-> IF i = 0 THEN 0 ELSE h[i - 1] + f[i]]
  BY DEF Adds
<1>2. /\ g[0] = 0 /\ \A i \in 1..n : g[i] = g[i - 1] + f[i]
      /\ h[0] = 0 /\ \A i \in 1..n : h[i] = h[i - 1] + f[i]
  BY <1>1
<1>3. 0 \in S
  BY <1>2
<1>4. \A m \in Nat : m \in S => m + 1 \in S
  BY <1>2
<1>5. n \in S
  <2> HIDE DEF S
  <2> QED BY <1>3, <1>4, NatInduct
<1> QED BY <1>5

\* The sum of integers is an integer.
LEMMA SumIsInt ==
    ASSUME NEW s, NEW f, Len(s) \in Nat, \A i \in 1..Len(s) : f[i] \in Int
    PROVE  SumOver(s, f) \in Int
<1>1. PICK g : Adds(Len(s), f, g) /\ \A i \in 0..Len(s) : g[i] \in Int
  BY PartialSums
<1>2. PICK h : h = CHOOSE x : Adds(Len(s), f, x)
  OBVIOUS
<1>3. Adds(Len(s), f, h)
  BY <1>1, <1>2
<1>4. SumOver(s, f) = h[Len(s)]
  BY <1>2, SumOverIs DEF SumUpto
<1>5. h[Len(s)] = g[Len(s)]
  BY <1>1, <1>3, PartialSumsUnique
<1> QED BY <1>1, <1>4, <1>5

\* Sums of equal terms are equal, whatever the sequence.
LEMMA SameSum ==
    ASSUME NEW s, NEW t, NEW f, Len(s) = Len(t)
    PROVE  SumOver(s, f) = SumOver(t, f)
BY SumOverIs

-----------------------------------------------------------------------------
\* The lines of a clean invoice.
CleanLine(l) ==
    [line_no |-> l.line_no, qty |-> l.qty, uom |-> l.uom, unit_price |-> l.unit_price,
     tax_code |-> l.tax_code, line_total |-> LineTotal(l)]
CleanLines(lines) == [i \in DOMAIN lines |-> CleanLine(lines[i])]

\* A clean case, with its order.
CleanOf(c, p, po) ==
    /\ c \in Cases /\ p \in DOMAIN c.erp /\ po = c.erp[p] /\ GroundTruth(po)
    /\ {c.answer.issue_date, c.answer.invoice_number} \cap {Absent, Blank} = {}
    /\ c.answer = CleanInvoiceFor(p, po, c.answer.invoice_number, c.answer.issue_date, c.answer.confidences)

\* A clean case names its generated order.
LEMMA CleanHasOrder == ASSUME NEW c \in Cases, IsClean(c) PROVE \E p, po : CleanOf(c, p, po)
BY DEF IsClean, CleanOf

\* Its order has the generator's guarantees.
LEMMA CleanIsGenerated == ASSUME NEW c, NEW p, NEW po, CleanOf(c, p, po) PROVE GroundTruth(po)
BY DEF CleanOf

LEMMA OrderTyped ==
    ASSUME NEW c, NEW p, NEW po, CleanOf(c, p, po)
    PROVE  /\ po \in PurchaseOrder /\ p \in STRING /\ po # Absent
           /\ po.lines \in Seq(PoLine) /\ DOMAIN po.lines = 1..Len(po.lines) /\ Len(po.lines) \in Nat
           /\ \A i \in 1..Len(po.lines) :
                /\ po.lines[i] \in PoLine /\ LineTotal(po.lines[i]) \in Int
                /\ po.lines[i].tax_code \in DOMAIN TAX_RATES /\ TAX_RATES[po.lines[i].tax_code] \in Int
           /\ NetTotal(po.lines) \in Int /\ TaxTotal(po.lines) \in Int
           /\ c.answer \in Answers
<1>1. po \in PurchaseOrder /\ p \in STRING /\ po # Absent /\ c.answer \in Answers
  BY CasesAssumption, NoResultAssumption DEF CleanOf
<1>2. po.lines \in Seq(PoLine)
  BY <1>1 DEF PurchaseOrder
<1>3. DOMAIN po.lines = 1..Len(po.lines) /\ Len(po.lines) \in Nat /\ \A i \in 1..Len(po.lines) : po.lines[i] \in PoLine
  BY <1>2
<1>4. \A l \in PoLine : LineTotal(l) \in Int
  BY DEF PoLine, LineTotal
<1>5. \A i \in 1..Len(po.lines) : po.lines[i].tax_code \in DOMAIN TAX_RATES
  BY <1>3 DEF CleanOf, GroundTruth
<1>6. \A code \in DOMAIN TAX_RATES : TAX_RATES[code] \in Int
  BY DEF TAX_RATES
<1>7. NetTotal(po.lines) \in Int
  <2>1. PICK f : f = [i \in DOMAIN po.lines |-> LineTotal(po.lines[i])]
    OBVIOUS
  <2>2. \A i \in 1..Len(po.lines) : f[i] \in Int
    BY <1>3, <1>4, <2>1
  <2>3. NetTotal(po.lines) = SumOver(po.lines, f)
    BY <2>1 DEF NetTotal
  <2> QED BY <1>3, <2>2, <2>3, SumIsInt
<1>8. TaxTotal(po.lines) \in Int
  <2>1. PICK f : f = [i \in DOMAIN po.lines |-> LineTotal(po.lines[i]) * TAX_RATES[po.lines[i].tax_code]]
    OBVIOUS
  <2>2. \A i \in 1..Len(po.lines) : LineTotal(po.lines[i]) \in Int /\ TAX_RATES[po.lines[i].tax_code] \in Int
    BY <1>3, <1>4, <1>5, <1>6
  <2>3. \A i \in 1..Len(po.lines) : f[i] \in Int
    BY <1>3, <2>1, <2>2
  <2>4. TaxTotal(po.lines) = SumOver(po.lines, f)
    BY <2>1 DEF TaxTotal
  <2> QED BY <1>3, <2>3, <2>4, SumIsInt
<1> QED BY <1>1, <1>2, <1>3, <1>4, <1>5, <1>6, <1>7, <1>8

\* The fields of a clean answer are those of its order.
LEMMA CleanFields ==
    ASSUME NEW p, NEW po, NEW number, NEW day, NEW confidences, NEW a,
           a = CleanInvoiceFor(p, po, number, day, confidences)
    PROVE  /\ a.vendor_name = po.vendor.name /\ a.po_number = p /\ a.currency = po.currency
           /\ a.iban = po.vendor.iban /\ a.issue_date = day /\ a.due_date = day + 30
           /\ a.total_amount = NetTotal(po.lines) /\ a.tax_total = TaxTotal(po.lines)
           /\ a.lines = CleanLines(po.lines)
BY DEF CleanInvoiceFor, CleanLines, CleanLine

\* What the extraction of a clean case says.
LEMMA CleanExtraction ==
    ASSUME NEW c, NEW p, NEW po, CleanOf(c, p, po)
    PROVE  LET e == ExtractionOf(c) IN
           /\ e.vendor_name = po.vendor.name /\ e.vendor_name # Absent
           /\ e.invoice_number # Absent /\ e.issue_date # Absent /\ e.issue_date \in Int /\ e.due_date # Absent
           /\ e.po_number = p
           /\ e.currency = po.currency /\ e.currency # Absent
           /\ e.iban = po.vendor.iban /\ e.iban # Absent
           /\ e.total_amount = NetTotal(po.lines) /\ e.tax_total = TaxTotal(po.lines)
           /\ e.lines = CleanLines(po.lines)
           /\ OrderOf(c) = po
<1> DEFINE a == c.answer
           e == ExtractionOf(c)
<1>1. /\ a.vendor_name = po.vendor.name /\ a.po_number = p /\ a.currency = po.currency /\ a.iban = po.vendor.iban
      /\ a.total_amount = NetTotal(po.lines) /\ a.tax_total = TaxTotal(po.lines)
      /\ a.due_date = a.issue_date + 30
      /\ a.lines = CleanLines(po.lines)
  BY CleanFields DEF CleanOf
<1>2. /\ a.issue_date \in Int /\ a.invoice_number \in STRING /\ a.due_date \in Int
      /\ a.issue_date # Absent /\ a.issue_date # Blank /\ a.invoice_number # Absent /\ a.invoice_number # Blank
  <2>1. a.issue_date \in Optional(Int) \cup {Blank} /\ a.invoice_number \in Optional(STRING) \cup {Blank}
    BY OrderTyped DEF Answers
  <2>2. /\ a.issue_date # Absent /\ a.issue_date # Blank /\ a.invoice_number # Absent /\ a.invoice_number # Blank
    BY DEF CleanOf
  <2> QED BY <1>1, <2>1, <2>2 DEF Optional
<1>3. /\ po.vendor.name \in Names /\ po.currency \in Currencies /\ po.vendor.iban \in Ibans
  <2>1. po.vendor \in Vendor /\ po.currency \in Optional(Currencies)
    BY OrderTyped DEF PurchaseOrder
  <2>2. po.vendor.name \in Names /\ po.vendor.iban \in Optional(Ibans)
    BY <2>1 DEF Vendor
  <2>3. po.vendor.iban # Absent /\ po.currency # Absent
    BY DEF CleanOf, GroundTruth
  <2> QED BY <2>1, <2>2, <2>3 DEF Optional
<1>4. p \in STRING /\ a \in Answers
  BY OrderTyped
<1>5. \A n \in {Absent, Blank} : n \notin Int /\ n \notin STRING /\ n \notin Names /\ n \notin Currencies /\ n \notin Ibans
  BY NothingAssumption
<1>6. /\ a.vendor_name \notin {Absent, Blank} /\ a.invoice_number \notin {Absent, Blank}
      /\ a.issue_date \notin {Absent, Blank} /\ a.due_date \notin {Absent, Blank}
      /\ a.currency \notin {Absent, Blank} /\ a.iban \notin {Absent, Blank} /\ a.po_number \notin {Absent, Blank}
  BY <1>1, <1>2, <1>3, <1>4, <1>5
<1>7. /\ e.total_amount = a.total_amount /\ e.tax_total = a.tax_total /\ e.lines = a.lines
      /\ \A f \in BlankFields : e[f] = IF a[f] = Blank THEN Absent ELSE a[f]
  BY <1>4, ExtractedFields DEF ExtractionOf
<1>8. /\ e.vendor_name = a.vendor_name /\ e.invoice_number = a.invoice_number /\ e.issue_date = a.issue_date
      /\ e.due_date = a.due_date /\ e.currency = a.currency /\ e.iban = a.iban /\ e.po_number = a.po_number
  BY <1>6, <1>7 DEF BlankFields
<1>9. OrderOf(c) = po
  BY <1>1, <1>8 DEF OrderOf, LoadPo, CleanOf
<1> QED BY <1>1, <1>2, <1>6, <1>7, <1>8, <1>9

\* The sums of a clean invoice are those its order gives.
LEMMA CleanSums ==
    ASSUME NEW c, NEW p, NEW po, CleanOf(c, p, po)
    PROVE  LET e == ExtractionOf(c) IN
           /\ DOMAIN e.lines = 1..Len(po.lines)
           /\ \A i \in 1..Len(po.lines) : e.lines[i] = CleanLine(po.lines[i])
           /\ Totalled(e) = 1..Len(po.lines) /\ Taxed(e) = 1..Len(po.lines)
           /\ StatedSum(e) = NetTotal(po.lines) /\ ExpectedTax(e) = TaxTotal(po.lines)
<1> DEFINE e == ExtractionOf(c)
           n == Len(po.lines)
<1>1. /\ e.lines = CleanLines(po.lines) /\ DOMAIN po.lines = 1..n /\ n \in Nat
      /\ \A i \in 1..n : /\ po.lines[i] \in PoLine /\ LineTotal(po.lines[i]) \in Int
                         /\ po.lines[i].tax_code \in DOMAIN TAX_RATES
  BY CleanExtraction, OrderTyped
<1>2. DOMAIN e.lines = 1..n /\ \A i \in 1..n : e.lines[i] = CleanLine(po.lines[i])
  BY <1>1 DEF CleanLines
<1>3. Len(e.lines) = n
  BY <1>1, <1>2 DEF CleanLines
<1>4. \A i \in 1..n : /\ e.lines[i].line_total = LineTotal(po.lines[i]) /\ e.lines[i].line_total # Absent
                      /\ e.lines[i].tax_code = po.lines[i].tax_code /\ e.lines[i].tax_code # Absent
  <2>1. \A i \in 1..n : po.lines[i].tax_code \in STRING
    BY <1>1 DEF PoLine
  <2>2. \A l : CleanLine(l).line_total = LineTotal(l) /\ CleanLine(l).tax_code = l.tax_code
    BY DEF CleanLine
  <2>3. Absent \notin Int /\ Absent \notin STRING
    BY NothingAssumption
  <2> QED BY <1>1, <1>2, <2>1, <2>2, <2>3
<1>5. Totalled(e) = 1..n
  BY <1>2, <1>4 DEF Totalled
<1>6. Taxed(e) = 1..n
  BY <1>4, <1>5 DEF Taxed
<1> HIDE DEF e
<1>7. StatedSum(e) = NetTotal(po.lines)
  <2>1. PICK f : f = [i \in DOMAIN e.lines |-> IF i \in Totalled(e) THEN e.lines[i].line_total ELSE 0]
    OBVIOUS
  <2>2. PICK g : g = [i \in DOMAIN po.lines |-> LineTotal(po.lines[i])]
    OBVIOUS
  <2>3. f = g
    BY <1>1, <1>2, <1>4, <1>5, <2>1, <2>2
  <2>4. StatedSum(e) = SumOver(e.lines, f)
    BY <2>1 DEF StatedSum
  <2>5. NetTotal(po.lines) = SumOver(po.lines, g)
    BY <2>2 DEF NetTotal
  <2> QED BY <1>3, <2>3, <2>4, <2>5, SameSum
<1>8. ExpectedTax(e) = TaxTotal(po.lines)
  <2>1. PICK f : f = [i \in DOMAIN e.lines |->
                        IF i \in Taxed(e) /\ e.lines[i].tax_code \in DOMAIN TAX_RATES
                        THEN e.lines[i].line_total * TAX_RATES[e.lines[i].tax_code] ELSE 0]
    OBVIOUS
  <2>2. PICK g : g = [i \in DOMAIN po.lines |-> LineTotal(po.lines[i]) * TAX_RATES[po.lines[i].tax_code]]
    OBVIOUS
  <2>3. f = g
    BY <1>1, <1>2, <1>4, <1>6, <2>1, <2>2
  <2>4. ExpectedTax(e) = SumOver(e.lines, f)
    BY <2>1 DEF ExpectedTax
  <2>5. TaxTotal(po.lines) = SumOver(po.lines, g)
    BY <2>2 DEF TaxTotal
  <2> QED BY <1>3, <2>3, <2>4, <2>5, SameSum
<1> QED BY <1>2, <1>5, <1>6, <1>7, <1>8 DEF e

\* Validation has nothing to say of a clean case.
LEMMA CleanValidates == ASSUME NEW c, NEW p, NEW po, CleanOf(c, p, po) PROVE ChecksOf(c) = {}
<1> DEFINE e == ExtractionOf(c)
           n == Len(po.lines)
<1>1. CheckRequiredFields(e) = {}
  BY CleanExtraction, OrderTyped, NothingAssumption DEF CheckRequiredFields, REQUIRED_ERROR_FIELDS, REQUIRED_WARN_FIELDS
<1>2. CheckCurrency(e) = {}
  <2>1. e.currency = po.currency /\ e.currency # Absent
    BY CleanExtraction
  <2>2. po.currency.shaped
    BY CleanIsGenerated DEF GroundTruth
  <2> QED BY <2>1, <2>2 DEF CheckCurrency
<1>3. CheckIban(e) = {}
  <2>1. e.iban = po.vendor.iban
    BY CleanExtraction
  <2>2. po.vendor.iban.structure = "valid"
    BY CleanIsGenerated DEF GroundTruth
  <2> QED BY <2>1, <2>2 DEF CheckIban
<1>4. BadLines(e) = {}
  <2>1. \A l \in PoLine : AbsVal(CleanLine(l).line_total - CleanLine(l).qty * CleanLine(l).unit_price) = 0
    BY DEF PoLine, CleanLine, LineTotal, AbsVal
  <2>2. \A i \in DOMAIN e.lines : AbsVal(e.lines[i].line_total - e.lines[i].qty * e.lines[i].unit_price) = 0
    BY <2>1, CleanSums, OrderTyped
  <2> QED BY <2>2 DEF BadLines, LINE_MATH_TOLERANCE
<1>5. AbsVal(e.total_amount - StatedSum(e)) = 0
  BY CleanExtraction, CleanSums, OrderTyped DEF AbsVal
<1>6. AbsVal(e.tax_total - ExpectedTax(e)) = 0
  BY CleanExtraction, CleanSums, OrderTyped DEF AbsVal
<1>7. CheckLineMath(e) = {}
  BY <1>4, <1>5 DEF CheckLineMath, LINE_MATH_TOLERANCE
<1>8. UnknownCodes(e) = {}
  <2>1. \A i \in DOMAIN e.lines : e.lines[i].tax_code \in DOMAIN TAX_RATES
    <3>1. \A l : CleanLine(l).tax_code = l.tax_code
      BY DEF CleanLine
    <3>2. DOMAIN e.lines = 1..n /\ \A i \in 1..n : e.lines[i] = CleanLine(po.lines[i])
      BY CleanSums
    <3>3. \A i \in 1..n : po.lines[i].tax_code \in DOMAIN TAX_RATES
      BY OrderTyped
    <3> QED BY <3>1, <3>2, <3>3
  <2> QED BY <2>1 DEF UnknownCodes
<1>9. Taxed(e) # {}
  <2>1. n # 0
    BY OrderTyped, CleanIsGenerated DEF GroundTruth
  <2> QED BY <2>1, CleanSums, OrderTyped
<1>10. CheckTax(e) = {}
  BY <1>6, <1>8, <1>9 DEF CheckTax, TAX_TOLERANCE
<1> QED BY <1>1, <1>2, <1>3, <1>7, <1>10 DEF ChecksOf, ValidateExtraction

\* The only row of a number is its last one.
LEMMA OneRow ==
    ASSUME NEW rows, NEW T, rows \in Seq(T), NEW no, NEW i, Rows(rows, no) = {i}
    PROVE  LastRow(rows, no) = rows[i]
<1>1. Rows(rows, no) # {}
  OBVIOUS
<1>2. PICK j \in Rows(rows, no) : LastRow(rows, no) = rows[j]
  BY <1>1, LastRowIsARow
<1> QED BY <1>2

RowsOf(po, i) ==
    /\ Rows(po.lines, po.lines[i].line_no) = {i} /\ LastRow(po.lines, po.lines[i].line_no) = po.lines[i]
    /\ Rows(Receipt(po), po.lines[i].line_no) = {i}
    /\ LastRow(Receipt(po), po.lines[i].line_no).qty = po.lines[i].qty

\* The row of a clean line, in the order and in the receipt, is its own.
LEMMA CleanRows ==
    ASSUME NEW c, NEW p, NEW po, CleanOf(c, p, po), NEW i \in 1..Len(po.lines)
    PROVE  RowsOf(po, i)
<1> DEFINE no == po.lines[i].line_no
           n == Len(po.lines)
<1>1. DOMAIN po.lines = 1..n /\ n \in Nat /\ po.lines \in Seq(PoLine) /\ po \in PurchaseOrder
  BY OrderTyped
<1>2. Rows(po.lines, no) = {i}
  <2>1. \A j \in 1..n : po.lines[j].line_no = no <=> j = i
    BY <1>1, CleanIsGenerated DEF GroundTruth
  <2> QED BY <1>1, <2>1 DEF Rows
<1>3. LastRow(po.lines, no) = po.lines[i]
  BY <1>1, <1>2, OneRow
<1>4. po.receipt = [j \in 1..n |-> [line_no |-> po.lines[j].line_no, qty |-> po.lines[j].qty]]
  BY <1>1 DEF CleanOf, GroundTruth
<1>5. Receipt(po) = po.receipt /\ Receipt(po) \in Seq(GrLine)
  <2>1. po.receipt \in Seq(GrLine)
    <3>1. \A j \in 1..n : [line_no |-> po.lines[j].line_no, qty |-> po.lines[j].qty] \in GrLine
      <4>1. \A l \in PoLine : [line_no |-> l.line_no, qty |-> l.qty] \in GrLine
        BY DEF PoLine, GrLine
      <4> QED BY <4>1, OrderTyped
    <3> QED BY <1>1, <1>4, <3>1
  <2>2. po.receipt # Absent
    BY <2>1, NoResultAssumption
  <2> QED BY <2>1, <2>2 DEF Receipt
<1>6. /\ DOMAIN Receipt(po) = 1..n
      /\ \A j \in 1..n : Receipt(po)[j].line_no = po.lines[j].line_no /\ Receipt(po)[j].qty = po.lines[j].qty
  BY <1>4, <1>5
<1>7. Rows(Receipt(po), no) = Rows(po.lines, no)
  BY <1>1, <1>6 DEF Rows
<1>8. LastRow(Receipt(po), no) = Receipt(po)[i]
  BY <1>2, <1>5, <1>7, OneRow
<1> QED BY <1>2, <1>3, <1>6, <1>7, <1>8 DEF RowsOf

\* A clean case matches its order perfectly.
LEMMA CleanMatches ==
    ASSUME NEW c, NEW p, NEW po, CleanOf(c, p, po)
    PROVE  MatchingOf(c).outcome = "MATCH" /\ MatchingOf(c).findings = {} /\ MatchingOf(c).delta.num = 0
<1> DEFINE e == ExtractionOf(c)
           n == Len(po.lines)
<1>1. e \in InvoiceExtraction /\ po \in PurchaseOrder /\ OrderOf(c) = po
  BY CaseTyped, OrderTyped, CleanExtraction DEF CleanOf
<1>2. Len(e.lines) = n /\ \A i \in 1..n : e.lines[i] = CleanLine(po.lines[i])
  BY <1>1, CleanSums, OrderTyped, LinesForMatch
<1>3. MatchVendor(e, po) = {} /\ MatchCurrency(e, po) = {}
  BY CleanExtraction DEF MatchVendor, MatchCurrency
<1>4. ASSUME NEW i \in 1..n
      PROVE  LET l == MatchedLine(e.lines[i]) IN
             /\ l \in MatchLineType /\ l.line_no = po.lines[i].line_no /\ l.qty = po.lines[i].qty
             /\ l.unit_price = po.lines[i].unit_price /\ l.uom = po.lines[i].uom
  <2>1. po.lines[i].qty \in Int /\ po.lines[i].unit_price \in Int
    BY OrderTyped DEF PoLine
  <2>2. OrZero(po.lines[i].qty) = po.lines[i].qty /\ OrZero(po.lines[i].unit_price) = po.lines[i].unit_price
    BY <2>1, NothingAssumption DEF OrZero
  <2>3. MatchedLine(e.lines[i]) \in MatchLineType
    BY <1>1, <1>2, LinesForMatch
  <2>4. \A l : LET m == MatchedLine(CleanLine(l)) IN
              m.line_no = l.line_no /\ m.qty = OrZero(l.qty) /\ m.unit_price = OrZero(l.unit_price) /\ m.uom = l.uom
    BY DEF MatchedLine, CleanLine
  <2> QED BY <1>2, <2>2, <2>3, <2>4
<1>5. ASSUME NEW i \in 1..n
      PROVE  /\ MatchLine(MatchedLine(e.lines[i]), po) = {}
             /\ LineRatios(MatchedLine(e.lines[i]), po) = {Ratio(0, PriceBand50(po.lines[i].unit_price))}
  <2>1. PICK l : l = MatchedLine(e.lines[i])
    OBVIOUS
  <2>2. /\ l \in MatchLineType /\ l.line_no = po.lines[i].line_no /\ l.qty = po.lines[i].qty
        /\ l.unit_price = po.lines[i].unit_price /\ l.uom = po.lines[i].uom
    BY <1>4, <2>1
  <2>3. po.lines[i].qty \in Int /\ po.lines[i].unit_price \in Int
    BY OrderTyped DEF PoLine
  <2>4. /\ OnPo(l, po) /\ LastRow(po.lines, l.line_no) = po.lines[i]
        /\ Rows(Receipt(po), l.line_no) # {} /\ LastRow(Receipt(po), l.line_no).qty = l.qty
    <3>1. RowsOf(po, i)
      BY CleanRows
    <3> QED BY <2>2, <3>1 DEF OnPo, RowsOf
  <2>6. MatchQty(l, po) = {}
    BY <2>2, <2>3, <2>4 DEF MatchQty, OverReceived, QTY_TOLERANCE
  <2>7. MatchPrice(l, po.lines[i]) = {} /\ MatchUom(l, po.lines[i]) = {}
    BY <2>2 DEF MatchPrice, MatchUom
  <2>8. Drift50(l, po.lines[i]) = 0
    BY <2>2, <2>3 DEF Drift50, AbsVal, PRICE_PCT_DIVISOR
  <2>9. MatchLine(l, po) = {}
    BY <2>4, <2>6, <2>7 DEF MatchLine
  <2>10. LineRatios(l, po) = {Ratio(0, PriceBand50(po.lines[i].unit_price))}
    BY <2>4, <2>6, <2>8 DEF LineRatios
  <2> QED BY <2>1, <2>9, <2>10
<1>6. AllFindings(e, po) = {}
  BY <1>2, <1>3, <1>5 DEF AllFindings
<1>7. \A r \in AllRatios(e, po) : r.num = 0
  <2>1. \A i \in 1..n : Ratio(0, PriceBand50(po.lines[i].unit_price)).num = 0
    <3> TAKE i \in 1..n
    <3>1. po.lines[i] \in PoLine /\ po.lines[i].unit_price \in Int
      BY OrderTyped DEF PoLine
    <3>2. PriceBand50(po.lines[i].unit_price) > 0
      BY <3>1 DEF PriceBand50, PRICE_PCT_DIVISOR, PRICE_ABS_TOLERANCE
    <3> QED BY <3>2 DEF Ratio, Fraction
  <2>2. \A i \in 1..n : \A r \in LineRatios(MatchedLine(e.lines[i]), po) : r.num = 0
    BY <1>5, <2>1
  <2> QED BY <1>2, <2>2 DEF AllRatios
<1>8. MatchingOf(c).delta.num = 0
  <2>1. MatchOf(e, po).delta \in AllRatios(e, po) \cup {Fraction(0, 1)}
    BY <1>1, DeltaOfMatch
  <2> QED BY <1>1, <1>7, <2>1 DEF MatchingOf, Fraction
<1>9. MatchingOf(c).findings = {} /\ MatchingOf(c).outcome = "MATCH"
  <2>1. MatchOf(e, po).findings = {} /\ MatchOf(e, po).outcome = Outcome({})
    BY <1>1, <1>6, MatchIs
  <2> QED BY <1>1, <2>1 DEF MatchingOf, Outcome, Errors
<1> QED BY <1>8, <1>9

\* The policy objects to a clean case only for what the order gives cause for.
LEMMA CleanPolicy ==
    ASSUME NEW c, NEW p, NEW po, CleanOf(c, p, po), NEW f \in PolicyOf(c)
    PROVE  \/ f.code = "STALE_PO" /\ (po.status = "CLOSED" \/ ExtractionOf(c).issue_date - po.ordered_at > 90)
           \/ f.code = "APPROVAL_REQUIRED" /\ (po.currency.iso # "EUR" \/ NetTotal(po.lines) > 2500000)
           \/ f.code = "DUP_NEAR" /\ c.hits # {}
<1> DEFINE e == ExtractionOf(c)
<1>1. OrderOf(c) = po /\ po # Absent
  BY CleanExtraction, OrderTyped
<1>2. CASE f \in RuleSpendLimit(e)
  <2>1. f.code = "APPROVAL_REQUIRED" /\ ~WithinLimit(Iso(e.currency), e.total_amount)
    BY <1>2 DEF RuleSpendLimit, PolicyFinding
  <2>2. Iso(e.currency) = po.currency.iso /\ e.total_amount = NetTotal(po.lines) /\ NetTotal(po.lines) \in Int
    <3>1. e.currency = po.currency /\ e.currency # Absent /\ e.total_amount = NetTotal(po.lines)
      BY CleanExtraction
    <3>2. NetTotal(po.lines) \in Int
      BY OrderTyped
    <3> QED BY <3>1, <3>2 DEF Iso
  <2>3. ~(po.currency.iso = "EUR" /\ NetTotal(po.lines) <= 2500000)
    BY <2>1, <2>2 DEF WithinLimit, AUTO_APPROVE_LIMITS
  <2> QED BY <2>1, <2>2, <2>3
<1>3. CASE f \in RuleStalePo(e, po)
  BY <1>3 DEF RuleStalePo, PolicyFinding, Overdue, STALE_PO_DAYS
<1>4. CASE f \in RuleBankChange(e, po)
  BY <1>4, CleanExtraction DEF RuleBankChange
<1>5. CASE f \in RuleNearDup(c.hits)
  BY <1>5 DEF RuleNearDup, PolicyFinding
<1> QED BY <1>1, <1>2, <1>3, <1>4, <1>5 DEF PolicyOf, EvaluatePolicy

\* The invoice of a generated order passes every deterministic check, but
\* for what the order itself gives cause for.
THEOREM CleanIsNeverHeldBack == Spec => []CleanPassesEveryCheck
<1>1. RouteInv => CleanPassesEveryCheck
  <2> SUFFICES ASSUME RouteInv, IsClean(case) PROVE
        /\ state.validation = {}
        /\ state.match # Absent =>
              state.match.outcome = "MATCH" /\ state.match.delta.num = 0 /\ state.match.findings = {}
        /\ \A f \in state.policy :
              \/ f.code = "STALE_PO" /\ (Po.status = "CLOSED" \/ E.issue_date - Po.ordered_at > 90)
              \/ f.code = "APPROVAL_REQUIRED" /\ (Po.currency.iso # "EUR" \/ NetTotal(Po.lines) > 2500000)
              \/ f.code = "DUP_NEAR" /\ case.hits # {}
    BY DEF CleanPassesEveryCheck
  <2>1. PICK p, po : CleanOf(case, p, po)
    BY CleanHasOrder DEF RouteInv
  <2>2. state.validation = {}
    BY <2>1, CleanValidates DEF RouteInv, StateFollows
  <2>3. state.match # Absent =>
              state.match.outcome = "MATCH" /\ state.match.delta.num = 0 /\ state.match.findings = {}
    BY <2>1, CleanMatches DEF RouteInv, StateFollows
  <2>4. ASSUME NEW f \in state.policy
        PROVE  \/ f.code = "STALE_PO" /\ (Po.status = "CLOSED" \/ E.issue_date - Po.ordered_at > 90)
               \/ f.code = "APPROVAL_REQUIRED" /\ (Po.currency.iso # "EUR" \/ NetTotal(Po.lines) > 2500000)
               \/ f.code = "DUP_NEAR" /\ case.hits # {}
    <3>1. f \in PolicyOf(case) /\ node # "extract"
      BY DEF RouteInv, StateFollows
    <3>2. E = ExtractionOf(case) /\ Po = po
      BY <2>1, <3>1, CleanExtraction DEF E, Po, OrderOf, RouteInv, StateFollows
    <3> QED BY <2>1, <3>1, <3>2, CleanPolicy
  <2> QED BY <2>2, <2>3, <2>4
<1> QED BY <1>1, RouteAlways, PTL

-----------------------------------------------------------------------------
\* The payment rule reads the vocabulary of the engines.
LEMMA RuleReads ==
    /\ Rule!REQUIRED_ERROR_FIELDS = REQUIRED_ERROR_FIELDS /\ Rule!BlankFields = BlankFields
    /\ Rule!ConfidenceKeys = ConfidenceKeys
    /\ \A n : Rule!AbsVal(n) = AbsVal(n) /\ Rule!OrZero(n) = OrZero(n)
    /\ \A price : Rule!PriceBand50(price) = PriceBand50(price)
    /\ \A e : /\ Rule!Totalled(e) = Totalled(e) /\ Rule!Taxed(e) = Taxed(e)
              /\ Rule!UnknownCodes(e) = UnknownCodes(e)
    /\ \A rows, no : Rule!Rows(rows, no) = Rows(rows, no) /\ Rule!LastRow(rows, no) = LastRow(rows, no)
    /\ \A po : Rule!Receipt(po) = Receipt(po)
    /\ \A l, po : Rule!OnPo(l, po) <=> OnPo(l, po)
<1>1. Rule!REQUIRED_ERROR_FIELDS = REQUIRED_ERROR_FIELDS /\ Rule!BlankFields = BlankFields
  BY DEF Rule!REQUIRED_ERROR_FIELDS, REQUIRED_ERROR_FIELDS, Rule!BlankFields, BlankFields
<1>2. Rule!ConfidenceKeys = ConfidenceKeys
  BY DEF Rule!ConfidenceKeys, ConfidenceKeys
<1>3. \A n : Rule!AbsVal(n) = AbsVal(n) /\ Rule!OrZero(n) = OrZero(n)
  BY DEF Rule!AbsVal, AbsVal, Rule!OrZero, OrZero
<1>4. \A price : Rule!PriceBand50(price) = PriceBand50(price)
  BY DEF Rule!PriceBand50, PriceBand50, Rule!PRICE_PCT_DIVISOR, PRICE_PCT_DIVISOR,
         Rule!PRICE_ABS_TOLERANCE, PRICE_ABS_TOLERANCE
<1>5. \A e : /\ Rule!Totalled(e) = Totalled(e) /\ Rule!Taxed(e) = Taxed(e)
             /\ Rule!UnknownCodes(e) = UnknownCodes(e)
  <2>1. \A e : Rule!Totalled(e) = Totalled(e)
    BY DEF Rule!Totalled, Totalled
  <2>2. \A e : Rule!Taxed(e) = Taxed(e)
    BY <2>1 DEF Rule!Taxed, Taxed
  <2>3. Rule!TAX_RATES = TAX_RATES
    BY DEF Rule!TAX_RATES, TAX_RATES
  <2>4. \A e : Rule!UnknownCodes(e) = UnknownCodes(e)
    BY <2>3 DEF Rule!UnknownCodes, UnknownCodes
  <2> QED BY <2>1, <2>2, <2>4
<1>6. \A rows, no : Rule!Rows(rows, no) = Rows(rows, no)
  BY DEF Rule!Rows, Rows
<1>7. \A rows, no : Rule!LastRow(rows, no) = LastRow(rows, no)
  BY DEF Rule!LastRow, LastRow, Rule!Rows, Rows
<1>8. \A po : Rule!Receipt(po) = Receipt(po)
  BY DEF Rule!Receipt, Receipt
<1>9. \A l, po : Rule!OnPo(l, po) <=> OnPo(l, po)
  BY <1>6 DEF Rule!OnPo, OnPo
<1> QED BY <1>1, <1>2, <1>3, <1>4, <1>5, <1>6, <1>7, <1>8, <1>9

\* So do the sums.
LEMMA RuleSums ==
    ASSUME NEW e
    PROVE  Rule!StatedSum(e) = StatedSum(e) /\ Rule!ExpectedTax(e) = ExpectedTax(e)
<1>1. \A s, f : Rule!SumOver(s, f) = SumOver(s, f)
  BY DEF Rule!SumOver, SumOver
<1>2. PICK f : f = [i \in DOMAIN e.lines |-> IF i \in Totalled(e) THEN e.lines[i].line_total ELSE 0]
  OBVIOUS
<1>3. PICK g : g = [i \in DOMAIN e.lines |->
        IF i \in Taxed(e) /\ e.lines[i].tax_code \in DOMAIN TAX_RATES
        THEN e.lines[i].line_total * TAX_RATES[e.lines[i].tax_code] ELSE 0]
  OBVIOUS
<1>4. Rule!TAX_RATES = TAX_RATES
  BY DEF Rule!TAX_RATES, TAX_RATES
<1>5. StatedSum(e) = SumOver(e.lines, f) /\ Rule!StatedSum(e) = Rule!SumOver(e.lines, f)
  BY <1>2, RuleReads DEF StatedSum, Rule!StatedSum
<1>6. ExpectedTax(e) = SumOver(e.lines, g) /\ Rule!ExpectedTax(e) = Rule!SumOver(e.lines, g)
  BY <1>3, <1>4, RuleReads DEF ExpectedTax, Rule!ExpectedTax
<1> QED BY <1>1, <1>5, <1>6

-----------------------------------------------------------------------------
LEMMA ErrorsOfUnion == ASSUME NEW A, NEW B PROVE Errors(A \cup B) = {} <=> Errors(A) = {} /\ Errors(B) = {}
BY DEF Errors

LEMMA CheckSeverity == \A code, severity, f : Check(code, severity, f).severity = severity
BY DEF Check

LEMMA NonNegative == ASSUME NEW n \in Int PROVE (AbsVal(n) > 0 <=> n # 0) /\ (AbsVal(n) > 1000 <=> n > 1000 \/ n < -1000)
BY DEF AbsVal

\* A field is given when the extraction has it.
LEMMA GivenIs ==
    ASSUME NEW a \in Answers, NEW f \in BlankFields \cup {"total_amount", "tax_total"}
    PROVE  /\ Rule!Given(a, f) <=> Extracted(a)[f] # Absent
           /\ Extracted(a)[f] # Absent => Extracted(a)[f] = a[f]
<1>1. Rule!Given(a, f) <=> a[f] # Absent /\ (f \in BlankFields => a[f] # Blank)
  BY RuleReads DEF Rule!Given
<1>2. CASE f \in BlankFields
  BY <1>1, <1>2, ExtractedFields
<1>3. CASE f \in {"total_amount", "tax_total"}
  <2>1. Extracted(a)["total_amount"] = a["total_amount"] /\ Extracted(a)["tax_total"] = a["tax_total"]
    BY ExtractedFields
  <2>2. Extracted(a)[f] = a[f] /\ f \notin BlankFields
    BY <1>3, <2>1 DEF BlankFields
  <2> QED BY <1>1, <2>2
<1> QED BY <1>2, <1>3

\* The required fields are there exactly when the answer is complete.
LEMMA RequiredIff ==
    ASSUME NEW a \in Answers
    PROVE  Errors(CheckRequiredFields(Extracted(a))) = {} <=> Rule!Complete(a)
<1> DEFINE e == Extracted(a)
<1>1. Errors(CheckRequiredFields(e)) = {} <=> \A f \in REQUIRED_ERROR_FIELDS : e[f] # Absent
  BY CheckSeverity DEF CheckRequiredFields, Errors
<1>2. \A f \in REQUIRED_ERROR_FIELDS : f \in BlankFields \cup {"total_amount", "tax_total"}
  BY DEF REQUIRED_ERROR_FIELDS, BlankFields
<1>3. \A f \in REQUIRED_ERROR_FIELDS : Rule!Given(a, f) <=> e[f] # Absent
  BY <1>2, GivenIs
<1> QED BY <1>1, <1>3, RuleReads DEF Rule!Complete

\* The fields a complete answer has, as the extraction has them.
LEMMA CompleteFields ==
    ASSUME NEW a \in Answers, Rule!Complete(a)
    PROVE  LET e == Extracted(a) IN
           /\ e.vendor_name = a.vendor_name /\ e.vendor_name # Absent
           /\ e.issue_date = a.issue_date /\ e.issue_date # Absent /\ e.issue_date \in Int
           /\ e.currency = a.currency /\ e.currency # Absent /\ e.currency \in Currencies
           /\ e.total_amount = a.total_amount /\ e.total_amount # Absent /\ e.total_amount \in Int
<1> DEFINE e == Extracted(a)
<1>1. \A f \in {"vendor_name", "issue_date", "currency", "total_amount"} : e[f] # Absent /\ e[f] = a[f]
  <2>1. \A f \in {"vendor_name", "issue_date", "currency", "total_amount"} :
          f \in BlankFields \cup {"total_amount", "tax_total"} /\ f \in REQUIRED_ERROR_FIELDS
    BY DEF BlankFields, REQUIRED_ERROR_FIELDS
  <2>2. \A f \in REQUIRED_ERROR_FIELDS : Rule!Given(a, f)
    BY RuleReads DEF Rule!Complete
  <2> QED BY <2>1, <2>2, GivenIs
<1>2. e \in InvoiceExtraction
  BY ExtractedFields
<1>3. e.issue_date \in Optional(Int) /\ e.currency \in Optional(Currencies) /\ e.total_amount \in Optional(Int)
  BY <1>2 DEF InvoiceExtraction
<1>4. /\ e.vendor_name # Absent /\ e.vendor_name = a.vendor_name /\ e.issue_date # Absent /\ e.issue_date = a.issue_date
      /\ e.currency # Absent /\ e.currency = a.currency /\ e.total_amount # Absent /\ e.total_amount = a.total_amount
  BY <1>1
<1> QED BY <1>3, <1>4 DEF Optional

\* What an extraction says of money is whole numbers.
LEMMA AmountsTyped ==
    ASSUME NEW e \in InvoiceExtraction
    PROVE  /\ DOMAIN e.lines = 1..Len(e.lines) /\ Len(e.lines) \in Nat
           /\ StatedSum(e) \in Int /\ ExpectedTax(e) \in Int
           /\ \A i \in DOMAIN e.lines : LET l == e.lines[i] IN
                /\ l.qty # Absent => l.qty \in Int
                /\ l.unit_price # Absent => l.unit_price \in Int
                /\ l.line_total # Absent => l.line_total \in Int
<1>1. DOMAIN e.lines = 1..Len(e.lines) /\ Len(e.lines) \in Nat /\ \A i \in 1..Len(e.lines) : e.lines[i] \in ExtractionLine
  BY LinesForMatch
<1>2. \A l \in ExtractionLine : /\ l.qty # Absent => l.qty \in Int
                                /\ l.unit_price # Absent => l.unit_price \in Int
                                /\ l.line_total # Absent => l.line_total \in Int
  BY DEF ExtractionLine, Optional
<1>3. StatedSum(e) \in Int
  <2>1. PICK f : f = [i \in DOMAIN e.lines |-> IF i \in Totalled(e) THEN e.lines[i].line_total ELSE 0]
    OBVIOUS
  <2>2. \A i \in Totalled(e) : e.lines[i].line_total \in Int
    BY <1>1, <1>2 DEF Totalled
  <2>3. \A i \in 1..Len(e.lines) : f[i] \in Int
    BY <1>1, <2>1, <2>2
  <2>4. StatedSum(e) = SumOver(e.lines, f)
    BY <2>1 DEF StatedSum
  <2> QED BY <1>1, <2>3, <2>4, SumIsInt
<1>4. ExpectedTax(e) \in Int
  <2>1. PICK f : f = [i \in DOMAIN e.lines |->
                        IF i \in Taxed(e) /\ e.lines[i].tax_code \in DOMAIN TAX_RATES
                        THEN e.lines[i].line_total * TAX_RATES[e.lines[i].tax_code] ELSE 0]
    OBVIOUS
  <2>2. \A i \in Taxed(e) : e.lines[i].line_total \in Int
    BY <1>1, <1>2 DEF Totalled, Taxed
  <2>3. \A code \in DOMAIN TAX_RATES : TAX_RATES[code] \in Int
    BY DEF TAX_RATES
  <2>4. \A i \in 1..Len(e.lines) : f[i] \in Int
    BY <1>1, <2>1, <2>2, <2>3
  <2>5. ExpectedTax(e) = SumOver(e.lines, f)
    BY <2>1 DEF ExpectedTax
  <2> QED BY <1>1, <2>4, <2>5, SumIsInt
<1> QED BY <1>1, <1>2, <1>3, <1>4

\* The currency and the IBAN, of a complete answer.
LEMMA WellFormedIff ==
    ASSUME NEW a \in Answers, Rule!Complete(a)
    PROVE  Rule!WellFormed(a) <=> Errors(CheckCurrency(Extracted(a)) \cup CheckIban(Extracted(a))) = {}
<1> DEFINE e == Extracted(a)
<1>1. Errors(CheckCurrency(e)) = {} <=> a.currency.shaped
  <2>1. e.currency = a.currency /\ e.currency # Absent
    BY CompleteFields
  <2> QED BY <2>1, CheckSeverity DEF CheckCurrency, Errors
<1>2. Errors(CheckIban(e)) = {} <=> (e.iban = Absent \/ e.iban.structure \in {"valid", "unknown_country"})
  BY CheckSeverity DEF CheckIban, Errors
<1>3. /\ Rule!Given(a, "iban") <=> e.iban # Absent
      /\ e.iban # Absent => e.iban = a.iban
  BY GivenIs DEF BlankFields
<1> QED BY <1>1, <1>2, <1>3, ErrorsOfUnion DEF Rule!WellFormed

\* The arithmetic, of a complete answer.
LEMMA AddsUpIff ==
    ASSUME NEW a \in Answers, Rule!Complete(a)
    PROVE  Rule!AddsUp(a) <=> Errors(CheckLineMath(Extracted(a)) \cup CheckTax(Extracted(a))) = {}
<1> DEFINE e == Extracted(a)
<1>1. /\ e.lines = a.lines /\ e.tax_total = a.tax_total /\ e.total_amount = a.total_amount
      /\ e.total_amount # Absent /\ e.total_amount \in Int /\ e \in InvoiceExtraction
  BY ExtractedFields, CompleteFields
<1>2. /\ Totalled(a) = Totalled(e) /\ Taxed(a) = Taxed(e) /\ UnknownCodes(a) = UnknownCodes(e)
      /\ StatedSum(a) = StatedSum(e) /\ ExpectedTax(a) = ExpectedTax(e)
  BY <1>1 DEF Totalled, Taxed, UnknownCodes, StatedSum, ExpectedTax
<1>3. /\ Rule!Totalled(a) = Totalled(e) /\ Rule!Taxed(a) = Taxed(e) /\ Rule!UnknownCodes(a) = UnknownCodes(e)
      /\ Rule!StatedSum(a) = StatedSum(e) /\ Rule!ExpectedTax(a) = ExpectedTax(e)
  BY <1>2, RuleReads, RuleSums
<1>4. e.tax_total # Absent => e.tax_total \in Int
  BY <1>1 DEF InvoiceExtraction, Optional
<1>5. StatedSum(e) \in Int /\ ExpectedTax(e) \in Int
  BY <1>1, AmountsTyped
<1>6. BadLines(e) = {} <=>
        \A i \in DOMAIN a.lines : LET l == a.lines[i] IN
          (l.qty # Absent /\ l.unit_price # Absent /\ l.line_total # Absent) => l.line_total = l.qty * l.unit_price
  <2>1. ASSUME NEW i \in DOMAIN e.lines,
               e.lines[i].qty # Absent, e.lines[i].unit_price # Absent, e.lines[i].line_total # Absent
        PROVE  AbsVal(e.lines[i].line_total - e.lines[i].qty * e.lines[i].unit_price) > 0
                 <=> e.lines[i].line_total # e.lines[i].qty * e.lines[i].unit_price
    <3>1. e.lines[i].qty \in Int /\ e.lines[i].unit_price \in Int /\ e.lines[i].line_total \in Int
      BY <1>1, <2>1, AmountsTyped
    <3>2. e.lines[i].qty * e.lines[i].unit_price \in Int
      BY <3>1
    <3> QED BY <3>1, <3>2, NonNegative
  <2> QED BY <1>1, <2>1 DEF BadLines, LINE_MATH_TOLERANCE
<1>7. Errors(CheckLineMath(e)) = {} <=>
        BadLines(e) = {} /\ (Totalled(e) # {} => e.total_amount = StatedSum(e))
  <2>1. AbsVal(e.total_amount - StatedSum(e)) > 0 <=> e.total_amount # StatedSum(e)
    BY <1>1, <1>5, NonNegative
  <2> QED BY <1>1, <2>1, CheckSeverity DEF CheckLineMath, Errors, LINE_MATH_TOLERANCE
<1>8. Errors(CheckTax(e)) = {} <=>
        ((e.tax_total # Absent /\ Taxed(e) # {} /\ UnknownCodes(e) = {})
            => e.tax_total <= ExpectedTax(e) + 1000 /\ e.tax_total >= ExpectedTax(e) - 1000)
  <2>1. e.tax_total # Absent =>
          (AbsVal(e.tax_total - ExpectedTax(e)) > 1000 <=>
             ~(e.tax_total <= ExpectedTax(e) + 1000 /\ e.tax_total >= ExpectedTax(e) - 1000))
    BY <1>4, <1>5, NonNegative
  <2> QED BY <1>1, <2>1, CheckSeverity DEF CheckTax, Errors, TAX_TOLERANCE
<1> QED BY <1>1, <1>3, <1>6, <1>7, <1>8, ErrorsOfUnion DEF Rule!AddsUp

\* Validation has no error exactly when the answer is complete, well formed
\* and adds up.
LEMMA ChecksIff ==
    ASSUME NEW c \in Cases
    PROVE  Errors(ChecksOf(c)) = {} <=>
             Rule!Complete(c.answer) /\ Rule!WellFormed(c.answer) /\ Rule!AddsUp(c.answer)
<1> DEFINE e == ExtractionOf(c)
<1>1. c.answer \in Answers /\ e = Extracted(c.answer)
  BY CaseTyped DEF ExtractionOf
<1>2. ChecksOf(c) = CheckRequiredFields(e) \cup (CheckCurrency(e) \cup CheckIban(e)) \cup (CheckLineMath(e) \cup CheckTax(e))
  BY DEF ChecksOf, ValidateExtraction
<1>3. Errors(ChecksOf(c)) = {} <=> /\ Errors(CheckRequiredFields(e)) = {}
                                   /\ Errors(CheckCurrency(e) \cup CheckIban(e)) = {}
                                   /\ Errors(CheckLineMath(e) \cup CheckTax(e)) = {}
  BY <1>2 DEF Errors
<1> QED BY <1>1, <1>3, RequiredIff, WellFormedIff, AddsUpIff

-----------------------------------------------------------------------------
\* The order of a case is the one its answer names.
LEMMA OrderIff ==
    ASSUME NEW c \in Cases
    PROVE  /\ OrderOf(c) # Absent <=> c.answer.po_number \in DOMAIN c.erp
           /\ OrderOf(c) # Absent => OrderOf(c) = c.erp[c.answer.po_number] /\ OrderOf(c) \in PurchaseOrder
<1> DEFINE a == c.answer
           e == ExtractionOf(c)
<1>1. a \in Answers /\ \A p \in DOMAIN c.erp : p \in STRING /\ c.erp[p] \in PurchaseOrder
  BY CasesAssumption
<1>2. e.po_number = IF a.po_number = Blank THEN Absent ELSE a.po_number
  BY <1>1, ExtractedFields DEF ExtractionOf, BlankFields
<1>3. Absent \notin DOMAIN c.erp /\ Blank \notin DOMAIN c.erp
  BY <1>1, NothingAssumption
<1>4. e.po_number \in DOMAIN c.erp <=> a.po_number \in DOMAIN c.erp
  BY <1>2, <1>3
<1>5. a.po_number \in DOMAIN c.erp => e.po_number = a.po_number
  BY <1>2, <1>3
<1>6. \A p \in DOMAIN c.erp : c.erp[p] # Absent
  BY <1>1, NoResultAssumption
<1>7. OrderOf(c) = IF e.po_number \in DOMAIN c.erp THEN c.erp[e.po_number] ELSE Absent
  BY DEF OrderOf, LoadPo
<1> QED BY <1>1, <1>4, <1>5, <1>6, <1>7

LEMMA FindingSeverity == \A code, severity, no : /\ MatchFinding(code, severity, no).severity = severity
                                                 /\ MatchFinding(code, severity, no).code = code
BY DEF MatchFinding

\* Fifty times the drift is within the band: at most 50 cents, or at most 2%.
LEMMA BandIff ==
    ASSUME NEW drift \in Nat, NEW price \in Int
    PROVE  50 * drift <= PriceBand50(price) <=> drift <= 50 \/ 50 * drift <= price
BY DEF PriceBand50, PRICE_PCT_DIVISOR, PRICE_ABS_TOLERANCE

\* A line has no error exactly when the order and the receipt cover it.
LEMMA CoveredIff ==
    ASSUME NEW l \in ExtractionLine, NEW po \in PurchaseOrder
    PROVE  Rule!Covered(l, po) <=> Errors(MatchLine(MatchedLine(l), po)) = {}
<1> DEFINE no == l.line_no
           row == LastRow(po.lines, no)
           got == LastRow(Receipt(po), no)
<1>1. PICK m : m = MatchedLine(l)
  OBVIOUS
<1>2. /\ m.line_no = no /\ m.qty = OrZero(l.qty) /\ m.uom = l.uom /\ m.unit_price = OrZero(l.unit_price)
      /\ m.qty \in Int /\ m.unit_price \in Int
  <2>1. m.line_no = no /\ m.qty = OrZero(l.qty) /\ m.uom = l.uom /\ m.unit_price = OrZero(l.unit_price)
    BY <1>1 DEF MatchedLine
  <2>2. OrZero(l.qty) \in Int /\ OrZero(l.unit_price) \in Int
    BY DEF ExtractionLine, Optional, OrZero
  <2> QED BY <2>1, <2>2
<1>3. CASE ~OnPo(m, po)
  <2>1. MatchLine(m, po) = {MatchFinding("LINE_NOT_ON_PO", "ERROR", no)}
    BY <1>2, <1>3 DEF MatchLine
  <2>2. Errors(MatchLine(m, po)) # {}
    BY <2>1, FindingSeverity DEF Errors
  <2>3. ~OnPo(l, po)
    BY <1>2, <1>3 DEF OnPo
  <2> QED BY <1>1, <2>2, <2>3, RuleReads DEF Rule!Covered
<1>4. CASE OnPo(m, po)
  <2>1. OnPo(l, po)
    BY <1>2, <1>4 DEF OnPo
  <2>2. row \in PoLine /\ row.unit_price \in Int
    <3>1. row \in PoLine
      BY <2>1, ReceiptIsRows, LastRowIsARow DEF OnPo
    <3> QED BY <3>1 DEF PoLine
  <2>3. MatchLine(m, po) = MatchQty(m, po) \cup (MatchPrice(m, row) \cup MatchUom(m, row))
    BY <1>2, <1>4 DEF MatchLine
  <2>4. Errors(MatchQty(m, po)) = {} <=> Rows(Receipt(po), no) # {} /\ m.qty <= got.qty
    <3>1. CASE Rows(Receipt(po), no) = {}
      BY <1>2, <3>1, FindingSeverity DEF MatchQty, Errors
    <3>2. CASE Rows(Receipt(po), no) # {}
      <4>1. got \in GrLine
        BY <3>2, ReceiptIsRows, LastRowIsARow
      <4>2. got.qty \in Int
        BY <4>1 DEF GrLine
      <4>3. OverReceived(m, got.qty) <=> ~(m.qty <= got.qty)
        BY <1>2, <4>2 DEF OverReceived, QTY_TOLERANCE
      <4> QED BY <1>2, <3>2, <4>3, FindingSeverity DEF MatchQty, Errors
    <3> QED BY <3>1, <3>2
  <2>5. Errors(MatchPrice(m, row)) = {} <=> 50 * AbsVal(m.unit_price - row.unit_price) <= PriceBand50(row.unit_price)
    <3>1. CASE m.unit_price = row.unit_price
      <4>1. AbsVal(m.unit_price - row.unit_price) = 0
        BY <1>2, <2>2, <3>1 DEF AbsVal
      <4>2. PriceBand50(row.unit_price) >= 0 /\ PriceBand50(row.unit_price) \in Int
        BY <2>2 DEF PriceBand50, PRICE_PCT_DIVISOR, PRICE_ABS_TOLERANCE
      <4>3. MatchPrice(m, row) = {}
        BY <3>1 DEF MatchPrice
      <4> QED BY <4>1, <4>2, <4>3 DEF Errors
    <3>2. CASE m.unit_price # row.unit_price
      <4>1. Drift50(m, row) = 50 * AbsVal(m.unit_price - row.unit_price)
        BY DEF Drift50, PRICE_PCT_DIVISOR
      <4> QED BY <3>2, <4>1, FindingSeverity DEF MatchPrice, Errors
    <3> QED BY <3>1, <3>2
  <2>6. Errors(MatchUom(m, row)) = {} <=> ((l.uom # Absent /\ row.uom # Absent) => l.uom = row.uom)
    BY <1>2, FindingSeverity DEF MatchUom, Errors
  <2>7. Errors(MatchLine(m, po)) = {} <=> /\ Errors(MatchQty(m, po)) = {}
                                          /\ Errors(MatchPrice(m, row)) = {}
                                          /\ Errors(MatchUom(m, row)) = {}
    BY <2>3 DEF Errors
  <2>8. AbsVal(m.unit_price - row.unit_price) \in Nat
    BY <1>2, <2>2 DEF AbsVal
  <2>9. Rule!Covered(l, po) <=>
          /\ Rows(Receipt(po), no) # {} /\ OrZero(l.qty) <= got.qty
          /\ LET drift == AbsVal(OrZero(l.unit_price) - row.unit_price)
             IN  /\ drift <= 50 \/ 50 * drift <= row.unit_price
                 /\ (l.uom # Absent /\ row.uom # Absent) => l.uom = row.uom
    BY <2>1, RuleReads DEF Rule!Covered
  <2> QED BY <1>1, <1>2, <2>2, <2>4, <2>5, <2>6, <2>7, <2>8, <2>9, BandIff
<1> QED BY <1>3, <1>4

\* A complete answer matches without an error exactly when its order covers it.
LEMMA MatchIff ==
    ASSUME NEW c \in Cases, Rule!Complete(c.answer)
    PROVE  Errors(MatchingOf(c).findings) = {} <=>
             OrderOf(c) # Absent /\ Rule!OrderCovers(c.answer, OrderOf(c))
<1> DEFINE a == c.answer
           e == ExtractionOf(c)
           po == OrderOf(c)
<1>1. a \in Answers /\ e \in InvoiceExtraction /\ e = Extracted(a)
  BY CaseTyped DEF ExtractionOf
<1>2. CASE po = Absent
  <2>1. MatchingOf(c).findings = {MatchFinding("MISSING_PO", "ERROR", Absent)}
    BY <1>2 DEF MatchingOf, MatchOf, Match3way
  <2> QED BY <1>2, <2>1, FindingSeverity DEF Errors
<1>3. CASE po # Absent
  <2>1. po \in PurchaseOrder
    BY <1>3, OrderIff
  <2>2. MatchingOf(c).findings = AllFindings(e, po)
    BY <1>1, <2>1, MatchIs DEF MatchingOf
  <2>3. /\ e.lines = a.lines /\ DOMAIN a.lines = 1..Len(e.lines)
        /\ \A i \in DOMAIN a.lines : a.lines[i] \in ExtractionLine /\ e.lines[i] = a.lines[i]
    BY <1>1, ExtractedFields, LinesForMatch
  <2>4. Errors(MatchVendor(e, po)) = {} <=> a.vendor_name.party = po.vendor.name.party
    BY <1>1, CompleteFields, FindingSeverity DEF MatchVendor, NormName, Errors
  <2>5. Errors(MatchCurrency(e, po)) = {} <=> (po.currency # Absent => a.currency.iso = po.currency.iso)
    BY <1>1, CompleteFields, FindingSeverity DEF MatchCurrency, Errors
  <2>6. Errors(AllFindings(e, po)) = {} <=>
          /\ Errors(MatchVendor(e, po)) = {} /\ Errors(MatchCurrency(e, po)) = {}
          /\ \A i \in DOMAIN a.lines : Errors(MatchLine(MatchedLine(a.lines[i]), po)) = {}
    BY <2>3 DEF AllFindings, Errors
  <2>7. \A i \in DOMAIN a.lines : Rule!Covered(a.lines[i], po) <=> Errors(MatchLine(MatchedLine(a.lines[i]), po)) = {}
    BY <2>1, <2>3, CoveredIff
  <2> QED BY <1>3, <2>2, <2>4, <2>5, <2>6, <2>7 DEF Rule!OrderCovers
<1> QED BY <1>2, <1>3

-----------------------------------------------------------------------------
\* The policy has nothing to say exactly when the payment is safe and the
\* corpus holds nothing near it.
LEMMA PolicyIff ==
    ASSUME NEW c \in Cases, Rule!Complete(c.answer), OrderOf(c) # Absent
    PROVE  PolicyOf(c) = {} <=> Rule!Safe(c.answer, OrderOf(c)) /\ c.hits = {}
<1> DEFINE a == c.answer
           e == ExtractionOf(c)
           po == OrderOf(c)
<1>1. a \in Answers /\ e = Extracted(a)
  BY CaseTyped DEF ExtractionOf
<1>2. RuleSpendLimit(e) = {} <=> a.currency.iso = "EUR" /\ a.total_amount <= 2500000
  <2>1. /\ e.total_amount # Absent /\ e.total_amount = a.total_amount
        /\ e.currency # Absent /\ e.currency = a.currency
    BY <1>1, CompleteFields
  <2>2. WithinLimit(Iso(e.currency), e.total_amount) <=> a.currency.iso = "EUR" /\ a.total_amount <= 2500000
    BY <2>1 DEF WithinLimit, Iso, AUTO_APPROVE_LIMITS
  <2> QED BY <2>1, <2>2 DEF RuleSpendLimit
<1>3. RuleStalePo(e, po) = {} <=>
        po.status # "CLOSED" /\ (po.ordered_at # Absent => a.issue_date - po.ordered_at <= 90)
  <2>1. e.issue_date # Absent /\ e.issue_date = a.issue_date /\ e.issue_date \in Int
    BY <1>1, CompleteFields
  <2>2. po.ordered_at # Absent => po.ordered_at \in Int
    BY OrderIff DEF PurchaseOrder, Optional
  <2>3. Overdue(e, po) <=> ~(po.ordered_at # Absent => a.issue_date - po.ordered_at <= 90)
    BY <2>1, <2>2 DEF Overdue, STALE_PO_DAYS
  <2> QED BY <2>1, <2>3 DEF RuleStalePo
<1>4. RuleBankChange(e, po) = {} <=>
        ((Rule!Given(a, "iban") /\ po.vendor.iban # Absent) => a.iban.account = po.vendor.iban.account)
  <2>1. /\ Rule!Given(a, "iban") <=> e.iban # Absent
        /\ e.iban # Absent => e.iban = a.iban
    BY <1>1, GivenIs DEF BlankFields
  <2> QED BY <2>1 DEF RuleBankChange, NormIban
<1>5. RuleNearDup(c.hits) = {} <=> c.hits = {}
  BY DEF RuleNearDup
<1>6. PolicyOf(c) = {} <=> /\ RuleSpendLimit(e) = {} /\ RuleStalePo(e, po) = {}
                           /\ RuleBankChange(e, po) = {} /\ RuleNearDup(c.hits) = {}
  BY DEF PolicyOf, EvaluatePolicy
<1> QED BY <1>2, <1>3, <1>4, <1>5, <1>6 DEF Rule!Safe

-----------------------------------------------------------------------------
\* A score leaves room for a ratio exactly when it does for drift and band.
LEMMA RoomForRatio ==
    ASSUME NEW A \in Int, NEW drift \in Nat, NEW band \in Nat \ {0}, drift <= band
    PROVE  400 * Ratio(drift, band).num <= A * Ratio(drift, band).den <=> A * band >= 400 * drift
<1>1. CASE drift < band
  BY <1>1 DEF Ratio, Fraction
<1>2. CASE drift = band
  <2>1. Ratio(drift, band).num = 1 /\ Ratio(drift, band).den = 1
    BY <1>2 DEF Ratio, Fraction
  <2>2. 400 <= A => 400 * band <= A * band
    BY TimesMonotone
  <2>3. 400 * band <= A * band => 400 <= A
    BY TimesCancel
  <2> QED BY <1>2, <2>1, <2>2, <2>3
<1> QED BY <1>1, <1>2

\* There is room for the largest ratio exactly when there is room for all.
LEMMA RoomForWorst ==
    ASSUME NEW A \in Int, NEW S \in SUBSET Shares, NEW w \in S \cup {Fraction(0, 1)},
           \A s \in S \cup {Fraction(0, 1)} : AtMost(s, w)
    PROVE  400 * w.num <= A * w.den <=> A >= 0 /\ \A s \in S : 400 * s.num <= A * s.den
<1>1. w \in Shares /\ w.num \in Nat /\ w.den \in Nat \ {0}
  BY ZeroIsAShare DEF Shares
<1>2. ASSUME A >= 0, \A s \in S : 400 * s.num <= A * s.den
      PROVE  400 * w.num <= A * w.den
  <2>1. CASE w \in S
    BY <1>2, <2>1
  <2>2. CASE w = Fraction(0, 1)
    BY <1>2, <2>2 DEF Fraction
  <2> QED BY <2>1, <2>2
<1>3. ASSUME 400 * w.num <= A * w.den
      PROVE  A >= 0
  <2>1. 0 * w.den <= A * w.den
    BY <1>1, <1>3
  <2> QED BY <1>1, <2>1, TimesCancel
<1>4. ASSUME 400 * w.num <= A * w.den, NEW s \in S
      PROVE  400 * s.num <= A * s.den
  <2>1. s.num \in Nat /\ s.den \in Nat \ {0}
    BY DEF Shares
  <2>2. s.num * w.den <= w.num * s.den
    BY DEF AtMost
  <2>3. (400 * s.num) * w.den <= (400 * w.num) * s.den
    <3>1. (400 * s.num) * w.den = 400 * (s.num * w.den) /\ (400 * w.num) * s.den = 400 * (w.num * s.den)
      BY <1>1, <2>1
    <3>2. s.num * w.den \in Int /\ w.num * s.den \in Int
      BY <1>1, <2>1
    <3> QED BY <2>2, <3>1, <3>2
  <2>4. PICK x \in Int, y \in Int : x = 400 * s.num /\ y = 400 * w.num
    BY <1>1, <2>1
  <2>5. x * w.den <= y * s.den /\ y * 1 <= A * w.den
    BY <1>1, <1>4, <2>3, <2>4
  <2>6. x * 1 <= A * s.den
    BY <1>1, <2>1, <2>5, CrossTransitive
  <2> QED BY <2>4, <2>6
<1> QED BY <1>2, <1>3, <1>4

\* The drift of a line and its band, as the rule computes them.
Drift(l, po) == 50 * AbsVal(OrZero(l.unit_price) - LastRow(po.lines, l.line_no).unit_price)
Band(l, po)  == PriceBand50(LastRow(po.lines, l.line_no).unit_price)

\* A covered line has one ratio, of its drift to its band.
LEMMA CoveredRatio ==
    ASSUME NEW l \in ExtractionLine, NEW po \in PurchaseOrder, Rule!Covered(l, po)
    PROVE  /\ LineRatios(MatchedLine(l), po) = {Ratio(Drift(l, po), Band(l, po))}
           /\ Drift(l, po) \in Nat /\ Band(l, po) \in Nat \ {0} /\ Drift(l, po) <= Band(l, po)
<1> DEFINE no == l.line_no
           row == LastRow(po.lines, no)
<1>1. PICK m : m = MatchedLine(l)
  OBVIOUS
<1>2. /\ m.line_no = no /\ m.qty = OrZero(l.qty) /\ m.uom = l.uom /\ m.unit_price = OrZero(l.unit_price)
      /\ m.unit_price \in Int
  <2>1. m.line_no = no /\ m.qty = OrZero(l.qty) /\ m.uom = l.uom /\ m.unit_price = OrZero(l.unit_price)
    BY <1>1 DEF MatchedLine
  <2>2. OrZero(l.unit_price) \in Int
    BY DEF ExtractionLine, Optional, OrZero
  <2> QED BY <2>1, <2>2
<1>3. OnPo(l, po) /\ OnPo(m, po)
  BY <1>2, RuleReads DEF Rule!Covered, OnPo
<1>4. row \in PoLine /\ row.unit_price \in Int
  <2>1. row \in PoLine
    BY <1>3, ReceiptIsRows, LastRowIsARow DEF OnPo
  <2> QED BY <2>1 DEF PoLine
<1>5. Drift50(m, row) = Drift(l, po)
  BY <1>2 DEF Drift50, Drift, PRICE_PCT_DIVISOR
<1>6. Drift(l, po) \in Nat /\ Band(l, po) \in Nat \ {0}
  BY <1>2, <1>4 DEF Drift, Band, AbsVal, PriceBand50, PRICE_PCT_DIVISOR, PRICE_ABS_TOLERANCE
<1>7. Drift(l, po) <= Band(l, po)
  <2>1. LET drift == AbsVal(OrZero(l.unit_price) - row.unit_price) IN drift <= 50 \/ 50 * drift <= row.unit_price
    BY RuleReads DEF Rule!Covered
  <2>2. AbsVal(OrZero(l.unit_price) - row.unit_price) \in Nat
    BY <1>2, <1>4 DEF AbsVal
  <2> QED BY <1>4, <2>1, <2>2, BandIff DEF Drift, Band
<1>8. ~\E g \in MatchQty(m, po) : g.code = "QTY_MM"
  <2>1. Errors(MatchLine(m, po)) = {}
    BY <1>1, CoveredIff
  <2>2. Errors(MatchQty(m, po)) = {}
    BY <1>3, <2>1 DEF MatchLine, Errors
  <2>3. \A g \in MatchQty(m, po) : g.severity = "ERROR"
    BY FindingSeverity DEF MatchQty
  <2> QED BY <2>2, <2>3 DEF Errors
<1>9. LineRatios(m, po) = {Ratio(Drift50(m, row), PriceBand50(row.unit_price))}
  BY <1>2, <1>3, <1>8 DEF LineRatios
<1> QED BY <1>1, <1>5, <1>6, <1>7, <1>9 DEF Band

-----------------------------------------------------------------------------
\* What being sure asks of one confidence: room for the drift of every line.
RoomForAll(A, a, po) ==
    A >= 0 /\ \A i \in DOMAIN a.lines : A * Band(a.lines[i], po) >= 400 * Drift(a.lines[i], po)

\* The rule's certainty in the vocabulary of the engines.
LEMMA SureIs ==
    ASSUME NEW a, NEW po
    PROVE  Rule!Sure(a, po) <=>
             /\ CriticalKeys(a.confidences) # {}
             /\ \A k \in CriticalKeys(a.confidences) :
                   /\ 4 * Clamp(a.confidences[k], 0) >= 250
                   /\ \A i \in DOMAIN a.lines :
                        (4 * Clamp(a.confidences[k], 0) - 250) * Band(a.lines[i], po) >= 400 * Drift(a.lines[i], po)
<1>1. Rule!CriticalFields = CRITICAL_FIELDS \cup CRITICAL_LINE_FIELDS
  <2>1. Rule!ConfidenceKeys = ConfidenceKeys
    BY RuleReads
  <2>2. \A k : k \in ConfidenceKeys \ {"due_date", "line.description"}
                <=> k \in CRITICAL_FIELDS \cup CRITICAL_LINE_FIELDS
    BY DEF ConfidenceKeys, CRITICAL_FIELDS, CRITICAL_LINE_FIELDS
  <2> QED BY <2>1, <2>2 DEF Rule!CriticalFields
<1>2. Rule!Recorded(a) = CriticalKeys(a.confidences)
  BY <1>1 DEF Rule!Recorded, CriticalKeys
<1>3. \A l : /\ 50 * Rule!AbsVal(Rule!OrZero(l.unit_price) - Rule!LastRow(po.lines, l.line_no).unit_price) = Drift(l, po)
             /\ Rule!PriceBand50(Rule!LastRow(po.lines, l.line_no).unit_price) = Band(l, po)
  BY RuleReads DEF Drift, Band
<1>4. \A n : Clamp(n, 0) = IF n < 0 THEN 0 ELSE n
  BY DEF Clamp
<1> QED BY <1>2, <1>3, <1>4 DEF Rule!Sure

\* The ratios of a covered answer.
LEMMA CoveredRatios ==
    ASSUME NEW a \in Answers, NEW po \in PurchaseOrder, Rule!OrderCovers(a, po)
    PROVE  /\ AllRatios(Extracted(a), po) = {Ratio(Drift(a.lines[i], po), Band(a.lines[i], po)) : i \in DOMAIN a.lines}
           /\ \A i \in DOMAIN a.lines : /\ Drift(a.lines[i], po) \in Nat /\ Band(a.lines[i], po) \in Nat \ {0}
                                        /\ Drift(a.lines[i], po) <= Band(a.lines[i], po)
<1> DEFINE e == Extracted(a)
<1>1. /\ e.lines = a.lines /\ DOMAIN a.lines = 1..Len(e.lines)
      /\ \A i \in DOMAIN a.lines : a.lines[i] \in ExtractionLine /\ e.lines[i] = a.lines[i]
  BY ExtractedFields, LinesForMatch
<1>2. \A i \in DOMAIN a.lines : Rule!Covered(a.lines[i], po)
  BY DEF Rule!OrderCovers
<1>3. \A i \in DOMAIN a.lines :
        /\ LineRatios(MatchedLine(a.lines[i]), po) = {Ratio(Drift(a.lines[i], po), Band(a.lines[i], po))}
        /\ Drift(a.lines[i], po) \in Nat /\ Band(a.lines[i], po) \in Nat \ {0}
        /\ Drift(a.lines[i], po) <= Band(a.lines[i], po)
  BY <1>1, <1>2, CoveredRatio
<1>4. AllRatios(e, po) = UNION {LineRatios(MatchedLine(a.lines[i]), po) : i \in DOMAIN a.lines}
  BY <1>1 DEF AllRatios
<1>5. UNION {LineRatios(MatchedLine(a.lines[i]), po) : i \in DOMAIN a.lines}
        = UNION {{Ratio(Drift(a.lines[i], po), Band(a.lines[i], po))} : i \in DOMAIN a.lines}
  BY <1>3
<1> QED BY <1>3, <1>4, <1>5

\* The score reaches tau exactly when its least critical confidence leaves
\* room for the drift of every line.
LEMMA RoomForLines ==
    ASSUME NEW a \in Answers, NEW po \in PurchaseOrder, Rule!OrderCovers(a, po), NEW A \in Int
    PROVE  400 * MatchOf(Extracted(a), po).delta.num <= A * MatchOf(Extracted(a), po).delta.den
             <=> RoomForAll(A, a, po)
<1> DEFINE e == Extracted(a)
           R(i) == Ratio(Drift(a.lines[i], po), Band(a.lines[i], po))
<1>0. PICK S : S = AllRatios(e, po)
  OBVIOUS
<1>1. e \in InvoiceExtraction
  BY ExtractedFields
<1>2. PICK w : w = MatchOf(e, po).delta
  OBVIOUS
<1>3. S \in SUBSET Shares /\ w \in S \cup {Fraction(0, 1)} /\ \A s \in S \cup {Fraction(0, 1)} : AtMost(s, w)
  BY <1>0, <1>1, <1>2, DeltaOfMatch
<1>4. 400 * w.num <= A * w.den <=> A >= 0 /\ \A s \in S : 400 * s.num <= A * s.den
  BY <1>3, RoomForWorst
<1>5. S = {R(i) : i \in DOMAIN a.lines}
  BY <1>0, CoveredRatios
<1>6. (\A s \in S : 400 * s.num <= A * s.den) <=> \A i \in DOMAIN a.lines : 400 * R(i).num <= A * R(i).den
  BY <1>5
<1>7. \A i \in DOMAIN a.lines :
        400 * R(i).num <= A * R(i).den <=> A * Band(a.lines[i], po) >= 400 * Drift(a.lines[i], po)
  BY CoveredRatios, RoomForRatio
<1> QED BY <1>2, <1>4, <1>6, <1>7 DEF RoomForAll

\* The least score leaves room exactly when every score does.
LEMMA LeastRoom ==
    ASSUME NEW A \in Int, NEW B \in Int, A <= B, NEW a, NEW po, RoomForAll(A, a, po),
           \A i \in DOMAIN a.lines : Drift(a.lines[i], po) \in Nat /\ Band(a.lines[i], po) \in Nat \ {0}
    PROVE  RoomForAll(B, a, po)
<1>1. ASSUME NEW i \in DOMAIN a.lines PROVE B * Band(a.lines[i], po) >= 400 * Drift(a.lines[i], po)
  <2>1. PICK b \in Nat : b = Band(a.lines[i], po)
    OBVIOUS
  <2>2. PICK d \in Nat : d = Drift(a.lines[i], po)
    OBVIOUS
  <2>3. A * b <= B * b
    BY TimesMonotone
  <2>4. A * b >= 400 * d
    BY <2>1, <2>2 DEF RoomForAll
  <2>5. A * b \in Int /\ B * b \in Int /\ 400 * d \in Int
    OBVIOUS
  <2>6. B * b >= 400 * d
    BY <2>3, <2>4, <2>5
  <2> QED BY <2>1, <2>2, <2>6
<1> QED BY <1>1 DEF RoomForAll

\* The rule's certainty is the gate's.
LEMMA SureIff ==
    ASSUME NEW c \in Cases, OrderOf(c) # Absent, Rule!OrderCovers(c.answer, OrderOf(c))
    PROVE  Rule!Sure(c.answer, OrderOf(c)) <=> ReachesTau(ConfidenceOf(c))
<1> DEFINE a == c.answer
           po == OrderOf(c)
           conf == a.confidences
           K == CriticalKeys(conf)
           m == MatchOf(Extracted(a), po)
<1>1. a \in Answers /\ po \in PurchaseOrder
  BY CaseTyped, OrderIff
<1>2. /\ conf \in [ConfidenceKeys -> Optional(Int)]
      /\ Extracted(a).confidences = conf
      /\ Extracted(a) \in InvoiceExtraction
  <2>1. Extracted(a) \in InvoiceExtraction /\ conf \in [ConfidenceKeys -> Optional(Int)]
    BY <1>1, ExtractedFields DEF Answers
  <2>2. "confidences" \in DOMAIN a /\ "confidences" \notin BlankFields
    BY <1>1 DEF Answers, BlankFields
  <2> QED BY <2>1, <2>2 DEF Extracted
<1>3. m # Absent /\ m.delta.num \in Int /\ m.delta.den \in Nat \ {0}
  BY <1>1, <1>2, MatchTyped
<1>4. PICK least \in Nat : least = MinCriticalConfidence(conf)
  BY <1>2, LeastConfidenceTyped
<1>5. ReachesTau(ConfidenceOf(c)) <=> 400 * m.delta.num <= (4 * least - 250) * m.delta.den
  <2>1. ConfidenceOf(c) = Confidence(conf, m, {})
    BY <1>2 DEF ConfidenceOf, ExtractionOf, MatchingOf
  <2> QED BY <1>2, <1>3, <1>4, <2>1, ConfidenceIs
<1>6. ReachesTau(ConfidenceOf(c)) <=> RoomForAll(4 * least - 250, a, po)
  <2>1. PICK A \in Int : A = 4 * least - 250
    OBVIOUS
  <2>2. 400 * m.delta.num <= A * m.delta.den <=> RoomForAll(A, a, po)
    BY <1>1, RoomForLines
  <2> QED BY <1>5, <2>1, <2>2
<1>7. CASE K = {}
  <2>1. least = 0
    BY <1>4, <1>7 DEF MinCriticalConfidence
  <2>2. ~RoomForAll(4 * least - 250, a, po)
    BY <2>1 DEF RoomForAll
  <2> QED BY <1>6, <1>7, <2>2, SureIs
<1>8. CASE K # {}
  <2>1. /\ \E k \in K : least = Clamp(conf[k], 0)
        /\ \A k \in K : conf[k] \in Int /\ least <= Clamp(conf[k], 0)
    BY <1>2, <1>4, <1>8, LeastConfidence
  <2>2. \A k \in K : Clamp(conf[k], 0) \in Int
    BY <2>1 DEF Clamp
  <2>3. Rule!Sure(a, po) <=> \A k \in K : RoomForAll(4 * Clamp(conf[k], 0) - 250, a, po)
    <3>1. \A k \in K : 4 * Clamp(conf[k], 0) >= 250 <=> 4 * Clamp(conf[k], 0) - 250 >= 0
      BY <2>2
    <3> QED BY <1>8, <3>1, SureIs DEF RoomForAll
  <2>4. ASSUME RoomForAll(4 * least - 250, a, po), NEW k \in K
        PROVE  RoomForAll(4 * Clamp(conf[k], 0) - 250, a, po)
    <3>1. PICK A \in Int : A = 4 * least - 250
      OBVIOUS
    <3>2. PICK B \in Int : B = 4 * Clamp(conf[k], 0) - 250
      BY <2>2
    <3>3. A <= B
      BY <2>1, <2>2, <3>1, <3>2
    <3>4. \A i \in DOMAIN a.lines : Drift(a.lines[i], po) \in Nat /\ Band(a.lines[i], po) \in Nat \ {0}
      BY <1>1, CoveredRatios
    <3>5. RoomForAll(A, a, po)
      BY <2>4, <3>1
    <3>6. RoomForAll(B, a, po)
      BY <3>3, <3>4, <3>5, LeastRoom
    <3> QED BY <3>2, <3>6
  <2>5. ASSUME \A k \in K : RoomForAll(4 * Clamp(conf[k], 0) - 250, a, po)
        PROVE  RoomForAll(4 * least - 250, a, po)
    BY <2>1, <2>5
  <2> QED BY <1>6, <2>3, <2>4, <2>5
<1> QED BY <1>7, <1>8

-----------------------------------------------------------------------------
\* The engines let a document pass exactly when the rule calls it payable.
LEMMA PayableIff == ASSUME NEW c \in Cases PROVE Rule!Payable(c) <=> Passes(c)
<1> DEFINE a == c.answer
           po == OrderOf(c)
<1>1. Errors(ChecksOf(c)) = {} <=> Rule!Complete(a) /\ Rule!WellFormed(a) /\ Rule!AddsUp(a)
  BY ChecksIff
<1>2. Rule!Complete(a) => (Errors(MatchingOf(c).findings) = {} <=> po # Absent /\ Rule!OrderCovers(a, po))
  BY MatchIff
<1>3. Rule!Complete(a) /\ po # Absent => (PolicyOf(c) = {} <=> Rule!Safe(a, po) /\ c.hits = {})
  BY PolicyIff
<1>4. po # Absent /\ Rule!OrderCovers(a, po) => (Rule!Sure(a, po) <=> ReachesTau(ConfidenceOf(c)))
  BY SureIff
<1>5. /\ po # Absent <=> a.po_number \in DOMAIN c.erp
      /\ po # Absent => c.erp[a.po_number] = po
  BY OrderIff
<1>6. Rule!Payable(c) <=>
        /\ Rule!Complete(a) /\ Rule!WellFormed(a) /\ Rule!AddsUp(a)
        /\ a.po_number \in DOMAIN c.erp
        /\ LET o == c.erp[a.po_number] IN Rule!OrderCovers(a, o) /\ Rule!Safe(a, o) /\ Rule!Sure(a, o)
        /\ c.hits = {}
  BY DEF Rule!Payable
<1>7. Rule!Payable(c) <=>
        /\ Rule!Complete(a) /\ Rule!WellFormed(a) /\ Rule!AddsUp(a)
        /\ po # Absent /\ Rule!OrderCovers(a, po) /\ Rule!Safe(a, po) /\ Rule!Sure(a, po)
        /\ c.hits = {}
  BY <1>5, <1>6
<1> QED BY <1>1, <1>2, <1>3, <1>4, <1>7 DEF Passes

\* A node before the last leaves the verdict pending.
LEMMA NodeIsNoVerdict ==
    ASSUME RouteInv, RouteInv', node' \notin {"archive", "human_review"}, case' = case,
           node \notin {"archive", "human_review"}
    PROVE  state'.route = state.route
BY DEF RouteInv, StateFollows

\* Every step of the pipeline is the rule's judgement or no step of it.
LEMMA VerdictStep == ASSUME RouteInv, RouteInv', [Next]_vars
                     PROVE  [Rule!Judge]_<<case, IF state.route = Absent THEN "pending" ELSE state.route>>
<1> DEFINE verdict == IF state.route = Absent THEN "pending" ELSE state.route
<1>1. CASE UNCHANGED vars
  BY <1>1 DEF vars
<1>2. CASE Extract \/ Validate \/ LoadPoRaises \/ Match3wayNode \/ Policy \/ Gate
  <2>1. /\ node \notin {"archive", "human_review"} /\ case' = case
        /\ node' \notin {"archive", "human_review"}
    BY <1>2 DEF Extract, Validate, LoadPoRaises, Match3wayNode, Policy, Gate, RouteAfterValidate, RouteAfterMatch,
                RouteAfterPolicy, RouteAfterGate
  <2> QED BY <2>1, NodeIsNoVerdict
<1>3. CASE AutoApprove
  <2>1. node = "auto_approve" /\ node' = "archive" /\ case' = case
    BY <1>3 DEF AutoApprove
  <2>2. state.route = Absent /\ state'.route = "AUTO"
    BY <2>1 DEF RouteInv, StateFollows
  <2>3. Passes(case)
    BY <2>1 DEF RouteInv, NodeFollows, Approving, Passes
  <2>4. Rule!Payable(case)
    BY <2>3, PayableIff DEF RouteInv
  <2>5. verdict = "pending" /\ verdict' = "AUTO"
    BY <2>2, NoRouteAssumption
  <2> QED BY <2>1, <2>4, <2>5 DEF Rule!Judge
<1>4. CASE \E advice \in Optional(Advice) : ExceptionTriage(advice)
  <2>1. node = "exception_triage" /\ node' = "human_review" /\ case' = case
    BY <1>4, TriageRoute DEF ExceptionTriage
  <2>2. state.route = Absent /\ state'.route = "EXCEPTION"
    BY <2>1 DEF RouteInv, StateFollows
  <2>3. ~Passes(case)
    BY <2>1 DEF RouteInv, NodeFollows, Escalated, Passes
  <2>4. ~Rule!Payable(case)
    BY <2>3, PayableIff DEF RouteInv
  <2>5. verdict = "pending" /\ verdict' = "EXCEPTION"
    BY <2>2, NoRouteAssumption
  <2> QED BY <2>1, <2>4, <2>5 DEF Rule!Judge
<1> QED BY <1>1, <1>2, <1>3, <1>4 DEF Next

\* The pipeline implements the payment rule: for every answer, order book and
\* corpus, the findings, their severities, the four routing functions and the
\* gate together approve exactly the payable invoices and escalate the rest.
THEOREM VerdictImplementsRule == Spec => ImplementsPaymentRule
<1>1. Init => Rule!Init
  BY DEF Init, EmptyState, Rule!Init
<1>2. RouteInv /\ RouteInv' /\ [Next]_vars
        => [Rule!Judge]_<<case, IF state.route = Absent THEN "pending" ELSE state.route>>
  BY VerdictStep
<1>3. Spec => Rule!Spec
  BY <1>1, <1>2, RouteAlways, PTL DEF Spec, Rule!Spec
<1> QED BY <1>3 DEF ImplementsPaymentRule
=============================================================================
