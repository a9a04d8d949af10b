---------------------------- MODULE Validation ----------------------------
(***************************************************************************)
(* The extraction contract (agents/extraction.py) and the deterministic    *)
(* validation of an extraction (tools/validation.py).                      *)
(*                                                                         *)
(* The code computes with exact decimals.  Here a quantity is an integer   *)
(* number of tenths, a unit price of cents, an amount (a line total or the *)
(* total) of tenths of a cent and a tax of thousandths of a cent, so that  *)
(* quantity times price is an amount and an amount times a rate in percent *)
(* a tax.  A date is a day number.  A name is [party, spelling], a         *)
(* currency [iso, shaped], an IBAN [account, spelling, structure]: what    *)
(* the code compares after normalisation, how it was written, and what the *)
(* structural check says of it.  A finding keeps its code, its severity    *)
(* and the field it is about; details are left out.                        *)
(***************************************************************************)
EXTENDS Integers, Sequences

CONSTANTS Absent,   \* None: the field is not there
          Blank     \* "": what vision models answer for an absent field

Optional(S) == S \cup {Absent}

Names == [party : STRING, spelling : STRING]
Currencies == [iso : STRING, shaped : BOOLEAN]
Ibans == [account : STRING, spelling : STRING,
          structure : {"valid", "malformed", "bad_check_digits", "unknown_country"}]

\* Neither is a value: STRING stands for the strings that are not "".
ASSUME NothingAssumption ==
    /\ Absent # Blank
    /\ \A nothing \in {Absent, Blank} :
          /\ nothing \notin Int /\ nothing \notin STRING
          /\ nothing \notin Names /\ nothing \notin Currencies /\ nothing \notin Ibans

\* The keys of the per-field confidences, in percent; the line number of a
\* line[<no>].<field> key plays no role and is dropped.
ConfidenceKeys ==
    {"vendor_name", "invoice_number", "issue_date", "currency", "total_amount", "tax_total",
     "iban", "po_number", "due_date", "line.qty", "line.unit_price", "line.line_total",
     "line.description"}

ExtractionLine ==
    [line_no : STRING, qty : Optional(Int), uom : Optional(STRING),
     unit_price : Optional(Int), tax_code : Optional(STRING), line_total : Optional(Int)]

InvoiceExtraction ==
    [vendor_name : Optional(Names), invoice_number : Optional(STRING),
     po_number : Optional(STRING), issue_date : Optional(Int), due_date : Optional(Int),
     currency : Optional(Currencies), total_amount : Optional(Int), tax_total : Optional(Int),
     iban : Optional(Ibans), lines : Seq(ExtractionLine),
     confidences : [ConfidenceKeys -> Optional(Int)]]

BlankFields == {"vendor_name", "invoice_number", "po_number", "currency", "iban",
                "issue_date", "due_date"}

\* Blank answers in the textual fields become None when the answer is validated.
Extracted(answer) ==
    [f \in DOMAIN answer |->
        IF f \in BlankFields /\ answer[f] = Blank THEN Absent ELSE answer[f]]

-----------------------------------------------------------------------------
REQUIRED_ERROR_FIELDS == {"vendor_name", "invoice_number", "issue_date", "currency", "total_amount"}
REQUIRED_WARN_FIELDS  == {"due_date", "iban"}
LINE_MATH_TOLERANCE   == 0
TAX_TOLERANCE         == 1000  \* one cent
TAX_RATES             == [S |-> 19, R |-> 7, Z |-> 0]   \* percent

Check(code, severity, f) == [code |-> code, severity |-> severity, field |-> f]

AbsVal(n) == IF n < 0 THEN -n ELSE n

\* The sum of f over the positions of the sequence s.
SumOver(s, f) ==
    LET sum[i \in 0..Len(s)] == IF i = 0 THEN 0 ELSE sum[i - 1] + f[i]
    IN  sum[Len(s)]

\* The invoice's lines that state a total, and those that also carry a tax code.
Totalled(e) == {i \in DOMAIN e.lines : e.lines[i].line_total # Absent}
Taxed(e)    == {i \in Totalled(e) : e.lines[i].tax_code # Absent}

StatedSum(e) == SumOver(e.lines,
    [i \in DOMAIN e.lines |-> IF i \in Totalled(e) THEN e.lines[i].line_total ELSE 0])

ExpectedTax(e) == SumOver(e.lines,
    [i \in DOMAIN e.lines |->
        IF i \in Taxed(e) /\ e.lines[i].tax_code \in DOMAIN TAX_RATES
        THEN e.lines[i].line_total * TAX_RATES[e.lines[i].tax_code] ELSE 0])

CheckRequiredFields(e) ==
    {Check("SCHEMA_MISSING_FIELD", "ERROR", f) : f \in {g \in REQUIRED_ERROR_FIELDS : e[g] = Absent}}
    \cup {Check("SCHEMA_MISSING_FIELD", "WARN", f) : f \in {g \in REQUIRED_WARN_FIELDS : e[g] = Absent}}

CheckCurrency(e) ==
    {Check("SCHEMA_BAD_CURRENCY", "ERROR", Absent) : c \in {d \in {e.currency} \ {Absent} : ~d.shaped}}

\* An unknown country is a warning; a wrong length or wrong check digits an error.
CheckIban(e) ==
    {Check("SCHEMA_BAD_IBAN", IF c.structure = "unknown_country" THEN "WARN" ELSE "ERROR", Absent) :
        c \in {d \in {e.iban} \ {Absent} : d.structure # "valid"}}

BadLines(e) ==
    {i \in DOMAIN e.lines :
        LET l == e.lines[i] IN
        /\ l.qty # Absent /\ l.unit_price # Absent /\ l.line_total # Absent
        /\ AbsVal(l.line_total - l.qty * l.unit_price) > LINE_MATH_TOLERANCE}

\* Line products are checked only on complete lines, the sum only when the
\* total and at least one line total are there.
CheckLineMath(e) ==
    {Check("MATH_LINE_ERR", "ERROR", Absent) : i \in BadLines(e)}
    \cup IF /\ e.total_amount # Absent /\ Totalled(e) # {}
            /\ AbsVal(e.total_amount - StatedSum(e)) > LINE_MATH_TOLERANCE
         THEN {Check("MATH_ERR", "ERROR", Absent)} ELSE {}

UnknownCodes(e) == {e.lines[i].tax_code : i \in DOMAIN e.lines} \ (DOMAIN TAX_RATES \cup {Absent})

CheckTax(e) ==
    IF e.total_amount = Absent \/ e.tax_total = Absent THEN {}
    ELSE IF Taxed(e) = {} THEN {Check("TAX_MISSING_CODE", "WARN", Absent)}
    ELSE IF UnknownCodes(e) # {} THEN {Check("TAX_UNKNOWN_CODE", "WARN", Absent)}
    ELSE IF AbsVal(e.tax_total - ExpectedTax(e)) > TAX_TOLERANCE
         THEN {Check("TAX_ERR", "ERROR", Absent)} ELSE {}

ValidateExtraction(e) ==
    CheckRequiredFields(e) \cup CheckCurrency(e) \cup CheckIban(e)
        \cup CheckLineMath(e) \cup CheckTax(e)

Errors(findings) == {f \in findings : f.severity = "ERROR"}

=============================================================================
