------------------------- MODULE ExceptionTaxonomy -------------------------
(***************************************************************************)
(* The exception vocabulary (tools/exception_taxonomy.py): severity and    *)
(* SLA of each code, the mapping of every validation and matching reason   *)
(* to a code, and the precedence that selects the primary one.             *)
(***************************************************************************)
EXTENDS Integers, Sequences

CODE_PRECEDENCE ==
    <<"DUP_EXACT", "DUP_NEAR", "BANK_CHANGE", "MISSING_PO", "PRICE_MM", "QTY_MM",
      "APPROVAL_REQUIRED", "STALE_PO", "CCY_MM", "TAX_ERR", "MATH_ERR">>

ExceptionCode == {CODE_PRECEDENCE[i] : i \in DOMAIN CODE_PRECEDENCE}

Meta(severity, sla) == [severity |-> severity, sla_hours |-> sla]
TAXONOMY ==
    [DUP_EXACT |-> Meta("CRITICAL", 4),  DUP_NEAR |-> Meta("HIGH", 4),
     BANK_CHANGE |-> Meta("HIGH", 8),    MISSING_PO |-> Meta("HIGH", 24),
     PRICE_MM |-> Meta("HIGH", 24),      QTY_MM |-> Meta("HIGH", 24),
     CCY_MM |-> Meta("MEDIUM", 48),      STALE_PO |-> Meta("HIGH", 24),
     APPROVAL_REQUIRED |-> Meta("HIGH", 24),
     TAX_ERR |-> Meta("MEDIUM", 48),     MATH_ERR |-> Meta("MEDIUM", 48)]

SeverityRank == [LOW |-> 1, MEDIUM |-> 2, HIGH |-> 3, CRITICAL |-> 4]

\* The queue that a missing field breaks; any other field is data integrity.
MISSING_FIELD_CODE ==
    [po_number |-> "MISSING_PO", currency |-> "CCY_MM", total_amount |-> "MATH_ERR",
     tax_total |-> "TAX_ERR", iban |-> "BANK_CHANGE", vendor_name |-> "BANK_CHANGE"]

VALIDATION_CODE ==
    [SCHEMA_MISSING_FIELD |-> "MATH_ERR", SCHEMA_BAD_CURRENCY |-> "CCY_MM",
     SCHEMA_BAD_IBAN |-> "BANK_CHANGE", MATH_ERR |-> "MATH_ERR", MATH_LINE_ERR |-> "MATH_ERR",
     TAX_ERR |-> "TAX_ERR", TAX_UNKNOWN_CODE |-> "TAX_ERR", TAX_MISSING_CODE |-> "TAX_ERR"]

MATCHING_CODE ==
    [MISSING_PO |-> "MISSING_PO", PRICE_MM |-> "PRICE_MM", PRICE_DRIFT |-> "PRICE_MM",
     QTY_MM |-> "QTY_MM", CCY_MM |-> "CCY_MM", VENDOR_MM |-> "BANK_CHANGE",
     UOM_MM |-> "QTY_MM", LINE_NOT_ON_PO |-> "QTY_MM", GR_LINE_MISSING |-> "QTY_MM"]

CodeForValidation(check) ==
    IF check.code = "SCHEMA_MISSING_FIELD" /\ check.field \in DOMAIN MISSING_FIELD_CODE
    THEN MISSING_FIELD_CODE[check.field] ELSE VALIDATION_CODE[check.code]

CodeForMatching(finding) == MATCHING_CODE[finding.code]

\* Mutant: the last code of the precedence among those present.
PrimaryCodeLast(codes) ==
    CODE_PRECEDENCE[CHOOSE i \in DOMAIN CODE_PRECEDENCE :
        /\ CODE_PRECEDENCE[i] \in codes
        /\ \A j \in (i + 1)..Len(CODE_PRECEDENCE) : CODE_PRECEDENCE[j] \notin codes]

\* The first code of the precedence among those present.
PrimaryCode(codes) ==
    CODE_PRECEDENCE[CHOOSE i \in DOMAIN CODE_PRECEDENCE :
        /\ CODE_PRECEDENCE[i] \in codes
        /\ \A j \in 1..(i - 1) : CODE_PRECEDENCE[j] \notin codes]

SlaDueAt(now, code) == now + TAXONOMY[code].sla_hours

=============================================================================
