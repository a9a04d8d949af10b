--------------------------- MODULE ConfidenceGate ---------------------------
(***************************************************************************)
(* The composite confidence and its threshold (tools/confidence_gate.py,   *)
(* tools/gate_config.py).  The code computes with floats in [0, 1]; here a *)
(* field confidence is in percent and a score is the exact fraction        *)
(* num / den of 1000: the weights 0.4, 0.4, 0.2 become 4, 4, 2.            *)
(***************************************************************************)
EXTENDS ThreeWayMatch

TAU      == 850
W_FIELD  == 4
W_MATCH  == 4
W_POLICY == 2

CRITICAL_FIELDS == {"vendor_name", "invoice_number", "issue_date", "currency", "total_amount",
                    "tax_total", "iban", "po_number"}
CRITICAL_LINE_FIELDS == {"line.qty", "line.unit_price", "line.line_total"}
SEVERITY_PENALTY == [CRITICAL |-> 100, HIGH |-> 60, MEDIUM |-> 30, LOW |-> 10]   \* percent

Clamp(n, low) == IF n < low THEN low ELSE n
CriticalKeys(c) == {k \in CRITICAL_FIELDS \cup CRITICAL_LINE_FIELDS : c[k] # Absent}

\* Clamped below only; no critical field at all counts as zero.
MinCriticalConfidence(c) ==
    IF CriticalKeys(c) = {} THEN 0
    ELSE LET values == {Clamp(c[k], 0) : k \in CriticalKeys(c)}
         IN  CHOOSE v \in values : \A w \in values : v <= w

\* What the findings of one severity cost: one penalty for each of them.
PolicySeverityTerm(findings) ==
    LET sum[F \in SUBSET findings] ==
            IF F = {} THEN 0
            ELSE LET f == CHOOSE f \in F : TRUE IN SEVERITY_PENALTY[f.severity] + sum[F \ {f}]
    IN  Clamp(100 - sum[findings], 0)

\* No match, no match term.
MatchTerm(match) ==
    IF match = Absent THEN Fraction(0, 1)
    ELSE Fraction(100 * (match.delta.den - match.delta.num), match.delta.den)

\* The score is clipped to 1.
Confidence(c, match, findings) ==
    LET m     == MatchTerm(match)
        score == (W_FIELD * MinCriticalConfidence(c) + W_POLICY * PolicySeverityTerm(findings)) * m.den
                     + W_MATCH * m.num
    IN  Fraction(IF score > 1000 * m.den THEN 1000 * m.den ELSE score, m.den)

ReachesTau(confidence) == confidence.num >= TAU * confidence.den

\* A confidence exactly at tau is approved.
Decide(confidence) == IF ReachesTau(confidence) THEN "AUTO" ELSE "EXCEPTION"

=============================================================================
