-------------------------- MODULE ModelCallsProofs --------------------------
(***************************************************************************)
(* ModelCalls, for any number of node attempts, transport retries and SDK   *)
(* retries: the four nested loops stay within their product, at most one   *)
(* answer per attempt goes unseen and nothing is built on it, a finished   *)
(* extraction has one ledger entry, no verdict is a guess, replay stays    *)
(* offline and a deterministic failure is final.                           *)
(*                                                                         *)
(* The inductive invariant bounds the requests by the loop counters: the   *)
(* rounds of earlier attempts, one transport budget if the reply is the    *)
(* corrective one, the tries before this one, and the SDK's requests of    *)
(* the current try.                                                        *)
(***************************************************************************)
EXTENDS ModelCalls, TLAPS

Sends == SdkRetries + 1                \* of one create()
Tries == (InfraRetries + 1) * Sends    \* of one transport loop
Before(t) == t * Sends                 \* of the tries before t
Earlier(a) == (a - 1) * (2 * Tries)    \* what the attempts before a may send
Embedded(a) == (a - 1) * Sends         \* the same for an embedding node
First == IF reply = 1 THEN Tries ELSE 0

\* Which labels a stage visits, and what the counters are there.
Where ==
    /\ stage = "policy" => pc \notin {"fetch", "call", "request", "backoff", "parse"}
    /\ stage # "policy" => pc # "embed"
    /\ pc = "fetch" => stage = "extract"
    /\ stage = "triage" => attempt = 1
    /\ pc \in {"fetch", "check"} => reply = 0
    /\ pc \in {"request", "backoff"} => try <= InfraRetries

\* The requests sent so far, by the place in the loops.
SpentPolicy ==
    /\ wire.requests <= Embedded(attempt) + Sends
    /\ pc = "check" => wire.requests <= Embedded(attempt)
    /\ pc = "embed" => wire.requests <= Embedded(attempt) + sdk
SpentLoops ==
    /\ wire.requests <= Earlier(attempt) + 2 * Tries
    /\ pc \in {"fetch", "check"} => wire.requests <= Earlier(attempt)
    /\ pc = "call" => wire.requests <= Earlier(attempt) + First
    /\ pc = "request" => wire.requests <= Earlier(attempt) + First + Before(try) + sdk
    /\ pc = "backoff" => wire.requests <= Earlier(attempt) + First + Before(try) + Sends
    /\ pc \in {"save", "observe", "parse"} => wire.requests <= Earlier(attempt) + First + Tries
Spent == (stage = "policy" => SpentPolicy) /\ (stage # "policy" => SpentLoops)

\* The answer at hand, at most one in an attempt, is the only one that may
\* be unseen beyond those that ended earlier attempts.
Seen ==
    /\ Unseen \in 0..attempt
    /\ pc \notin {"save", "observe", "raised", "failed", "done"} => Unseen <= attempt - 1
    /\ stage # "triage" /\ pc = "done" => Unseen <= attempt - 1
    /\ pc \in {"save", "observe"} => Unseen >= 1

Offline ==
    setup.mode = "replay" /\ setup.cassettes =>
        wire.requests = 0 /\ pc \notin {"request", "backoff", "save"}

Over == error \in Business => pc \in {"raised", "done", "failed"}

Books == Seen /\ OneEntryPerExtraction /\ Over

MInv == TypeOK /\ Where /\ Spent /\ Books /\ Offline /\ NeverAGuess

-----------------------------------------------------------------------------
\* A product of a counter and a budget, one factor at a time.
LEMMA Products ==
    ASSUME NEW n \in Nat, NEW a \in 0..n, NEW b \in Nat
    PROVE  a * b \in Nat /\ (a + 1) * b = a * b + b /\ a * b <= n * b /\ 0 * b = 0
<1>1. a * b \in Nat /\ n * b \in Nat /\ (n - a) * b \in Nat
  OBVIOUS
<1>2. n * b = a * b + (n - a) * b
  OBVIOUS
<1> QED BY <1>1, <1>2

\* An attempt is worth two transport loops, a loop InfraRetries + 1 rounds of
\* the SDK, and the last one ends the budget.
LEMMA Rounds ==
    ASSUME NEW a \in 1..Attempts
    PROVE  /\ Sends \in Nat \ {0} /\ Tries \in Nat \ {0} /\ Sends <= Tries
           /\ Earlier(a) \in Nat /\ Earlier(1) = 0 /\ Earlier(a + 1) = Earlier(a) + 2 * Tries
           /\ Earlier(a) + 2 * Tries <= Attempts * (2 * Tries)
           /\ Embedded(a) \in Nat /\ Embedded(1) = 0 /\ Embedded(a + 1) = Embedded(a) + Sends
           /\ Embedded(a) + Sends <= Attempts * Sends
<1>1. Sends \in Nat \ {0} /\ Attempts \in Nat /\ InfraRetries \in Nat
  BY BudgetAssumption DEF Sends
<1>2. Tries = InfraRetries * Sends + Sends /\ InfraRetries * Sends \in Nat
  BY <1>1, Products DEF Tries
<1>3. Tries \in Nat \ {0} /\ Sends <= Tries
  BY <1>1, <1>2
<1> DEFINE T == 2 * Tries
<1>4. T \in Nat /\ a - 1 \in 0..Attempts /\ a \in 0..Attempts /\ (a - 1) + 1 = a /\ (a + 1) - 1 = a /\ 1 - 1 = 0
  BY <1>1, <1>3
<1>5. /\ Earlier(a) = (a - 1) * T /\ Earlier(a + 1) = ((a + 1) - 1) * T /\ Earlier(1) = (1 - 1) * T
      /\ Embedded(a) = (a - 1) * Sends /\ Embedded(a + 1) = ((a + 1) - 1) * Sends
      /\ Embedded(1) = (1 - 1) * Sends
  BY DEF Earlier, Embedded
<1> HIDE DEF T
<1>6. (a - 1) * T \in Nat /\ a * T = (a - 1) * T + T /\ a * T <= Attempts * T /\ 0 * T = 0
  <2>1. (a - 1) * T \in Nat /\ ((a - 1) + 1) * T = (a - 1) * T + T /\ 0 * T = 0
    BY <1>1, <1>4, Products
  <2>2. a * T <= Attempts * T
    BY <1>1, <1>4, Products
  <2> QED BY <1>4, <2>1, <2>2
<1>7. /\ (a - 1) * Sends \in Nat /\ a * Sends = (a - 1) * Sends + Sends
      /\ a * Sends <= Attempts * Sends /\ 0 * Sends = 0
  <2>1. (a - 1) * Sends \in Nat /\ ((a - 1) + 1) * Sends = (a - 1) * Sends + Sends /\ 0 * Sends = 0
    BY <1>1, <1>4, Products
  <2>2. a * Sends <= Attempts * Sends
    BY <1>1, <1>4, Products
  <2> QED BY <1>4, <2>1, <2>2
<1>8. /\ Earlier(a) \in Nat /\ Earlier(1) = 0 /\ Earlier(a + 1) = Earlier(a) + T
      /\ Earlier(a) + T <= Attempts * T
  BY <1>4, <1>5, <1>6
<1>9. /\ Embedded(a) \in Nat /\ Embedded(1) = 0 /\ Embedded(a + 1) = Embedded(a) + Sends
      /\ Embedded(a) + Sends <= Attempts * Sends
  BY <1>4, <1>5, <1>7
<1> QED BY <1>1, <1>3, <1>8, <1>9 DEF T

\* The tries of a transport loop.
LEMMA Transport ==
    ASSUME NEW t \in 0..InfraRetries
    PROVE  Before(t) \in Nat /\ Before(0) = 0 /\ Before(t + 1) = Before(t) + Sends /\ Before(t) + Sends <= Tries
<1>1. Sends \in Nat /\ InfraRetries \in Nat /\ InfraRetries + 1 \in Nat /\ t \in 0..(InfraRetries + 1)
      /\ t + 1 \in 0..(InfraRetries + 1)
  BY BudgetAssumption DEF Sends
<1>2. t * Sends \in Nat /\ (t + 1) * Sends = t * Sends + Sends /\ 0 * Sends = 0
  BY <1>1, Products
<1>3. (t + 1) * Sends <= (InfraRetries + 1) * Sends
  BY <1>1, Products
<1> QED BY <1>2, <1>3 DEF Before, Tries

\* What the leaves below need to know of the budgets.
LEMMA Budgets ==
    ASSUME TypeOK, Where
    PROVE  /\ Sends \in Nat \ {0} /\ Tries \in Nat \ {0} /\ Sends <= Tries /\ sdk < Sends
           /\ Earlier(attempt) \in Nat /\ Embedded(attempt) \in Nat /\ Before(0) = 0
           /\ pc \in {"request", "backoff"} =>
                /\ Before(try) \in Nat /\ Before(try + 1) = Before(try) + Sends
                /\ Before(try) + Sends <= Tries
<1>1. attempt \in 1..Attempts /\ sdk \in 0..SdkRetries /\ try \in 0..(InfraRetries + 1)
  BY DEF TypeOK
<1>2. Sends \in Nat \ {0} /\ Tries \in Nat \ {0} /\ Sends <= Tries /\ Earlier(attempt) \in Nat /\ Embedded(attempt) \in Nat
  BY <1>1, Rounds
<1>3. sdk < Sends
  BY <1>1, BudgetAssumption DEF Sends
<1>4. Before(0) = 0
  BY <1>2 DEF Before
<1>5. ASSUME pc \in {"request", "backoff"}
      PROVE  Before(try) \in Nat /\ Before(try + 1) = Before(try) + Sends /\ Before(try) + Sends <= Tries
  <2>1. try \in 0..InfraRetries
    BY <1>1, <1>5, BudgetAssumption DEF Where
  <2> QED BY <2>1, Transport
<1> QED BY <1>2, <1>3, <1>4, <1>5

LEMMA InitOK == Init => MInv
<1> SUFFICES ASSUME Init PROVE MInv
  OBVIOUS
<1> USE BudgetAssumption DEF Init, Entry
<1>1. TypeOK
  BY DEF TypeOK, Labels
<1>2. Where
  BY DEF Where
<1>3. 1 \in 1..Attempts
  OBVIOUS
<1>4. Spent
  <2>1. Earlier(attempt) = 0 /\ Embedded(attempt) = 0 /\ Tries \in Nat \ {0} /\ Sends \in Nat \ {0}
    BY <1>3, Rounds
  <2> QED BY <2>1 DEF Spent, SpentPolicy, SpentLoops, First
<1>5. Books
  BY AbsentAssumption DEF Books, Seen, Unseen, OneEntryPerExtraction, Over
<1>6. Offline /\ NeverAGuess
  BY DEF Offline, NeverAGuess
<1> QED BY <1>1, <1>2, <1>4, <1>5, <1>6 DEF MInv

LEMMA FetchDocumentOK == MInv /\ FetchDocument => MInv'
<1> SUFFICES ASSUME MInv, FetchDocument PROVE MInv'
  OBVIOUS
<1> USE DEF MInv, FetchDocument, Goto, Raise, Frozen
<1>1. TypeOK'
  BY BudgetAssumption DEF TypeOK, Labels, Business, Infra, Unknown, Where
<1>2. Where'
  BY BudgetAssumption DEF Where, TypeOK
<1>4. Spent'
  BY Budgets DEF Spent, SpentLoops, SpentPolicy, TypeOK, Where, First
<1>5. Books'
  BY DEF Books, Seen, Unseen, OneEntryPerExtraction, Over, Business, TypeOK, Where
<1>6. Offline' /\ NeverAGuess'
  BY DEF Offline, NeverAGuess, TypeOK, Where
<1> QED BY <1>1, <1>2, <1>4, <1>5, <1>6

LEMMA CheckOK == MInv /\ Check => MInv'
<1> SUFFICES ASSUME MInv, Check PROVE MInv'
  OBVIOUS
<1> USE DEF MInv, Check, Goto, Raise, Frozen
<1>1. TypeOK'
  BY BudgetAssumption DEF TypeOK, Labels, Business, Infra, Unknown, Where
<1>2. Where'
  BY BudgetAssumption DEF Where, TypeOK
<1>4. Spent'
  BY Budgets DEF Spent, SpentLoops, SpentPolicy, TypeOK, Where, First
<1>5. Books'
  BY DEF Books, Seen, Unseen, OneEntryPerExtraction, Over, Business, TypeOK, Where
<1>6. Offline' /\ NeverAGuess'
  BY DEF Offline, NeverAGuess, TypeOK, Where
<1> QED BY <1>1, <1>2, <1>4, <1>5, <1>6

LEMMA RawContentOK == MInv /\ RawContent => MInv'
<1> SUFFICES ASSUME MInv, RawContent PROVE MInv'
  OBVIOUS
<1> USE DEF MInv, RawContent, Goto, Raise, Frozen
<1>1. TypeOK'
  BY BudgetAssumption DEF TypeOK, Labels, Business, Infra, Unknown, Where
<1>2. Where'
  BY BudgetAssumption DEF Where, TypeOK
<1>4. Spent'
  BY Budgets DEF Spent, SpentLoops, SpentPolicy, TypeOK, Where, First
<1>5. Books'
  BY DEF Books, Seen, Unseen, OneEntryPerExtraction, Over, Business, TypeOK, Where
<1>6. Offline' /\ NeverAGuess'
  BY DEF Offline, NeverAGuess, TypeOK, Where
<1> QED BY <1>1, <1>2, <1>4, <1>5, <1>6

\* The SDK's retries of one request stay within its budget.
LEMMA RequestOK == MInv /\ Request => MInv'
<1> SUFFICES ASSUME MInv, Request PROVE MInv'
  OBVIOUS
<1> USE DEF MInv
<1>1. UNCHANGED <<attempt, reply, try, audit, entries, verdict, stage, setup>> /\ pc = "request"
  BY DEF Request, Frozen
<1>2. /\ wire' \in [requests : Nat, answers : Nat] /\ wire'.requests = wire.requests + 1
      /\ wire'.answers \in {wire.answers, wire.answers + 1}
  BY DEF Request, Sent, SdkRetry, TypeOK
<1>3. \/ /\ sdk' = sdk + 1 /\ sdk < SdkRetries /\ pc' = pc /\ error' = error
         /\ wire'.answers = wire.answers
      \/ sdk' = sdk /\ pc' = "backoff" /\ error' = error /\ wire'.answers = wire.answers
      \/ sdk' = sdk /\ pc' = "raised" /\ error' \in {"GatewayConfigError", "GatewayResponseError", "IndexError"}
      \/ /\ sdk' = sdk /\ pc' \in {"save", "observe"} /\ error' = error
         /\ wire'.answers = wire.answers + 1
  BY DEF Request, Sent, SdkRetry, SdkAgain, SdkRetried, Answers, Outcomes, Goto, Raise, TypeOK
<1>4. TypeOK'
  BY <1>1, <1>2, <1>3, BudgetAssumption DEF TypeOK, Labels, Business, Infra, Unknown
<1>5. Where'
  BY <1>1, <1>3 DEF Where, TypeOK
<1>6. Spent'
  BY <1>1, <1>2, <1>3, Budgets DEF Spent, SpentLoops, SpentPolicy, TypeOK, Where, First
<1>7. Books'
  BY <1>1, <1>2, <1>3 DEF Books, Seen, Unseen, OneEntryPerExtraction, Over, Business, TypeOK, Where
<1>8. Offline' /\ NeverAGuess'
  BY <1>1, <1>2, <1>3 DEF Offline, NeverAGuess, TypeOK, Where
<1> QED BY <1>4, <1>5, <1>6, <1>7, <1>8

LEMMA BackoffOK == MInv /\ Backoff => MInv'
<1> SUFFICES ASSUME MInv, Backoff PROVE MInv'
  OBVIOUS
<1> USE DEF MInv, Backoff, Goto, Raise, Frozen
<1>1. TypeOK'
  BY BudgetAssumption DEF TypeOK, Labels, Business, Infra, Unknown, Where
<1>2. Where'
  BY BudgetAssumption DEF Where, TypeOK
<1>4. Spent'
  BY Budgets DEF Spent, SpentLoops, SpentPolicy, TypeOK, Where, First
<1>5. Books'
  BY DEF Books, Seen, Unseen, OneEntryPerExtraction, Over, Business, TypeOK, Where
<1>6. Offline' /\ NeverAGuess'
  BY DEF Offline, NeverAGuess, TypeOK, Where
<1> QED BY <1>1, <1>2, <1>4, <1>5, <1>6

LEMMA EmbedCallOK == MInv /\ EmbedCall => MInv'
<1> SUFFICES ASSUME MInv, EmbedCall PROVE MInv'
  OBVIOUS
<1> USE DEF MInv
<1>1. UNCHANGED <<attempt, reply, try, audit, entries, verdict, stage, setup>> /\ pc = "embed"
  BY DEF EmbedCall, Frozen
<1> DEFINE Replayed == setup.mode = "replay" /\ setup.cassettes
<1>2. /\ wire' \in [requests : Nat, answers : Nat]
      /\ wire'.requests = wire.requests + IF Replayed THEN 0 ELSE 1
      /\ wire'.answers \in {wire.answers, wire.answers + 1}
  BY DEF EmbedCall, Sent, SdkRetry, TypeOK
<1>3. \/ /\ sdk' = sdk /\ wire'.answers = wire.answers
         /\ pc' = "checked" /\ error' = error
      \/ /\ ~Replayed /\ sdk' = sdk + 1 /\ sdk < SdkRetries /\ pc' = pc /\ error' = error
         /\ wire'.answers = wire.answers
      \/ /\ sdk' = sdk /\ pc' = "raised"
         /\ error' \in {"CassetteMissingError", "GatewayTransportError", "IndexError"}
      \/ /\ ~Replayed /\ sdk' = sdk /\ pc' \in {"save", "observe"} /\ error' = error
         /\ wire'.answers = wire.answers + 1 /\ (pc' = "save" => setup.mode = "record")
  <2>1. CASE Replayed
    BY <2>1 DEF EmbedCall, Goto, Raise
  <2>2. CASE ~Replayed
    BY <2>2 DEF EmbedCall, Sent, SdkRetry, SdkAgain, SdkRetried, Answers, Outcomes, Goto, Raise, TypeOK
  <2> QED BY <2>1, <2>2
<1>4. TypeOK'
  BY <1>1, <1>2, <1>3, BudgetAssumption DEF TypeOK, Labels, Business, Infra, Unknown
<1>5. Where'
  BY <1>1, <1>3 DEF Where, TypeOK
<1>6. Spent'
  BY <1>1, <1>2, <1>3, Budgets DEF Spent, SpentLoops, SpentPolicy, TypeOK, Where, First
<1>7. Books'
  BY <1>1, <1>2, <1>3 DEF Books, Seen, Unseen, OneEntryPerExtraction, Over, Business, TypeOK, Where
<1>8. Offline' /\ NeverAGuess'
  BY <1>1, <1>2, <1>3 DEF Offline, NeverAGuess, TypeOK, Where
<1> QED BY <1>4, <1>5, <1>6, <1>7, <1>8

LEMMA SaveCassetteOK == MInv /\ SaveCassette => MInv'
<1> SUFFICES ASSUME MInv, SaveCassette PROVE MInv'
  OBVIOUS
<1> USE DEF MInv, SaveCassette, Goto, Raise, Frozen
<1>1. TypeOK'
  BY BudgetAssumption DEF TypeOK, Labels, Business, Infra, Unknown, Where
<1>2. Where'
  BY BudgetAssumption DEF Where, TypeOK
<1>4. Spent'
  BY Budgets DEF Spent, SpentLoops, SpentPolicy, TypeOK, Where, First
<1>5. Books'
  BY DEF Books, Seen, Unseen, OneEntryPerExtraction, Over, Business, TypeOK, Where
<1>6. Offline' /\ NeverAGuess'
  BY DEF Offline, NeverAGuess, TypeOK, Where
<1> QED BY <1>1, <1>2, <1>4, <1>5, <1>6

LEMMA ObserveOK == MInv /\ Observe => MInv'
<1> SUFFICES ASSUME MInv, Observe PROVE MInv'
  OBVIOUS
<1> USE DEF MInv, Observe, Goto, Raise, Frozen
<1>1. TypeOK'
  BY BudgetAssumption DEF TypeOK, Labels, Business, Infra, Unknown, Where
<1>2. Where'
  BY BudgetAssumption DEF Where, TypeOK
<1>4. Spent'
  BY Budgets DEF Spent, SpentLoops, SpentPolicy, TypeOK, Where, First
<1>5. Books'
  BY DEF Books, Seen, Unseen, OneEntryPerExtraction, Over, Business, TypeOK, Where
<1>6. Offline' /\ NeverAGuess'
  BY DEF Offline, NeverAGuess, TypeOK, Where
<1> QED BY <1>1, <1>2, <1>4, <1>5, <1>6

LEMMA ParseOK == MInv /\ Parse => MInv'
<1> SUFFICES ASSUME MInv, Parse PROVE MInv'
  OBVIOUS
<1> USE DEF MInv, Parse, Goto, Raise, Frozen
<1>1. TypeOK'
  BY BudgetAssumption DEF TypeOK, Labels, Business, Infra, Unknown, Where
<1>2. Where'
  BY BudgetAssumption DEF Where, TypeOK
<1>4. Spent'
  BY Budgets DEF Spent, SpentLoops, SpentPolicy, TypeOK, Where, First
<1>5. Books'
  BY DEF Books, Seen, Unseen, OneEntryPerExtraction, Over, Business, TypeOK, Where
<1>6. Offline' /\ NeverAGuess'
  BY DEF Offline, NeverAGuess, TypeOK, Where
<1> QED BY <1>1, <1>2, <1>4, <1>5, <1>6

LEMMA EmitOK == MInv /\ Emit => MInv'
<1> SUFFICES ASSUME MInv, Emit PROVE MInv'
  OBVIOUS
<1> USE DEF MInv, Emit, Goto, Raise, Frozen
<1>1. TypeOK'
  BY BudgetAssumption DEF TypeOK, Labels, Business, Infra, Unknown, Where
<1>2. Where'
  BY BudgetAssumption DEF Where, TypeOK
<1>4. Spent'
  BY Budgets DEF Spent, SpentLoops, SpentPolicy, TypeOK, Where, First
<1>5. Books'
  BY DEF Books, Seen, Unseen, OneEntryPerExtraction, Over, Business, TypeOK, Where
<1>6. Offline' /\ NeverAGuess'
  BY DEF Offline, NeverAGuess, TypeOK, Where
<1> QED BY <1>1, <1>2, <1>4, <1>5, <1>6

LEMMA CheckDimOK == MInv /\ CheckDim => MInv'
<1> SUFFICES ASSUME MInv, CheckDim PROVE MInv'
  OBVIOUS
<1> USE DEF MInv, CheckDim, Goto, Raise, Frozen
<1>1. TypeOK'
  BY BudgetAssumption DEF TypeOK, Labels, Business, Infra, Unknown, Where
<1>2. Where'
  BY BudgetAssumption DEF Where, TypeOK
<1>4. Spent'
  BY Budgets DEF Spent, SpentLoops, SpentPolicy, TypeOK, Where, First
<1>5. Books'
  BY DEF Books, Seen, Unseen, OneEntryPerExtraction, Over, Business, TypeOK, Where
<1>6. Offline' /\ NeverAGuess'
  BY DEF Offline, NeverAGuess, TypeOK, Where
<1> QED BY <1>1, <1>2, <1>4, <1>5, <1>6

LEMMA AppendEntryOK == MInv /\ AppendEntry => MInv'
<1> SUFFICES ASSUME MInv, AppendEntry PROVE MInv'
  OBVIOUS
<1> USE DEF MInv, AppendEntry, Goto, Raise, Frozen
<1>1. TypeOK'
  BY BudgetAssumption DEF TypeOK, Labels, Business, Infra, Unknown, Where
<1>2. Where'
  BY BudgetAssumption DEF Where, TypeOK
<1>4. Spent'
  BY Budgets DEF Spent, SpentLoops, SpentPolicy, TypeOK, Where, First
<1>5. Books'
  BY DEF Books, Seen, Unseen, OneEntryPerExtraction, Over, Business, TypeOK, Where
<1>6. Offline' /\ NeverAGuess'
  BY DEF Offline, NeverAGuess, TypeOK, Where
<1> QED BY <1>1, <1>2, <1>4, <1>5, <1>6

LEMMA TakeVerdictOK == MInv /\ TakeVerdict => MInv'
<1> SUFFICES ASSUME MInv, TakeVerdict PROVE MInv'
  OBVIOUS
<1> USE DEF MInv, TakeVerdict, Goto, Raise, Frozen
<1>1. TypeOK'
  BY BudgetAssumption DEF TypeOK, Labels, Business, Infra, Unknown, Where
<1>2. Where'
  BY BudgetAssumption DEF Where, TypeOK
<1>4. Spent'
  BY Budgets DEF Spent, SpentLoops, SpentPolicy, TypeOK, Where, First
<1>5. Books'
  BY DEF Books, Seen, Unseen, OneEntryPerExtraction, Over, Business, TypeOK, Where
<1>6. Offline'
  BY DEF Offline, TypeOK, Where
<1>7. NeverAGuess'
  <2>1. PICK output \in TriageOutput : verdict' = EnforceAbstention(output)
    OBVIOUS
  <2>2. CASE output.classification = "NEEDS_HUMAN"
    BY <2>1, <2>2 DEF EnforceAbstention, TriageOutput, NeverAGuess
  <2>3. CASE output.classification # "NEEDS_HUMAN" /\ output.confidence < ABSTAIN_CONFIDENCE_FLOOR
    BY <2>1, <2>3 DEF EnforceAbstention, TriageOutput, NeverAGuess
  <2>4. CASE output.classification # "NEEDS_HUMAN" /\ ~(output.confidence < ABSTAIN_CONFIDENCE_FLOOR)
    BY <2>1, <2>4 DEF EnforceAbstention, TriageOutput, NeverAGuess, ABSTAIN_CONFIDENCE_FLOOR
  <2> QED BY <2>2, <2>3, <2>4
<1> QED BY <1>1, <1>2, <1>4, <1>5, <1>6, <1>7

LEMMA DegradeOK == MInv /\ Degrade => MInv'
<1> SUFFICES ASSUME MInv, Degrade PROVE MInv'
  OBVIOUS
<1> USE DEF MInv, Degrade, Goto, Raise, Frozen
<1>1. TypeOK'
  BY BudgetAssumption DEF TypeOK, Labels, Business, Infra, Unknown, Where
<1>2. Where'
  BY BudgetAssumption DEF Where, TypeOK
<1>4. Spent'
  BY Budgets DEF Spent, SpentLoops, SpentPolicy, TypeOK, Where, First
<1>5. Books'
  BY DEF Books, Seen, Unseen, OneEntryPerExtraction, Over, Business, TypeOK, Where
<1>6. Offline' /\ NeverAGuess'
  BY DEF Offline, NeverAGuess, TypeOK, Where
<1> QED BY <1>1, <1>2, <1>4, <1>5, <1>6

\* Only a failure that is not a business one starts the node again, with the
\* counters of a new attempt.
LEMMA WithRetriesOK == MInv /\ WithRetries => MInv'
<1> SUFFICES ASSUME MInv, WithRetries PROVE MInv'
  OBVIOUS
<1> USE DEF MInv
<1>1. UNCHANGED <<stage, setup, try, sdk, wire, audit, entries, verdict, error>> /\ stage # "triage" /\ pc = "raised"
  BY DEF WithRetries, Goto, Frozen
<1>2. CASE error \notin Business /\ attempt < Attempts /\ pc' = Entry(stage) /\ attempt' = attempt + 1 /\ reply' = 0
  <2>1. pc' = IF stage = "extract" THEN "fetch" ELSE "check"
    BY <1>2 DEF Entry
  <2>2. TypeOK'
    BY <1>1, <1>2, <2>1, BudgetAssumption DEF TypeOK, Labels
  <2>3. Where'
    BY <1>1, <1>2, <2>1 DEF Where, TypeOK
  <2>4. /\ Tries \in Nat \ {0} /\ Earlier(attempt) \in Nat /\ Sends \in Nat \ {0} /\ Embedded(attempt) \in Nat
        /\ Earlier(attempt)' = Earlier(attempt) + 2 * Tries /\ Embedded(attempt)' = Embedded(attempt) + Sends
    BY <1>2, BudgetAssumption, Rounds DEF TypeOK
  <2>5. Spent'
    BY <1>1, <1>2, <2>1, <2>4 DEF Spent, SpentLoops, SpentPolicy, TypeOK, First
  <2>6. Books'
    BY <1>1, <1>2, <2>1 DEF Books, Seen, Unseen, OneEntryPerExtraction, Over, TypeOK
  <2>7. Offline' /\ NeverAGuess'
    BY <1>1, <2>1 DEF Offline, NeverAGuess, TypeOK
  <2> QED BY <2>2, <2>3, <2>5, <2>6, <2>7
<1>3. CASE pc' = "failed" /\ UNCHANGED <<attempt, reply>>
  <2>2. TypeOK'
    BY <1>1, <1>3 DEF TypeOK, Labels
  <2>3. Where'
    BY <1>1, <1>3 DEF Where, TypeOK
  <2>5. Spent'
    BY <1>1, <1>3 DEF Spent, SpentLoops, SpentPolicy, TypeOK
  <2>6. Books'
    BY <1>1, <1>3 DEF Books, Seen, Unseen, OneEntryPerExtraction, Over, TypeOK
  <2>7. Offline' /\ NeverAGuess'
    BY <1>1, <1>3 DEF Offline, NeverAGuess, TypeOK
  <2> QED BY <2>2, <2>3, <2>5, <2>6, <2>7
<1> QED BY <1>2, <1>3 DEF WithRetries, Classify, Goto

LEMMA NextOK == MInv /\ [Next]_vars => MInv'
<1> SUFFICES ASSUME MInv, [Next]_vars PROVE MInv'
  OBVIOUS
<1>1. CASE Next
  BY <1>1, FetchDocumentOK, CheckOK, RawContentOK, RequestOK, BackoffOK, EmbedCallOK, SaveCassetteOK,
     ObserveOK, ParseOK, EmitOK, CheckDimOK, AppendEntryOK, TakeVerdictOK, DegradeOK, WithRetriesOK DEF Next
<1>2. CASE UNCHANGED vars
  <2> USE <1>2 DEF MInv, vars
  <2>1. TypeOK' /\ Where'
    BY DEF TypeOK, Where
  <2>2. Spent'
    BY DEF Spent, SpentLoops, SpentPolicy, First, Earlier, Embedded, Before
  <2>3. Books' /\ Offline' /\ NeverAGuess'
    BY DEF Books, Seen, Unseen, OneEntryPerExtraction, Over, Offline, NeverAGuess
  <2> QED BY <2>1, <2>2, <2>3
<1> QED BY <1>1, <1>2

-----------------------------------------------------------------------------
\* The inductive invariant of the model calls.
THEOREM CallsInvariant == Spec => []MInv
BY InitOK, NextOK, PTL DEF Spec

\* A node sends at most Attempts x 2 x (InfraRetries + 1) x (SdkRetries + 1)
\* requests, an embedding node Attempts x (SdkRetries + 1), and triage one
\* round of the inner loops.
THEOREM CallsBounded == Spec => []BoundedRequests
<1>1. MInv => BoundedRequests
  <2> SUFFICES ASSUME MInv PROVE BoundedRequests
    OBVIOUS
  <2>1. attempt \in 1..Attempts /\ wire.requests \in Nat /\ stage \in {"extract", "triage", "policy"}
    BY DEF MInv, TypeOK
  <2> DEFINE Limit == Attempts * (2 * Tries)
             EmbedLimit == Attempts * Sends
  <2>2. /\ Tries \in Nat /\ Sends \in Nat /\ Earlier(attempt) \in Nat /\ Earlier(1) = 0
        /\ Embedded(attempt) \in Nat
        /\ Earlier(attempt) + 2 * Tries <= Limit /\ Embedded(attempt) + Sends <= EmbedLimit
    BY <2>1, Rounds
  <2>3. Limit \in Nat /\ EmbedLimit \in Nat
    BY <2>2, BudgetAssumption
  <2> HIDE DEF Limit, EmbedLimit
  <2>4. stage = "policy" => wire.requests <= EmbedLimit
    BY <2>1, <2>2, <2>3 DEF MInv, Spent, SpentPolicy
  <2>5. stage = "triage" => wire.requests <= 2 * Tries
    BY <2>1, <2>2 DEF MInv, Spent, SpentLoops, Where
  <2>6. stage = "extract" => wire.requests <= Limit
    BY <2>1, <2>2, <2>3 DEF MInv, Spent, SpentLoops
  <2> QED BY <2>1, <2>4, <2>5, <2>6 DEF BoundedRequests, Limit, EmbedLimit, Tries, Sends
<1> QED BY <1>1, CallsInvariant, PTL

\* At most one answer per attempt is never handed to the observer; it ends
\* the attempt, and nothing is extracted from or embedded with it.
THEOREM CallsAudited == Spec => []AuditPerAnswer
<1>1. MInv => AuditPerAnswer
  BY DEF MInv, Books, Seen, AuditPerAnswer
<1> QED BY <1>1, CallsInvariant, PTL

\* A finished extraction has one ledger entry, a failed one none.
THEOREM CallsEntered == Spec => []OneEntryPerExtraction
<1>1. MInv => OneEntryPerExtraction
  BY DEF MInv, Books
<1> QED BY <1>1, CallsInvariant, PTL

\* A verdict below the confidence floor is an abstention that names no code.
THEOREM CallsNeverGuess == Spec => []NeverAGuess
<1>1. MInv => NeverAGuess
  BY DEF MInv
<1> QED BY <1>1, CallsInvariant, PTL

\* With a cassette store, replay mode sends nothing.
THEOREM CallsOffline == Spec => []ReplayStaysOffline
<1>1. MInv => ReplayStaysOffline
  BY DEF MInv, Offline, ReplayStaysOffline
<1> QED BY <1>1, CallsInvariant, PTL

\* After a deterministic failure no request leaves for the model: a step that
\* sends one starts where nothing has failed for good.
THEOREM CallsFinal == Spec => BusinessIsFinal
<1>1. MInv /\ [Next]_vars => [(error \in Business) => (wire'.requests = wire.requests)]_vars
  <2> SUFFICES ASSUME MInv, [Next]_vars, error \in Business PROVE wire'.requests = wire.requests
    OBVIOUS
  <2>1. pc \in {"raised", "done", "failed"}
    BY DEF MInv, Books, Over
  <2>2. CASE UNCHANGED vars
    BY <2>2 DEF vars
  <2>3. CASE Next
    BY <2>1, <2>3 DEF Next, FetchDocument, Check, RawContent, Request, Backoff, EmbedCall, SaveCassette,
       Observe, Parse, Emit, CheckDim, AppendEntry, TakeVerdict, Degrade, WithRetries
  <2> QED BY <2>2, <2>3
<1> QED BY <1>1, CallsInvariant, PTL DEF Spec, BusinessIsFinal
=============================================================================
