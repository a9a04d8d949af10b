----------------------------- MODULE ModelCalls -----------------------------
(***************************************************************************)
(* One stage of the graph that calls a model: the node under its retry     *)
(* policy (graph/retries.py, graph/errors.py), the agent                   *)
(* (agents/extraction.py, agents/triage.py) or the embedder, the gateway   *)
(* client's two nested loops (gateway_client/client.py) over the retries   *)
(* of the openai SDK it is built on, its cassettes and the observer that   *)
(* audits the round trips (ledger/model_calls.py).                         *)
(*                                                                         *)
(* The stage is "extract" (fetch the document, a structured call, a ledger *)
(* entry), "triage" (a structured call; the node swallows a failure) or    *)
(* "policy" (one embedding).  What the guardrails and the budget say of    *)
(* the content is chosen once, in `blocked`: it is the same at each retry. *)
(***************************************************************************)
EXTENDS Integers

CONSTANTS Attempts,       \* RetryPolicy.attempts
          InfraRetries,   \* GatewayClient infra_retries
          SdkRetries,     \* AsyncOpenAI max_retries, left at its default
          Absent

ASSUME BudgetAssumption ==
    Attempts \in Nat \ {0} /\ InfraRetries \in Nat /\ SdkRetries \in Nat

VARIABLES stage, setup,   \* setup: how the client was built and what it is given
          pc,
          attempt,        \* of the node, from 1
          reply,          \* of the structured call: 0 or 1, the corrective one
          try,            \* of the transport loop, from 0
          sdk,            \* of the SDK's loop inside one create(), from 0
          error,          \* the exception in flight, or the last one
          wire,           \* requests sent, answers received
          audit,          \* model_calls rows, observations whose row was not written
          entries,        \* committed extract.completed ledger entries
          verdict         \* what triage hands to the node

vars == <<stage, setup, pc, attempt, reply, try, sdk, error, wire, audit, entries, verdict>>

Setups == [mode : {"off", "record", "replay"},
           cassettes : BOOLEAN,      \* a cassette store is configured
           scenario : BOOLEAN,       \* a scenario is named
           telemetry : BOOLEAN,      \* a telemetry hook is configured
           ref : BOOLEAN,            \* the call is made inside a stage
           blocked : {"no", "guardrail", "budget"}]

\* The types raised along the way, and what the node boundary makes of them.
Business == {"GatewayConfigError", "GatewayBudgetError", "GatewayGuardrailError",
             "GatewayResponseError", "ValueError"}
Infra == {"GatewayTransportError", "OSError"}
Unknown == {"CassetteMissingError", "HTTPError", "DBAPIError", "HookError", "IndexError"}

\* What comes of one request: no connection or a timeout, a 5xx, one of 408,
\* 409 and 429, another 4xx, or an answer: with content, without content
\* (None) or without a choice (an embedding: without data).
Outcomes == {"connection", "server", "throttled", "rejected", "content", "empty", "bare"}
Answers == {"content", "empty", "bare"}
SdkRetried == {"connection", "server", "throttled"}

ASSUME AbsentAssumption == Absent \notin Business

\* Mutant: an unusable response is taken for a transient failure.
ClassifyResponseTransient(exc) ==
    IF exc \in Business \ {"GatewayResponseError"} THEN "BUSINESS" ELSE "INFRA"

Classify(exc) == IF exc \in Business THEN "BUSINESS" ELSE "INFRA"

Entry(s) == IF s = "extract" THEN "fetch" ELSE "check"

Init ==
    /\ stage \in {"extract", "triage", "policy"}
    /\ setup \in Setups
    /\ pc = Entry(stage)
    /\ attempt = 1 /\ reply = 0 /\ try = 0 /\ sdk = 0
    /\ error = Absent
    /\ wire = [requests |-> 0, answers |-> 0]
    /\ audit = [rows |-> 0, lost |-> 0]
    /\ entries = 0
    /\ verdict = Absent

Raise(exc) == pc' = "raised" /\ error' = exc
Goto(label) == pc' = label /\ UNCHANGED error
Frozen == UNCHANGED <<stage, setup>>

-----------------------------------------------------------------------------
\* ExtractionAgent._fetch_b64: a presigned GET of the stored document.
FetchDocument ==
    /\ pc = "fetch"
    /\ Goto("check") \/ \E exc \in {"OSError", "HTTPError"} : Raise(exc)
    /\ UNCHANGED <<attempt, reply, try, sdk, wire, audit, entries, verdict>> /\ Frozen

\* Guardrails for both kinds of call, the token budget for completions only.
Check ==
    /\ pc = "check"
    /\ IF setup.blocked = "guardrail" THEN Raise("GatewayGuardrailError")
       ELSE IF setup.blocked = "budget" /\ stage # "policy" THEN Raise("GatewayBudgetError")
       ELSE Goto(IF stage = "policy" THEN "embed" ELSE "call")
    /\ sdk' = 0
    /\ UNCHANGED <<attempt, reply, try, wire, audit, entries, verdict>> /\ Frozen

\* _raw_content before its loop: a cassette mode needs a store and a scenario,
\* and a replay answers from the cassette or fails for the lack of it.
RawContent ==
    /\ pc = "call"
    /\ IF setup.mode = "off" THEN Goto("request")
       ELSE IF ~setup.cassettes \/ ~setup.scenario THEN Raise("GatewayConfigError")
       ELSE IF setup.mode = "record" THEN Goto("request")
       ELSE Goto("observe") \/ Raise("CassetteMissingError")
    /\ wire' = IF pc' = "observe" THEN [wire EXCEPT !.answers = @ + 1] ELSE wire
    /\ try' = 0 /\ sdk' = 0
    /\ UNCHANGED <<attempt, reply, audit, entries, verdict>> /\ Frozen

\* A request leaves; an answer with nothing in it is an answer all the same.
Sent(outcome) ==
    wire' = [requests |-> wire.requests + 1,
             answers |-> wire.answers + IF outcome \in Answers THEN 1 ELSE 0]

\* The SDK sends the request again before create() says anything.
SdkAgain(outcome) == outcome \in SdkRetried /\ sdk < SdkRetries
SdkRetry(outcome) ==
    SdkAgain(outcome) /\ Sent(outcome) /\ sdk' = sdk + 1 /\ UNCHANGED <<pc, error>>

\* One request of a completion.  What is left of a failure when the SDK has
\* given up: no connection, a timeout or a 5xx is tried again after a pause,
\* a 4xx ends the call.  An answer without content or without a choice ends
\* the call too, and never reaches the observer.
Request ==
    /\ pc = "request"
    /\ \E outcome \in Outcomes :
         \/ SdkRetry(outcome)
         \/ /\ ~SdkAgain(outcome) /\ Sent(outcome) /\ UNCHANGED sdk
            /\ \/ outcome \in {"connection", "server"} /\ Goto("backoff")
               \/ outcome \in {"throttled", "rejected"} /\ Raise("GatewayConfigError")
               \/ outcome = "empty" /\ Raise("GatewayResponseError")
               \/ outcome = "bare" /\ Raise("IndexError")
               \/ outcome = "content" /\ Goto(IF setup.mode = "record" THEN "save" ELSE "observe")
    /\ UNCHANGED <<attempt, reply, try, audit, entries, verdict>> /\ Frozen

Backoff ==
    /\ pc = "backoff"
    /\ try' = try + 1 /\ sdk' = 0
    /\ IF try < InfraRetries THEN Goto("request") ELSE Raise("GatewayTransportError")
    /\ UNCHANGED <<attempt, reply, wire, audit, entries, verdict>> /\ Frozen

\* Mutant: embeddings are not observed.
EmbedCallUnobserved ==
    /\ pc = "embed"
    /\ \E outcome \in Outcomes \ {"empty"} :
         \/ SdkRetry(outcome)
         \/ /\ ~SdkAgain(outcome) /\ Sent(outcome) /\ UNCHANGED sdk
            /\ IF outcome = "content" THEN Goto("emit") ELSE Raise("GatewayTransportError")
    /\ UNCHANGED <<attempt, reply, try, audit, entries, verdict>> /\ Frozen

\* embed: a replay answers from the store; no transport loop of its own, but
\* the SDK's, and every status is a transport failure.
EmbedCall ==
    /\ pc = "embed"
    /\ IF setup.mode = "replay" /\ setup.cassettes
       THEN /\ Goto("checked") \/ Raise("CassetteMissingError")
            /\ UNCHANGED <<wire, sdk>>
       ELSE \E outcome \in Outcomes \ {"empty"} :
              \/ SdkRetry(outcome)
              \/ /\ ~SdkAgain(outcome) /\ Sent(outcome) /\ UNCHANGED sdk
                 /\ \/ outcome \notin Answers /\ Raise("GatewayTransportError")
                    \/ outcome = "bare" /\ Raise("IndexError")
                    \/ /\ outcome = "content"
                       /\ Goto(IF setup.mode = "record" /\ setup.cassettes THEN "save" ELSE "observe")
    /\ UNCHANGED <<attempt, reply, try, audit, entries, verdict>> /\ Frozen

\* Recording writes a file before the observer sees the answer.
SaveCassette ==
    /\ pc = "save"
    /\ Goto("observe") \/ Raise("OSError")
    /\ UNCHANGED <<attempt, reply, try, sdk, wire, audit, entries, verdict>> /\ Frozen

\* The observer writes a model_calls row in a transaction of its own; outside
\* a stage it writes nothing, and its failure is logged, never raised.
Observe ==
    /\ pc = "observe"
    /\ \/ setup.ref /\ audit' = [audit EXCEPT !.rows = @ + 1]
       \/ audit' = [audit EXCEPT !.lost = @ + 1]
    /\ Goto(IF stage = "policy" THEN "emit" ELSE "parse")
    /\ UNCHANGED <<attempt, reply, try, sdk, wire, entries, verdict>> /\ Frozen

\* Mutant: the reply is corrected until it fits.
ParseUntilItFits ==
    /\ pc = "parse"
    /\ \/ Goto("emit") /\ UNCHANGED reply
       \/ reply' = 1 /\ Goto("call")
    /\ UNCHANGED <<attempt, try, sdk, wire, audit, entries, verdict>> /\ Frozen

\* A reply that does not fit the schema is answered with its error, once.
Parse ==
    /\ pc = "parse"
    /\ \/ Goto("emit") /\ UNCHANGED reply
       \/ reply = 0 /\ reply' = 1 /\ Goto("call")
       \/ reply = 1 /\ UNCHANGED reply /\ Raise("GatewayResponseError")
    /\ UNCHANGED <<attempt, try, sdk, wire, audit, entries, verdict>> /\ Frozen

\* The telemetry hook is awaited unprotected.
Emit ==
    /\ pc = "emit"
    /\ \/ Goto("checked")
       \/ setup.telemetry /\ Raise("HookError")
    /\ UNCHANGED <<attempt, reply, try, sdk, wire, audit, entries, verdict>> /\ Frozen

\* GatewayEmbedder: a vector of the wrong dimension is a ValueError.
CheckDim ==
    /\ pc = "checked" /\ stage = "policy"
    /\ Goto("done") \/ Raise("ValueError")
    /\ UNCHANGED <<attempt, reply, try, sdk, wire, audit, entries, verdict>> /\ Frozen

\* Mutant: the entry is committed although the node fails after it.
AppendEntryEarly ==
    /\ pc = "checked" /\ stage = "extract"
    /\ Goto("done") \/ Raise("DBAPIError")
    /\ entries' = entries + 1
    /\ UNCHANGED <<attempt, reply, try, sdk, wire, audit, verdict>> /\ Frozen

\* ExtractionAgent.extract: the entry is appended only once there is an answer.
AppendEntry ==
    /\ pc = "checked" /\ stage = "extract"
    /\ \/ Goto("done") /\ entries' = entries + 1
       \/ Raise("DBAPIError") /\ UNCHANGED entries
    /\ UNCHANGED <<attempt, reply, try, sdk, wire, audit, verdict>> /\ Frozen

ABSTAIN_CONFIDENCE_FLOOR == 60
TriageOutput == [classification : {"PRICE_MM", "NEEDS_HUMAN"}, confidence : {0, 59, 60, 100},
                 action : {"APPROVE", "NEEDS_HUMAN"}, abstained : BOOLEAN]

\* A low-confidence verdict is rewritten; the model's own flag counts for nothing.
EnforceAbstention(o) ==
    IF o.classification = "NEEDS_HUMAN" THEN [o EXCEPT !.abstained = TRUE]
    ELSE IF o.confidence < ABSTAIN_CONFIDENCE_FLOOR
         THEN [o EXCEPT !.abstained = TRUE, !.classification = "NEEDS_HUMAN", !.action = "NEEDS_HUMAN"]
         ELSE [o EXCEPT !.abstained = FALSE]

TakeVerdict ==
    /\ pc = "checked" /\ stage = "triage"
    /\ \E output \in TriageOutput : verdict' = EnforceAbstention(output)
    /\ Goto("done")
    /\ UNCHANGED <<attempt, reply, try, sdk, wire, audit, entries>> /\ Frozen

\* Triage degrades to no recommendation whatever was raised.
Degrade ==
    /\ pc = "raised" /\ stage = "triage"
    /\ Goto("done")
    /\ UNCHANGED <<attempt, reply, try, sdk, wire, audit, entries, verdict>> /\ Frozen

\* Mutant: a document that cannot be fetched does not use up an attempt.
WithRetriesUncounted ==
    /\ pc = "raised" /\ stage # "triage"
    /\ IF Classify(error) = "INFRA" /\ attempt < Attempts
       THEN Goto(Entry(stage)) /\ attempt' = (IF error = "HTTPError" THEN attempt ELSE attempt + 1) /\ reply' = 0
       ELSE Goto("failed") /\ UNCHANGED <<attempt, reply>>
    /\ UNCHANGED <<try, sdk, wire, audit, entries, verdict>> /\ Frozen

\* with_retries: a business failure propagates at once; any other starts the
\* node again after a pause until the attempts are used up.
WithRetries ==
    /\ pc = "raised" /\ stage # "triage"
    /\ IF Classify(error) = "INFRA" /\ attempt < Attempts
       THEN Goto(Entry(stage)) /\ attempt' = attempt + 1 /\ reply' = 0
       ELSE Goto("failed") /\ UNCHANGED <<attempt, reply>>
    /\ UNCHANGED <<try, sdk, wire, audit, entries, verdict>> /\ Frozen

Next ==
    \/ FetchDocument \/ Check \/ RawContent \/ Request \/ Backoff \/ EmbedCall \/ SaveCassette
    \/ Observe \/ Parse \/ Emit \/ CheckDim \/ AppendEntry \/ TakeVerdict \/ Degrade \/ WithRetries

Spec == Init /\ [][Next]_vars /\ WF_vars(Next)

-----------------------------------------------------------------------------
Labels == {"fetch", "check", "call", "request", "backoff", "embed", "save", "observe", "parse",
           "emit", "checked", "raised", "done", "failed"}

\* The type invariant.
TypeOK ==
    /\ stage \in {"extract", "triage", "policy"} /\ setup \in Setups /\ pc \in Labels
    /\ attempt \in 1..Attempts /\ reply \in 0..1 /\ try \in 0..(InfraRetries + 1)
    /\ sdk \in 0..SdkRetries
    /\ error \in {Absent} \cup Business \cup Infra \cup Unknown
    /\ wire \in [requests : Nat, answers : Nat] /\ audit \in [rows : Nat, lost : Nat]
    /\ entries \in Nat

\* The four nested loops multiply but stay bounded: the SDK turns one create()
\* into up to SdkRetries + 1 requests, the transport loop has InfraRetries + 1
\* of them, a structured call two transport loops, and a node Attempts calls;
\* an embedding node has one create() per attempt, and triage, whose failure
\* is swallowed, one call.
BoundedRequests ==
    wire.requests <=
        CASE stage = "extract" -> Attempts * (2 * ((InfraRetries + 1) * (SdkRetries + 1)))
          [] stage = "triage"  -> 2 * ((InfraRetries + 1) * (SdkRetries + 1))
          [] stage = "policy"  -> Attempts * (SdkRetries + 1)

\* Answers that were received and never handed to the observer.
Unseen == wire.answers - (audit.rows + audit.lost)

\* What was received and what was audited never drift apart by more than one
\* answer per attempt: an answer that does not reach the observer (it had no
\* content, or its cassette was not written) ends its attempt with an error,
\* and neither an extraction nor an embedding is built on it.
AuditPerAnswer ==
    /\ Unseen \in 0..attempt
    /\ pc \notin {"save", "observe", "raised", "failed", "done"} => Unseen <= attempt - 1
    /\ stage # "triage" /\ pc = "done" => Unseen <= attempt - 1

\* A failed extraction leaves no ledger entry, a finished one exactly one,
\* however many attempts it took and wherever they failed.
OneEntryPerExtraction ==
    entries = IF stage = "extract" /\ pc = "done" THEN 1 ELSE 0

\* No verdict below the confidence floor names a code: it says NEEDS_HUMAN
\* and is marked as an abstention, whatever flag the model sent, and a
\* verdict that is not an abstention is one the model was sure of.
NeverAGuess ==
    verdict # Absent =>
        /\ verdict.abstained <=> verdict.classification = "NEEDS_HUMAN"
        /\ ~verdict.abstained => verdict.confidence >= ABSTAIN_CONFIDENCE_FLOOR

\* A deterministic failure is final: once the node saw one, no further
\* request leaves for the model.
BusinessIsFinal == [][(error \in Business) => (wire'.requests = wire.requests)]_vars

\* Whatever the gateway, the store, the database and the hooks do, the stage
\* comes to an end.
Settles == <>(pc \in {"done", "failed"})

\* "Replay mode never touches the network" (gateway_client/cassettes.py), and
\* with a store configured it does not, whatever is missing from the store.
ReplayStaysOffline == setup.mode = "replay" /\ setup.cassettes => wire.requests = 0

=============================================================================
