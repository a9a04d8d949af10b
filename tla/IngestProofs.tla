---------------------------- MODULE IngestProofs ----------------------------
(***************************************************************************)
(* Proofs about Ingest for every value of its constants: IngestInv is      *)
(* inductive, and the intake implements the abstract one of module Intake. *)
(*                                                                         *)
(* Tables only grow (Grown), so what a call or the key store knows of them *)
(* stays true; each action adds what it says of the call it moves.         *)
(***************************************************************************)
EXTENDS Ingest, SequenceTheorems, TLAPS

\* The tables keep their rows and the object store its documents.
Grown ==
    /\ Len(invoices) <= Len(invoices') /\ Len(runs) <= Len(runs')
    /\ \A i \in 1..Len(invoices) : invoices'[i] = invoices[i]
    /\ \A r \in 1..Len(runs) : runs'[r] = runs[r]
    /\ stored \subseteq stored'

\* The rows of a growing table are never taken back: a true answer stays true.
LEMMA AnswerKept ==
    ASSUME TypeOK, TypeOK', Grown, NEW a \in Answers, TrueAnswer(a)
    PROVE  TrueAnswer(a)' /\ invoices'[a.invoice] = invoices[a.invoice]
<1>1. /\ Len(invoices) \in Nat /\ Len(invoices') \in Nat
      /\ Len(runs) \in Nat /\ Len(runs') \in Nat
  BY LenProperties DEF TypeOK
<1>2. /\ a.invoice \in 1..Len(invoices) /\ a.run \in 1..Len(runs)
      /\ a.invoice \in 1..Len(invoices') /\ a.run \in 1..Len(runs')
  BY <1>1 DEF TrueAnswer, Grown
<1>3. invoices'[a.invoice] = invoices[a.invoice] /\ runs'[a.run] = runs[a.run]
  BY <1>2 DEF Grown
<1> QED
  BY <1>2, <1>3 DEF TrueAnswer

\* A document that is invoiced stays invoiced.
LEMMA InvoicedKept ==
    ASSUME TypeOK, TypeOK', Grown, NEW d, Invoiced(d)
    PROVE  Invoiced(d)'
<1>1. Len(invoices) \in Nat /\ Len(invoices') \in Nat
  BY LenProperties DEF TypeOK
<1> QED
  BY <1>1 DEF Grown, Invoiced

\* The lookup of an invoiced document finds its row.
LEMMA InvoiceOfFound ==
    ASSUME NEW d, Invoiced(d)
    PROVE  InvoiceOf(d) \in 1..Len(invoices) /\ invoices[InvoiceOf(d)] = d
BY DEF Invoiced, InvoiceOf

\* Nothing has been called yet.
LEMMA InitOK == IngestInit => IngestInv
<1> SUFFICES ASSUME IngestInit PROVE IngestInv
  OBVIOUS
<1>1. NewCall \in CallState /\ NewCall.pc = "new" /\ ~NewCall.task
  BY IngestAssumption
  DEF NewCall, CallState, NoAnswer, Answers, Channels, InFlight
<1>2. TypeOK
  BY <1>1, IngestAssumption DEF IngestInit, TypeOK, NoAnswer, Answers
<1>3. OneRunPerDocument /\ AnswersTrue /\ PipelineFindsDocument
  BY <1>1 DEF IngestInit, OneRunPerDocument, AnswersTrue, CachedTrue, AnsweredTrue,
      PipelineFindsDocument
<1>4. \A c \in Calls : CallOK(c)
  BY <1>1 DEF IngestInit, CallOK, Pending
<1> QED
  BY <1>2, <1>3, <1>4 DEF IngestInv, IngestInit

-----------------------------------------------------------------------------
(* What a step of one call leaves of the others' conjuncts *)

\* Call c is the only one that moves, and keeps its payload once it is made.
OnlyCall(c) ==
    /\ \A o \in Calls \ {c} : calls'[o] = calls[o]
    /\ calls'[c].pc # "new"
    /\ calls[c].pc # "new" =>
          /\ calls'[c].doc = calls[c].doc
          /\ calls'[c].channel = calls[c].channel
          /\ calls'[c].key = calls[c].key

\* A call that was made with a key stays a witness for its document.
LEMMA MadeWithKept ==
    ASSUME NEW c \in Calls, OnlyCall(c), NEW o \in Calls, NEW x, MadeWith(o, x)
    PROVE  MadeWith(o, x)' /\ calls'[o].doc = calls[o].doc
BY DEF OnlyCall, MadeWith

\* Answers and stored responses stay true if the moving call's is.
LEMMA AnswersKept ==
    ASSUME TypeOK, TypeOK', AnswersTrue, Grown, NEW c \in Calls, OnlyCall(c),
           AnsweredTrue(c)',
           \A x \in Channels \X Keys : cache'[x] = cache[x] \/ CachedTrue(x)'
    PROVE  AnswersTrue'
<1>1. ASSUME NEW a \in Answers, TrueAnswer(a)
      PROVE  TrueAnswer(a)' /\ invoices'[a.invoice] = invoices[a.invoice]
  BY <1>1, AnswerKept
<1>2. ASSUME NEW x \in Channels \X Keys, cache'[x] = cache[x]
      PROVE  CachedTrue(x)'
  <2> SUFFICES ASSUME cache[x] # NoAnswer PROVE CachedTrue(x)'
    BY <1>2 DEF CachedTrue
  <2>1. PICK o \in Calls : MadeWith(o, x)
                /\ calls[o].doc = invoices[cache[x].invoice]
    BY DEF AnswersTrue, CachedTrue
  <2>2. PICK a \in Answers : a = cache[x]
    BY DEF TypeOK
  <2>3. TrueAnswer(a)' /\ invoices'[a.invoice] = invoices[a.invoice]
    BY <1>1, <2>2 DEF AnswersTrue, CachedTrue
  <2>4. MadeWith(o, x)' /\ calls'[o].doc = calls[o].doc
    BY <2>1, MadeWithKept
  <2>5. cache'[x] = a
    BY <1>2, <2>2
  <2>6. TrueAnswer(cache[x])'
    BY <2>3, <2>5 DEF TrueAnswer
  <2> QED
    BY <2>1, <2>2, <2>3, <2>4, <2>5, <2>6 DEF CachedTrue
<1>3. ASSUME NEW o \in Calls \ {c} PROVE AnsweredTrue(o)'
  <2>1. calls'[o] = calls[o]
    BY DEF OnlyCall
  <2> SUFFICES ASSUME calls[o].pc = "answered" PROVE AnsweredTrue(o)'
    BY <2>1 DEF AnsweredTrue
  <2>2. PICK a \in Answers : a = calls[o].answer
    BY DEF TypeOK, CallState
  <2>3. TrueAnswer(a)' /\ invoices'[a.invoice] = invoices[a.invoice]
    BY <1>1, <2>2 DEF AnswersTrue, AnsweredTrue
  <2>4. ASSUME NEW p \in Calls, NEW x, MadeWith(p, x)
        PROVE  MadeWith(p, x)' /\ calls'[p].doc = calls[p].doc
    BY <2>4, MadeWithKept
  <2>5. TrueAnswer(calls[o].answer)'
    BY <2>1, <2>2, <2>3 DEF TrueAnswer
  <2>6. CASE calls[o].doc = invoices[calls[o].answer.invoice]
    BY <2>1, <2>2, <2>3, <2>5, <2>6 DEF AnsweredTrue
  <2>7. CASE calls[o].doc # invoices[calls[o].answer.invoice]
    <3>1. PICK p \in Calls :
             /\ MadeWith(p, <<calls[o].channel, calls[o].key>>)
             /\ calls[p].doc = invoices[calls[o].answer.invoice]
      BY <2>7 DEF AnswersTrue, AnsweredTrue
    <3>2. calls[o].key # NoKey
      BY <2>7 DEF AnswersTrue, AnsweredTrue
    <3>3. MadeWith(p, <<calls[o].channel, calls[o].key>>)'
          /\ calls'[p].doc = calls[p].doc
      <4>1. PICK x : x = <<calls[o].channel, calls[o].key>>
        OBVIOUS
      <4>2. MadeWith(p, x)' /\ calls'[p].doc = calls[p].doc
        BY <2>4, <3>1, <4>1
      <4> QED
        BY <2>1, <4>1, <4>2 DEF MadeWith
    <3> QED
      BY <2>1, <2>2, <2>3, <2>5, <3>1, <3>2, <3>3 DEF AnsweredTrue
  <2> QED
    BY <2>6, <2>7
<1>4. \A x \in Channels \X Keys : CachedTrue(x)'
  BY <1>2
<1>5. \A o \in Calls : AnsweredTrue(o)'
  BY <1>3
<1> QED
  BY <1>4, <1>5 DEF AnswersTrue

\* What a step of call c must not do to call o: invoice the document o has
\* inserted, insert it too, hand o's invoice over or accept it as well.
Spares(c, o) ==
    /\ calls[o].pc = "inserted" =>
          /\ ~Invoiced(calls[o].doc)'
          /\ calls'[c].pc = "inserted" => calls'[c].doc # calls[o].doc
    /\ Pending(o) =>
          /\ ~Handed(calls[o].answer.invoice)'
          /\ Pending(c)' => calls'[c].answer.invoice # calls[o].answer.invoice

\* A call that is spared by a step of another stays in order.
LEMMA OthersKept ==
    ASSUME TypeOK, TypeOK', Grown, NEW c \in Calls, OnlyCall(c),
           NEW o \in Calls \ {c}, CallOK(o), Spares(c, o)
    PROVE  CallOK(o)'
<1>1. calls'[o] = calls[o] /\ \A p \in Calls \ {c} : calls'[p] = calls[p]
  BY DEF OnlyCall
<1>2. PICK a \in Answers : a = calls[o].answer
  BY DEF TypeOK, CallState
<1>3. TrueAnswer(a) => TrueAnswer(a)' /\ invoices'[a.invoice] = invoices[a.invoice]
  BY AnswerKept
<1>4. TrueAnswer(calls[o].answer) =>
        /\ TrueAnswer(calls[o].answer)'
        /\ invoices'[calls'[o].answer.invoice] = invoices[calls[o].answer.invoice]
  BY <1>1, <1>2, <1>3 DEF TrueAnswer
<1>5. \A p \in Calls \ {c} : Pending(p)' <=> Pending(p)
  BY <1>1 DEF Pending
<1>6. (calls[o].pc = "inserted" =>
          /\ ~Invoiced(calls[o].doc)
          /\ \A p \in Calls \ {o} : calls[p].pc = "inserted"
                                    => calls[p].doc # calls[o].doc)'
  BY <1>1 DEF CallOK, Spares, Invoiced
<1>7. (calls[o].pc = "conflict" => Invoiced(calls[o].doc))'
  <2>1. PICK d : d = calls[o].doc
    OBVIOUS
  <2>2. Invoiced(d) => Invoiced(d)'
    BY InvoicedKept
  <2> QED
    BY <1>1, <2>1, <2>2 DEF CallOK, Invoiced
<1>8. (calls[o].pc \in {"put", "respond"} \/ calls[o].task =>
          /\ TrueAnswer(calls[o].answer)
          /\ invoices[calls[o].answer.invoice] = calls[o].doc)'
  BY <1>1, <1>4 DEF CallOK
<1>9. (calls[o].pc = "respond" /\ ~calls[o].answer.duplicate
          => calls[o].doc \in stored)'
  BY <1>1 DEF CallOK, Grown
<1>10. (Pending(o) =>
          /\ ~Handed(calls[o].answer.invoice)
          /\ \A p \in Calls \ {o} : Pending(p)
                => calls[p].answer.invoice # calls[o].answer.invoice)'
  BY <1>1, <1>5 DEF CallOK, Spares, Handed
<1> QED
  BY <1>1, <1>6, <1>7, <1>8, <1>9, <1>10 DEF CallOK

-----------------------------------------------------------------------------
(* One lemma per kind of step *)

\* Call c with another program counter, answer and task flag.
Moved(c, pc, a, t) == [calls[c] EXCEPT !.pc = pc, !.answer = a, !.task = t]

\* The fields of a moved call, and its type.
LEMMA MovedFields ==
    ASSUME TypeOK, NEW c \in Calls, NEW a \in Answers, NEW t \in BOOLEAN,
           NEW pc \in InFlight \cup {"new", "answered", "failed", "lost"}
    PROVE  LET e == Moved(c, pc, a, t) IN
           /\ e \in CallState
           /\ e.pc = pc /\ e.answer = a /\ e.task = t
           /\ e.doc = calls[c].doc /\ e.key = calls[c].key
           /\ e.channel = calls[c].channel
BY DEF TypeOK, CallState, Moved

\* The rows refer to each other and each invoice has its one live run.
RowsOK ==
    /\ \A r \in 1..Len(runs) : runs[r].invoice \in 1..Len(invoices)
    /\ \A k \in 1..Len(handed) : handed[k] \in 1..Len(invoices)
    /\ OneRunPerDocument

\* A step of call c that extends the tables, leaves c in order and spares the
\* others keeps the invariant.
LEMMA StepOK ==
    ASSUME IngestInv, TypeOK', Grown, RowsOK', PipelineFindsDocument',
           NEW c \in Calls, OnlyCall(c), AnsweredTrue(c)', CallOK(c)',
           \A x \in Channels \X Keys : cache'[x] = cache[x] \/ CachedTrue(x)',
           \A o \in Calls \ {c} : Spares(c, o)
    PROVE  IngestInv'
<1>1. AnswersTrue'
  BY AnswersKept DEF IngestInv
<1>2. ASSUME NEW o \in Calls \ {c} PROVE CallOK(o)'
  BY <1>2, OthersKept DEF IngestInv
<1>3. \A o \in Calls : CallOK(o)'
  BY <1>2
<1> QED
  BY <1>1, <1>3 DEF IngestInv, RowsOK

\* A step that changes the tables in no way.
LEMMA SameTables ==
    ASSUME IngestInv, UNCHANGED <<durable, handed>>
    PROVE  /\ Grown /\ RowsOK'
           /\ \A d : Invoiced(d)' <=> Invoiced(d)
           /\ \A i : Handed(i)' <=> Handed(i)
           /\ \A a : TrueAnswer(a)' <=> TrueAnswer(a)
<1>1. Len(invoices) \in Nat /\ Len(runs) \in Nat
  BY LenProperties DEF IngestInv, TypeOK
<1>2. Grown
  BY <1>1 DEF Grown, durable
<1> QED
  BY <1>2 DEF IngestInv, RowsOK, OneRunPerDocument, durable, Invoiced, Handed,
              TrueAnswer

\* Steps before the commit: Replay, Receive, Insert, Conflict and the failures
\* write no table; the call they move is neither accepted nor scheduled.
LEMMA QuietOK ==
    ASSUME IngestInv, UNCHANGED <<durable, cache, handed>>,
           runner' \in BOOLEAN, restarts' \in Nat, failures' \in Nat,
           NEW c \in Calls, NEW e \in CallState,
           calls' = [calls EXCEPT ![c] = e], OnlyCall(c), AnsweredTrue(c)',
           ~e.task, e.pc \notin {"put", "respond"},
           e.pc = "inserted" =>
              /\ ~Invoiced(e.doc)
              /\ \A o \in Calls \ {c} : calls[o].pc = "inserted"
                                        => calls[o].doc # e.doc,
           e.pc = "conflict" => Invoiced(e.doc)
    PROVE  IngestInv'
<1>1. /\ Grown /\ RowsOK'
      /\ \A d : Invoiced(d)' <=> Invoiced(d)
      /\ \A i : Handed(i)' <=> Handed(i)
  BY SameTables
<1>2. TypeOK'
  BY DEF IngestInv, TypeOK, durable
<1>3. calls'[c] = e /\ \A o \in Calls \ {c} : calls'[o] = calls[o]
  BY DEF IngestInv, TypeOK
<1>4. ~Pending(c)'
  BY <1>3 DEF Pending
<1>5. PipelineFindsDocument'
  BY <1>3 DEF IngestInv, PipelineFindsDocument, durable
<1>6. CallOK(c)'
  BY <1>1, <1>3, <1>4 DEF CallOK
<1>7. ASSUME NEW o \in Calls \ {c} PROVE Spares(c, o)
  <2>1. CallOK(o)
    BY DEF IngestInv
  <2> QED
    BY <1>1, <1>3, <1>4, <2>1 DEF Spares, CallOK
<1> QED
  BY <1>1, <1>2, <1>5, <1>6, <1>7, StepOK

\* Goto is a move that keeps answer and task.
LEMMA GotoMoves ==
    ASSUME TypeOK, NEW c \in Calls,
           NEW pc \in InFlight \cup {"new", "answered", "failed", "lost"}, Goto(c, pc)
    PROVE  /\ calls' = [calls EXCEPT ![c] =
                  Moved(c, pc, calls[c].answer, calls[c].task)]
           /\ calls[c].answer \in Answers /\ calls[c].task \in BOOLEAN
<1>1. calls[c].answer \in Answers /\ calls[c].task \in BOOLEAN
  BY DEF TypeOK, CallState
<1>2. [calls[c] EXCEPT !.pc = pc] = Moved(c, pc, calls[c].answer, calls[c].task)
  BY DEF TypeOK, CallState, Moved
<1> QED
  BY <1>1, <1>2 DEF Goto, TypeOK

\* A stored response is replayed to a new call: it is as true as it was.
LEMMA ReplayOK ==
    ASSUME IngestInv, NEW c \in Calls, NEW ch \in Channels, NEW d \in Documents,
           NEW k \in Keys \cup {NoKey}, Replay(c, ch, d, k)
    PROVE  IngestInv'
<1> DEFINE x == <<ch, k>>
           e == [pc |-> "answered", channel |-> ch, doc |-> d, key |-> k,
                 answer |-> cache[x], task |-> FALSE]
<1>1. x \in Channels \X Keys /\ cache[x] # NoAnswer /\ k # NoKey
  BY DEF Replay
<1>2. cache[x] \in Answers
  BY <1>1 DEF IngestInv, TypeOK
<1>3. e \in CallState
  BY <1>2 DEF CallState
<1>4. calls' = [calls EXCEPT ![c] = e] /\ calls[c].pc = "new"
  BY DEF Replay
<1>5. calls'[c] = e /\ \A o \in Calls \ {c} : calls'[o] = calls[o]
  BY <1>4 DEF IngestInv, TypeOK
<1>6. OnlyCall(c)
  BY <1>4, <1>5 DEF OnlyCall
<1>7. UNCHANGED <<durable, cache, handed>> /\ UNCHANGED <<runner, restarts, failures>>
  BY DEF Replay
<1>8. AnsweredTrue(c)'
  <2>1. PICK o \in Calls : MadeWith(o, x)
                /\ calls[o].doc = invoices[cache[x].invoice]
    BY <1>1 DEF IngestInv, AnswersTrue, CachedTrue
  <2>2. MadeWith(o, x)' /\ calls'[o].doc = calls[o].doc
    BY <1>6, <2>1, MadeWithKept
  <2>3. TrueAnswer(cache[x])
    BY <1>1 DEF IngestInv, AnswersTrue, CachedTrue
  <2>4. TrueAnswer(calls[c].answer)'
    BY <1>5, <1>7, <2>3 DEF TrueAnswer, durable
  <2>5. MadeWith(o, <<calls[c].channel, calls[c].key>>)'
    BY <1>5, <2>2 DEF MadeWith
  <2> QED
    BY <1>1, <1>5, <1>7, <2>1, <2>2, <2>4, <2>5 DEF AnsweredTrue, durable
<1>9. /\ runner' \in BOOLEAN /\ restarts' \in Nat /\ failures' \in Nat
      /\ ~e.task /\ e.pc = "answered"
  BY <1>7 DEF IngestInv, TypeOK
<1> HIDE DEF e, x
<1> QED
  BY <1>3, <1>4, <1>6, <1>7, <1>8, <1>9, QuietOK

\* A new call without a stored response.
LEMMA ReceiveOK ==
    ASSUME IngestInv, NEW c \in Calls, NEW ch \in Channels, NEW d \in Documents,
           NEW k \in Keys \cup {NoKey}, Receive(c, ch, d, k)
    PROVE  IngestInv'
<1> DEFINE e == [pc |-> "ingest", channel |-> ch, doc |-> d, key |-> k,
                 answer |-> NoAnswer, task |-> FALSE]
<1>1. e \in CallState
  BY DEF CallState, NoAnswer, Answers, InFlight
<1>2. calls' = [calls EXCEPT ![c] = e] /\ calls[c].pc = "new"
  BY DEF Receive
<1>3. calls'[c] = e /\ \A o \in Calls \ {c} : calls'[o] = calls[o]
  BY <1>2 DEF IngestInv, TypeOK
<1>4. OnlyCall(c) /\ AnsweredTrue(c)'
  BY <1>2, <1>3 DEF OnlyCall, AnsweredTrue
<1>5. UNCHANGED <<durable, cache, handed>> /\ UNCHANGED <<runner, restarts, failures>>
  BY DEF Receive
<1>6. /\ runner' \in BOOLEAN /\ restarts' \in Nat /\ failures' \in Nat
      /\ ~e.task /\ e.pc = "ingest"
  BY <1>5 DEF IngestInv, TypeOK
<1> HIDE DEF e
<1> QED
  BY <1>1, <1>2, <1>4, <1>5, <1>6, QuietOK

\* A call in flight goes on to the insert, the conflict or a failure.
LEMMA GotoOK ==
    ASSUME IngestInv, NEW c \in Calls, NEW pc \in {"inserted", "conflict", "failed"},
           Goto(c, pc), calls[c].pc \in InFlight,
           UNCHANGED <<durable, cache, handed>>,
           runner' \in BOOLEAN, restarts' \in Nat, failures' \in Nat,
           pc = "inserted" =>
              /\ ~Invoiced(calls[c].doc)
              /\ \A o \in Calls \ {c} : calls[o].pc = "inserted"
                                        => calls[o].doc # calls[c].doc,
           pc = "conflict" => Invoiced(calls[c].doc)
    PROVE  IngestInv'
<1>1. pc \in InFlight \cup {"new", "answered", "failed", "lost"}
  BY DEF InFlight
<1>2. TypeOK /\ CallOK(c)
  BY DEF IngestInv
<1>3. /\ calls' = [calls EXCEPT ![c] = Moved(c, pc, calls[c].answer, calls[c].task)]
      /\ calls[c].answer \in Answers /\ calls[c].task \in BOOLEAN
  BY <1>1, <1>2, GotoMoves
<1>4. PICK a \in Answers, t \in BOOLEAN : a = calls[c].answer /\ t = calls[c].task
  BY <1>3
<1>5. LET e == Moved(c, pc, a, t) IN
        /\ e \in CallState
        /\ e.pc = pc /\ e.answer = a /\ e.task = t
        /\ e.doc = calls[c].doc /\ e.key = calls[c].key
        /\ e.channel = calls[c].channel
  BY <1>1, <1>2, MovedFields
<1>6. PICK e \in CallState :
        /\ calls' = [calls EXCEPT ![c] = e]
        /\ e.pc = pc /\ e.task = t
        /\ e.doc = calls[c].doc /\ e.key = calls[c].key
        /\ e.channel = calls[c].channel
  BY <1>3, <1>4, <1>5
<1>7. calls'[c] = e /\ \A o \in Calls \ {c} : calls'[o] = calls[o]
  BY <1>2, <1>6 DEF TypeOK
<1>8. OnlyCall(c) /\ AnsweredTrue(c)'
  BY <1>6, <1>7 DEF OnlyCall, AnsweredTrue
<1>9. ~e.task
  BY <1>2, <1>4, <1>6 DEF CallOK, InFlight
<1>10. e.pc \notin {"put", "respond"}
  BY <1>6
<1> QED
  BY <1>6, <1>8, <1>9, <1>10, QuietOK

\* The steps that only move a call.
LEMMA GotoStepsOK ==
    ASSUME IngestInv, NEW c \in Calls,
           Insert(c) \/ Conflict(c) \/ RowsFail(c) \/ PutFail(c)
    PROVE  IngestInv'
<1>1. runner \in BOOLEAN /\ restarts \in Nat /\ failures \in Nat
  BY DEF IngestInv, TypeOK
<1>2. CASE Insert(c)
  BY <1>1, <1>2, GotoOK DEF Insert, InFlight
<1>3. CASE Conflict(c)
  BY <1>1, <1>3, GotoOK DEF Conflict, InFlight
<1>4. CASE RowsFail(c)
  BY <1>1, <1>4, GotoOK DEF RowsFail, Fault, InFlight
<1>5. CASE PutFail(c)
  BY <1>1, <1>5, GotoOK DEF PutFail, Fault, InFlight
<1> QED
  BY <1>2, <1>3, <1>4, <1>5

\* The document of an accepted call is stored; tables are unchanged.
LEMMA PutObjectOK ==
    ASSUME IngestInv, NEW c \in Calls, PutObject(c)
    PROVE  IngestInv'
<1>1. TypeOK /\ CallOK(c) /\ calls[c].pc = "put"
  BY DEF IngestInv, PutObject
<1>2. /\ calls' = [calls EXCEPT ![c] =
             Moved(c, "respond", calls[c].answer, calls[c].task)]
      /\ calls[c].answer \in Answers /\ calls[c].task \in BOOLEAN
  BY <1>1, GotoMoves DEF PutObject, InFlight
<1>3. PICK a \in Answers, t \in BOOLEAN : a = calls[c].answer /\ t = calls[c].task
  BY <1>2
<1>4. LET e == Moved(c, "respond", a, t) IN
        /\ e \in CallState
        /\ e.pc = "respond" /\ e.answer = a /\ e.task = t
        /\ e.doc = calls[c].doc /\ e.key = calls[c].key
        /\ e.channel = calls[c].channel
  BY <1>1, MovedFields DEF InFlight
<1>5. PICK e \in CallState :
        /\ calls' = [calls EXCEPT ![c] = e]
        /\ e.pc = "respond" /\ e.answer = a /\ e.task = t
        /\ e.doc = calls[c].doc /\ e.key = calls[c].key
        /\ e.channel = calls[c].channel
  BY <1>2, <1>3, <1>4
<1>6. calls'[c] = e /\ \A o \in Calls \ {c} : calls'[o] = calls[o]
  BY <1>1, <1>5 DEF TypeOK
<1>7. OnlyCall(c) /\ AnsweredTrue(c)'
  BY <1>5, <1>6 DEF OnlyCall, AnsweredTrue
<1>8. TypeOK'
  BY <1>1, <1>5 DEF PutObject, TypeOK, CallState
<1>9. Len(invoices) \in Nat /\ Len(runs) \in Nat
  BY <1>1, LenProperties DEF TypeOK
<1>10. Grown
  BY <1>9 DEF PutObject, Grown
<1>11. RowsOK'
  BY DEF PutObject, IngestInv, RowsOK, OneRunPerDocument
<1>12. PipelineFindsDocument'
  <2>1. ~calls[c].task
    BY <1>1 DEF CallOK
  <2> QED
    BY <1>3, <1>5, <1>6, <2>1 DEF IngestInv, PipelineFindsDocument, PutObject
<1>13. /\ \A d : Invoiced(d)' <=> Invoiced(d)
       /\ \A i : Handed(i)' <=> Handed(i)
       /\ \A b : TrueAnswer(b)' <=> TrueAnswer(b)
  BY DEF PutObject, Invoiced, Handed, TrueAnswer
<1>14. Pending(c) /\ ~calls[c].answer.duplicate /\ ~calls[c].task
  BY <1>1 DEF CallOK, Pending
<1>15. \A o \in Calls \ {c} : Pending(o)' <=> Pending(o)
  BY <1>6 DEF Pending
<1>16. CallOK(c)'
  <2>1. TrueAnswer(calls[c].answer) /\ invoices[calls[c].answer.invoice] = calls[c].doc
    BY <1>1 DEF CallOK
  <2>2. TrueAnswer(calls[c].answer)'
    BY <1>3, <1>5, <1>6, <2>1 DEF PutObject, TrueAnswer
  <2>3. invoices'[calls'[c].answer.invoice] = calls'[c].doc
    BY <1>3, <1>5, <1>6, <2>1 DEF PutObject
  <2>4. calls'[c].doc \in stored'
    BY <1>5, <1>6 DEF PutObject
  <2>5. ~Handed(calls[c].answer.invoice)'
    BY <1>1, <1>3, <1>5, <1>6, <1>14 DEF CallOK, Handed, PutObject
  <2>6. \A o \in Calls \ {c} : Pending(o)'
                => calls'[o].answer.invoice # calls'[c].answer.invoice
    BY <1>1, <1>3, <1>5, <1>6, <1>14, <1>15 DEF CallOK
  <2> QED
    BY <1>3, <1>5, <1>6, <1>14, <2>2, <2>3, <2>4, <2>5, <2>6 DEF CallOK
<1>17. ASSUME NEW o \in Calls \ {c} PROVE Spares(c, o)
  <2>1. CallOK(o)
    BY DEF IngestInv
  <2>2. Pending(o) => calls'[c].answer.invoice # calls[o].answer.invoice
    BY <1>1, <1>3, <1>5, <1>6, <1>14 DEF CallOK
  <2> QED
    BY <1>5, <1>6, <1>13, <2>1, <2>2 DEF Spares, CallOK
<1>18. cache' = cache
  BY DEF PutObject
<1> QED
  BY <1>7, <1>8, <1>10, <1>11, <1>12, <1>16, <1>17, <1>18, StepOK

\* What appending a run, and perhaps an invoice, leaves in place.
LEMMA AppendKeeps ==
    ASSUME NEW S, NEW s \in Seq(S), NEW v \in S
    PROVE  /\ Append(s, v) \in Seq(S)
           /\ Len(s) \in Nat /\ Len(Append(s, v)) = Len(s) + 1
           /\ \A i \in 1..Len(s) : Append(s, v)[i] = s[i]
           /\ Append(s, v)[Len(s) + 1] = v
           /\ \A i \in 1..(Len(s) + 1) : i \in 1..Len(s) \/ i = Len(s) + 1
<1>1. Len(s) \in Nat
  BY LenProperties
<1> QED
  BY <1>1, AppendProperties

\* The accepted invoice is new, and so is its run.
LEMMA CommitRowsOK ==
    ASSUME IngestInv, NEW c \in Calls, CommitRows(c)
    PROVE  IngestInv'
<1> DEFINE i == Len(invoices) + 1
           r == Len(runs) + 1
           run == [invoice |-> i, status |-> "QUEUED"]
<1>1. TypeOK /\ CallOK(c) /\ calls[c].pc = "inserted"
  BY DEF IngestInv, CommitRows
<1>2. calls[c].doc \in Documents /\ ~calls[c].task /\ ~Invoiced(calls[c].doc)
  BY <1>1 DEF TypeOK, CallState, CallOK
<1>3. /\ invoices' \in Seq(Documents)
      /\ Len(invoices) \in Nat /\ Len(invoices') = i
      /\ \A j \in 1..Len(invoices) : invoices'[j] = invoices[j]
      /\ invoices'[i] = calls[c].doc
      /\ \A j \in 1..Len(invoices') : j \in 1..Len(invoices) \/ j = i
  BY <1>1, <1>2, AppendKeeps DEF CommitRows, TypeOK
<1>4. run \in [invoice : Nat, status : {"QUEUED", "REJECTED"}]
  BY <1>3
<1>5. /\ runs' \in Seq([invoice : Nat, status : {"QUEUED", "REJECTED"}])
      /\ Len(runs) \in Nat /\ Len(runs') = r
      /\ \A s \in 1..Len(runs) : runs'[s] = runs[s]
      /\ runs'[r] = run
      /\ \A s \in 1..Len(runs') : s \in 1..Len(runs) \/ s = r
  BY <1>1, <1>4, AppendKeeps DEF CommitRows, TypeOK
<1>6. PICK a \in Answers : a = [invoice |-> i, run |-> r, duplicate |-> FALSE]
  <2>1. i \in Nat /\ r \in Nat
    BY <1>3, <1>5
  <2> HIDE DEF i, r
  <2>2. [invoice |-> i, run |-> r, duplicate |-> FALSE] \in Answers
    BY <2>1 DEF Answers
  <2> QED
    BY <2>2
<1>7. PICK e \in CallState :
        /\ calls' = [calls EXCEPT ![c] = e]
        /\ e.pc = "put" /\ e.answer = a /\ ~e.task
        /\ e.doc = calls[c].doc /\ e.key = calls[c].key
        /\ e.channel = calls[c].channel
  <2>0. PICK t \in BOOLEAN : t = calls[c].task
    BY <1>1 DEF TypeOK, CallState
  <2>1. calls' = [calls EXCEPT ![c] = Moved(c, "put", a, t)]
    <3>1. [calls[c] EXCEPT !.pc = "put", !.answer = a] = Moved(c, "put", a, t)
      BY <1>1, <2>0 DEF TypeOK, CallState, Moved
    <3> QED
      BY <1>1, <1>6, <3>1 DEF CommitRows, TypeOK
  <2>2. LET e == Moved(c, "put", a, t) IN
          /\ e \in CallState
          /\ e.pc = "put" /\ e.answer = a /\ e.task = t
          /\ e.doc = calls[c].doc /\ e.key = calls[c].key
          /\ e.channel = calls[c].channel
    BY <1>1, MovedFields DEF InFlight
  <2> QED
    BY <1>2, <2>0, <2>1, <2>2
<1>8. calls'[c] = e /\ \A o \in Calls \ {c} : calls'[o] = calls[o]
  BY <1>1, <1>7 DEF TypeOK
<1>9. OnlyCall(c) /\ AnsweredTrue(c)'
  BY <1>7, <1>8 DEF OnlyCall, AnsweredTrue
<1>10. TypeOK'
  BY <1>1, <1>3, <1>5, <1>7 DEF CommitRows, TypeOK
<1>11. Grown
  BY <1>3, <1>5 DEF Grown, CommitRows
<1>12. \A j \in 1..Len(invoices) : j \in 1..Len(invoices') /\ j # i
  BY <1>3
<1>13. \A s \in 1..Len(runs) : s \in 1..Len(runs') /\ s # r
                             /\ runs[s].invoice \in 1..Len(invoices)
  BY <1>5 DEF IngestInv
<1>14. RowsOK'
  <2>1. \A s \in 1..Len(runs') : runs'[s].invoice \in 1..Len(invoices')
    <3>1. i \in 1..Len(invoices')
      BY <1>3
    <3>2. \A s \in 1..Len(runs) : runs'[s].invoice \in 1..Len(invoices')
      BY <1>5, <1>12, <1>13
    <3>3. runs'[r].invoice = i
      BY <1>5
    <3> HIDE DEF i, r, run
    <3> QED
      BY <1>5, <3>1, <3>2, <3>3
  <2>2. \A k \in 1..Len(handed') : handed'[k] \in 1..Len(invoices')
    BY <1>12 DEF IngestInv, CommitRows
  <2>3. \A j, k \in 1..Len(invoices') : invoices'[j] = invoices'[k] => j = k
    <3>1. \A j \in 1..Len(invoices) : invoices[j] # calls[c].doc
      BY <1>2 DEF Invoiced
    <3> QED
      BY <1>3, <3>1 DEF IngestInv, OneRunPerDocument
  <2>4. \A j \in 1..Len(invoices') : \E s \in 1..Len(runs') :
           runs'[s] = [invoice |-> j, status |-> "QUEUED"]
    <3>1. ASSUME NEW j \in 1..Len(invoices)
          PROVE  \E s \in 1..Len(runs') :
                    runs'[s] = [invoice |-> j, status |-> "QUEUED"]
      BY <1>5, <1>13 DEF IngestInv, OneRunPerDocument
    <3>2. r \in 1..Len(runs')
      BY <1>5
    <3> QED
      BY <1>3, <1>5, <3>1, <3>2
  <2>5. \A s, t \in 1..Len(runs') :
           runs'[s] = runs'[t] /\ runs'[s].status = "QUEUED" => s = t
    <3>1. \A s \in 1..Len(runs) : runs'[s].invoice # i
      BY <1>5, <1>12, <1>13
    <3> QED
      BY <1>5, <3>1 DEF IngestInv, OneRunPerDocument
  <2> QED
    BY <2>1, <2>2, <2>3, <2>4, <2>5 DEF RowsOK, OneRunPerDocument
<1>15. PipelineFindsDocument'
  <2>1. \A k \in 1..Len(handed') : invoices'[handed'[k]] \in stored'
    BY <1>3 DEF IngestInv, PipelineFindsDocument, CommitRows
  <2> QED
    BY <1>7, <1>8, <2>1 DEF IngestInv, PipelineFindsDocument, CommitRows
<1>16. \A j : Handed(j)' <=> Handed(j)
  BY DEF CommitRows, Handed
<1>17. ~Handed(i)
  BY <1>12 DEF IngestInv, Handed
<1>18. ASSUME NEW o \in Calls \ {c}, Pending(o)
       PROVE  calls[o].answer.invoice # i
  <2>1. TrueAnswer(calls[o].answer)
    BY <1>18 DEF IngestInv, CallOK, Pending
  <2> QED
    BY <1>12, <2>1 DEF TrueAnswer
<1>19. \A o \in Calls \ {c} : Pending(o)' <=> Pending(o)
  BY <1>8 DEF Pending
<1>20. a.invoice = i /\ a.run = r /\ ~a.duplicate
  BY <1>6
<1>21. CallOK(c)'
  <2>1. TrueAnswer(a)'
    BY <1>3, <1>5, <1>20 DEF TrueAnswer
  <2>2. TrueAnswer(calls[c].answer)'
    BY <1>7, <1>8, <2>1 DEF TrueAnswer
  <2>3. invoices'[calls'[c].answer.invoice] = calls'[c].doc
    BY <1>3, <1>7, <1>8, <1>20
  <2>4. ~Handed(calls[c].answer.invoice)'
    BY <1>7, <1>8, <1>17, <1>20 DEF Handed, CommitRows
  <2>5. \A o \in Calls \ {c} : Pending(o)'
                => calls'[o].answer.invoice # calls'[c].answer.invoice
    BY <1>7, <1>8, <1>18, <1>19, <1>20
  <2> HIDE DEF i, r
  <2> QED
    BY <1>7, <1>8, <1>20, <2>2, <2>3, <2>4, <2>5 DEF CallOK
<1>22. ASSUME NEW o \in Calls \ {c} PROVE Spares(c, o)
  <2>1. CallOK(o) /\ CallOK(c)
    BY DEF IngestInv
  <2>2. calls[o].pc = "inserted" => ~Invoiced(calls[o].doc)'
    <3> SUFFICES ASSUME calls[o].pc = "inserted" PROVE ~Invoiced(calls[o].doc)'
      OBVIOUS
    <3>1. calls[o].doc # calls[c].doc /\ ~Invoiced(calls[o].doc)
      BY <1>1, <2>1 DEF CallOK
    <3>2. \A j \in 1..Len(invoices') : invoices'[j] # calls[o].doc
      BY <1>3, <3>1 DEF Invoiced
    <3> QED
      BY <1>8, <3>2 DEF Invoiced
  <2>3. Pending(o) => ~Handed(calls[o].answer.invoice)'
    BY <1>8, <1>16, <2>1 DEF CallOK, Handed
  <2> QED
    BY <1>7, <1>8, <1>18, <1>20, <2>2, <2>3 DEF Spares
<1>23. cache' = cache
  BY DEF CommitRows
<1> QED
  BY <1>9, <1>10, <1>11, <1>14, <1>15, <1>21, <1>22, <1>23, StepOK

\* The rejected copy's run belongs to the invoice that won.
LEMMA RecordDuplicateOK ==
    ASSUME IngestInv, NEW c \in Calls, RecordDuplicate(c)
    PROVE  IngestInv'
<1> DEFINE i == InvoiceOf(calls[c].doc)
           r == Len(runs) + 1
           run == [invoice |-> i, status |-> "REJECTED"]
<1>1. TypeOK /\ CallOK(c) /\ calls[c].pc = "conflict"
  BY DEF IngestInv, RecordDuplicate
<1>2. calls[c].doc \in Documents /\ ~calls[c].task /\ Invoiced(calls[c].doc)
  BY <1>1 DEF TypeOK, CallState, CallOK
<1>3. i \in 1..Len(invoices) /\ invoices[i] = calls[c].doc
  BY <1>2, InvoiceOfFound
<1>4. Len(invoices) \in Nat /\ i \in Nat /\ UNCHANGED <<invoices, stored, handed, cache>>
  BY <1>1, <1>3, LenProperties DEF TypeOK, RecordDuplicate
<1>5. run \in [invoice : Nat, status : {"QUEUED", "REJECTED"}]
  BY <1>4
<1>6. /\ runs' \in Seq([invoice : Nat, status : {"QUEUED", "REJECTED"}])
      /\ Len(runs) \in Nat /\ Len(runs') = r
      /\ \A s \in 1..Len(runs) : runs'[s] = runs[s]
      /\ runs'[r] = run
      /\ \A s \in 1..Len(runs') : s \in 1..Len(runs) \/ s = r
  BY <1>1, <1>5, AppendKeeps DEF RecordDuplicate, TypeOK
<1>7. PICK a \in Answers : a = [invoice |-> i, run |-> r, duplicate |-> TRUE]
  <2>1. r \in Nat
    BY <1>6
  <2> HIDE DEF i, r
  <2>2. [invoice |-> i, run |-> r, duplicate |-> TRUE] \in Answers
    BY <1>4, <2>1 DEF Answers
  <2> QED
    BY <2>2
<1>8. PICK e \in CallState :
        /\ calls' = [calls EXCEPT ![c] = e]
        /\ e.pc = "respond" /\ e.answer = a /\ ~e.task
        /\ e.doc = calls[c].doc /\ e.key = calls[c].key
        /\ e.channel = calls[c].channel
  <2>0. PICK t \in BOOLEAN : t = calls[c].task
    BY <1>1 DEF TypeOK, CallState
  <2>1. calls' = [calls EXCEPT ![c] = Moved(c, "respond", a, t)]
    <3>1. [calls[c] EXCEPT !.pc = "respond", !.answer = a] = Moved(c, "respond", a, t)
      BY <1>1, <2>0 DEF TypeOK, CallState, Moved
    <3> QED
      BY <1>1, <1>7, <3>1 DEF RecordDuplicate, TypeOK
  <2>2. LET e == Moved(c, "respond", a, t) IN
          /\ e \in CallState
          /\ e.pc = "respond" /\ e.answer = a /\ e.task = t
          /\ e.doc = calls[c].doc /\ e.key = calls[c].key
          /\ e.channel = calls[c].channel
    BY <1>1, MovedFields DEF InFlight
  <2> QED
    BY <1>2, <2>0, <2>1, <2>2
<1>9. calls'[c] = e /\ \A o \in Calls \ {c} : calls'[o] = calls[o]
  BY <1>1, <1>8 DEF TypeOK
<1>10. OnlyCall(c) /\ AnsweredTrue(c)'
  BY <1>8, <1>9 DEF OnlyCall, AnsweredTrue
<1>11. TypeOK'
  BY <1>1, <1>6, <1>8 DEF RecordDuplicate, TypeOK
<1>12. Grown
  BY <1>4, <1>6 DEF Grown
<1>13. a.invoice = i /\ a.run = r /\ a.duplicate
  BY <1>7
<1>14. RowsOK'
  <2>1. \A s \in 1..Len(runs') : runs'[s].invoice \in 1..Len(invoices')
    <3>1. \A s \in 1..Len(runs) : runs'[s].invoice \in 1..Len(invoices')
      BY <1>4, <1>6 DEF IngestInv
    <3>2. runs'[r].invoice \in 1..Len(invoices')
      BY <1>3, <1>4, <1>6
    <3> HIDE DEF i, r, run
    <3> QED
      BY <1>6, <3>1, <3>2
  <2>2. \A k \in 1..Len(handed') : handed'[k] \in 1..Len(invoices')
    BY <1>4 DEF IngestInv
  <2>3. \A j, k \in 1..Len(invoices') : invoices'[j] = invoices'[k] => j = k
    BY <1>4 DEF IngestInv, OneRunPerDocument
  <2>4. \A j \in 1..Len(invoices') : \E s \in 1..Len(runs') :
           runs'[s] = [invoice |-> j, status |-> "QUEUED"]
    BY <1>4, <1>6 DEF IngestInv, OneRunPerDocument
  <2>5. \A s, t \in 1..Len(runs') :
           runs'[s] = runs'[t] /\ runs'[s].status = "QUEUED" => s = t
    <3>1. runs'[r].status = "REJECTED"
      BY <1>6
    <3> HIDE DEF i, r, run
    <3> QED
      BY <1>6, <3>1 DEF IngestInv, OneRunPerDocument
  <2> QED
    BY <2>1, <2>2, <2>3, <2>4, <2>5 DEF RowsOK, OneRunPerDocument
<1>15. PipelineFindsDocument'
  BY <1>4, <1>8, <1>9 DEF IngestInv, PipelineFindsDocument
<1>16. ~Pending(c)'
  BY <1>8, <1>9, <1>13 DEF Pending
<1>17. CallOK(c)'
  <2>1. TrueAnswer(a)'
    BY <1>3, <1>4, <1>6, <1>13 DEF TrueAnswer
  <2>2. TrueAnswer(calls[c].answer)'
    BY <1>8, <1>9, <2>1 DEF TrueAnswer
  <2>3. invoices'[calls'[c].answer.invoice] = calls'[c].doc
    BY <1>3, <1>4, <1>8, <1>9, <1>13
  <2> HIDE DEF i, r, run
  <2> QED
    BY <1>8, <1>9, <1>13, <1>16, <2>2, <2>3 DEF CallOK
<1>18. ASSUME NEW o \in Calls \ {c} PROVE Spares(c, o)
  <2>1. CallOK(o)
    BY DEF IngestInv
  <2> HIDE DEF i, r, run
  <2> QED
    BY <1>4, <1>8, <1>9, <1>16, <2>1 DEF Spares, CallOK, Invoiced, Handed
<1> QED
  BY <1>4, <1>10, <1>11, <1>12, <1>14, <1>15, <1>17, <1>18, StepOK

\* The answer is given and stored under the call's key; it becomes true of the
\* key and of the call at once, and an accepted upload keeps its claim on its
\* invoice as a scheduled task.
LEMMA RespondOK ==
    ASSUME IngestInv, NEW c \in Calls, Respond(c)
    PROVE  IngestInv'
<1>1. TypeOK /\ CallOK(c) /\ calls[c].pc = "respond"
  BY DEF IngestInv, Respond, RespondScheduling
<1>2. PICK a \in Answers : a = calls[c].answer
  BY <1>1 DEF TypeOK, CallState
<1>3. PICK t \in BOOLEAN : t = (calls[c].channel = "upload" /\ ~a.duplicate)
  OBVIOUS
<1>4. /\ TrueAnswer(a) /\ invoices[a.invoice] = calls[c].doc
      /\ ~a.duplicate => calls[c].doc \in stored
  BY <1>1, <1>2 DEF CallOK
<1>5. UNCHANGED <<durable, handed>> /\ UNCHANGED <<runner, restarts, failures>>
  BY DEF Respond, RespondScheduling
<1>6. /\ Grown /\ RowsOK'
      /\ \A d : Invoiced(d)' <=> Invoiced(d)
      /\ \A i : Handed(i)' <=> Handed(i)
  BY <1>5, SameTables
<1>7. PICK e \in CallState :
        /\ calls' = [calls EXCEPT ![c] = e]
        /\ e.pc = "answered" /\ e.answer = a /\ e.task = t
        /\ e.doc = calls[c].doc /\ e.key = calls[c].key
        /\ e.channel = calls[c].channel
  <2>1. calls' = [calls EXCEPT ![c] = Moved(c, "answered", a, t)]
    <3>1. [calls[c] EXCEPT !.pc = "answered", !.task = t] = Moved(c, "answered", a, t)
      BY <1>1, <1>2 DEF TypeOK, CallState, Moved
    <3> QED
      BY <1>1, <1>2, <1>3, <3>1 DEF Respond, RespondScheduling, TypeOK
  <2>2. LET e == Moved(c, "answered", a, t) IN
          /\ e \in CallState
          /\ e.pc = "answered" /\ e.answer = a /\ e.task = t
          /\ e.doc = calls[c].doc /\ e.key = calls[c].key
          /\ e.channel = calls[c].channel
    BY <1>1, MovedFields DEF InFlight
  <2> QED
    BY <2>1, <2>2
<1>8. calls'[c] = e /\ \A o \in Calls \ {c} : calls'[o] = calls[o]
  BY <1>1, <1>7 DEF TypeOK
<1>9. OnlyCall(c)
  BY <1>7, <1>8 DEF OnlyCall
<1>10. TrueAnswer(a)' /\ invoices'[a.invoice] = calls[c].doc
  BY <1>4, <1>5 DEF TrueAnswer, durable
<1>11. AnsweredTrue(c)'
  <2>1. TrueAnswer(calls[c].answer)'
    BY <1>7, <1>8, <1>10 DEF TrueAnswer
  <2> QED
    BY <1>7, <1>8, <1>10, <2>1 DEF AnsweredTrue
<1>12. cache' \in [Channels \X Keys -> Answers]
  <2>1. CASE calls[c].key = NoKey
    BY <1>1, <2>1 DEF Respond, RespondScheduling, TypeOK
  <2>2. CASE calls[c].key # NoKey
    BY <1>1, <1>2, <2>2 DEF Respond, RespondScheduling, TypeOK
  <2> QED
    BY <2>1, <2>2
<1>13. TypeOK'
  BY <1>1, <1>5, <1>7, <1>12 DEF TypeOK, durable
<1>14. ASSUME NEW x \in Channels \X Keys
       PROVE  cache'[x] = cache[x] \/ CachedTrue(x)'
  <2> SUFFICES ASSUME cache'[x] # cache[x] PROVE CachedTrue(x)'
    OBVIOUS
  <2>1. x = <<calls[c].channel, calls[c].key>> /\ cache'[x] = a
    BY <1>1, <1>2 DEF Respond, RespondScheduling, TypeOK
  <2>2. MadeWith(c, x)'
    BY <1>7, <1>8, <2>1 DEF MadeWith
  <2>3. TrueAnswer(cache[x])'
    BY <1>10, <2>1 DEF TrueAnswer
  <2> QED
    BY <1>7, <1>8, <1>10, <2>1, <2>2, <2>3 DEF CachedTrue
<1>15. PipelineFindsDocument'
  <2>1. \A k \in 1..Len(handed') : invoices'[handed'[k]] \in stored'
    BY <1>5 DEF IngestInv, PipelineFindsDocument, durable
  <2>2. ASSUME NEW o \in Calls, calls'[o].task PROVE calls'[o].doc \in stored'
    <3>1. CASE o = c
      <4>1. calls'[c].task = t /\ calls'[c].doc = calls[c].doc
        BY <1>7, <1>8
      <4>2. ~a.duplicate
        BY <1>3, <2>2, <3>1, <4>1
      <4> QED
        BY <1>4, <1>5, <3>1, <4>1, <4>2 DEF durable
    <3>2. CASE o # c
      BY <1>5, <1>8, <2>2, <3>2 DEF IngestInv, PipelineFindsDocument, durable
    <3> QED
      BY <3>1, <3>2
  <2> QED
    BY <2>1, <2>2 DEF PipelineFindsDocument
<1>16. Pending(c)' => Pending(c) /\ ~a.duplicate
  BY <1>1, <1>2, <1>3, <1>7, <1>8 DEF Pending
<1>17. \A o \in Calls \ {c} : Pending(o)' <=> Pending(o)
  BY <1>8 DEF Pending
<1>18. CallOK(c)'
  <2>1. TrueAnswer(calls[c].answer)' /\ invoices'[calls'[c].answer.invoice] = calls'[c].doc
    BY <1>7, <1>8, <1>10 DEF TrueAnswer
  <2>2. Pending(c)' => ~Handed(calls[c].answer.invoice)'
    BY <1>1, <1>2, <1>5, <1>7, <1>8, <1>16 DEF CallOK, Handed
  <2>3. Pending(c)' => \A o \in Calls \ {c} : Pending(o)'
                => calls'[o].answer.invoice # calls'[c].answer.invoice
    BY <1>1, <1>2, <1>7, <1>8, <1>16, <1>17 DEF CallOK
  <2> QED
    BY <1>3, <1>7, <1>8, <2>1, <2>2, <2>3 DEF CallOK
<1>19. ASSUME NEW o \in Calls \ {c} PROVE Spares(c, o)
  <2>1. CallOK(o)
    BY DEF IngestInv
  <2>2. Pending(o) /\ Pending(c)' => calls'[c].answer.invoice # calls[o].answer.invoice
    BY <1>1, <1>2, <1>7, <1>8, <1>16 DEF CallOK
  <2> QED
    BY <1>6, <1>7, <1>8, <2>1, <2>2 DEF Spares, CallOK
<1> QED
  BY <1>6, <1>9, <1>11, <1>13, <1>14, <1>15, <1>18, <1>19, StepOK

\* A scheduled task gives up its claim on its invoice by handing it over, or
\* without a runner by dropping it.
LEMMA RunPipelineOK ==
    ASSUME IngestInv, NEW c \in Calls, RunPipeline(c)
    PROVE  IngestInv'
<1>1. TypeOK /\ CallOK(c) /\ calls[c].task /\ Pending(c)
  BY DEF IngestInv, RunPipeline, Pending
<1>2. PICK a \in Answers : a = calls[c].answer
  BY <1>1 DEF TypeOK, CallState
<1>3. /\ calls[c].pc = "answered" /\ ~a.duplicate
      /\ TrueAnswer(a) /\ invoices[a.invoice] = calls[c].doc
      /\ calls[c].doc \in stored
  BY <1>1, <1>2 DEF IngestInv, CallOK, PipelineFindsDocument
<1>4. PICK t \in BOOLEAN : t = FALSE
  OBVIOUS
<1>5. PICK e \in CallState :
        /\ calls' = [calls EXCEPT ![c] = e]
        /\ e.pc = "answered" /\ e.answer = a /\ e.task = t
        /\ e.doc = calls[c].doc /\ e.key = calls[c].key
        /\ e.channel = calls[c].channel
  <2>1. calls' = [calls EXCEPT ![c] = Moved(c, "answered", a, t)]
    <3>1. [calls[c] EXCEPT !.task = t] = Moved(c, "answered", a, t)
      BY <1>1, <1>2, <1>3 DEF TypeOK, CallState, Moved
    <3> QED
      BY <1>1, <1>4, <3>1 DEF RunPipeline, TypeOK
  <2>2. LET e == Moved(c, "answered", a, t) IN
          /\ e \in CallState
          /\ e.pc = "answered" /\ e.answer = a /\ e.task = t
          /\ e.doc = calls[c].doc /\ e.key = calls[c].key
          /\ e.channel = calls[c].channel
    BY <1>1, MovedFields DEF InFlight
  <2> QED
    BY <2>1, <2>2
<1>6. calls'[c] = e /\ \A o \in Calls \ {c} : calls'[o] = calls[o]
  BY <1>1, <1>5 DEF TypeOK
<1>7. OnlyCall(c)
  BY <1>3, <1>5, <1>6 DEF OnlyCall
<1>8. UNCHANGED durable /\ UNCHANGED <<cache, runner, restarts, failures>>
  BY DEF RunPipeline
<1>9. a.invoice \in 1..Len(invoices) /\ Len(invoices) \in Nat /\ Len(runs) \in Nat
  BY <1>1, <1>3, LenProperties DEF TypeOK, TrueAnswer
<1>10. a.invoice \in Nat /\ handed \in Seq(Nat)
  BY <1>1, <1>9 DEF TypeOK
<1>11. \/ handed' = handed
       \/ handed' = Append(handed, a.invoice)
  BY <1>2 DEF RunPipeline
<1>12. /\ handed' \in Seq(Nat)
       /\ \A k \in 1..Len(handed') :
             handed'[k] = a.invoice \/ (k \in 1..Len(handed) /\ handed'[k] = handed[k])
  <2>1. CASE handed' = handed
    BY <1>10, <2>1
  <2>2. CASE handed' = Append(handed, a.invoice)
    <3>1. /\ Append(handed, a.invoice) \in Seq(Nat)
          /\ Len(handed) \in Nat /\ Len(Append(handed, a.invoice)) = Len(handed) + 1
          /\ \A k \in 1..Len(handed) : Append(handed, a.invoice)[k] = handed[k]
          /\ Append(handed, a.invoice)[Len(handed) + 1] = a.invoice
          /\ \A k \in 1..(Len(handed) + 1) : k \in 1..Len(handed) \/ k = Len(handed) + 1
      BY <1>10, AppendKeeps
    <3> QED
      BY <2>2, <3>1
  <2> QED
    BY <1>11, <2>1, <2>2
<1>13. TypeOK'
  BY <1>1, <1>5, <1>8, <1>12 DEF TypeOK, durable
<1>14. Grown
  BY <1>8, <1>9 DEF Grown, durable
<1>15. RowsOK'
  BY <1>8, <1>9, <1>12, ZenonT(40) DEF IngestInv, RowsOK, OneRunPerDocument, durable
<1>16. \A i : Handed(i)' => Handed(i) \/ i = a.invoice
  BY <1>12 DEF Handed
<1>17. PipelineFindsDocument'
  <2>1. \A k \in 1..Len(handed') : invoices'[handed'[k]] \in stored'
    BY <1>3, <1>8, <1>12 DEF IngestInv, PipelineFindsDocument, durable
  <2> QED
    BY <1>4, <1>5, <1>6, <1>8, <2>1 DEF IngestInv, PipelineFindsDocument, durable
<1>18. ~Pending(c)'
  BY <1>4, <1>5, <1>6 DEF Pending
<1>19. TrueAnswer(calls[c].answer)' /\ invoices'[calls'[c].answer.invoice] = calls'[c].doc
  BY <1>3, <1>5, <1>6, <1>8 DEF TrueAnswer, durable
<1>20. AnsweredTrue(c)'
  BY <1>19 DEF AnsweredTrue
<1>21. CallOK(c)'
  BY <1>4, <1>5, <1>6, <1>18 DEF CallOK
<1>22. ASSUME NEW o \in Calls \ {c} PROVE Spares(c, o)
  <2>1. CallOK(o)
    BY DEF IngestInv
  <2>2. Pending(o) => calls[o].answer.invoice # a.invoice
    BY <1>1, <1>2 DEF CallOK
  <2>3. Pending(o) => ~Handed(calls[o].answer.invoice)'
    BY <1>6, <1>16, <2>1, <2>2 DEF CallOK, Handed
  <2>4. calls[o].pc = "inserted" => ~Invoiced(calls[o].doc)'
    BY <1>6, <1>8, <2>1 DEF CallOK, Invoiced, durable
  <2> QED
    BY <1>5, <1>6, <1>18, <2>3, <2>4 DEF Spares
<1> QED
  BY <1>7, <1>8, <1>13, <1>14, <1>15, <1>17, <1>20, <1>21, <1>22, StepOK

\* A restart forgets the calls in flight, the tasks and the key store, which
\* frees what they held and contradicts nothing.
LEMMA RestartOK ==
    ASSUME IngestInv, NEW built \in BOOLEAN, Restart(built)
    PROVE  IngestInv'
<1>1. TypeOK /\ UNCHANGED <<durable, handed>>
  BY DEF IngestInv, Restart
<1>2. /\ RowsOK'
      /\ \A d : Invoiced(d)' <=> Invoiced(d)
      /\ \A a : TrueAnswer(a)' <=> TrueAnswer(a)
  BY <1>1, SameTables
<1>3. \A c \in Calls :
        /\ calls'[c] \in CallState /\ ~calls'[c].task
        /\ calls'[c].pc \notin InFlight
        /\ calls'[c].pc = "new" <=> calls[c].pc = "new"
        /\ calls'[c].pc = "answered" <=> calls[c].pc = "answered"
        /\ calls'[c].doc = calls[c].doc /\ calls'[c].key = calls[c].key
        /\ calls'[c].channel = calls[c].channel
        /\ calls'[c].answer = calls[c].answer
  BY <1>1, ZenonT(40) DEF Restart, TypeOK, CallState, InFlight
<1>4. \A x \in Channels \X Keys : cache'[x] = NoAnswer
  BY DEF Restart
<1>5. TypeOK'
  <2>1. calls' \in [Calls -> CallState]
    <3>1. calls' = [c \in Calls |-> calls'[c]]
      BY DEF Restart
    <3> QED
      BY <1>3, <3>1
  <2>2. cache' \in [Channels \X Keys -> Answers]
    BY DEF Restart, NoAnswer, Answers
  <2> QED
    <3>1. restarts' \in Nat /\ failures' \in Nat
      <4>1. restarts' = restarts + 1 /\ failures' = failures
        BY DEF Restart
      <4> QED
        BY <1>1, <4>1 DEF TypeOK
    <3>2. runner' \in BOOLEAN
      BY DEF Restart
    <3> QED
      BY <1>1, <2>1, <2>2, <3>1, <3>2 DEF TypeOK, durable
<1>6. AnswersTrue'
  <2>1. ASSUME NEW c \in Calls PROVE AnsweredTrue(c)'
    <3> SUFFICES ASSUME calls[c].pc = "answered" PROVE AnsweredTrue(c)'
      BY <1>3 DEF AnsweredTrue
    <3>1. TrueAnswer(calls[c].answer)'
      BY <1>1, <1>3, ZenonT(40) DEF IngestInv, AnswersTrue, AnsweredTrue, TrueAnswer, durable
    <3>2. CASE calls[c].doc = invoices[calls[c].answer.invoice]
      BY <1>1, <1>3, <3>1, <3>2 DEF AnsweredTrue, durable
    <3>3. CASE calls[c].doc # invoices[calls[c].answer.invoice]
      <4>1. PICK o \in Calls :
               /\ MadeWith(o, <<calls[c].channel, calls[c].key>>)
               /\ calls[o].doc = invoices[calls[c].answer.invoice]
        BY <3>3 DEF IngestInv, AnswersTrue, AnsweredTrue
      <4>2. calls[c].key # NoKey
        BY <3>3 DEF IngestInv, AnswersTrue, AnsweredTrue
      <4>3. MadeWith(o, <<calls[c].channel, calls[c].key>>)'
        BY <1>3, <4>1 DEF MadeWith
      <4> QED
        BY <1>1, <1>3, <3>1, <4>1, <4>2, <4>3 DEF AnsweredTrue, durable
    <3> QED
      BY <3>2, <3>3
  <2>2. \A x \in Channels \X Keys : CachedTrue(x)'
    BY <1>4 DEF CachedTrue
  <2> QED
    BY <2>1, <2>2 DEF AnswersTrue
<1>7. PipelineFindsDocument'
  BY <1>1, <1>3 DEF IngestInv, PipelineFindsDocument, durable
<1>8. \A c \in Calls : CallOK(c)'
  BY <1>3 DEF CallOK, Pending, InFlight
<1> QED
  BY <1>2, <1>5, <1>6, <1>7, <1>8 DEF IngestInv, RowsOK

\* Every step of the intake keeps its invariant.
LEMMA NextOK == IngestInv /\ [IngestNext]_vars => IngestInv'
<1> SUFFICES ASSUME IngestInv, [IngestNext]_vars PROVE IngestInv'
  OBVIOUS
<1>1. CASE UNCHANGED vars
  BY <1>1 DEF vars, durable, IngestInv, TypeOK, OneRunPerDocument, AnswersTrue,
              CachedTrue, AnsweredTrue, TrueAnswer, MadeWith, PipelineFindsDocument,
              CallOK, Pending, Handed, Invoiced
<1>2. ASSUME NEW c \in Calls, NEW ch \in Channels, NEW d \in Documents,
             NEW k \in Keys \cup {NoKey}, Replay(c, ch, d, k) \/ Receive(c, ch, d, k)
      PROVE  IngestInv'
  BY <1>2, ReplayOK, ReceiveOK
<1>3. ASSUME NEW c \in Calls, CallStep(c) \/ RowsFail(c) \/ PutFail(c)
      PROVE  IngestInv'
  BY <1>3, GotoStepsOK, CommitRowsOK, PutObjectOK, RecordDuplicateOK, RespondOK,
     RunPipelineOK DEF CallStep
<1>4. ASSUME NEW built \in BOOLEAN, Restart(built) PROVE IngestInv'
  BY <1>4, RestartOK
<1> QED
  BY <1>1, <1>2, <1>3, <1>4 DEF IngestNext

-----------------------------------------------------------------------------
(* The abstract intake *)

\* Two rows of the same document are the same row.
LEMMA SameInvoice ==
    ASSUME OneRunPerDocument, NEW i \in 1..Len(invoices), NEW j \in 1..Len(invoices),
           invoices[i] = invoices[j]
    PROVE  i = j
BY DEF OneRunPerDocument

\* The run appended by a commit or a duplicate is the outcome appended above.
LEMMA OutcomeAppended ==
    ASSUME IngestInv, IngestInv', Grown, Len(runs') = Len(runs) + 1
    PROVE  Outcomes' = Append(Outcomes,
               [doc |-> invoices'[runs'[Len(runs')].invoice],
                duplicate |-> runs'[Len(runs')].status = "REJECTED"])
<1> DEFINE new == [doc |-> invoices'[runs'[Len(runs')].invoice],
                   duplicate |-> runs'[Len(runs')].status = "REJECTED"]
           outcome(r) == [doc |-> invoices[runs[r].invoice],
                          duplicate |-> runs[r].status = "REJECTED"]
<1>1. Len(runs) \in Nat /\ Len(runs') = Len(runs) + 1
  BY LenProperties DEF IngestInv, TypeOK
<1>2. ASSUME NEW r \in 1..Len(runs)
      PROVE  runs'[r] = runs[r] /\ invoices'[runs[r].invoice] = invoices[runs[r].invoice]
  BY <1>2 DEF Grown, IngestInv
<1>3. Outcomes = [r \in 1..Len(runs) |-> outcome(r)]
  BY DEF Outcomes
<1>4. Len(Outcomes) = Len(runs)
  BY <1>1, <1>3, LenProperties
<1>5. Append(Outcomes, new) =
        [r \in 1..(Len(runs) + 1) |-> IF r = Len(runs) + 1 THEN new ELSE Outcomes[r]]
  BY <1>1, <1>3, <1>4
<1>6. ASSUME NEW r \in 1..(Len(runs) + 1)
      PROVE  Outcomes'[r] = IF r = Len(runs) + 1 THEN new ELSE Outcomes[r]
  BY <1>1, <1>2, <1>3 DEF Outcomes
<1>7. Outcomes' = [r \in 1..(Len(runs) + 1) |-> Outcomes'[r]]
  BY <1>1 DEF Outcomes
<1> HIDE DEF new, outcome
<1>8. Outcomes' = Append(Outcomes, new)
  BY <1>5, <1>6, <1>7
<1> QED
  BY <1>8 DEF new

\* The documents handed over stay the same when only tables grow.
LEMMA StartedKept ==
    ASSUME IngestInv, Grown, handed' = handed
    PROVE  StartedDocuments' = StartedDocuments
BY DEF IngestInv, Grown, StartedDocuments

\* Steps that write no run and hand nothing over are invisible above.
LEMMA Invisible ==
    ASSUME IngestInv, UNCHANGED <<invoices, runs, handed>>
    PROVE  UNCHANGED <<Outcomes, StartedDocuments>>
BY DEF Outcomes, StartedDocuments

\* An accepted document of the abstract intake is an invoiced one.
LEMMA AcceptedIsInvoiced ==
    ASSUME IngestInv, NEW d
    PROVE  Abstract!Accepted(d) <=> Invoiced(d)
<1>1. Len(runs) \in Nat /\ Len(Outcomes) = Len(runs)
  BY LenProperties DEF IngestInv, TypeOK, Outcomes
<1>2. \A r \in 1..Len(runs) :
         /\ Outcomes[r].doc = invoices[runs[r].invoice]
         /\ Outcomes[r].duplicate <=> runs[r].status = "REJECTED"
  BY DEF Outcomes
<1>3. ASSUME Abstract!Accepted(d) PROVE Invoiced(d)
  <2>1. PICK r \in 1..Len(runs) : Outcomes[r].doc = d
    BY <1>1, <1>3 DEF Abstract!Accepted
  <2>2. runs[r].invoice \in 1..Len(invoices) /\ invoices[runs[r].invoice] = d
    BY <1>2, <2>1 DEF IngestInv
  <2> QED
    BY <2>2 DEF Invoiced
<1>4. ASSUME Invoiced(d) PROVE Abstract!Accepted(d)
  <2>1. PICK i \in 1..Len(invoices) : invoices[i] = d
    BY <1>4 DEF Invoiced
  <2>2. PICK r \in 1..Len(runs) : runs[r] = [invoice |-> i, status |-> "QUEUED"]
    BY DEF IngestInv, OneRunPerDocument
  <2>3. Outcomes[r].doc = d /\ ~Outcomes[r].duplicate
    <3>1. Outcomes[r].doc = d
      BY <1>2, <2>1, <2>2
    <3>2. Outcomes[r].duplicate <=> runs[r].status = "REJECTED"
      BY <1>2
    <3>3. runs[r].status # "REJECTED"
      BY <2>2
    <3> QED
      BY <3>1, <3>2, <3>3
  <2> QED
    BY <1>1, <2>3 DEF Abstract!Accepted
<1> QED
  BY <1>3, <1>4

\* A commit is the acceptance of a document that was not accepted before.
LEMMA CommitAccepts ==
    ASSUME IngestInv, IngestInv', NEW c \in Calls, CommitRows(c)
    PROVE  Abstract!AcceptFirst(calls[c].doc)
<1>1. CallOK(c) /\ calls[c].pc = "inserted"
  BY DEF IngestInv, CommitRows
<1>2. ~Abstract!Accepted(calls[c].doc)
  BY <1>1, AcceptedIsInvoiced DEF CallOK
<1>3. calls[c].doc \in Documents /\ Len(invoices) \in Nat /\ Len(runs) \in Nat
  BY LenProperties DEF IngestInv, TypeOK, CallState
<1>4. /\ Len(invoices') = Len(invoices) + 1
      /\ \A j \in 1..Len(invoices) : invoices'[j] = invoices[j]
      /\ invoices'[Len(invoices) + 1] = calls[c].doc
  BY <1>3, AppendKeeps DEF CommitRows, IngestInv, TypeOK
<1>5. /\ Len(runs') = Len(runs) + 1
      /\ \A r \in 1..Len(runs) : runs'[r] = runs[r]
      /\ runs'[Len(runs) + 1] = [invoice |-> Len(invoices) + 1, status |-> "QUEUED"]
  <2>1. [invoice |-> Len(invoices) + 1, status |-> "QUEUED"]
          \in [invoice : Nat, status : {"QUEUED", "REJECTED"}]
    BY <1>3
  <2> QED
    BY <2>1, AppendKeeps DEF CommitRows, IngestInv, TypeOK
<1>6. Grown
  BY <1>3, <1>4, <1>5 DEF Grown, CommitRows
<1>7. Outcomes' = Append(Outcomes, [doc |-> calls[c].doc, duplicate |-> FALSE])
  <2>1. Outcomes' = Append(Outcomes,
               [doc |-> invoices'[runs'[Len(runs')].invoice],
                duplicate |-> runs'[Len(runs')].status = "REJECTED"])
    BY <1>5, <1>6, OutcomeAppended
  <2>2. /\ invoices'[runs'[Len(runs')].invoice] = calls[c].doc
        /\ (runs'[Len(runs')].status = "REJECTED") = FALSE
    BY <1>4, <1>5
  <2> QED
    BY <2>1, <2>2
<1>8. StartedDocuments' = StartedDocuments
  BY <1>6, StartedKept DEF CommitRows
<1> QED
  BY <1>2, <1>7, <1>8 DEF Abstract!AcceptFirst

\* A recorded duplicate is the rejection of a copy of an accepted document.
LEMMA DuplicateRejects ==
    ASSUME IngestInv, IngestInv', NEW c \in Calls, RecordDuplicate(c)
    PROVE  Abstract!RejectCopy(calls[c].doc)
<1>1. CallOK(c) /\ calls[c].pc = "conflict"
  BY DEF IngestInv, RecordDuplicate
<1>2. Abstract!Accepted(calls[c].doc)
  BY <1>1, AcceptedIsInvoiced DEF CallOK
<1>3. PICK i : /\ i = InvoiceOf(calls[c].doc)
               /\ i \in 1..Len(invoices) /\ invoices[i] = calls[c].doc
  BY <1>1, InvoiceOfFound DEF CallOK
<1>4. Len(invoices) \in Nat /\ Len(runs) \in Nat /\ i \in Nat
  BY <1>3, LenProperties DEF IngestInv, TypeOK
<1>5. /\ Len(runs') = Len(runs) + 1
      /\ \A r \in 1..Len(runs) : runs'[r] = runs[r]
      /\ runs'[Len(runs) + 1] = [invoice |-> i, status |-> "REJECTED"]
  <2>1. [invoice |-> i, status |-> "REJECTED"]
          \in [invoice : Nat, status : {"QUEUED", "REJECTED"}]
    BY <1>4
  <2>2. runs' = Append(runs, [invoice |-> i, status |-> "REJECTED"])
    BY <1>3 DEF RecordDuplicate
  <2> QED
    BY <2>1, <2>2, AppendKeeps DEF IngestInv, TypeOK
<1>6. Grown
  BY <1>4, <1>5 DEF Grown, RecordDuplicate
<1>7. Outcomes' = Append(Outcomes, [doc |-> calls[c].doc, duplicate |-> TRUE])
  <2>1. Outcomes' = Append(Outcomes,
               [doc |-> invoices'[runs'[Len(runs')].invoice],
                duplicate |-> runs'[Len(runs')].status = "REJECTED"])
    BY <1>5, <1>6, OutcomeAppended
  <2>2. /\ invoices'[runs'[Len(runs')].invoice] = calls[c].doc
        /\ (runs'[Len(runs')].status = "REJECTED") = TRUE
    BY <1>3, <1>5 DEF RecordDuplicate
  <2> QED
    BY <2>1, <2>2
<1>8. StartedDocuments' = StartedDocuments
  BY <1>6, StartedKept DEF RecordDuplicate
<1> QED
  BY <1>2, <1>7, <1>8 DEF Abstract!RejectCopy

\* A background task that finds a runner is the first start of its document;
\* without a runner it is invisible.
LEMMA TaskStarts ==
    ASSUME IngestInv, IngestInv', NEW c \in Calls, RunPipeline(c)
    PROVE  \/ Abstract!StartPipeline(calls[c].doc)
           \/ UNCHANGED <<Outcomes, StartedDocuments>>
<1>1. CallOK(c) /\ calls[c].task /\ Pending(c)
  BY DEF IngestInv, RunPipeline, Pending
<1>2. PICK i : i = calls[c].answer.invoice
  OBVIOUS
<1>3. i \in 1..Len(invoices) /\ invoices[i] = calls[c].doc /\ ~Handed(i)
  BY <1>1, <1>2 DEF CallOK, TrueAnswer
<1>4. UNCHANGED <<invoices, runs>>
  BY DEF RunPipeline, durable
<1>5. CASE handed' = handed
  BY <1>4, <1>5, Invisible
<1>6. CASE handed' = Append(handed, i)
  <2>1. Len(handed) \in Nat /\ handed \in Seq(Nat) /\ i \in Nat
    BY <1>3, LenProperties DEF IngestInv, TypeOK
  <2>2. /\ Len(handed') = Len(handed) + 1
        /\ \A k \in 1..Len(handed) : handed'[k] = handed[k]
        /\ handed'[Len(handed) + 1] = i
    BY <1>6, <2>1, AppendKeeps
  <2>3. Len(StartedDocuments) = Len(handed)
    BY <2>1, LenProperties DEF StartedDocuments
  <2>4. StartedDocuments' = Append(StartedDocuments, calls[c].doc)
    <3>1. Append(StartedDocuments, calls[c].doc) =
            [k \in 1..(Len(handed) + 1) |->
                IF k = Len(handed) + 1 THEN calls[c].doc ELSE StartedDocuments[k]]
      BY <2>1, <2>3 DEF StartedDocuments
    <3>2. ASSUME NEW k \in 1..(Len(handed) + 1)
          PROVE  invoices'[handed'[k]] =
                   IF k = Len(handed) + 1 THEN calls[c].doc ELSE StartedDocuments[k]
      BY <1>3, <1>4, <2>1, <2>2 DEF StartedDocuments
    <3>3. StartedDocuments' = [k \in 1..(Len(handed) + 1) |-> invoices'[handed'[k]]]
      BY <2>2 DEF StartedDocuments
    <3> QED
      BY <3>1, <3>2, <3>3
  <2>5. ~Abstract!Started(calls[c].doc)
    <3>1. \A k \in 1..Len(handed) :
             handed[k] \in 1..Len(invoices) /\ handed[k] # i
      BY <1>3 DEF IngestInv, Handed
    <3>2. \A k \in 1..Len(handed) : StartedDocuments[k] # calls[c].doc
      BY <1>3, <3>1 DEF IngestInv, OneRunPerDocument, StartedDocuments
    <3> QED
      BY <2>3, <3>2 DEF Abstract!Started
  <2>6. Abstract!Accepted(calls[c].doc)
    BY <1>3, AcceptedIsInvoiced DEF Invoiced
  <2>7. Outcomes' = Outcomes
    BY <1>4 DEF Outcomes
  <2> QED
    BY <2>4, <2>5, <2>6, <2>7 DEF Abstract!StartPipeline
<1> QED
  BY <1>2, <1>5, <1>6 DEF RunPipeline

\* Every step of the intake is a step of the abstract intake or invisible.
LEMMA StepRefines ==
    IngestInv /\ IngestInv' /\ [IngestNext]_vars
        => [Abstract!IntakeNext]_(Abstract!intakeVars)
<1> SUFFICES ASSUME IngestInv, IngestInv', [IngestNext]_vars
             PROVE  Abstract!IntakeNext \/ UNCHANGED <<Outcomes, StartedDocuments>>
  BY DEF Abstract!intakeVars
<1>1. CASE UNCHANGED vars
  BY <1>1, Invisible DEF vars, durable
<1>2. ASSUME NEW c \in Calls, NEW ch \in Channels, NEW d \in Documents,
             NEW k \in Keys \cup {NoKey}, Replay(c, ch, d, k) \/ Receive(c, ch, d, k)
      PROVE  UNCHANGED <<Outcomes, StartedDocuments>>
  BY <1>2, Invisible DEF Replay, Receive, durable
<1>3. ASSUME NEW c \in Calls, CallStep(c) \/ RowsFail(c) \/ PutFail(c)
      PROVE  Abstract!IntakeNext \/ UNCHANGED <<Outcomes, StartedDocuments>>
  <2>1. calls[c].doc \in Documents
    BY DEF IngestInv, TypeOK, CallState
  <2>2. CASE CommitRows(c)
    BY <2>1, <2>2, CommitAccepts DEF Abstract!IntakeNext
  <2>3. CASE RecordDuplicate(c)
    BY <2>1, <2>3, DuplicateRejects DEF Abstract!IntakeNext
  <2>4. CASE RunPipeline(c)
    BY <2>1, <2>4, TaskStarts DEF Abstract!IntakeNext
  <2>5. CASE Insert(c) \/ Conflict(c) \/ PutObject(c) \/ Respond(c)
             \/ RowsFail(c) \/ PutFail(c)
    BY <2>5, Invisible
    DEF Insert, Conflict, PutObject, Respond, RespondScheduling, RowsFail, PutFail,
        durable
  <2> QED
    BY <1>3, <2>2, <2>3, <2>4, <2>5 DEF CallStep
<1>4. ASSUME NEW built \in BOOLEAN, Restart(built)
      PROVE  UNCHANGED <<Outcomes, StartedDocuments>>
  BY <1>4, Invisible DEF Restart, durable
<1> QED
  BY <1>1, <1>2, <1>3, <1>4 DEF IngestNext

-----------------------------------------------------------------------------
(* Theorems *)

\* The intake's inductive invariant, for any number of calls, documents, keys,
\* failures and restarts.
THEOREM IngestInvariant == IngestSpec => []IngestInv
<1> QED
  BY InitOK, NextOK, PTL DEF IngestSpec

\* Racing copies of a document collapse to one invoice with one live run.
THEOREM CopiesCollapse == IngestSpec => []OneRunPerDocument
<1>1. IngestInv => OneRunPerDocument
  BY DEF IngestInv
<1> QED
  BY <1>1, IngestInvariant, PTL

\* Every response, given or stored for replay, is true of the committed rows.
THEOREM ResponsesTrue == IngestSpec => []AnswersTrue
<1>1. IngestInv => AnswersTrue
  BY DEF IngestInv
<1> QED
  BY <1>1, IngestInvariant, PTL

\* The pipeline is never started before its document is in the object store.
THEOREM DocumentBeforePipeline == IngestSpec => []PipelineFindsDocument
<1>1. IngestInv => PipelineFindsDocument
  BY DEF IngestInv
<1> QED
  BY <1>1, IngestInvariant, PTL

\* The detailed intake implements the abstract one: a document is accepted
\* once, its copies are rejected, and its pipeline is started at most once.
THEOREM IntakeImplemented == IngestSpec => ImplementsIntake
<1>1. IngestInit => Abstract!IntakeInit
  <2> SUFFICES ASSUME IngestInit PROVE Outcomes = <<>> /\ StartedDocuments = <<>>
    BY DEF Abstract!IntakeInit
  <2>1. Outcomes = <<>>
    BY DEF IngestInit, Outcomes
  <2>2. StartedDocuments = <<>>
    BY DEF IngestInit, StartedDocuments
  <2> QED
    BY <2>1, <2>2
<1> QED
  BY <1>1, StepRefines, IngestInvariant, PTL
  DEF IngestSpec, ImplementsIntake, Abstract!IntakeSpec
=============================================================================
