------------------------- MODULE LedgerWriterProofs -------------------------
(***************************************************************************)
(* LedgerWriter, for any runs, writers, batch sizes and attempts: the      *)
(* ledger has no gaps, a run has one writer at a time, waiting cannot      *)
(* become circular, and the table implements the append-only AuditLog.     *)
(*                                                                         *)
(* The inductive invariant says where the uncommitted rows are: directly   *)
(* after the committed ones.  A writer that read an outdated maximum then  *)
(* either waits for the one transaction that holds the next number or      *)
(* finds its number taken.                                                 *)
(***************************************************************************)
EXTENDS LedgerWriter, FiniteSetTheorems, TLAPS

Rows == UNION {[D -> Entries] : D \in SUBSET Nat}

Top(r) == Len(table[r])
Size(w) == Cardinality(DOMAIN own[w])
Last(w) == Top(RunOf[w]) + Size(w)     \* the largest number w can see

Types ==
    /\ table \in [Runs -> Seq(Entries)]
    /\ own \in [Writers -> Rows]
    /\ pc \in [Writers -> {"read", "insert", "commit", "done", "failed"}]
    /\ seq \in [Writers -> Nat]
    /\ attempt \in [Writers -> Nat \ {0}]
    /\ \A w \in Writers : attempt[w] \in 1..Attempts[w]

\* A writer's uncommitted rows follow the committed ones of its run, it holds
\* as many as its progress says, and a number it has read is never ahead of
\* what it sees, and exact when it holds rows.
WriterInv(w) ==
    /\ Size(w) \in Nat
    /\ DOMAIN own[w] = (Top(RunOf[w]) + 1)..Last(w)
    /\ \A k \in 1..Size(w) : own[w][Top(RunOf[w]) + k] = Entry(w, k)
    /\ pc[w] \in {"read", "insert"} => Size(w) < Appends[w]
    /\ pc[w] = "commit" => Size(w) = Appends[w]
    /\ pc[w] \in {"done", "failed"} => Size(w) = 0
    /\ pc[w] = "insert" =>
          /\ seq[w] \in 1..(Last(w) + 1)
          /\ Size(w) # 0 => seq[w] = Last(w) + 1

LInv == Types /\ (\A w \in Writers : WriterInv(w)) /\ OneWriterPerRun

-----------------------------------------------------------------------------
\* The largest number of a gap-free prefix.
LEMMA MaxOfInterval == ASSUME NEW n \in Nat PROVE MaxSeq(1..n) = n
<1>1. CASE n = 0
  BY <1>1 DEF MaxSeq
<1>2. CASE n # 0
  <2>1. 1..n # {} /\ n \in 1..n /\ \A s \in 1..n : s <= n
    BY <1>2
  <2>2. \A m \in 1..n : (\A s \in 1..n : s <= m) => m = n
    BY <2>1
  <2> QED BY <2>1, <2>2 DEF MaxSeq
<1> QED BY <1>1, <1>2

LEMMA SizeOfInterval == ASSUME NEW a \in Nat, NEW n \in Nat PROVE Cardinality((a + 1)..(a + n)) = n
<1>1. Cardinality((a + 1)..(a + n)) = IF a + 1 > a + n THEN 0 ELSE (a + n) - (a + 1) + 1
  BY FS_Interval
<1> QED BY <1>1

LEMMA EmptyOwn == DOMAIN << >> = {} /\ Cardinality(DOMAIN << >>) = 0 /\ << >> \in Rows
<1>1. DOMAIN << >> = {} /\ << >> \in Seq(Entries) /\ << >> \in [{} -> Entries]
  OBVIOUS
<1>2. {} \in SUBSET Nat
  OBVIOUS
<1> QED BY <1>1, <1>2, FS_EmptySet DEF Rows

\* Where a writer's rows are, and that it holds none exactly when its size is 0.
LEMMA HoldsNothing ==
    ASSUME LInv, NEW w \in Writers
    PROVE  /\ RunOf[w] \in Runs /\ Top(RunOf[w]) \in Nat /\ Last(w) \in Nat
           /\ DOMAIN table[RunOf[w]] = 1..Top(RunOf[w])
           /\ Size(w) \in Nat /\ Last(w) = Top(RunOf[w]) + Size(w)
           /\ DOMAIN own[w] = (Top(RunOf[w]) + 1)..Last(w)
           /\ DOMAIN own[w] = {} <=> Size(w) = 0
<1>1. RunOf[w] \in Runs /\ table[RunOf[w]] \in Seq(Entries)
  BY WriterAssumption DEF LInv, Types
<1>2. Top(RunOf[w]) \in Nat /\ DOMAIN table[RunOf[w]] = 1..Top(RunOf[w])
  BY <1>1 DEF Top
<1>3. Size(w) \in Nat /\ DOMAIN own[w] = (Top(RunOf[w]) + 1)..(Top(RunOf[w]) + Size(w))
  BY DEF LInv, WriterInv, Last
<1> HIDE DEF Top, Size
<1>4. DOMAIN own[w] = {} <=> Size(w) = 0
  BY <1>2, <1>3
<1> QED BY <1>1, <1>2, <1>3, <1>4 DEF Last

-----------------------------------------------------------------------------
\* A step that leaves a writer and its run's rows alone keeps its invariant.
LEMMA Untouched ==
    ASSUME NEW v \in Writers, WriterInv(v),
           own'[v] = own[v], table'[RunOf[v]] = table[RunOf[v]],
           pc'[v] = pc[v], seq'[v] = seq[v], attempt'[v] = attempt[v]
    PROVE  WriterInv(v)' /\ Size(v)' = Size(v) /\ Last(v)' = Last(v)
<1>1. Size(v)' = Size(v) /\ Top(RunOf[v])' = Top(RunOf[v]) /\ Last(v)' = Last(v)
  BY DEF Size, Top, Last
<1>2. \A k : Entry(v, k)' = Entry(v, k)
  BY DEF Entry
<1> QED BY <1>1, <1>2 DEF WriterInv

\* A writer without rows keeps its invariant when its run's log grows.
LEMMA LogGrows ==
    ASSUME NEW v \in Writers, WriterInv(v), Size(v) = 0,
           Top(RunOf[v]) \in Nat, Top(RunOf[v])' \in Nat, Top(RunOf[v])' >= Top(RunOf[v]),
           own'[v] = own[v], pc'[v] = pc[v], seq'[v] = seq[v], attempt'[v] = attempt[v]
    PROVE  WriterInv(v)'
<1>1. Size(v)' = 0 /\ Last(v)' = Top(RunOf[v])' /\ Last(v) = Top(RunOf[v])
  BY DEF Size, Last
<1>2. DOMAIN own'[v] = {}
  BY DEF WriterInv, Last
<1>3. DOMAIN own'[v] = (Top(RunOf[v])' + 1)..Last(v)'
  BY <1>1, <1>2
<1>4. pc[v] = "insert" => seq[v] \in 1..(Top(RunOf[v])' + 1)
  BY <1>1 DEF WriterInv
<1> QED BY <1>1, <1>3, <1>4 DEF WriterInv

\* A writer without rows that is not about to insert or to commit.
LEMMA NoRows ==
    ASSUME NEW w \in Writers, Top(RunOf[w])' \in Nat, own'[w] = << >>,
           pc'[w] \in {"read", "done", "failed"}
    PROVE  WriterInv(w)'
<1>1. Size(w)' = 0 /\ DOMAIN own'[w] = {} /\ Last(w)' = Top(RunOf[w])'
  BY EmptyOwn DEF Size, Last
<1>2. Appends[w] \in Nat \ {0}
  BY WriterAssumption
<1> QED BY <1>1, <1>2 DEF WriterInv

\* Initially nobody holds anything.
LEMMA LedgerInitInv == LedgerInit => LInv
<1> SUFFICES ASSUME LedgerInit PROVE LInv
  OBVIOUS
<1> USE WriterAssumption DEF LedgerInit
<1>1. Types
  <2>1. << >> \in Seq(Entries) /\ << >> \in Rows
    BY EmptyOwn
  <2> QED BY <2>1 DEF Types
<1>2. \A w \in Writers : Size(w) = 0 /\ Top(RunOf[w]) = 0 /\ Last(w) = 0 /\ DOMAIN own[w] = {}
  BY EmptyOwn DEF Size, Top, Last
<1>3. \A w \in Writers : WriterInv(w)
  BY <1>2 DEF WriterInv
<1>4. OneWriterPerRun
  BY <1>2 DEF OneWriterPerRun
<1> QED BY <1>1, <1>3, <1>4 DEF LInv

\* A read sees an interval.
LEMMA NextSeqInv == ASSUME LInv, NEW w \in Writers, NextSeq(w) PROVE LInv'
<1>1. seq'[w] = Last(w) + 1 /\ Last(w) \in Nat
  <2>1. Visible(w) = 1..Last(w)
    <3>1. /\ DOMAIN table[RunOf[w]] = 1..Top(RunOf[w]) /\ Top(RunOf[w]) \in Nat
          /\ Size(w) \in Nat /\ Last(w) = Top(RunOf[w]) + Size(w)
          /\ DOMAIN own[w] = (Top(RunOf[w]) + 1)..Last(w)
      BY HoldsNothing
    <3> HIDE DEF Top, Size, Last
    <3> QED BY <3>1 DEF Visible
  <2>2. Last(w) \in Nat
    BY HoldsNothing
  <2>3. MaxSeq(Visible(w)) = Last(w)
    BY <2>1, <2>2, MaxOfInterval
  <2> QED BY <2>2, <2>3 DEF NextSeq, LInv, Types
<1>2. Types'
  BY <1>1 DEF NextSeq, LInv, Types
<1>3. ASSUME NEW v \in Writers, v # w PROVE WriterInv(v)'
  BY <1>3, Untouched DEF NextSeq, LInv, Types
<1>4. WriterInv(w)'
  <2>1. pc[w] = "read" /\ pc'[w] = "insert" /\ own'[w] = own[w] /\ attempt'[w] = attempt[w]
        /\ table' = table
    BY DEF NextSeq, LInv, Types
  <2>2. Size(w)' = Size(w) /\ Top(RunOf[w])' = Top(RunOf[w]) /\ Last(w)' = Last(w)
        /\ \A k : Entry(w, k)' = Entry(w, k)
    BY <2>1 DEF Size, Top, Last, Entry
  <2>3. WriterInv(w)
    BY DEF LInv
  <2> HIDE DEF Size, Top, Last
  <2> QED BY <1>1, <2>1, <2>2, <2>3 DEF WriterInv
<1>5. OneWriterPerRun'
  BY DEF NextSeq, LInv, OneWriterPerRun
<1> QED BY <1>2, <1>3, <1>4, <1>5 DEF LInv

\* An insert that is neither taken nor held by another writer is the next
\* number, and nobody else holds rows of the run.
LEMMA InsertIsNext ==
    ASSUME LInv, NEW w \in Writers, Insert(w)
    PROVE  /\ seq[w] = Last(w) + 1
           /\ \A v \in Writers : v # w /\ RunOf[v] = RunOf[w] => DOMAIN own[v] = {}
<1> USE WriterAssumption
<1>1. /\ DOMAIN table[RunOf[w]] = 1..Top(RunOf[w]) /\ Top(RunOf[w]) \in Nat
      /\ Last(w) \in Nat /\ Size(w) \in Nat /\ Last(w) = Top(RunOf[w]) + Size(w)
      /\ DOMAIN own[w] = {} <=> Size(w) = 0
  BY HoldsNothing
<1>2. /\ seq[w] \in Nat /\ seq[w] >= 1 /\ seq[w] <= Last(w) + 1
      /\ Size(w) # 0 => seq[w] = Last(w) + 1
      /\ seq[w] \notin DOMAIN table[RunOf[w]]
  BY <1>1 DEF Insert, LInv, WriterInv, Types, Taken
<1>3. seq[w] = Last(w) + 1
  <2> HIDE DEF Top, Size, Last
  <2> QED BY <1>1, <1>2
<1>4. ASSUME NEW v \in Writers, v # w, RunOf[v] = RunOf[w], DOMAIN own[v] # {}
      PROVE FALSE
  <2>1. DOMAIN own[w] = {}
    BY <1>4 DEF LInv, OneWriterPerRun
  <2>2. seq[w] = Top(RunOf[v]) + 1
    BY <2>1, <1>1, <1>3, <1>4
  <2>3. /\ DOMAIN own[v] = (Top(RunOf[v]) + 1)..Last(v) /\ Size(v) \in Nat
        /\ Last(v) = Top(RunOf[v]) + Size(v) /\ Size(v) # 0 /\ Top(RunOf[v]) \in Nat
    BY <1>4, HoldsNothing
  <2>4. seq[w] \in DOMAIN own[v]
    <3> HIDE DEF Top, Size, Last
    <3> QED BY <2>2, <2>3
  <2> QED BY <2>4, <1>4 DEF Insert, WaitsFor
<1> QED BY <1>3, <1>4

LEMMA InsertInv == ASSUME LInv, NEW w \in Writers, Insert(w) PROVE LInv'
<1>0. /\ seq[w] = Last(w) + 1 /\ DOMAIN own[w] = (Top(RunOf[w]) + 1)..Last(w)
      /\ Size(w) \in Nat /\ Top(RunOf[w]) \in Nat /\ Last(w) = Top(RunOf[w]) + Size(w)
      /\ \A v \in Writers : v # w /\ RunOf[v] = RunOf[w] => DOMAIN own[v] = {}
  BY InsertIsNext, HoldsNothing
<1>1. /\ own' = [own EXCEPT ![w] = WithRow(w)] /\ own'[w] = WithRow(w)
      /\ \A v \in Writers : v # w => own'[v] = own[v] /\ pc'[v] = pc[v]
      /\ table' = table /\ seq' = seq /\ attempt' = attempt /\ pc[w] = "insert"
      /\ pc'[w] = IF Cardinality(DOMAIN WithRow(w)) < Appends[w] THEN "read" ELSE "commit"
  BY DEF Insert, LInv, Types
<1>2. DOMAIN WithRow(w) = (Top(RunOf[w]) + 1)..(Last(w) + 1)
  <2>1. DOMAIN WithRow(w) = DOMAIN own[w] \cup {seq[w]}
    BY DEF WithRow
  <2> HIDE DEF Top, Size, Last
  <2> QED BY <2>1, <1>0
<1>3. Cardinality(DOMAIN WithRow(w)) = Size(w) + 1
  <2>1. Last(w) + 1 = Top(RunOf[w]) + (Size(w) + 1) /\ Size(w) + 1 \in Nat
    BY <1>0
  <2> HIDE DEF Top, Size, Last
  <2>2. Cardinality((Top(RunOf[w]) + 1)..(Top(RunOf[w]) + (Size(w) + 1))) = Size(w) + 1
    BY <2>1, <1>0, SizeOfInterval
  <2> QED BY <2>1, <2>2, <1>2
<1>4. WithRow(w) \in Rows
  <2>1. PICK D \in SUBSET Nat : own[w] \in [D -> Entries]
    BY DEF LInv, Types, Rows
  <2>2. Entry(w, Cardinality(DOMAIN own[w]) + 1) \in Entries
    BY <1>0 DEF Entry, Entries, LInv, Types, Size
  <2>3. seq[w] \in Nat
    BY DEF LInv, Types
  <2>4. WithRow(w) \in [D \cup {seq[w]} -> Entries] /\ D \cup {seq[w]} \in SUBSET Nat
    BY <2>1, <2>2, <2>3 DEF WithRow
  <2> QED BY <2>4 DEF Rows
<1>5. Types'
  <2>1. own' \in [Writers -> Rows]
    BY <1>1, <1>4 DEF LInv, Types
  <2>2. pc' \in [Writers -> {"read", "insert", "commit", "done", "failed"}]
    BY DEF Insert, LInv, Types
  <2> QED BY <2>1, <2>2, <1>1 DEF LInv, Types
<1>6. ASSUME NEW v \in Writers, v # w PROVE WriterInv(v)'
  BY <1>1, <1>6, Untouched DEF LInv
<1>7. WriterInv(w)'
  <2>1. Size(w)' = Size(w) + 1 /\ Top(RunOf[w])' = Top(RunOf[w]) /\ Last(w)' = Last(w) + 1
    <3>1. Size(w)' = Cardinality(DOMAIN WithRow(w))
      BY <1>1 DEF Size
    <3>2. Top(RunOf[w])' = Top(RunOf[w])
      BY <1>1 DEF Top
    <3>3. Last(w)' = Top(RunOf[w])' + Size(w)'
      BY DEF Last
    <3> HIDE DEF Size, Top, Last
    <3> QED BY <3>1, <3>2, <3>3, <1>0, <1>3
  <2>2. \A k : Entry(w, k)' = Entry(w, k)
    BY <1>1 DEF Entry
  <2>3. WriterInv(w) /\ Appends[w] \in Nat
    BY WriterAssumption DEF LInv
  <2>4. ASSUME NEW k \in 1..(Size(w) + 1)
        PROVE own'[w][Top(RunOf[w]) + k] = Entry(w, k)
    <3>1. CASE k = Size(w) + 1
      <4>1. Top(RunOf[w]) + k = seq[w]
        BY <3>1, <1>0
      <4>2. WithRow(w)[seq[w]] = Entry(w, Size(w) + 1)
        BY DEF WithRow, Size
      <4> QED BY <3>1, <4>1, <4>2, <1>1
    <3>2. CASE k # Size(w) + 1
      <4>1. k \in 1..Size(w) /\ Top(RunOf[w]) + k # seq[w]
            /\ Top(RunOf[w]) + k \in (Top(RunOf[w]) + 1)..Last(w)
        <5> HIDE DEF Top, Size, Last
        <5> QED BY <3>2, <1>0
      <4>2. WithRow(w)[Top(RunOf[w]) + k] = own[w][Top(RunOf[w]) + k]
        BY <4>1, <1>0 DEF WithRow
      <4>3. own[w][Top(RunOf[w]) + k] = Entry(w, k)
        BY <4>1, <2>3 DEF WriterInv
      <4> QED BY <4>2, <4>3, <1>1
    <3> QED BY <3>1, <3>2
  <2>5. pc[w] = "insert" /\ Size(w) < Appends[w] /\ Size(w) \in Nat
    BY <2>3, <1>1 DEF WriterInv
  <2>6. /\ pc'[w] = "read" => Size(w) + 1 < Appends[w]
        /\ pc'[w] = "commit" => Size(w) + 1 = Appends[w]
        /\ pc'[w] \in {"read", "commit"}
    <3> HIDE DEF Size
    <3> QED BY <1>1, <1>3, <2>3, <2>5
  <2>7. DOMAIN own'[w] = (Top(RunOf[w])' + 1)..Last(w)'
    BY <1>1, <1>2, <2>1
  <2> HIDE DEF Size, Top, Last
  <2> QED BY <2>1, <2>2, <2>4, <2>5, <2>6, <2>7 DEF WriterInv
<1>8. OneWriterPerRun'
  BY <1>0, <1>1 DEF LInv, OneWriterPerRun
<1> QED BY <1>5, <1>6, <1>7, <1>8 DEF LInv

\* A rollback, typed: the attempt it starts is one of the writer's.
LEMMA AbortTypes ==
    ASSUME Types, NEW w \in Writers, Abort(w)
    PROVE  /\ own' \in [Writers -> Rows] /\ seq' \in [Writers -> Nat]
           /\ attempt' \in [Writers -> Nat \ {0}]
           /\ pc' \in [Writers -> {"read", "insert", "commit", "done", "failed"}]
           /\ \A v \in Writers : attempt'[v] \in 1..Attempts[v]
<1>1. own' \in [Writers -> Rows] /\ seq' \in [Writers -> Nat]
  BY EmptyOwn DEF Abort, Types
<1>2. attempt[w] \in Nat \ {0} /\ Attempts[w] \in Nat \ {0} /\ attempt \in [Writers -> Nat \ {0}]
      /\ \A v \in Writers : attempt[v] \in 1..Attempts[v]
  BY WriterAssumption DEF Types
<1>3. CASE attempt[w] < Attempts[w]
  <2>1. attempt' = [attempt EXCEPT ![w] = attempt[w] + 1] /\ pc' = [pc EXCEPT ![w] = "read"]
    BY <1>3 DEF Abort
  <2>2. attempt[w] + 1 \in Nat \ {0} /\ attempt[w] + 1 \in 1..Attempts[w]
    BY <1>2, <1>3
  <2>3. attempt' \in [Writers -> Nat \ {0}] /\ attempt'[w] = attempt[w] + 1
        /\ \A v \in Writers : v # w => attempt'[v] = attempt[v]
    BY <1>2, <2>1, <2>2
  <2>4. \A v \in Writers : attempt'[v] \in 1..Attempts[v]
    BY <1>2, <2>2, <2>3
  <2> QED BY <1>1, <2>1, <2>3, <2>4 DEF Types
<1>4. CASE ~(attempt[w] < Attempts[w])
  <2>1. attempt' = attempt /\ pc' = [pc EXCEPT ![w] = "failed"]
    BY <1>4 DEF Abort
  <2> QED BY <1>1, <1>2, <2>1 DEF Types
<1> QED BY <1>3, <1>4

\* A rollback takes only the writer's own rows away.
LEMMA AbortInv == ASSUME LInv, NEW w \in Writers, Abort(w), UNCHANGED table PROVE LInv'
<1>1. /\ own'[w] = << >> /\ pc'[w] \in {"read", "failed"}
      /\ \A v \in Writers : v # w =>
            own'[v] = own[v] /\ pc'[v] = pc[v] /\ seq'[v] = seq[v] /\ attempt'[v] = attempt[v]
  BY DEF Abort, LInv, Types
<1>2. Types'
  BY AbortTypes DEF LInv, Types
<1>3. ASSUME NEW v \in Writers, v # w PROVE WriterInv(v)'
  BY <1>1, <1>3, Untouched DEF LInv
<1>4. WriterInv(w)'
  <2>1. Top(RunOf[w])' = Top(RunOf[w]) /\ Top(RunOf[w]) \in Nat
    BY HoldsNothing DEF Top
  <2> QED BY <1>1, <2>1, NoRows
<1>5. OneWriterPerRun'
  BY <1>1, EmptyOwn DEF LInv, OneWriterPerRun
<1> QED BY <1>2, <1>3, <1>4, <1>5 DEF LInv

-----------------------------------------------------------------------------
\* What a writer that is ready to commit adds is one batch, at the end.
LEMMA CommittedAppends ==
    ASSUME LInv, NEW w \in Writers, pc[w] = "commit"
    PROVE  /\ Committed(w) = [table EXCEPT ![RunOf[w]] = @ \o Batch(w, attempt[w])]
           /\ Batch(w, attempt[w]) \in Seq(Entries)
           /\ Len(Batch(w, attempt[w])) = Appends[w]
<1> DEFINE old == table[RunOf[w]]
           b == Batch(w, attempt[w])
           new == [s \in DOMAIN old \cup DOMAIN own[w] |-> IF s \in DOMAIN own[w] THEN own[w][s] ELSE old[s]]
<1>1. /\ old \in Seq(Entries) /\ Top(RunOf[w]) = Len(old) /\ Len(old) \in Nat
      /\ DOMAIN old = 1..Len(old) /\ Appends[w] \in Nat \ {0}
  BY WriterAssumption DEF LInv, Types, Top
<1>2. b \in Seq(Entries) /\ Len(b) = Appends[w] /\ DOMAIN b = 1..Appends[w]
  <2>1. \A k \in 1..Appends[w] : b[k] \in Entries
    BY WriterAssumption DEF Batch, Entries, LInv, Types
  <2> QED BY <2>1, <1>1 DEF Batch
<1>3. Size(w) = Appends[w] /\ Last(w) = Len(old) + Appends[w]
      /\ DOMAIN own[w] = (Len(old) + 1)..(Len(old) + Appends[w])
  BY <1>1 DEF LInv, WriterInv, Last
<1>4. \A k \in 1..Appends[w] : own[w][Len(old) + k] = b[k]
  <2>1. \A k \in 1..Size(w) : own[w][Top(RunOf[w]) + k] = Entry(w, k)
    BY DEF LInv, WriterInv
  <2>2. \A k \in 1..Appends[w] : b[k] = Entry(w, k)
    BY DEF Entry, Batch
  <2> HIDE DEF old, b
  <2> QED BY <1>1, <1>3, <2>1, <2>2
<1>5. new = old \o b
  <2>1. DOMAIN new = 1..(Len(old) + Appends[w])
    <3> HIDE DEF old, b
    <3> QED BY <1>1, <1>3
  <2>2. old \o b \in Seq(Entries) /\ DOMAIN (old \o b) = 1..(Len(old) + Appends[w])
    <3> HIDE DEF old, b
    <3> QED BY <1>1, <1>2
  <2>3. ASSUME NEW s \in 1..(Len(old) + Appends[w]) PROVE new[s] = (old \o b)[s]
    <3>1. CASE s <= Len(old)
      <4>1. s \in DOMAIN old /\ s \notin DOMAIN own[w]
        <5> HIDE DEF old, b
        <5> QED BY <3>1, <1>1, <1>3
      <4>2. new[s] = old[s]
        BY <4>1
      <4>3. (old \o b)[s] = old[s]
        <5> HIDE DEF old, b
        <5> QED BY <4>1, <3>1, <1>1, <1>2
      <4> QED BY <4>2, <4>3
    <3>2. CASE s > Len(old)
      <4>1. s - Len(old) \in 1..Appends[w] /\ s \in DOMAIN own[w] /\ Len(old) + (s - Len(old)) = s
        <5> HIDE DEF old, b
        <5> QED BY <3>2, <1>1, <1>3
      <4>2. own[w][s] = b[s - Len(old)]
        BY <4>1, <1>4
      <4>3. (old \o b)[s] = b[s - Len(old)]
        <5> HIDE DEF old, b
        <5> QED BY <4>1, <3>2, <1>1, <1>2
      <4> QED BY <4>1, <4>2, <4>3
    <3>3. s <= Len(old) \/ s > Len(old)
      BY <1>1
    <3> QED BY <3>1, <3>2, <3>3
  <2>4. old \o b \in [1..(Len(old) + Appends[w]) -> Entries]
    <3> DEFINE cat == old \o b
    <3> HIDE DEF old, b
    <3>1. cat \in Seq(Entries) /\ Len(cat) = Len(old) + Appends[w]
      BY <1>1, <1>2
    <3> HIDE DEF cat
    <3>2. cat \in [1..Len(cat) -> Entries]
      BY <3>1
    <3>3. cat \in [1..(Len(old) + Appends[w]) -> Entries]
      BY <3>1, <3>2
    <3> QED BY <3>3 DEF cat
  <2>5. new = [s \in 1..(Len(old) + Appends[w]) |-> new[s]]
    BY <2>1
  <2>6. old \o b = [s \in 1..(Len(old) + Appends[w]) |-> (old \o b)[s]]
    <3> HIDE DEF old, b
    <3> QED BY <2>4
  <2> QED BY <2>3, <2>5, <2>6
<1>6. Committed(w) = [table EXCEPT ![RunOf[w]] = new]
  BY DEF Committed
<1> QED BY <1>2, <1>5, <1>6

\* A commit moves a writer's rows into the log; the run's other writers hold
\* none, so that their numbers only become outdated.
LEMMA CommittedInv ==
    ASSUME LInv, NEW w \in Writers, pc[w] = "commit", table' = Committed(w),
           own' = [own EXCEPT ![w] = << >>], pc'[w] \in {"read", "done", "failed"},
           \A v \in Writers : v # w =>
              pc'[v] = pc[v] /\ seq'[v] = seq[v] /\ attempt'[v] = attempt[v]
    PROVE  /\ table' \in [Runs -> Seq(Entries)]
           /\ \A v \in Writers : WriterInv(v)'
           /\ OneWriterPerRun'
<1> DEFINE b == Batch(w, attempt[w])
<1>1. /\ table' = [table EXCEPT ![RunOf[w]] = @ \o b] /\ b \in Seq(Entries)
      /\ Len(b) \in Nat \ {0}
  BY CommittedAppends, WriterAssumption, ZenonT(40)
<1>2. table \in [Runs -> Seq(Entries)] /\ RunOf[w] \in Runs
  BY WriterAssumption DEF LInv, Types
<1> HIDE DEF b
<1>3. table' \in [Runs -> Seq(Entries)]
  BY <1>1, <1>2
<1>4. Top(RunOf[w])' = Top(RunOf[w]) + Len(b) /\ Top(RunOf[w]) \in Nat
  <2>1. table'[RunOf[w]] = table[RunOf[w]] \o b /\ table[RunOf[w]] \in Seq(Entries)
    BY <1>1, <1>2
  <2> QED BY <2>1, <1>1 DEF Top
<1>5. own'[w] = << >> /\ \A v \in Writers : v # w => own'[v] = own[v]
  BY DEF LInv, Types
<1>6. WriterInv(w)'
  <2>1. Top(RunOf[w])' \in Nat
    BY <1>1, <1>4
  <2> QED BY <2>1, <1>5, NoRows
<1>7. ASSUME NEW v \in Writers, v # w PROVE WriterInv(v)'
  <2>1. WriterInv(v) /\ own'[v] = own[v]
    BY <1>5, <1>7 DEF LInv
  <2>2. CASE RunOf[v] # RunOf[w]
    <3>1. RunOf[v] \in Runs
      BY WriterAssumption
    <3>2. table'[RunOf[v]] = table[RunOf[v]]
      BY <1>1, <1>2, <2>2, <3>1
    <3> QED BY <2>1, <3>2, <1>7, Untouched
  <2>3. CASE RunOf[v] = RunOf[w]
    <3>1. Size(w) # 0
      BY WriterAssumption DEF LInv, WriterInv
    <3>2. DOMAIN own[w] # {}
      BY <3>1, HoldsNothing
    <3>3. DOMAIN own[v] = {}
      BY <3>2, <2>3, <1>7 DEF LInv, OneWriterPerRun
    <3>4. Size(v) = 0
      BY <3>3, HoldsNothing
    <3>5. Top(RunOf[v]) \in Nat /\ Top(RunOf[v])' \in Nat /\ Top(RunOf[v])' >= Top(RunOf[v])
      <4> HIDE DEF Top
      <4> QED BY <1>1, <1>4, <2>3
    <3> QED BY <2>1, <3>4, <3>5, <1>7, LogGrows
  <2> QED BY <2>2, <2>3
<1>8. OneWriterPerRun'
  BY <1>5, EmptyOwn DEF LInv, OneWriterPerRun
<1> QED BY <1>3, <1>6, <1>7, <1>8

\* Both ends of a commit: acknowledged, or taken for a failure.
LEMMA CommitInv ==
    ASSUME LInv, NEW w \in Writers, Commit(w) \/ CommitUnacknowledged(w) PROVE LInv'
<1>1. CASE Commit(w)
  <2>1. /\ pc[w] = "commit" /\ table' = Committed(w) /\ own' = [own EXCEPT ![w] = << >>]
        /\ pc'[w] = "done" /\ seq' = seq /\ attempt' = attempt
        /\ \A v \in Writers : v # w => pc'[v] = pc[v]
    BY <1>1 DEF Commit, LInv, Types
  <2>2. table' \in [Runs -> Seq(Entries)] /\ (\A v \in Writers : WriterInv(v)') /\ OneWriterPerRun'
    BY <2>1, CommittedInv
  <2>3. own' \in [Writers -> Rows]
    BY <2>1, EmptyOwn DEF LInv, Types
  <2>4. pc' \in [Writers -> {"read", "insert", "commit", "done", "failed"}]
    BY <1>1 DEF Commit, LInv, Types
  <2> QED BY <2>1, <2>2, <2>3, <2>4 DEF LInv, Types
<1>2. CASE CommitUnacknowledged(w)
  <2>1. /\ pc[w] = "commit" /\ table' = Committed(w) /\ own' = [own EXCEPT ![w] = << >>]
        /\ pc'[w] \in {"read", "failed"}
        /\ \A v \in Writers : v # w =>
              pc'[v] = pc[v] /\ seq'[v] = seq[v] /\ attempt'[v] = attempt[v]
    BY <1>2 DEF CommitUnacknowledged, Abort, LInv, Types
  <2>2. table' \in [Runs -> Seq(Entries)] /\ (\A v \in Writers : WriterInv(v)') /\ OneWriterPerRun'
    BY <2>1, CommittedInv
  <2>3. Types /\ Abort(w)
    BY <1>2 DEF CommitUnacknowledged, LInv
  <2> QED BY <2>2, <2>3, AbortTypes DEF LInv, Types
<1> QED BY <1>1, <1>2

-----------------------------------------------------------------------------
\* The invariant holds in every reachable state.
THEOREM LedgerInvariant == LedgerSpec => []LInv
<1>1. LInv /\ [LedgerNext]_vars => LInv'
  <2> SUFFICES ASSUME LInv, [LedgerNext]_vars PROVE LInv'
    OBVIOUS
  <2>1. ASSUME NEW w \in Writers, NextSeq(w) PROVE LInv'
    BY <2>1, NextSeqInv
  <2>2. ASSUME NEW w \in Writers, Insert(w) PROVE LInv'
    BY <2>2, InsertInv
  <2>3. ASSUME NEW w \in Writers, Conflict(w) \/ Fail(w) PROVE LInv'
    BY <2>3, AbortInv DEF Conflict, Fail
  <2>4. ASSUME NEW w \in Writers, Commit(w) \/ CommitUnacknowledged(w) PROVE LInv'
    BY <2>4, CommitInv
  <2>5. CASE UNCHANGED vars
    <3>1. table' = table /\ own' = own /\ pc' = pc /\ seq' = seq /\ attempt' = attempt
      BY <2>5 DEF vars
    <3>2. \A v \in Writers : WriterInv(v)'
      BY <3>1, Untouched DEF LInv
    <3> QED BY <3>1, <3>2 DEF LInv, Types, OneWriterPerRun
  <2> QED BY <2>1, <2>2, <2>3, <2>4, <2>5 DEF LedgerNext, WriterStep, WriterFault
<1> QED BY <1>1, LedgerInitInv, PTL DEF LedgerSpec

\* Rows and counters have their types, and no writer exceeds its attempts.
THEOREM LedgerTyped == LedgerSpec => []LedgerTypeOK
<1>1. LInv => LedgerTypeOK
  <2> SUFFICES ASSUME LInv PROVE LedgerTypeOK
    OBVIOUS
  <2>1. ASSUME NEW r \in Runs
        PROVE  DOMAIN table[r] \subseteq Nat /\ \A s \in DOMAIN table[r] : table[r][s] \in Entries
    <3>1. table[r] \in Seq(Entries)
      BY DEF LInv, Types
    <3>2. Len(table[r]) \in Nat /\ DOMAIN table[r] = 1..Len(table[r]) /\ table[r] \in [1..Len(table[r]) -> Entries]
      BY <3>1
    <3> QED BY <3>2
  <2>2. ASSUME NEW w \in Writers
        PROVE  DOMAIN own[w] \subseteq Nat /\ \A s \in DOMAIN own[w] : own[w][s] \in Entries
    <3>1. PICK D \in SUBSET Nat : own[w] \in [D -> Entries]
      BY DEF LInv, Types, Rows
    <3> QED BY <3>1
  <2> QED BY <2>1, <2>2 DEF LInv, Types, LedgerTypeOK
<1> QED BY <1>1, LedgerInvariant, PTL

\* The committed entries of a run are numbered from 1 without holes.
THEOREM LedgerNoGaps == LedgerSpec => []NoGaps
<1>1. LInv => NoGaps
  <2> SUFFICES ASSUME LInv, NEW r \in Runs
               PROVE DOMAIN table[r] = 1..Cardinality(DOMAIN table[r])
    BY DEF NoGaps
  <2>1. table[r] \in Seq(Entries)
    BY DEF LInv, Types
  <2>2. DOMAIN table[r] = 1..Len(table[r]) /\ Len(table[r]) \in Nat
    BY <2>1
  <2>3. Cardinality(1..Len(table[r])) = Len(table[r])
    BY <2>2, FS_Interval
  <2> QED BY <2>2, <2>3
<1> QED BY <1>1, LedgerInvariant, PTL

\* Only one transaction at a time holds uncommitted entries of a run.
THEOREM LedgerOneWriter == LedgerSpec => []OneWriterPerRun
<1>1. LInv => OneWriterPerRun
  BY DEF LInv
<1> QED BY <1>1, LedgerInvariant, PTL

\* A transaction that others wait for holds rows of the run, hence waits for
\* nobody.
THEOREM LedgerNoCircle == LedgerSpec => []NobodyWaitsInACircle
<1>1. LInv => NobodyWaitsInACircle
  <2> SUFFICES ASSUME LInv, NEW u \in Writers, NEW v \in Writers, NEW w \in Writers,
                      WaitsFor(u, v), WaitsFor(v, w)
               PROVE FALSE
    BY DEF NobodyWaitsInACircle
  <2>1. DOMAIN own[v] # {} /\ DOMAIN own[w] # {} /\ RunOf[v] = RunOf[w] /\ v # w
    BY DEF WaitsFor
  <2> QED BY <2>1 DEF LInv, OneWriterPerRun
<1> QED BY <1>1, LedgerInvariant, PTL

\* The table of rows implements the append-only log: every step leaves it
\* alone or appends one writer's whole batch to the log of one run.
THEOREM LedgerIsALog == LedgerSpec => ImplementsAuditLog
<1>1. LedgerInit => Log!LogInit
  BY DEF LedgerInit, Log!LogInit
<1>2. LInv /\ [LedgerNext]_vars => [Log!LogNext]_table
  <2> SUFFICES ASSUME LInv, [LedgerNext]_vars, table' # table PROVE Log!LogNext
    OBVIOUS
  <2>1. PICK w \in Writers : pc[w] = "commit" /\ table' = Committed(w)
    BY DEF LedgerNext, WriterStep, WriterFault, NextSeq, Insert, Conflict, Fail, Commit,
           CommitUnacknowledged, vars
  <2>2. table' = [table EXCEPT ![RunOf[w]] = @ \o Batch(w, attempt[w])]
    BY <2>1, CommittedAppends
  <2>3. Batch(w, attempt[w]) \in UNION {{Batch(x, a) : a \in 1..Attempts[x]} : x \in Writers}
    BY DEF LInv, Types
  <2>4. RunOf[w] \in Runs
    BY WriterAssumption
  <2> QED BY <2>2, <2>3, <2>4 DEF Log!LogNext, Log!AppendBatch
<1> QED BY <1>1, <1>2, LedgerInvariant, PTL DEF LedgerSpec, ImplementsAuditLog, Log!LogSpec

-----------------------------------------------------------------------------
OnRecord(w) ==
    \E s \in DOMAIN table[RunOf[w]] :
        \A k \in 1..Appends[w] :
            /\ s + k - 1 \in DOMAIN table[RunOf[w]]
            /\ table[RunOf[w]][s + k - 1] = Entry(w, k)

\* Rows that stay keep a writer's transaction on record.
LEMMA StaysOnRecord ==
    ASSUME NEW v \in Writers, OnRecord(v), attempt'[v] = attempt[v],
           \A s \in DOMAIN table[RunOf[v]] :
              s \in DOMAIN table'[RunOf[v]] /\ table'[RunOf[v]][s] = table[RunOf[v]][s]
    PROVE  OnRecord(v)'
<1>1. \A k : Entry(v, k)' = Entry(v, k)
  BY DEF Entry
<1> QED BY <1>1 DEF OnRecord

\* A commit keeps the rows of every run and puts the writer's on record.
LEMMA CommitRecords ==
    ASSUME LInv, NEW w \in Writers, pc[w] = "commit", table' = Committed(w)
    PROVE  /\ \A r \in Runs : \A s \in DOMAIN table[r] :
                 s \in DOMAIN table'[r] /\ table'[r][s] = table[r][s]
           /\ attempt'[w] = attempt[w] => OnRecord(w)'
<1> DEFINE b == Batch(w, attempt[w])
           old == table[RunOf[w]]
<1>1. /\ table' = [table EXCEPT ![RunOf[w]] = @ \o b] /\ b \in Seq(Entries) /\ Len(b) = Appends[w]
      /\ table \in [Runs -> Seq(Entries)] /\ RunOf[w] \in Runs /\ Appends[w] \in Nat \ {0}
      /\ old \in Seq(Entries)
  BY CommittedAppends, WriterAssumption DEF LInv, Types
<1>2. \A k \in 1..Appends[w] : b[k] = Entry(w, k)
  BY DEF Batch, Entry
<1>3. table'[RunOf[w]] = old \o b /\ \A r \in Runs : r # RunOf[w] => table'[r] = table[r]
  <2> HIDE DEF b
  <2> QED BY <1>1
<1>4. \A s \in DOMAIN old : s \in DOMAIN (old \o b) /\ (old \o b)[s] = old[s]
  <2> HIDE DEF b, old
  <2> QED BY <1>1
<1>5. ASSUME NEW r \in Runs, NEW s \in DOMAIN table[r]
      PROVE  s \in DOMAIN table'[r] /\ table'[r][s] = table[r][s]
  <2>1. CASE r = RunOf[w]
    <3> HIDE DEF b
    <3> QED BY <2>1, <1>3, <1>4
  <2>2. CASE r # RunOf[w]
    BY <2>2, <1>3
  <2> QED BY <2>1, <2>2
<1>6. ASSUME attempt'[w] = attempt[w] PROVE OnRecord(w)'
  <2>1. \A k \in 1..Appends[w] :
           Len(old) + 1 + k - 1 \in DOMAIN (old \o b) /\ (old \o b)[Len(old) + 1 + k - 1] = b[k]
    <3> HIDE DEF b, old
    <3> QED BY <1>1
  <2>2. Len(old) + 1 \in DOMAIN (old \o b)
    <3> HIDE DEF b, old
    <3> QED BY <1>1
  <2>3. \A k : Entry(w, k)' = Entry(w, k)
    BY <1>6 DEF Entry
  <2> HIDE DEF b, old
  <2>4. \E s \in DOMAIN table'[RunOf[w]] : \A k \in 1..Appends[w] :
           s + k - 1 \in DOMAIN table'[RunOf[w]] /\ table'[RunOf[w]][s + k - 1] = Entry(w, k)
    <3>1. Len(old) + 1 \in DOMAIN table'[RunOf[w]]
      BY <1>3, <2>2
    <3>2. \A k \in 1..Appends[w] :
             Len(old) + 1 + k - 1 \in DOMAIN table'[RunOf[w]]
             /\ table'[RunOf[w]][Len(old) + 1 + k - 1] = Entry(w, k)
      BY <1>2, <1>3, <2>1
    <3> QED BY <3>1, <3>2
  <2> QED BY <2>3, <2>4 DEF OnRecord
<1> QED BY <1>5, <1>6

\* A writer that was told its transaction is committed finds all its entries
\* in the log, next to each other, now and for good.
THEOREM LedgerKeepsItsWord == LedgerSpec => []DoneIsOnRecord
<1>1. LedgerInit => DoneIsOnRecord
  BY DEF LedgerInit, DoneIsOnRecord
<1>2. LInv /\ DoneIsOnRecord /\ [LedgerNext]_vars => DoneIsOnRecord'
  <2> SUFFICES ASSUME LInv, DoneIsOnRecord, [LedgerNext]_vars, NEW v \in Writers, pc'[v] = "done"
               PROVE  OnRecord(v)'
    BY DEF DoneIsOnRecord, OnRecord
  <2>1. pc[v] = "done" => OnRecord(v)
    BY DEF DoneIsOnRecord, OnRecord
  <2>2. RunOf[v] \in Runs
    BY WriterAssumption
  <2>3. ASSUME NEW w \in Writers, NextSeq(w) \/ Insert(w) \/ Conflict(w) \/ Fail(w) PROVE OnRecord(v)'
    <3>1. table' = table /\ v # w => pc'[v] = pc[v] /\ attempt'[v] = attempt[v]
      BY <2>3 DEF NextSeq, Insert, Conflict, Fail, Abort, LInv, Types
    <3>2. table' = table /\ v # w
      BY <2>3 DEF NextSeq, Insert, Conflict, Fail, Abort, LInv, Types
    <3> QED BY <3>1, <3>2, <2>1, StaysOnRecord
  <2>4. ASSUME NEW w \in Writers, Commit(w) \/ CommitUnacknowledged(w) PROVE OnRecord(v)'
    <3>1. pc[w] = "commit" /\ table' = Committed(w)
      BY <2>4 DEF Commit, CommitUnacknowledged
    <3>2. CASE v = w
      <4>1. attempt'[w] = attempt[w]
        BY <2>4, <3>2 DEF Commit, CommitUnacknowledged, Abort, LInv, Types
      <4> QED BY <3>1, <3>2, <4>1, CommitRecords
    <3>3. CASE v # w
      <4>1. pc'[v] = pc[v] /\ attempt'[v] = attempt[v]
        BY <2>4, <3>3 DEF Commit, CommitUnacknowledged, Abort, LInv, Types
      <4> QED BY <3>1, <4>1, <2>1, <2>2, CommitRecords, StaysOnRecord
    <3> QED BY <3>2, <3>3
  <2>5. CASE UNCHANGED vars
    BY <2>5, <2>1, StaysOnRecord DEF vars
  <2> QED BY <2>3, <2>4, <2>5 DEF LedgerNext, WriterStep, WriterFault
<1> QED BY <1>1, <1>2, LedgerInvariant, PTL DEF LedgerSpec

=============================================================================
