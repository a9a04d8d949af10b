------------------------ MODULE NearDuplicateProofs ------------------------
(***************************************************************************)
(* NearDuplicate, for any finite corpus, threshold, limit and number of    *)
(* attempts and failures: what a node reports is real, and a check that    *)
(* began after a similar invoice was committed reports it or one that is   *)
(* at least as similar.                                                    *)
(*                                                                         *)
(* The inductive invariant carries the check's obligation through its      *)
(* program counter: what was committed before it began still is, and once  *)
(* the query has run its hits outweigh every similar invoice committed     *)
(* before.                                                                 *)
(***************************************************************************)
EXTENDS NearDuplicate, FiniteSetTheorems, TLAPS

\* S holds a match of i as good as any that was committed when i's check began.
Outweighs(i, S) ==
    \A j \in before[i] :
        j # i /\ NearDup(i, j) => \E b \in S : similarity[{i, b}] >= similarity[{i, j}]

Obligation(i) ==
    /\ before[i] \subseteq embedded
    /\ pc[i] \in {"store", "report"} => Outweighs(i, hits[i])
    /\ pc[i] = "done" => Outweighs(i, report[i])

NInv == TypeOK /\ EvidenceIsReal /\ (\A i \in Invoices : Obligation(i))

-----------------------------------------------------------------------------
\* Two invoices are a pair, and their similarity is a number.
LEMMA PairsAreNumbered ==
    ASSUME TypeOK, NEW i \in Invoices, NEW j \in Invoices, i # j
    PROVE  similarity[{i, j}] \in Int
<1>1. IsFiniteSet({i}) /\ Cardinality({i}) = 1
  BY FS_Singleton
<1>2. Cardinality({i} \cup {j}) = 2
  BY <1>1, FS_AddElement
<1>3. {i} \cup {j} = {i, j}
  OBVIOUS
<1>4. {i, j} \in Pairs
  BY <1>2, <1>3 DEF Pairs
<1> DEFINE pair == {i, j}
<1>5. pair \in Pairs
  BY <1>4
<1> HIDE DEF pair
<1>6. similarity[pair] \in Similarities
  BY <1>5 DEF TypeOK
<1>7. \A s \in Similarities : s \in Int
  BY NearDupAssumption
<1>8. similarity[pair] \in Int
  BY <1>6, <1>7
<1> QED BY <1>8 DEF pair

\* A choice of the best is not empty, and a member it leaves out is no better
\* than any it keeps.
LEMMA BestOutweighs ==
    ASSUME TypeOK, NEW i \in Invoices, NEW B \in BestOf(i, NearDuplicates(i)),
           NEW j \in NearDuplicates(i)
    PROVE  \E b \in B : similarity[{i, b}] >= similarity[{i, j}]
<1> DEFINE S == NearDuplicates(i)
<1>1. /\ B \subseteq S /\ S \subseteq Invoices /\ i \notin S /\ j \in S
      /\ Cardinality(B) = IF Cardinality(S) < TOP_K THEN Cardinality(S) ELSE TOP_K
      /\ \A b \in B, o \in S \ B : similarity[{i, b}] >= similarity[{i, o}]
  BY DEF BestOf, NearDuplicates, TypeOK
<1> HIDE DEF S
<1>2. IsFiniteSet(S)
  BY <1>1, NearDupAssumption, FS_Subset
<1>3. Cardinality(S) \in Nat /\ Cardinality(S) # 0
  BY <1>1, <1>2, FS_EmptySet, FS_CardinalityType
<1>4. Cardinality(B) # 0
  BY <1>1, <1>3, NearDupAssumption
<1>5. B # {}
  BY <1>4, FS_EmptySet
<1>6. CASE j \in B
  <2>1. similarity[{i, j}] \in Int
    BY <1>1, PairsAreNumbered
  <2> QED BY <1>6, <2>1
<1>7. CASE j \notin B
  <2>1. PICK b \in B : TRUE
    BY <1>5
  <2>2. j \in S \ B
    BY <1>1, <1>7
  <2> QED BY <1>1, <2>1, <2>2
<1> QED BY <1>6, <1>7

\* Nothing is reported or known before the first check.
LEMMA NearDupInit == Init => NInv
<1> SUFFICES ASSUME Init PROVE NInv
  OBVIOUS
<1>1. TypeOK
  BY NearDupAssumption DEF Init, TypeOK, Labels
<1>2. EvidenceIsReal
  BY DEF Init, EvidenceIsReal
<1>3. \A i \in Invoices : Obligation(i)
  BY DEF Init, Obligation
<1> QED BY <1>1, <1>2, <1>3 DEF NInv

\* Every step keeps the types.
LEMMA NearDupTypes == ASSUME TypeOK, [Next]_vars PROVE TypeOK'
<1> USE DEF TypeOK, Labels, Goto
<1>1. ASSUME NEW i \in Invoices, Begin(i) PROVE TypeOK'
  BY <1>1 DEF Begin
<1>2. ASSUME NEW i \in Invoices, FindSimilar(i) PROVE TypeOK'
  <2>1. PICK B \in BestOf(i, NearDuplicates(i)) : hits' = [hits EXCEPT ![i] = B]
    BY <1>2 DEF FindSimilar
  <2>2. B \in SUBSET Invoices
    BY DEF BestOf, NearDuplicates
  <2> QED BY <1>2, <2>1, <2>2 DEF FindSimilar
<1>3. ASSUME NEW i \in Invoices, StoreAndCommit(i) PROVE TypeOK'
  BY <1>3 DEF StoreAndCommit
<1>4. ASSUME NEW i \in Invoices, Report(i) PROVE TypeOK'
  BY <1>4 DEF Report
<1>5. ASSUME NEW i \in Invoices, Fail(i) PROVE TypeOK'
  <2>1. failures' \in 0..MaxFailures
    BY <1>5, NearDupAssumption DEF Fail
  <2>2. attempt' \in [Invoices -> 1..Attempts]
    <3>1. CASE attempt[i] < Attempts
      <4>1. attempt[i] + 1 \in 1..Attempts
        BY <3>1, NearDupAssumption
      <4>2. attempt' = [attempt EXCEPT ![i] = attempt[i] + 1]
        BY <1>5, <3>1 DEF Fail
      <4> QED BY <4>1, <4>2
    <3>2. CASE ~(attempt[i] < Attempts)
      BY <1>5, <3>2 DEF Fail
    <3> QED BY <3>1, <3>2
  <2>3. pc' \in [Invoices -> Labels]
    BY <1>5 DEF Fail
  <2>4. hits' \in [Invoices -> SUBSET Invoices]
    BY <1>5 DEF Fail
  <2> QED BY <1>5, <2>1, <2>2, <2>3, <2>4 DEF Fail
<1>6. ASSUME NEW i \in Invoices, Replay(i) PROVE TypeOK'
  BY <1>6, NearDupAssumption DEF Replay
<1>7. CASE UNCHANGED vars
  BY <1>7 DEF vars
<1> QED BY <1>1, <1>2, <1>3, <1>4, <1>5, <1>6, <1>7 DEF Next

\* A step of another check leaves an obligation as it is: embeddings stay.
LEMMA OthersKeepIt ==
    ASSUME NInv, NEW i \in Invoices, similarity' = similarity, embedded \subseteq embedded',
           before'[i] = before[i], pc'[i] = pc[i], hits'[i] = hits[i], report'[i] = report[i]
    PROVE  /\ Obligation(i)'
           /\ \A j \in hits'[i] \cup report'[i] : j # i /\ j \in embedded' /\ NearDup(i, j)'
<1>1. Obligation(i) /\ \A j \in hits[i] \cup report[i] : j # i /\ j \in embedded /\ NearDup(i, j)
  BY DEF NInv, EvidenceIsReal
<1>2. \A j : NearDup(i, j)' = NearDup(i, j)
  BY DEF NearDup
<1>3. \A S : Outweighs(i, S)' = Outweighs(i, S)
  BY <1>2 DEF Outweighs
<1>4. Outweighs(i, hits[i])' = Outweighs(i, hits[i]) /\ Outweighs(i, report[i])' = Outweighs(i, report[i])
  BY <1>2 DEF Outweighs
<1> QED BY <1>1, <1>2, <1>4 DEF Obligation

\* What a check reports is what its transaction found, and an embedding that
\* counted as committed when it began is one its query sees.
LEMMA NearDupStep == ASSUME NInv, [Next]_vars PROVE NInv'
<1>1. TypeOK'
  BY NearDupTypes DEF NInv
<1> DEFINE Kept(k) ==
        /\ Obligation(k)'
        /\ \A j \in hits'[k] \cup report'[k] : j # k /\ j \in embedded' /\ NearDup(k, j)'
<1>2. ASSUME NEW i \in Invoices,
             Begin(i) \/ FindSimilar(i) \/ StoreAndCommit(i) \/ Report(i) \/ Fail(i) \/ Replay(i),
             NEW k \in Invoices, k # i
      PROVE  Kept(k)
  <2>1. /\ similarity' = similarity /\ embedded \subseteq embedded' /\ before'[k] = before[k]
        /\ pc'[k] = pc[k] /\ hits'[k] = hits[k] /\ report'[k] = report[k]
    BY <1>2 DEF Begin, FindSimilar, StoreAndCommit, Report, Fail, Replay, Goto, NInv, TypeOK
  <2> QED BY <2>1, OthersKeepIt
<1>3. ASSUME NEW i \in Invoices PROVE
        /\ Obligation(i) /\ i \in DOMAIN pc /\ i \in DOMAIN hits /\ i \in DOMAIN report /\ i \in DOMAIN before
        /\ \A j \in hits[i] \cup report[i] : j # i /\ j \in embedded /\ NearDup(i, j)
  BY DEF NInv, EvidenceIsReal, TypeOK
<1>4. ASSUME similarity' = similarity
      PROVE  \A k, j : NearDup(k, j)' = NearDup(k, j)
  BY <1>4 DEF NearDup
<1>5. ASSUME NEW i \in Invoices, Begin(i) PROVE Kept(i)
  <2>1. /\ pc'[i] = "query" /\ before'[i] = embedded /\ embedded' = embedded
        /\ hits' = hits /\ report' = report /\ similarity' = similarity
    BY <1>5, <1>3 DEF Begin, Goto
  <2> QED BY <2>1, <1>3, <1>4 DEF Obligation
<1>6. ASSUME NEW i \in Invoices, FindSimilar(i) PROVE Kept(i)
  <2>1. PICK B \in BestOf(i, NearDuplicates(i)) : hits' = [hits EXCEPT ![i] = B]
    BY <1>6 DEF FindSimilar
  <2>2. /\ pc'[i] = "store" /\ before' = before /\ embedded' = embedded /\ hits'[i] = B
        /\ report' = report /\ similarity' = similarity
    BY <1>6, <1>3, <2>1 DEF FindSimilar, Goto
  <2>3. \A j \in B : j # i /\ j \in embedded /\ NearDup(i, j)
    BY DEF BestOf, NearDuplicates, NearDup
  <2>4. Outweighs(i, B)
    <3> SUFFICES ASSUME NEW j \in before[i], j # i, NearDup(i, j)
                 PROVE  \E b \in B : similarity[{i, b}] >= similarity[{i, j}]
      BY DEF Outweighs
    <3>1. j \in NearDuplicates(i)
      BY <1>3 DEF NearDuplicates, NearDup, Obligation
    <3> QED BY <3>1, BestOutweighs DEF NInv
  <2>5. Outweighs(i, hits[i])'
    BY <2>2, <2>4, <1>4 DEF Outweighs
  <2> QED BY <2>2, <2>3, <2>5, <1>3, <1>4 DEF Obligation
<1>7. ASSUME NEW i \in Invoices, StoreAndCommit(i) PROVE Kept(i)
  <2>1. /\ pc[i] = "store" /\ pc'[i] = "report" /\ before' = before /\ embedded \subseteq embedded'
        /\ hits' = hits /\ report' = report /\ similarity' = similarity
    BY <1>7, <1>3 DEF StoreAndCommit, Goto
  <2>2. Outweighs(i, hits[i])'
    BY <2>1, <1>3, <1>4 DEF Outweighs, Obligation
  <2> QED BY <2>1, <2>2, <1>3, <1>4 DEF Obligation
<1>8. ASSUME NEW i \in Invoices, Report(i) PROVE Kept(i)
  <2>1. /\ pc[i] = "report" /\ pc'[i] = "done" /\ before' = before /\ embedded' = embedded
        /\ hits'[i] = {} /\ report'[i] = hits[i] /\ similarity' = similarity
    BY <1>8, <1>3 DEF Report, Goto
  <2>2. Outweighs(i, report[i])'
    BY <2>1, <1>3, <1>4 DEF Outweighs, Obligation
  <2> QED BY <2>1, <2>2, <1>3, <1>4 DEF Obligation
<1>9. ASSUME NEW i \in Invoices, Fail(i) \/ Replay(i) PROVE Kept(i)
  <2>1. /\ pc'[i] \in {"begin", "failed"} /\ before' = before /\ embedded' = embedded
        /\ hits'[i] \subseteq hits[i] /\ report' = report /\ similarity' = similarity
    BY <1>9, <1>3 DEF Fail, Replay, Goto
  <2> QED BY <2>1, <1>3, <1>4 DEF Obligation
<1>10. CASE UNCHANGED vars
  <2>1. \A k \in Invoices : Kept(k)
    BY <1>10, OthersKeepIt DEF vars
  <2> QED BY <1>1, <2>1 DEF NInv, EvidenceIsReal
<1>11. CASE Next
  <2>1. PICK i \in Invoices :
          Begin(i) \/ FindSimilar(i) \/ StoreAndCommit(i) \/ Report(i) \/ Fail(i) \/ Replay(i)
    BY <1>11 DEF Next
  <2>2. Kept(i)
    BY <2>1, <1>5, <1>6, <1>7, <1>8, <1>9
  <2>3. \A k \in Invoices : Kept(k)
    BY <2>1, <2>2, <1>2
  <2> QED BY <1>1, <2>3 DEF NInv, EvidenceIsReal
<1> QED BY <1>10, <1>11

-----------------------------------------------------------------------------
\* The invariant holds in every reachable state.
THEOREM NearDupInvariant == Spec => []NInv
<1> QED BY NearDupInit, NearDupStep, PTL DEF Spec

\* No invoice is accused with itself, with a dissimilar one or with one whose
\* embedding was rolled back.
THEOREM NearDupEvidence == Spec => []EvidenceIsReal
<1>1. NInv => EvidenceIsReal
  BY DEF NInv
<1> QED BY <1>1, NearDupInvariant, PTL

\* The evidence holds the best match there was when the check began.
THEOREM NearDupBest == Spec => []BestEvidenceIsKept
<1>1. NInv => BestEvidenceIsKept
  BY DEF NInv, Obligation, Outweighs, BestEvidenceIsKept, Done
<1> QED BY <1>1, NearDupInvariant, PTL

\* A check that began after a similar invoice was committed reports something.
THEOREM NearDupFlagged == Spec => []LaterOneIsFlagged
<1>1. NInv => LaterOneIsFlagged
  BY DEF NInv, Obligation, Outweighs, LaterOneIsFlagged, Done
<1> QED BY <1>1, NearDupInvariant, PTL
=============================================================================
