--------------------------- MODULE ConnPoolProofs ---------------------------
(***************************************************************************)
(* Proofs about ConnPool for every pool size and any number of goroutines:  *)
(* connections are never lost, and a pool with more connections than there  *)
(* are goroutines in AddMessage cannot get stuck.                           *)
(***************************************************************************)
EXTENDS ConnPool, FiniteSetTheorems, TLAPS

\* Counting one connection more or less: sets of holders are finite, and gaining or
\* losing one holder changes the count by one.
LEMMA GainHolder ==
  ASSUME NEW S, IsFiniteSet(S), NEW x, x \notin S
  PROVE  /\ IsFiniteSet(S \cup {x})
         /\ Cardinality(S) \in Nat
         /\ Cardinality(S \cup {x}) = Cardinality(S) + 1
  BY FS_AddElement, FS_CardinalityType

LEMMA LoseHolder ==
  ASSUME NEW S, IsFiniteSet(S), NEW x \in S
  PROVE  /\ IsFiniteSet(S \ {x})
         /\ Cardinality(S) \in Nat /\ Cardinality(S \ {x}) \in Nat
         /\ Cardinality(S \ {x}) = Cardinality(S) - 1
  BY FS_RemoveElement, FS_CardinalityType

\* Holders are goroutines, of which there are finitely many.
LEMMA HoldersFinite ==
  ASSUME TypeOK
  PROVE  /\ IsFiniteSet(busy) /\ IsFiniteSet(RowHolders) /\ IsFiniteSet(ExecHolders)
         /\ Cardinality(busy) \in Nat
         /\ Cardinality(RowHolders) \in Nat /\ Cardinality(ExecHolders) \in Nat
<1>1. busy \subseteq Others /\ RowHolders \subseteq Callers /\ ExecHolders \subseteq Callers
  BY DEF TypeOK, RowHolders, ExecHolders
<1>2. QED
  BY <1>1, PoolAssumption, FS_Subset, FS_CardinalityType

PoolInv == TypeOK /\ ConnsAccounted

\* All connections are idle at first.
LEMMA InitPoolInv == Init => PoolInv
<1> SUFFICES ASSUME Init PROVE PoolInv
  OBVIOUS
<1>1. TypeOK
  BY PoolAssumption DEF Init, TypeOK
<1>2. busy = {} /\ RowHolders = {} /\ ExecHolders = {}
  BY DEF Init, RowHolders, ExecHolders
<1>3. QED
  BY <1>1, <1>2, FS_EmptySet, PoolAssumption DEF Init, PoolInv, ConnsAccounted

\* Every step moves a connection between the idle ones and one holder, or moves none.
LEMMA StepPoolInv == PoolInv /\ [Next]_vars => PoolInv'
<1> SUFFICES ASSUME PoolInv, [Next]_vars PROVE PoolInv'
  OBVIOUS
<1>0. /\ TypeOK /\ MaxConns \in Nat
      /\ idle + Cardinality(busy) + Cardinality(RowHolders) + Cardinality(ExecHolders) = MaxConns
  BY PoolAssumption DEF PoolInv, ConnsAccounted
<1>1. ASSUME NEW g \in Callers, AddMessage(g) PROVE PoolInv'
  <2>1. TypeOK' /\ RowHolders' = RowHolders /\ ExecHolders' = ExecHolders
    BY <1>0, <1>1 DEF AddMessage, TypeOK, RowHolders, ExecHolders
  <2>2. QED
    BY <1>0, <1>1, <2>1 DEF AddMessage, PoolInv, ConnsAccounted
<1>2. ASSUME NEW g \in Callers, QueryRow(g) PROVE PoolInv'
  <2>1. TypeOK' /\ RowHolders' = RowHolders \cup {g} /\ ExecHolders' = ExecHolders
    BY <1>0, <1>2 DEF QueryRow, Acquire, TypeOK, RowHolders, ExecHolders
  <2>2. g \notin RowHolders
    BY <1>2 DEF QueryRow, RowHolders
  <2>3. Cardinality(RowHolders') = Cardinality(RowHolders) + 1
    BY <1>0, <2>1, <2>2, HoldersFinite, GainHolder
  <2>4. QED
    BY <1>0, <1>2, <2>1, <2>3, HoldersFinite DEF QueryRow, Acquire, TypeOK, PoolInv, ConnsAccounted
<1>3. ASSUME NEW g \in Callers, QueryCancelled(g) PROVE PoolInv'
  <2>1. TypeOK' /\ RowHolders' = RowHolders /\ ExecHolders' = ExecHolders
    BY <1>0, <1>3 DEF QueryCancelled, TypeOK, RowHolders, ExecHolders
  <2>2. QED
    BY <1>0, <1>3, <2>1 DEF QueryCancelled, PoolInv, ConnsAccounted
<1>4. ASSUME NEW g \in Callers, Exec(g) PROVE PoolInv'
  <2>1. TypeOK' /\ RowHolders' = RowHolders /\ ExecHolders' = ExecHolders \cup {g}
    BY <1>0, <1>4 DEF Exec, Acquire, TypeOK, RowHolders, ExecHolders
  <2>2. g \notin ExecHolders
    BY <1>4 DEF Exec, ExecHolders
  <2>3. Cardinality(ExecHolders') = Cardinality(ExecHolders) + 1
    BY <1>0, <2>1, <2>2, HoldersFinite, GainHolder
  <2>4. QED
    BY <1>0, <1>4, <2>1, <2>3, HoldersFinite DEF Exec, Acquire, TypeOK, PoolInv, ConnsAccounted
<1>5. ASSUME NEW g \in Callers, ExecReturns(g) PROVE PoolInv'
  <2>1. RowHolders' = RowHolders /\ ExecHolders' = ExecHolders \ {g} /\ g \in ExecHolders
    BY <1>0, <1>5 DEF ExecReturns, TypeOK, RowHolders, ExecHolders
  <2>2. /\ Cardinality(ExecHolders') = Cardinality(ExecHolders) - 1
        /\ Cardinality(ExecHolders') \in Nat
    BY <1>0, <2>1, HoldersFinite, LoseHolder
  <2>3. idle' = idle + 1 /\ idle' \in 0..MaxConns
    BY <1>0, <1>5, <2>2, HoldersFinite DEF ExecReturns, Release, TypeOK
  <2>4. TypeOK'
    BY <1>0, <1>5, <2>3 DEF ExecReturns, TypeOK
  <2>5. QED
    BY <1>0, <1>5, <2>1, <2>2, <2>3, <2>4, HoldersFinite DEF ExecReturns, TypeOK, PoolInv, ConnsAccounted
<1>6. ASSUME NEW g \in Callers, ExecCancelled(g) PROVE PoolInv'
  <2>1. TypeOK' /\ RowHolders' = RowHolders /\ ExecHolders' = ExecHolders
    BY <1>0, <1>6 DEF ExecCancelled, TypeOK, RowHolders, ExecHolders
  <2>2. QED
    BY <1>0, <1>6, <2>1 DEF ExecCancelled, PoolInv, ConnsAccounted
<1>7. ASSUME NEW g \in Callers, scanMessage(g) PROVE PoolInv'
  <2>1. RowHolders' = RowHolders \ {g} /\ ExecHolders' = ExecHolders /\ g \in RowHolders
    BY <1>0, <1>7 DEF scanMessage, TypeOK, RowHolders, ExecHolders
  <2>2. /\ Cardinality(RowHolders') = Cardinality(RowHolders) - 1
        /\ Cardinality(RowHolders') \in Nat
    BY <1>0, <2>1, HoldersFinite, LoseHolder
  <2>3. idle' = idle + 1 /\ idle' \in 0..MaxConns
    BY <1>0, <1>7, <2>2, HoldersFinite DEF scanMessage, Release, TypeOK
  <2>4. TypeOK'
    BY <1>0, <1>7, <2>3 DEF scanMessage, TypeOK
  <2>5. QED
    BY <1>0, <1>7, <2>1, <2>2, <2>3, <2>4, HoldersFinite DEF scanMessage, TypeOK, PoolInv, ConnsAccounted
<1>8. ASSUME NEW g \in Callers, Cancel(g) PROVE PoolInv'
  <2>1. TypeOK' /\ RowHolders' = RowHolders /\ ExecHolders' = ExecHolders
    BY <1>0, <1>8 DEF Cancel, TypeOK, RowHolders, ExecHolders
  <2>2. QED
    BY <1>0, <1>8, <2>1 DEF Cancel, PoolInv, ConnsAccounted
<1>9. ASSUME NEW o \in Others, StatementStarts(o) PROVE PoolInv'
  <2>1. TypeOK' /\ RowHolders' = RowHolders /\ ExecHolders' = ExecHolders
    BY <1>0, <1>9 DEF StatementStarts, Acquire, TypeOK, RowHolders, ExecHolders
  <2>2. Cardinality(busy') = Cardinality(busy) + 1
    BY <1>0, <1>9, HoldersFinite, GainHolder DEF StatementStarts
  <2>3. QED
    BY <1>0, <1>9, <2>1, <2>2, HoldersFinite DEF StatementStarts, Acquire, TypeOK, PoolInv, ConnsAccounted
<1>10. ASSUME NEW o \in Others, StatementEnds(o) PROVE PoolInv'
  <2>1. RowHolders' = RowHolders /\ ExecHolders' = ExecHolders
    BY <1>10 DEF StatementEnds, RowHolders, ExecHolders
  <2>2. Cardinality(busy') = Cardinality(busy) - 1 /\ Cardinality(busy') \in Nat
    BY <1>0, <1>10, HoldersFinite, LoseHolder DEF StatementEnds
  <2>3. idle' = idle + 1 /\ idle' \in 0..MaxConns
    BY <1>0, <1>10, <2>2, HoldersFinite DEF StatementEnds, Release, TypeOK
  <2>4. TypeOK'
    BY <1>0, <1>10, <2>3 DEF StatementEnds, TypeOK
  <2>5. QED
    BY <1>0, <1>10, <2>1, <2>2, <2>3, <2>4, HoldersFinite DEF TypeOK, PoolInv, ConnsAccounted
<1>11. CASE UNCHANGED vars
  BY <1>0, <1>11 DEF vars, PoolInv, TypeOK, ConnsAccounted, RowHolders, ExecHolders
<1>12. QED
  BY <1>1, <1>2, <1>3, <1>4, <1>5, <1>6, <1>7, <1>8, <1>9, <1>10, <1>11 DEF Next

\* Connections are neither lost nor returned twice, for every pool size.
THEOREM ConnsStayAccounted == Spec => [](TypeOK /\ ConnsAccounted)
<1>1. Spec => []PoolInv
  BY InitPoolInv, StepPoolInv, PTL DEF Spec
<1>2. QED
  BY <1>1, PTL DEF PoolInv

\* A pool that is larger than the number of goroutines in AddMessage always has a
\* connection that is idle or about to be returned by a holder that waits for nothing.
THEOREM RoomyPoolNeverStuck == Spec => []NoHoldAndWait
<1>1. PoolInv => NoHoldAndWait
  <2> SUFFICES ASSUME PoolInv, Cardinality(Callers) < MaxConns,
                      ~(idle > 0), busy = {},
                      \A g \in Callers : pc[g] \notin {"exec", "scan"}
               PROVE  FALSE
    BY DEF NoHoldAndWait
  <2>1. ExecHolders = {} /\ RowHolders \subseteq Callers
    BY DEF ExecHolders, RowHolders
  <2>2. Cardinality(RowHolders) <= Cardinality(Callers) /\ Cardinality(RowHolders) \in Nat
        /\ Cardinality(Callers) \in Nat
    BY <2>1, PoolAssumption, FS_Subset, FS_CardinalityType
  <2>3. Cardinality(busy) = 0 /\ Cardinality(ExecHolders) = 0
    BY <2>1, FS_EmptySet
  <2>4. QED
    BY <2>2, <2>3, PoolAssumption DEF PoolInv, TypeOK, ConnsAccounted
<1>2. QED
  BY <1>1, ConnsStayAccounted, PTL DEF PoolInv
=============================================================================
