-------------------------- MODULE GridIndexProofs --------------------------
(***************************************************************************)
(* What GridIndex.glsl guarantees, for every number of agents and cells.   *)
(*                                                                         *)
(* Every entry of the index buffer belongs to one invocation: the one      *)
(* whose agent is the first in that cell or a later one, or the last       *)
(* invocation when there is none (Owned).  The cell order makes the owners *)
(* unique (OwnedDisjoint) and complete (OwnedCover).  The inductive        *)
(* invariant says that each invocation has written what it owns except     *)
(* what is still pending (Wrote).                                          *)
(***************************************************************************)
EXTENDS GridIndex, WellFoundedInduction, TLAPS

\* The entries an invocation writes in its life.
Owned(t) ==
  {k \in Entry : \/ t = 0 /\ k = 0
                 \/ Prev(t) < k /\ k <= cellOf[t]
                 \/ IsLast(t) /\ cellOf[t] < k}

\* What it writes there.
Value(t, k) == IF k > cellOf[t] THEN t + 1 ELSE t

LoopBounds ==
  \A t \in Thread :
    /\ pc[t] = "fill" => i[t] \in Prev(t) + 1 .. cellOf[t] + 1
    /\ pc[t] = "tail" => IsLast(t) /\ i[t] \in cellOf[t] + 1 .. CellCount + 1

Wrote ==
  \A t \in Thread : \A k \in Owned(t) :
    k \notin Pending(t) /\ (k < CellCount \/ backed) => indices[k] = Value(t, k)

IInv == TypeOK /\ InOrder(cellOf) /\ LoopBounds /\ Wrote

-----------------------------------------------------------------------------
(* Who owns which entry.                                                    *)

\* The cell before an agent's is not after it (GridIndex.glsl:34-39), because
\* the agents come sorted.
LEMMA PrevOrdered ==
  ASSUME TypeOK, InOrder(cellOf), NEW t \in Thread
  PROVE  /\ Prev(t) \in 0 .. CellCount - 1
         /\ cellOf[t] \in 0 .. CellCount - 1
         /\ Prev(t) <= cellOf[t]
<1>1. cellOf[t] \in 0 .. CellCount - 1
  BY DEF TypeOK, Thread, CellID
<1>2. CASE t = 0
  BY <1>1, <1>2, IndexAssumption DEF Prev
<1>3. CASE t # 0
  <2>1. t - 1 \in AgentSlot /\ t - 1 < t
    BY <1>3, IndexAssumption DEF Thread, AgentSlot
  <2>2. cellOf[t - 1] <= cellOf[t]
    BY <2>1 DEF InOrder, Thread
  <2>3. cellOf[t - 1] \in 0 .. CellCount - 1
    BY <2>1 DEF TypeOK, CellID
  <2> QED
    BY <1>1, <1>3, <2>2, <2>3 DEF Prev
<1> QED
  BY <1>2, <1>3

\* Two invocations own disjoint parts of the index buffer.
LEMMA OwnedDisjoint ==
  ASSUME TypeOK, InOrder(cellOf),
         NEW t \in Thread, NEW u \in Thread, t # u
  PROVE  Owned(t) \cap Owned(u) = {}
<1>1. ASSUME NEW a \in Thread, NEW b \in Thread, a < b
      PROVE  Owned(a) \cap Owned(b) = {}
  <2>1. a \in 0 .. NumAgents - 1 /\ b \in 0 .. NumAgents - 1
    BY DEF Thread, AgentSlot
  <2>2. b # 0 /\ ~IsLast(a) /\ b - 1 \in AgentSlot
    BY <1>1, <2>1, IndexAssumption DEF IsLast, AgentSlot
  <2>3. cellOf[a] <= cellOf[b - 1]
    <3>1. CASE a = b - 1
      BY <3>1, PrevOrdered
    <3>2. CASE a # b - 1
      BY <1>1, <2>1, <2>2, <3>2 DEF InOrder, Thread
    <3> QED
      BY <3>1, <3>2
  <2>4. /\ Prev(a) \in 0 .. CellCount - 1 /\ cellOf[a] \in 0 .. CellCount - 1
        /\ Prev(b) \in 0 .. CellCount - 1 /\ cellOf[b] \in 0 .. CellCount - 1
        /\ Prev(b) <= cellOf[b]
    BY PrevOrdered
  <2>5. Prev(b) = cellOf[b - 1]
    BY <2>2 DEF Prev
  <2>6. \A k \in Owned(a) : k <= cellOf[a]
    BY <2>2, <2>4 DEF Owned, Entry
  <2>7. \A k \in Owned(b) : k > Prev(b)
    BY <2>2, <2>4, IndexAssumption DEF Owned, Entry
  <2>8. \A k \in Owned(a) : k \in Int
    BY <2>4, IndexAssumption DEF Owned, Entry
  <2> QED
    BY <2>3, <2>4, <2>5, <2>6, <2>7, <2>8
<1>2. t < u \/ u < t
  BY IndexAssumption DEF Thread, AgentSlot
<1> QED
  BY <1>1, <1>2

\* Every entry has an owner.
LEMMA OwnedCover ==
  ASSUME TypeOK, InOrder(cellOf), NEW k \in Entry
  PROVE  \E t \in Thread : k \in Owned(t)
<1> DEFINE T == {s \in AgentSlot : cellOf[s] >= k}
<1>1. k \in 0 .. CellCount
  BY DEF Entry
<1>2. CASE k = 0
  BY <1>2, IndexAssumption DEF Owned, Thread, AgentSlot
<1>3. CASE k # 0 /\ T = {}
  <2> DEFINE l == NumAgents - 1
  <2>1. l \in Thread /\ IsLast(l)
    BY IndexAssumption DEF Thread, AgentSlot, IsLast
  <2>2. cellOf[l] \in 0 .. CellCount - 1
    BY <2>1, PrevOrdered
  <2>3. cellOf[l] < k
    BY <1>1, <1>3, <2>1, <2>2 DEF Thread
  <2>4. k \in Owned(l)
    BY <2>1, <2>3 DEF Owned
  <2> QED
    BY <2>1, <2>4
<1>4. CASE k # 0 /\ T # {}
  <2>1. PICK m \in T : \A y \in T : ~ (<<y, m>> \in OpToRel(<, Nat))
    <3>1. T \subseteq Nat
      BY IndexAssumption DEF AgentSlot
    <3> HIDE DEF T
    <3> QED
      BY <1>4, <3>1, WFMin, NatLessThanWellFounded
  <2>2. m \in Thread /\ cellOf[m] >= k
    BY <2>1 DEF Thread
  <2>3. cellOf[m] \in 0 .. CellCount - 1 /\ Prev(m) \in 0 .. CellCount - 1
    BY <2>2, PrevOrdered
  <2>4. Prev(m) < k
    <3>1. CASE m = 0
      BY <1>1, <1>4, <3>1 DEF Prev
    <3>2. CASE m # 0
      <4>1. m - 1 \in AgentSlot /\ m - 1 \in Nat /\ m \in Nat /\ m - 1 < m
        BY <2>2, <3>2, IndexAssumption DEF Thread, AgentSlot
      <4>2. m - 1 \notin T
        BY <2>1, <4>1 DEF OpToRel
      <4>3. cellOf[m - 1] \in 0 .. CellCount - 1
        BY <4>1 DEF TypeOK, CellID
      <4> QED
        BY <1>1, <3>2, <4>1, <4>2, <4>3 DEF Prev
    <3> QED
      BY <3>1, <3>2
  <2>5. k <= cellOf[m]
    BY <1>1, <2>2, <2>3
  <2>6. k \in Owned(m)
    BY <2>4, <2>5 DEF Owned
  <2> QED
    BY <2>2, <2>6
<1> QED
  BY <1>2, <1>3, <1>4

\* What is still to be written is part of what is owned.
LEMMA PendingOwned ==
  ASSUME TypeOK, InOrder(cellOf), LoopBounds, NEW t \in Thread
  PROVE  Pending(t) \subseteq Owned(t)
<1>1. /\ Prev(t) \in 0 .. CellCount - 1 /\ cellOf[t] \in 0 .. CellCount - 1
      /\ Prev(t) <= cellOf[t]
  BY PrevOrdered
<1>2. i[t] \in Nat
  BY DEF TypeOK
<1>3. CASE pc[t] = "start"
  BY <1>3 DEF Pending, Owned, Entry
<1>4. CASE pc[t] = "fill"
  BY <1>1, <1>2, <1>4 DEF Pending, Owned, Entry, LoopBounds
<1>5. CASE pc[t] = "tail"
  BY <1>1, <1>2, <1>5, IndexAssumption DEF Pending, Owned, Entry, LoopBounds
<1>6. CASE pc[t] = "done"
  BY <1>6 DEF Pending
<1> QED
  BY <1>3, <1>4, <1>5, <1>6 DEF TypeOK

-----------------------------------------------------------------------------
(* The inductive invariant.                                                 *)

\* It holds before the kernel starts: nothing is written, all is pending.
LEMMA InitIInv == Init => IInv
<1> SUFFICES ASSUME Init PROVE IInv
  OBVIOUS
<1>1. TypeOK
  <2>1. cellOf \in [AgentSlot -> CellID] /\ backed \in BOOLEAN
    BY DEF Init
  <2>2. indices \in [Entry -> Nat]
    BY IndexAssumption DEF Init
  <2>3. 0 \in 0 .. CellCount + 1
    BY IndexAssumption
  <2>4. i \in [Thread -> 0 .. CellCount + 1]
    BY <2>3 DEF Init
  <2> QED
    BY <2>1, <2>2, <2>4 DEF Init, TypeOK
<1>2. InOrder(cellOf)
  BY DEF Init
<1>3. LoopBounds
  BY DEF Init, LoopBounds
<1>4. ASSUME NEW t \in Thread PROVE Owned(t) \subseteq Pending(t)
  <2>1. pc[t] = "start"
    BY DEF Init
  <2> QED
    BY <2>1 DEF Owned, Pending
<1>5. Wrote
  BY <1>4 DEF Wrote
<1> QED
  BY <1>1, <1>2, <1>3, <1>5 DEF IInv

\* A write changes one entry, and none when the entry is not backed.
LEMMA WrittenEntries ==
  ASSUME TypeOK, NEW k \in Entry, NEW v \in Nat
  PROVE  /\ Written(k, v) \in [Entry -> Nat]
         /\ \A e \in Entry : e # k => Written(k, v)[e] = indices[e]
         /\ k < CellCount \/ backed => Written(k, v)[k] = v
BY IndexAssumption DEF TypeOK, Written, Entry

\* No step of the kernel moves an agent or moves an entry of another owner.
LEMMA NextIInv == IInv /\ [Next]_vars => IInv'
<1> SUFFICES ASSUME IInv, [Next]_vars PROVE IInv'
  OBVIOUS
<1> USE DEF IInv
<1>1. ASSUME NEW t \in Thread, Step(t)
      PROVE  /\ TypeOK' /\ LoopBounds'
             /\ UNCHANGED <<cellOf, backed>>
             /\ \A u \in Thread \ {t} : pc'[u] = pc[u] /\ i'[u] = i[u]
             /\ Pending(t)' \subseteq Pending(t)
             /\ \A k \in Entry : indices'[k] # indices[k] => k \in Pending(t) \ Pending(t)'
             /\ \A k \in Pending(t) \ Pending(t)' :
                  k < CellCount \/ backed => indices'[k] = Value(t, k)
  <2>1. /\ Prev(t) \in 0 .. CellCount - 1 /\ cellOf[t] \in 0 .. CellCount - 1
        /\ Prev(t) <= cellOf[t] /\ i[t] \in 0 .. CellCount + 1
        /\ t \in Nat /\ CellCount \in Nat \ {0}
    BY PrevOrdered, IndexAssumption DEF TypeOK, Thread, AgentSlot
  <2>2. CASE Start(t)
    <3>1. /\ UNCHANGED <<cellOf, backed>>
          /\ \A u \in Thread \ {t} : pc'[u] = pc[u] /\ i'[u] = i[u]
          /\ pc[t] = "start"
          /\ pc'[t] = "fill"
          /\ i'[t] = Prev(t) + 1
      BY <2>2 DEF Start, TypeOK
    <3>2. indices' = IF t = 0 THEN Written(0, 0) ELSE indices
      BY <2>2 DEF Start
    <3>3. 0 \in Entry /\ 0 \in Nat
      BY <2>1, <3>1 DEF Entry
    <3>4. indices' \in [Entry -> Nat]
      BY <3>2, <3>3, WrittenEntries DEF TypeOK
    <3>5. i' \in [Thread -> 0 .. CellCount + 1]
      BY <2>1, <2>2 DEF Start, TypeOK
    <3>6. pc' \in [Thread -> {"start", "fill", "tail", "done"}]
      BY <2>2 DEF Start, TypeOK
    <3>7. TypeOK'
      BY <3>1, <3>4, <3>5, <3>6 DEF TypeOK
    <3>8. LoopBounds'
      BY <2>1, <3>1 DEF LoopBounds, Prev, IsLast
    <3>9. ASSUME NEW k \in Entry
          PROVE  k \in Pending(t)' <=> k \in Pending(t) /\ ~(t = 0 /\ k = 0)
      <4>1. k \in 0 .. CellCount /\ Prev(t)' = Prev(t)
        BY <3>1 DEF Entry, Prev
      <4> QED
        BY <2>1, <3>1, <4>1 DEF Pending, LoopBounds
    <3>10. ASSUME NEW k \in Entry, t = 0 /\ k = 0
           PROVE  k \in Pending(t) /\ 0 = Value(t, k)
      BY <2>1, <3>1, <3>10 DEF Pending, Value, LoopBounds, Entry
    <3>11. \A k \in Entry : indices'[k] # indices[k] => k \in Pending(t) \ Pending(t)'
      BY <3>2, <3>3, <3>9, <3>10, WrittenEntries
    <3>12. \A k \in Pending(t) \ Pending(t)' :
             k < CellCount \/ backed => indices'[k] = Value(t, k)
      <4>1. Pending(t) \subseteq Entry
        BY DEF Pending
      <4> QED
        BY <3>2, <3>3, <3>9, <3>10, <4>1, WrittenEntries
    <3> QED
      BY <3>1, <3>7, <3>8, <3>9, <3>11, <3>12 DEF Pending
  <2>3. CASE Fill(t)
    <3>1. /\ UNCHANGED <<cellOf, backed>>
          /\ \A u \in Thread \ {t} : pc'[u] = pc[u] /\ i'[u] = i[u]
          /\ pc[t] = "fill" /\ InFill(t)
          /\ pc'[t] = "fill"
          /\ i'[t] = i[t] + 1
      BY <2>3 DEF Fill, TypeOK
    <3>2. indices' = Written(i[t], t)
      BY <2>3 DEF Fill
    <3>3. i[t] \in Entry /\ t \in Nat
      BY <2>1, <3>1 DEF InFill, Entry
    <3>4. indices' \in [Entry -> Nat]
      BY <3>2, <3>3, WrittenEntries DEF TypeOK
    <3>5. i' \in [Thread -> 0 .. CellCount + 1]
      BY <2>1, <2>3 DEF Fill, InFill, TypeOK
    <3>6. pc' \in [Thread -> {"start", "fill", "tail", "done"}]
      BY <2>3 DEF Fill, TypeOK
    <3>7. TypeOK'
      BY <3>1, <3>4, <3>5, <3>6 DEF TypeOK
    <3>8. LoopBounds'
      BY <2>1, <3>1 DEF InFill, LoopBounds, Prev, IsLast
    <3>9. ASSUME NEW k \in Entry
          PROVE  k \in Pending(t)' <=> k \in Pending(t) /\ ~(k = i[t])
      <4>1. k \in 0 .. CellCount /\ Prev(t)' = Prev(t)
        BY <3>1 DEF Entry, Prev
      <4> QED
        BY <2>1, <3>1, <4>1 DEF Pending, InFill, LoopBounds
    <3>10. ASSUME NEW k \in Entry, k = i[t]
           PROVE  k \in Pending(t) /\ t = Value(t, k)
      BY <2>1, <3>1, <3>10 DEF Pending, Value, InFill, LoopBounds, Entry
    <3>11. \A k \in Entry : indices'[k] # indices[k] => k \in Pending(t) \ Pending(t)'
      BY <3>2, <3>3, <3>9, <3>10, WrittenEntries
    <3>12. \A k \in Pending(t) \ Pending(t)' :
             k < CellCount \/ backed => indices'[k] = Value(t, k)
      <4>1. Pending(t) \subseteq Entry
        BY DEF Pending
      <4> QED
        BY <3>2, <3>3, <3>9, <3>10, <4>1, WrittenEntries
    <3> QED
      BY <3>1, <3>7, <3>8, <3>9, <3>11, <3>12 DEF Pending
  <2>4. CASE EndFill(t)
    <3>1. /\ UNCHANGED <<cellOf, backed>>
          /\ \A u \in Thread \ {t} : pc'[u] = pc[u] /\ i'[u] = i[u]
          /\ pc[t] = "fill" /\ ~InFill(t)
          /\ pc'[t] = IF IsLast(t) THEN "tail" ELSE "done"
          /\ i'[t] = IF IsLast(t) THEN cellOf[t] + 1 ELSE i[t]
      BY <2>4 DEF EndFill, TypeOK
    <3>2. indices' = indices
      BY <2>4 DEF EndFill
    <3>4. indices' \in [Entry -> Nat]
      BY <3>2 DEF TypeOK
    <3>5. i' \in [Thread -> 0 .. CellCount + 1]
      BY <2>1, <2>4 DEF EndFill, InFill, TypeOK
    <3>6. pc' \in [Thread -> {"start", "fill", "tail", "done"}]
      BY <2>4 DEF EndFill, TypeOK
    <3>7. TypeOK'
      BY <3>1, <3>4, <3>5, <3>6 DEF TypeOK
    <3>8. LoopBounds'
      BY <2>1, <3>1 DEF InFill, LoopBounds, Prev, IsLast
    <3>9. ASSUME NEW k \in Entry
          PROVE  k \in Pending(t)' <=> k \in Pending(t) /\ ~(FALSE)
      <4>1. k \in 0 .. CellCount /\ Prev(t)' = Prev(t)
        BY <3>1 DEF Entry, Prev
      <4> QED
        BY <2>1, <3>1, <4>1 DEF Pending, InFill, LoopBounds
    <3>10. Pending(t)' = Pending(t)
      BY <3>9 DEF Pending
    <3> QED
      BY <3>1, <3>2, <3>7, <3>8, <3>10
  <2>5. CASE Tail_(t)
    <3>1. /\ UNCHANGED <<cellOf, backed>>
          /\ \A u \in Thread \ {t} : pc'[u] = pc[u] /\ i'[u] = i[u]
          /\ pc[t] = "tail" /\ InTail(t)
          /\ pc'[t] = "tail"
          /\ i'[t] = i[t] + 1
      BY <2>5 DEF Tail_, TypeOK
    <3>2. indices' = Written(i[t], t + 1)
      BY <2>5 DEF Tail_
    <3>3. i[t] \in Entry /\ t + 1 \in Nat
      BY <2>1, <3>1 DEF InTail, Entry
    <3>4. indices' \in [Entry -> Nat]
      BY <3>2, <3>3, WrittenEntries DEF TypeOK
    <3>5. i' \in [Thread -> 0 .. CellCount + 1]
      BY <2>1, <2>5 DEF Tail_, InTail, TypeOK
    <3>6. pc' \in [Thread -> {"start", "fill", "tail", "done"}]
      BY <2>5 DEF Tail_, TypeOK
    <3>7. TypeOK'
      BY <3>1, <3>4, <3>5, <3>6 DEF TypeOK
    <3>8. LoopBounds'
      BY <2>1, <3>1 DEF InTail, LoopBounds, Prev, IsLast
    <3>9. ASSUME NEW k \in Entry
          PROVE  k \in Pending(t)' <=> k \in Pending(t) /\ ~(k = i[t])
      <4>1. k \in 0 .. CellCount /\ Prev(t)' = Prev(t)
        BY <3>1 DEF Entry, Prev
      <4> QED
        BY <2>1, <3>1, <4>1 DEF Pending, InTail, LoopBounds
    <3>10. ASSUME NEW k \in Entry, k = i[t]
           PROVE  k \in Pending(t) /\ t + 1 = Value(t, k)
      BY <2>1, <3>1, <3>10 DEF Pending, Value, InTail, LoopBounds, Entry
    <3>11. \A k \in Entry : indices'[k] # indices[k] => k \in Pending(t) \ Pending(t)'
      BY <3>2, <3>3, <3>9, <3>10, WrittenEntries
    <3>12. \A k \in Pending(t) \ Pending(t)' :
             k < CellCount \/ backed => indices'[k] = Value(t, k)
      <4>1. Pending(t) \subseteq Entry
        BY DEF Pending
      <4> QED
        BY <3>2, <3>3, <3>9, <3>10, <4>1, WrittenEntries
    <3> QED
      BY <3>1, <3>7, <3>8, <3>9, <3>11, <3>12 DEF Pending
  <2>6. CASE EndTail(t)
    <3>1. /\ UNCHANGED <<cellOf, backed>>
          /\ \A u \in Thread \ {t} : pc'[u] = pc[u] /\ i'[u] = i[u]
          /\ pc[t] = "tail" /\ ~InTail(t)
          /\ pc'[t] = "done"
          /\ i'[t] = i[t]
      BY <2>6 DEF EndTail, TypeOK
    <3>2. indices' = indices
      BY <2>6 DEF EndTail
    <3>4. indices' \in [Entry -> Nat]
      BY <3>2 DEF TypeOK
    <3>5. i' \in [Thread -> 0 .. CellCount + 1]
      BY <2>1, <2>6 DEF EndTail, InTail, TypeOK
    <3>6. pc' \in [Thread -> {"start", "fill", "tail", "done"}]
      BY <2>6 DEF EndTail, TypeOK
    <3>7. TypeOK'
      BY <3>1, <3>4, <3>5, <3>6 DEF TypeOK
    <3>8. LoopBounds'
      BY <2>1, <3>1 DEF InTail, LoopBounds, Prev, IsLast
    <3>9. ASSUME NEW k \in Entry
          PROVE  k \in Pending(t)' <=> k \in Pending(t) /\ ~(FALSE)
      <4>1. k \in 0 .. CellCount /\ Prev(t)' = Prev(t)
        BY <3>1 DEF Entry, Prev
      <4> QED
        BY <2>1, <3>1, <4>1 DEF Pending, InTail, LoopBounds
    <3>10. Pending(t)' = Pending(t)
      BY <3>9 DEF Pending
    <3> QED
      BY <3>1, <3>2, <3>7, <3>8, <3>10
  <2> QED
    BY <1>1, <2>2, <2>3, <2>4, <2>5, <2>6 DEF Step
<1>2. ASSUME NEW t \in Thread, Step(t)
      PROVE  InOrder(cellOf)' /\ Wrote'
  <2>1. InOrder(cellOf)'
    BY <1>1, <1>2 DEF InOrder
  <2>2. \A u \in Thread : Owned(u)' = Owned(u) /\ \A k \in Entry : Value(u, k)' = Value(u, k)
    BY <1>1, <1>2 DEF Owned, Value, Prev
  <2>3. ASSUME NEW u \in Thread, NEW k \in Owned(u), k \notin Pending(u)',
               k < CellCount \/ backed
        PROVE  indices'[k] = Value(u, k)
    <3>1. k \in Entry
      BY DEF Owned
    <3>2. CASE u = t
      <4>1. CASE k \in Pending(t)
        BY <1>1, <1>2, <2>3, <3>2, <4>1
      <4>2. CASE k \notin Pending(t)
        BY <1>1, <1>2, <2>3, <3>1, <3>2, <4>2 DEF Wrote
      <4> QED
        BY <4>1, <4>2
    <3>3. CASE u # t
      <4>1. Pending(u)' = Pending(u)
        BY <1>1, <1>2, <3>3 DEF Pending, Prev
      <4>2. k \notin Pending(t)
        BY <3>3, OwnedDisjoint, PendingOwned
      <4>3. indices'[k] = indices[k]
        BY <1>1, <1>2, <3>1, <4>2
      <4> QED
        BY <2>3, <4>1, <4>3 DEF Wrote
    <3> QED
      BY <3>2, <3>3
  <2>4. Wrote'
    BY <1>1, <1>2, <2>2, <2>3 DEF Wrote, Owned
  <2> QED
    BY <2>1, <2>4
<1>3. CASE UNCHANGED vars
  BY <1>3 DEF vars, TypeOK, InOrder, LoopBounds, Wrote, Owned, Pending, Value, Prev
<1> QED
  BY <1>1, <1>2, <1>3 DEF Next, Done

\* IInv holds in every state of every run of the kernel.
LEMMA IInvAlways == Spec => []IInv
<1> QED
  BY InitIInv, NextIInv, PTL DEF Spec

-----------------------------------------------------------------------------
(* The theorems.                                                            *)

\* Type correctness: every value written to the index buffer is a natural
\* number and the loops stay within its entries (GridIndex.glsl:44-52).
THEOREM TypeCorrect == Spec => []TypeOK
<1>1. IInv => TypeOK
  BY DEF IInv
<1> QED
  BY IInvAlways, <1>1, PTL

\* GridIndex.glsl has no write conflict: no two invocations ever have the same
\* entry of the index buffer to write, for any number of agents and cells.
THEOREM WritesDisjoint == Spec => []NoWriteConflict
<1>1. IInv => NoWriteConflict
  <2> SUFFICES ASSUME IInv, NEW t \in Thread, NEW u \in Thread, t # u
               PROVE  Pending(t) \cap Pending(u) = {}
    BY DEF NoWriteConflict
  <2>1. Pending(t) \subseteq Owned(t) /\ Pending(u) \subseteq Owned(u)
    BY PendingOwned DEF IInv
  <2>2. Owned(t) \cap Owned(u) = {}
    BY OwnedDisjoint DEF IInv
  <2> QED
    BY <2>1, <2>2
<1> QED
  BY IInvAlways, <1>1, PTL

\* An entry nobody has still to write separates the agents in the cells before
\* it from the others, also while the kernel is still running.
LEMMA Settled == IInv => SettledEntriesDelimit
<1> SUFFICES ASSUME IInv, NEW k \in Entry, k < CellCount \/ backed,
                    \A t \in Thread : k \notin Pending(t),
                    NEW s \in AgentSlot
             PROVE  s < indices[k] <=> cellOf[s] < k
  BY DEF SettledEntriesDelimit, Delimits
<1>1. PICK t \in Thread : k \in Owned(t)
  BY OwnedCover DEF IInv
<1>2. indices[k] = Value(t, k)
  BY <1>1 DEF IInv, Wrote
<1>3. /\ Prev(t) \in 0 .. CellCount - 1 /\ cellOf[t] \in 0 .. CellCount - 1
      /\ Prev(t) <= cellOf[t]
  BY PrevOrdered DEF IInv
<1>4. /\ s \in 0 .. NumAgents - 1 /\ t \in 0 .. NumAgents - 1
      /\ k \in 0 .. CellCount /\ NumAgents \in Nat
  BY IndexAssumption DEF AgentSlot, Thread, Entry
<1>5. cellOf[s] \in 0 .. CellCount - 1
  BY DEF IInv, TypeOK, CellID
<1>6. s >= t => cellOf[s] >= cellOf[t]
  BY <1>3, <1>4 DEF IInv, InOrder, Thread
<1>7. CASE k > cellOf[t]
  <2>1. t = NumAgents - 1
    BY <1>1, <1>3, <1>4, <1>7 DEF Owned, IsLast
  <2>2. s <= t => cellOf[s] <= cellOf[t]
    BY <1>3, <1>4 DEF IInv, InOrder, Thread
  <2> QED
    BY <1>2, <1>3, <1>4, <1>5, <1>7, <2>1, <2>2 DEF Value
<1>8. CASE ~(k > cellOf[t])
  <2>1. indices[k] = t
    BY <1>2, <1>8 DEF Value
  <2>2. s >= t => cellOf[s] >= k
    BY <1>3, <1>4, <1>5, <1>6, <1>8
  <2>3. ASSUME s < t PROVE cellOf[s] < k
    <3>1. t # 0 /\ t - 1 \in AgentSlot /\ s <= t - 1
      BY <1>4, <2>3 DEF AgentSlot
    <3>2. Prev(t) < k
      BY <1>1, <1>3, <1>4, <1>8, <3>1 DEF Owned
    <3>3. cellOf[s] <= cellOf[t - 1]
      BY <1>3, <1>4, <1>5, <3>1 DEF IInv, InOrder
    <3> QED
      BY <1>3, <1>4, <1>5, <3>1, <3>2, <3>3 DEF Prev
  <2> QED
    BY <1>4, <1>5, <2>1, <2>2, <2>3
<1> QED
  BY <1>7, <1>8

\* The same, of every state of the kernel.
THEOREM SettledAlways == Spec => []SettledEntriesDelimit
<1> QED
  BY IInvAlways, Settled, PTL

\* The index buffer that FlockGrid.glsl reads in the next frame is exact: the
\* range of a cell has the agents of that cell, all of them and no other.
THEOREM IndexIsExact == Spec => []IndexExact
<1>1. IInv => IndexExact
  <2> SUFFICES ASSUME IInv, Finished, NEW c \in CellID,
                      c < CellCount - 1 \/ backed,
                      NEW s \in AgentSlot
               PROVE  s \in CellRange(indices, c) <=> cellOf[s] = c
    BY DEF IndexExact, ExactAt
  <2>1. /\ c \in 0 .. CellCount - 1 /\ CellCount \in Nat
        /\ c \in Entry /\ c + 1 \in Entry
    BY IndexAssumption DEF CellID, Entry
  <2>2. \A t \in Thread, k \in Entry : k \notin Pending(t)
    BY DEF Finished, Pending
  <2>3. Delimits(indices, cellOf, c) /\ Delimits(indices, cellOf, c + 1)
    BY <2>1, <2>2, Settled DEF SettledEntriesDelimit
  <2>4. indices[c] \in Nat /\ indices[c + 1] \in Nat /\ cellOf[s] \in 0 .. CellCount - 1
    BY <2>1 DEF IInv, TypeOK, CellID
  <2>5. s \in Nat
    BY IndexAssumption DEF AgentSlot
  <2> QED
    BY <2>1, <2>3, <2>4, <2>5 DEF Delimits, CellRange
<1> QED
  BY IInvAlways, <1>1, PTL
=============================================================================
