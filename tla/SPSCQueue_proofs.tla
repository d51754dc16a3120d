-------------------------- MODULE SPSCQueue_proofs --------------------------
(***************************************************************************)
(* Proofs about SPSCQueue, for every capacity: the order of the indices    *)
(* along the ring is an invariant, and from it the slot being written is   *)
(* never the slot being read, however old a thread's view of the other's   *)
(* index is.  With what the slots hold and what the threads hold in their  *)
(* hands, the ring implements the bounded FIFO.                            *)
(***************************************************************************)
EXTENDS SPSCQueue, TLAPS

\* (pos + 1) % buffer_.size() is the next slot, and slot 0 after the last.
LEMMA SuccWraps ==
    ASSUME NEW i \in Slots
    PROVE  Succ(i) = (IF i = Capacity THEN 0 ELSE i + 1) /\ Succ(i) \in Slots
<1>1. CASE i = Capacity
  <2>1. (Capacity + 1) % (Capacity + 1) = 0
    BY CapacityAssumption
  <2> QED
    BY <1>1, <2>1, CapacityAssumption DEF Succ, Size, Slots
<1>2. CASE i # Capacity
  <2>1. i + 1 \in Nat /\ i + 1 < Capacity + 1 /\ Capacity + 1 \in Nat
    BY <1>2, CapacityAssumption DEF Slots
  <2>2. \A a, n \in Nat : a < n => a % n = a
    OBVIOUS
  <2> QED
    BY <1>2, <2>1, <2>2, CapacityAssumption DEF Succ, Size, Slots
<1> QED
  BY <1>1, <1>2

\* Distances along the ring when one end moves to the next slot.
LEMMA DistanceMoves ==
    ASSUME NEW i \in Slots, NEW j \in Slots
    PROVE  /\ Distance(i, j) \in 0..Capacity
           /\ Distance(i, j) = 0 <=> i = j
           /\ Succ(j) # i => Distance(i, Succ(j)) = Distance(i, j) + 1
           /\ i # j => Distance(Succ(i), j) = Distance(i, j) - 1
<1>1. Capacity \in Nat /\ i \in 0..Capacity /\ j \in 0..Capacity
  BY CapacityAssumption DEF Slots
<1>2. Distance(i, j) \in 0..Capacity /\ (Distance(i, j) = 0 <=> i = j)
  BY <1>1 DEF Distance, Size
<1>3. Succ(j) # i => Distance(i, Succ(j)) = Distance(i, j) + 1
  <2>1. Succ(j) = IF j = Capacity THEN 0 ELSE j + 1
    BY SuccWraps
  <2> QED
    BY <1>1, <2>1 DEF Distance, Size
<1>4. i # j => Distance(Succ(i), j) = Distance(i, j) - 1
  <2>1. Succ(i) = IF i = Capacity THEN 0 ELSE i + 1
    BY SuccWraps
  <2> QED
    BY <1>1, <2>1 DEF Distance, Size
<1> QED
  BY <1>2, <1>3, <1>4

\* Two slots at the same distance from a third are the same.
LEMMA DistanceInjective ==
    ASSUME NEW i \in Slots, NEW j \in Slots, NEW k \in Slots,
           Distance(i, j) = Distance(i, k)
    PROVE  j = k
BY CapacityAssumption DEF Slots, Distance, Size

Inv == TypeOK /\ RingOrder

LEMMA InitInv == Init => Inv
<1> SUFFICES ASSUME Init PROVE Inv
  OBVIOUS
<1>1. 0 \in Slots
  BY CapacityAssumption DEF Slots
<1> QED
  BY <1>1 DEF Init, Inv, TypeOK, Slot, RingOrder, Distance

LEMMA NextType == TypeOK /\ [Next]_vars => TypeOK'
<1> SUFFICES ASSUME TypeOK, [Next]_vars PROVE TypeOK'
  OBVIOUS
<1> USE DEF TypeOK
<1>1. ASSUME NEW v \in Items, BeginPush(v) PROVE TypeOK'
  BY <1>1 DEF BeginPush, Slot, consumerVars
<1>2. CASE PushFull
  BY <1>2 DEF PushFull, Slot, consumerVars
<1>3. CASE PushRoom
  BY <1>3 DEF PushRoom, consumerVars
<1>4. CASE WriteSlot
  BY <1>4 DEF WriteSlot, consumerVars
<1>5. CASE StoreWriteIdx
  BY <1>5, SuccWraps DEF StoreWriteIdx, Slot, consumerVars
<1>6. CASE PopEmpty
  BY <1>6 DEF PopEmpty, producerVars
<1>7. CASE BeginPop \/ PopItem
  BY <1>7 DEF BeginPop, PopItem, producerVars
<1>8. CASE ReadSlot
  BY <1>8 DEF ReadSlot, producerVars
<1>9. CASE StoreReadIdx
  BY <1>9, SuccWraps DEF StoreReadIdx, Slot, producerVars
<1>10. CASE SeeReadIdx
  BY <1>10, SuccWraps DEF SeeReadIdx, producerVars, consumerVars
<1>11. CASE SeeWriteIdx
  BY <1>11, SuccWraps DEF SeeWriteIdx, producerVars, consumerVars
<1>12. CASE UNCHANGED vars
  BY <1>12 DEF vars
<1> QED
  BY <1>1, <1>2, <1>3, <1>4, <1>5, <1>6, <1>7, <1>8, <1>9, <1>10, <1>11, <1>12
     DEF Next, Producer, Consumer, Visible

\* Each step keeps the order along the ring: an index moves on only to a slot
\* the thread has seen to be free or written, and a view moves towards it.
LEMMA NextRing == Inv /\ [Next]_vars => RingOrder'
<1> SUFFICES ASSUME Inv, [Next]_vars PROVE RingOrder'
  OBVIOUS
<1>0. /\ write_idx \in Slots /\ read_idx \in Slots
      /\ read_view \in Slots /\ write_view \in Slots
  BY DEF Inv, TypeOK
<1>1. CASE UNCHANGED <<write_idx, read_idx, read_view, write_view>>
  <2>1. ppc' \in {"write", "store"} => ppc \in {"write", "store"} \/ ~LooksFull
    BY DEF Next, Producer, Consumer, Visible, BeginPush, PushFull, PushRoom, WriteSlot,
           StoreWriteIdx, PopEmpty, BeginPop, PopItem, ReadSlot, StoreReadIdx, SeeReadIdx, SeeWriteIdx,
           vars, producerVars, consumerVars
  <2>2. cpc' \in {"read", "store"} => cpc \in {"read", "store"} \/ ~LooksEmpty
    BY DEF Next, Producer, Consumer, Visible, BeginPush, PushFull, PushRoom, WriteSlot,
           StoreWriteIdx, PopEmpty, BeginPop, PopItem, ReadSlot, StoreReadIdx, SeeReadIdx, SeeWriteIdx,
           vars, producerVars, consumerVars
  <2> QED
    BY <1>1, <2>1, <2>2 DEF Inv, RingOrder, LooksFull, LooksEmpty
<1>2. CASE StoreWriteIdx
  <2>1. /\ write_idx' = Succ(write_idx) /\ Succ(write_idx) # read_view
        /\ ppc' = "idle" /\ UNCHANGED <<read_idx, read_view, write_view, cpc>>
    BY <1>2 DEF StoreWriteIdx, Inv, RingOrder, consumerVars
  <2>2. Distance(read_view, Succ(write_idx)) = Distance(read_view, write_idx) + 1
        /\ Distance(read_view, write_idx) \in Int /\ Distance(read_view, write_view) \in Int
    BY <1>0, <2>1, DistanceMoves
  <2> QED
    BY <2>1, <2>2 DEF Inv, RingOrder
<1>3. CASE StoreReadIdx
  <2>1. /\ read_idx' = Succ(read_idx) /\ read_idx # write_view
        /\ cpc' = "idle" /\ UNCHANGED <<write_idx, read_view, write_view, ppc>>
    BY <1>3 DEF StoreReadIdx, Inv, RingOrder, producerVars
  <2>2. /\ Distance(read_view, read_idx) \in 0..Capacity
        /\ Distance(read_view, write_view) \in 0..Capacity
        /\ Distance(read_view, read_idx) # Distance(read_view, write_view)
    BY <1>0, <2>1, DistanceMoves, DistanceInjective
  <2>3. \/ Distance(read_view, Succ(read_idx)) = Distance(read_view, read_idx) + 1
        \/ Distance(read_view, Succ(read_idx)) = 0
    BY <1>0, DistanceMoves, SuccWraps
  <2> QED
    BY <2>1, <2>2, <2>3, CapacityAssumption DEF Inv, RingOrder
<1>4. CASE SeeReadIdx
  <2>1. /\ read_view # read_idx /\ read_view' = Succ(read_view)
        /\ UNCHANGED <<write_idx, read_idx, write_view, ppc, cpc>>
    BY <1>4 DEF SeeReadIdx, producerVars, consumerVars
  <2>2. /\ Distance(read_view, read_idx) \in 1..Capacity
        /\ Distance(read_view, write_view) \in 0..Capacity
        /\ Distance(read_view, write_idx) \in 0..Capacity
    BY <1>0, <2>1, DistanceMoves, CapacityAssumption
  <2>3. read_view # write_view /\ read_view # write_idx
    BY <1>0, <2>2, DistanceMoves, CapacityAssumption DEF Inv, RingOrder
  <2>4. /\ Distance(Succ(read_view), read_idx) = Distance(read_view, read_idx) - 1
        /\ Distance(Succ(read_view), write_view) = Distance(read_view, write_view) - 1
        /\ Distance(Succ(read_view), write_idx) = Distance(read_view, write_idx) - 1
    BY <1>0, <2>1, <2>3, DistanceMoves
  <2>5. Succ(write_idx) # Succ(read_view)
    BY <1>0, <2>3, SuccWraps, CapacityAssumption DEF Slots
  <2> QED
    BY <2>1, <2>2, <2>4, <2>5, CapacityAssumption DEF Inv, RingOrder
<1>5. CASE SeeWriteIdx
  <2>1. /\ write_view # write_idx /\ write_view' = Succ(write_view)
        /\ UNCHANGED <<write_idx, read_idx, read_view, ppc, cpc>>
    BY <1>5 DEF SeeWriteIdx, producerVars, consumerVars
  <2>2. /\ Distance(read_view, read_idx) \in 0..Capacity
        /\ Distance(read_view, write_view) \in 0..Capacity
        /\ Distance(read_view, write_idx) \in 0..Capacity
        /\ Distance(read_view, write_view) # Distance(read_view, write_idx)
    BY <1>0, <2>1, DistanceMoves, DistanceInjective
  <2>3. Distance(read_view, write_view) < Capacity
    BY <2>2, CapacityAssumption DEF Inv, RingOrder
  <2>4. Succ(write_view) # read_view
    BY <1>0, <2>3, SuccWraps, CapacityAssumption DEF Distance, Size, Slots
  <2>5. Distance(read_view, Succ(write_view)) = Distance(read_view, write_view) + 1
    BY <1>0, <2>4, DistanceMoves
  <2>6. read_idx # Succ(write_view)
    BY <2>2, <2>5, CapacityAssumption DEF Inv, RingOrder
  <2> QED
    BY <2>1, <2>2, <2>5, <2>6, CapacityAssumption DEF Inv, RingOrder
<1> QED
  BY <1>1, <1>2, <1>3, <1>4, <1>5
     DEF Next, Producer, Consumer, Visible, BeginPush, PushFull, PushRoom, WriteSlot,
         PopEmpty, BeginPop, PopItem, ReadSlot, vars, producerVars, consumerVars

LEMMA NextInv == Inv /\ [Next]_vars => Inv'
BY NextType, NextRing DEF Inv

\* The views and indices keep their order along the ring, for every capacity.
THEOREM IndicesKeepRingOrder == Spec => []RingOrder
<1>1. Inv => RingOrder
  BY DEF Inv
<1> QED
  BY <1>1, InitInv, NextInv, PTL DEF Spec

\* push and pop never touch the same slot at the same time, for every capacity
\* and however late the indices become visible: buffer_ needs no lock.
THEOREM NoDataRaceOnSlots == Spec => []NoSlotRace
<1>1. Inv => NoSlotRace
  <2> SUFFICES ASSUME Inv, cpc = "read", write_idx = read_idx PROVE FALSE
    BY DEF NoSlotRace
  <2>1. /\ write_idx \in Slots /\ read_idx \in Slots
        /\ read_view \in Slots /\ write_view \in Slots
    BY DEF Inv, TypeOK
  <2>2. /\ Distance(read_view, read_idx) \in Int
        /\ Distance(read_view, write_view) \in Int
    BY <2>1, DistanceMoves
  <2>3. Distance(read_view, read_idx) = Distance(read_view, write_view)
    BY <2>2 DEF Inv, RingOrder
  <2>4. read_idx = write_view
    BY <2>1, <2>3, DistanceInjective
  <2> QED
    BY <2>4 DEF Inv, RingOrder
<1> QED
  BY <1>1, InitInv, NextInv, PTL DEF Spec

\* The types of what the queue keeps, for every capacity and every kind of item.
THEOREM TypeCorrect == Spec => []TypeOK
<1>1. Inv => TypeOK
  BY DEF Inv
<1> QED
  BY <1>1, InitInv, NextInv, PTL DEF Spec

-----------------------------------------------------------------------------
(***************************************************************************)
(* The refinement.  The slots from read_idx_ to write_idx_ are written, a  *)
(* push holds an item from its begin to its end, which is in the slot when *)
(* the index is stored, and a pop that has read its slot has what is still *)
(* there when it stores the index.                                         *)
(***************************************************************************)
Written == {<<v>> : v \in Items}

SlotsHoldItems ==
    \A i \in Slots : Distance(read_idx, i) < Distance(read_idx, write_idx) => buffer[i] \in Written

InHand ==
    /\ ppc # "idle" => item \in Written
    /\ ppc = "store" => buffer[write_idx] = item
    /\ cpc = "store" => out = buffer[read_idx]

RefInv == Inv /\ SlotsHoldItems /\ InHand

\* The slot j places after slot i.
LEMMA SlotAt ==
    ASSUME NEW i \in Slots, NEW j \in 0..Capacity
    PROVE  /\ (i + j) % Size = (IF i + j <= Capacity THEN i + j ELSE i + j - Size)
           /\ (i + j) % Size \in Slots
           /\ Distance(i, (i + j) % Size) = j
<1>1. Capacity \in Nat /\ i \in 0..Capacity /\ Size = Capacity + 1
  BY CapacityAssumption DEF Slots, Size
<1>2. (i + j) % Size = (IF i + j <= Capacity THEN i + j ELSE i + j - Size)
  <2>1. \A a, n \in Nat : a < n => a % n = a
    OBVIOUS
  <2>2. \A a, n \in Nat : n <= a /\ a < 2 * n => a % n = a - n
    OBVIOUS
  <2>3. i + j \in Nat /\ Size \in Nat /\ i + j < 2 * Size
    BY <1>1
  <2>4. CASE i + j <= Capacity
    BY <1>1, <2>1, <2>3, <2>4
  <2>5. CASE ~(i + j <= Capacity)
    <3>1. Size <= i + j
      BY <1>1, <2>5
    <3>2. (i + j) % Size = (i + j) - Size
      BY <2>2, <2>3, <3>1
    <3> QED
      BY <1>1, <2>5, <3>2
  <2> QED
    BY <2>4, <2>5
<1>3. (i + j) % Size \in Slots
  BY <1>1, <1>2 DEF Slots
<1>4. Distance(i, (i + j) % Size) = j
  BY <1>1, <1>2 DEF Distance
<1> QED
  BY <1>2, <1>3, <1>4

\* A push never stores the index read_idx_ has, and a pop never leaves an empty
\* ring: what the views say of the other index holds of the index itself.
LEMMA IndicesApart ==
    ASSUME Inv
    PROVE  /\ ppc \in {"write", "store"} => Succ(write_idx) # read_idx
           /\ cpc \in {"read", "store"} => read_idx # write_idx
<1>1. /\ write_idx \in Slots /\ read_idx \in Slots
      /\ read_view \in Slots /\ write_view \in Slots
  BY DEF Inv, TypeOK
<1>2. /\ Distance(read_view, read_idx) \in 0..Capacity
      /\ Distance(read_view, write_view) \in 0..Capacity
      /\ Distance(read_view, write_idx) \in 0..Capacity
  BY <1>1, DistanceMoves
<1>3. ASSUME ppc \in {"write", "store"} PROVE Succ(write_idx) # read_idx
  <2>1. Succ(write_idx) # read_view
    BY <1>3 DEF Inv, RingOrder
  <2>2. Distance(read_view, Succ(write_idx)) = Distance(read_view, write_idx) + 1
    BY <1>1, <2>1, DistanceMoves
  <2> QED
    BY <1>2, <2>2, CapacityAssumption DEF Inv, RingOrder
<1>4. ASSUME cpc \in {"read", "store"}, read_idx = write_idx PROVE FALSE
  <2>1. Distance(read_view, read_idx) = Distance(read_view, write_view)
    BY <1>2, <1>4, CapacityAssumption DEF Inv, RingOrder
  <2>2. read_idx = write_view
    BY <1>1, <2>1, DistanceInjective
  <2> QED
    BY <1>4, <2>2 DEF Inv, RingOrder
<1> QED
  BY <1>3, <1>4

LEMMA InitRef == Init => RefInv
<1> SUFFICES ASSUME Init PROVE RefInv
  OBVIOUS
<1>1. SlotsHoldItems
  <2> SUFFICES ASSUME NEW i \in Slots PROVE ~(Distance(read_idx, i) < Distance(read_idx, write_idx))
    BY DEF SlotsHoldItems
  <2>1. read_idx \in Slots /\ write_idx = read_idx
    BY CapacityAssumption DEF Init, Slots
  <2>2. Distance(read_idx, i) \in 0..Capacity /\ Distance(read_idx, write_idx) = 0
    BY <2>1, DistanceMoves
  <2> QED
    BY <2>2, CapacityAssumption
<1>2. InHand
  BY DEF Init, InHand
<1> QED
  BY <1>1, <1>2, InitInv DEF RefInv

\* The slots that hold items stay written: a push writes the slot behind them, and
\* only then counts it; a pop gives up the first.
LEMMA NextSlots == RefInv /\ [Next]_vars => SlotsHoldItems'
<1> SUFFICES ASSUME RefInv, [Next]_vars, NEW i \in Slots,
                    Distance(read_idx', i) < Distance(read_idx', write_idx')
             PROVE  buffer'[i] \in Written
  BY DEF SlotsHoldItems
<1>0. /\ write_idx \in Slots /\ read_idx \in Slots /\ buffer \in [Slots -> Slot]
      /\ Inv
  BY DEF RefInv, Inv, TypeOK
<1>1. /\ Distance(read_idx, i) \in 0..Capacity
      /\ Distance(read_idx, write_idx) \in 0..Capacity
  BY <1>0, DistanceMoves
<1>2. CASE UNCHANGED <<buffer, write_idx, read_idx>>
  BY <1>2 DEF RefInv, SlotsHoldItems
<1>3. CASE WriteSlot
  <2>1. /\ buffer' = [buffer EXCEPT ![write_idx] = item]
        /\ UNCHANGED <<write_idx, read_idx>>
    BY <1>3 DEF WriteSlot, consumerVars
  <2>2. i # write_idx
    BY <1>1, <2>1, CapacityAssumption
  <2> QED
    BY <1>0, <2>1, <2>2 DEF RefInv, SlotsHoldItems
<1>4. CASE StoreWriteIdx
  <2>1. /\ ppc = "store" /\ write_idx' = Succ(write_idx)
        /\ UNCHANGED <<buffer, read_idx>>
    BY <1>4 DEF StoreWriteIdx, consumerVars
  <2>2. Distance(read_idx, Succ(write_idx)) = Distance(read_idx, write_idx) + 1
    BY <1>0, <2>1, IndicesApart, DistanceMoves
  <2>3. CASE i = write_idx
    BY <2>1, <2>3 DEF RefInv, InHand
  <2>4. CASE i # write_idx
    <3>1. Distance(read_idx, i) # Distance(read_idx, write_idx)
      BY <1>0, <2>4, DistanceInjective
    <3> QED
      BY <1>1, <2>1, <2>2, <3>1, CapacityAssumption DEF RefInv, SlotsHoldItems
  <2> QED
    BY <2>3, <2>4
<1>5. CASE StoreReadIdx
  <2>1. /\ cpc = "store" /\ read_idx' = Succ(read_idx)
        /\ UNCHANGED <<buffer, write_idx>>
    BY <1>5 DEF StoreReadIdx, producerVars
  <2>2. Distance(Succ(read_idx), write_idx) = Distance(read_idx, write_idx) - 1
    BY <1>0, <2>1, IndicesApart, DistanceMoves
  <2>3. CASE i = read_idx
    <3>1. Succ(read_idx) = IF read_idx = Capacity THEN 0 ELSE read_idx + 1
      BY <1>0, SuccWraps
    <3>2. Distance(Succ(read_idx), read_idx) = Capacity
      BY <1>0, <3>1, CapacityAssumption DEF Distance, Size, Slots
    <3> QED
      BY <1>1, <2>1, <2>2, <2>3, <3>2, CapacityAssumption
  <2>4. CASE i # read_idx
    <3>1. Distance(Succ(read_idx), i) = Distance(read_idx, i) - 1
      BY <1>0, <2>4, DistanceMoves
    <3> QED
      BY <1>1, <2>1, <2>2, <3>1, CapacityAssumption DEF RefInv, SlotsHoldItems
  <2> QED
    BY <2>3, <2>4
<1> QED
  BY <1>2, <1>3, <1>4, <1>5
     DEF Next, Producer, Consumer, Visible, BeginPush, PushFull, PushRoom, PopEmpty, BeginPop, PopItem,
         ReadSlot, SeeReadIdx, SeeWriteIdx, vars, producerVars, consumerVars

LEMMA NextHand == RefInv /\ [Next]_vars => InHand'
<1> SUFFICES ASSUME RefInv, [Next]_vars PROVE InHand'
  OBVIOUS
<1>0. /\ Inv /\ InHand
      /\ write_idx \in Slots /\ read_idx \in Slots /\ buffer \in [Slots -> Slot]
      /\ cpc \in {"read", "store"} => read_idx # write_idx
  BY IndicesApart DEF RefInv, Inv, TypeOK
<1>1. ASSUME NEW v \in Items, BeginPush(v) PROVE InHand'
  BY <1>0, <1>1 DEF BeginPush, InHand, Written, consumerVars
<1>2. CASE PushFull
  BY <1>0, <1>2 DEF PushFull, InHand, consumerVars
<1>3. CASE PushRoom
  BY <1>0, <1>3 DEF PushRoom, InHand, consumerVars
<1>4. CASE WriteSlot
  BY <1>0, <1>4 DEF WriteSlot, InHand, consumerVars
<1>5. CASE StoreWriteIdx
  BY <1>0, <1>5 DEF StoreWriteIdx, InHand, consumerVars
<1>6. CASE BeginPop \/ PopItem
  BY <1>0, <1>6 DEF BeginPop, PopItem, InHand, producerVars
<1>7. CASE ReadSlot
  BY <1>0, <1>7 DEF ReadSlot, InHand, producerVars
<1>8. CASE StoreReadIdx
  BY <1>0, <1>8 DEF StoreReadIdx, InHand, producerVars
<1>9. CASE SeeReadIdx \/ SeeWriteIdx \/ PopEmpty \/ UNCHANGED vars
  BY <1>0, <1>9
     DEF SeeReadIdx, SeeWriteIdx, PopEmpty, InHand, vars, producerVars, consumerVars
<1> QED
  BY <1>1, <1>2, <1>3, <1>4, <1>5, <1>6, <1>7, <1>8, <1>9
     DEF Next, Producer, Consumer, Visible

LEMMA NextRef == RefInv /\ [Next]_vars => RefInv'
BY NextInv, NextSlots, NextHand DEF RefInv

\* Contents is a sequence, with one element for each slot from read_idx_ on.
ContentsOfSlots ==
    /\ Contents \in Seq(Items)
    /\ Len(Contents) = Distance(read_idx, write_idx)
    /\ Len(Contents) \in 0..Capacity
    /\ \A k \in 1..Len(Contents) : /\ (read_idx + k - 1) % Size \in Slots
                                   /\ buffer[(read_idx + k - 1) % Size] \in Written
                                   /\ Contents[k] = buffer[(read_idx + k - 1) % Size][1]

LEMMA ContentsIsSeq == RefInv => ContentsOfSlots
<1> SUFFICES ASSUME RefInv PROVE ContentsOfSlots
  OBVIOUS
<1> DEFINE D == Distance(read_idx, write_idx)
<1>1. /\ write_idx \in Slots /\ read_idx \in Slots /\ buffer \in [Slots -> Slot]
      /\ D \in 0..Capacity /\ Capacity \in Nat
  BY DistanceMoves, CapacityAssumption DEF RefInv, Inv, TypeOK
<1>2. ASSUME NEW k \in 1..D
      PROVE  /\ (read_idx + k - 1) % Size \in Slots
             /\ buffer[(read_idx + k - 1) % Size] \in Written
  <2>1. k - 1 \in 0..Capacity /\ k - 1 < D /\ read_idx + k - 1 = read_idx + (k - 1)
    BY <1>1 DEF Slots
  <2>2. /\ (read_idx + (k - 1)) % Size \in Slots
        /\ Distance(read_idx, (read_idx + (k - 1)) % Size) = k - 1
    BY <1>1, <2>1, SlotAt
  <2> QED
    BY <2>1, <2>2 DEF RefInv, SlotsHoldItems
<1>3. \A x \in Written : x[1] \in Items
  BY DEF Written
<1>4. Contents = [k \in 1..D |-> buffer[(read_idx + k - 1) % Size][1]]
  BY DEF Contents
<1>5. Contents \in Seq(Items) /\ Len(Contents) = D
  BY <1>1, <1>2, <1>3, <1>4
<1> QED
  BY <1>1, <1>2, <1>4, <1>5 DEF ContentsOfSlots

LEMMA ContentsIsSeqNext == RefInv' => ContentsOfSlots'
BY ContentsIsSeq, PTL

\* Storing write_idx_ puts the item of the push behind the contents, for which
\* there is room.
LEMMA StoreIsPush ==
    ASSUME RefInv, StoreWriteIdx, RefInv'
    PROVE  \E v \in Items : FIFO!Push(v)
<1>1. /\ ppc = "store" /\ write_idx' = Succ(write_idx)
      /\ UNCHANGED <<buffer, read_idx, popped>>
  BY DEF StoreWriteIdx, consumerVars
<1>2. /\ write_idx \in Slots /\ read_idx \in Slots /\ Capacity \in Nat
      /\ Distance(read_idx, write_idx) \in 0..Capacity
  BY DistanceMoves, CapacityAssumption DEF RefInv, Inv, TypeOK
<1>3. PICK v \in Items : item = <<v>> /\ buffer[write_idx] = <<v>>
  BY <1>1 DEF RefInv, InHand, Written
<1>4. Len(Contents') = Len(Contents) + 1 /\ Len(Contents') <= Capacity
  <2>1. Distance(read_idx, Succ(write_idx)) = Distance(read_idx, write_idx) + 1
    BY <1>1, <1>2, IndicesApart, DistanceMoves DEF RefInv
  <2>2. Len(Contents) = Distance(read_idx, write_idx)
    BY ContentsIsSeq DEF ContentsOfSlots
  <2>3. Len(Contents') = Distance(read_idx', write_idx') /\ Len(Contents') <= Capacity
    BY <1>2, ContentsIsSeqNext DEF ContentsOfSlots
  <2> QED
    BY <1>1, <2>1, <2>2, <2>3
<1>5. Contents' = Append(Contents, v)
  <2>1. Contents \in Seq(Items) /\ Contents' \in Seq(Items)
    BY ContentsIsSeq, ContentsIsSeqNext DEF ContentsOfSlots
  <2>2. ASSUME NEW k \in 1..Len(Contents) PROVE Contents'[k] = Contents[k]
    <3>1. Contents[k] = buffer[(read_idx + k - 1) % Size][1]
      BY ContentsIsSeq DEF ContentsOfSlots
    <3>2. Contents'[k] = buffer'[(read_idx' + k - 1) % Size][1]
      BY <1>4, <2>1, ContentsIsSeqNext DEF ContentsOfSlots
    <3> QED
      BY <1>1, <3>1, <3>2
  <2>3. Contents'[Len(Contents) + 1] = v
    <3>1. Contents'[Len(Contents) + 1] = buffer'[(read_idx' + (Len(Contents) + 1) - 1) % Size][1]
      BY <1>4, <2>1, ContentsIsSeqNext DEF ContentsOfSlots
    <3>2. read_idx + (Len(Contents) + 1) - 1 = read_idx + Distance(read_idx, write_idx)
      <4>1. Len(Contents) = Distance(read_idx, write_idx)
        BY ContentsIsSeq DEF ContentsOfSlots
      <4> QED
        BY <1>2, <4>1 DEF Slots
    <3>3. (read_idx + Distance(read_idx, write_idx)) % Size = write_idx
      BY <1>2, SlotAt, DistanceInjective
    <3> QED
      BY <1>1, <1>3, <3>1, <3>2, <3>3
  <2> QED
    BY <1>4, <2>1, <2>2, <2>3
<1> QED
  BY <1>1, <1>2, <1>4, <1>5, ContentsIsSeq DEF ContentsOfSlots, FIFO!Push

\* Storing read_idx_ takes out the oldest item, the one the pop returns.
LEMMA StoreIsPop ==
    ASSUME RefInv, StoreReadIdx, RefInv'
    PROVE  FIFO!Pop
<1>1. /\ cpc = "store" /\ read_idx' = Succ(read_idx) /\ popped' = out
      /\ UNCHANGED <<buffer, write_idx>>
  BY DEF StoreReadIdx, producerVars
<1>2. /\ write_idx \in Slots /\ read_idx \in Slots /\ Capacity \in Nat
      /\ Distance(read_idx, write_idx) \in 0..Capacity
  BY DistanceMoves, CapacityAssumption DEF RefInv, Inv, TypeOK
<1>3. read_idx # write_idx
  BY <1>1, IndicesApart DEF RefInv
<1>4. /\ Len(Contents) = Distance(read_idx, write_idx) /\ Len(Contents) # 0
      /\ Len(Contents') = Len(Contents) - 1
  <2>1. Distance(Succ(read_idx), write_idx) = Distance(read_idx, write_idx) - 1
        /\ Distance(read_idx, write_idx) # 0
    BY <1>2, <1>3, DistanceMoves
  <2>2. Len(Contents) = Distance(read_idx, write_idx)
    BY ContentsIsSeq DEF ContentsOfSlots
  <2>3. Len(Contents') = Distance(read_idx', write_idx')
    BY ContentsIsSeqNext DEF ContentsOfSlots
  <2> QED
    BY <1>1, <2>1, <2>2, <2>3
<1>5. Contents \in Seq(Items) /\ Contents' \in Seq(Items)
  BY ContentsIsSeq, ContentsIsSeqNext DEF ContentsOfSlots
<1>6. popped' = <<Head(Contents)>>
  <2>1. 1 \in 1..Len(Contents) /\ Head(Contents) = Contents[1]
    BY <1>2, <1>4, <1>5
  <2>2. /\ buffer[(read_idx + 1 - 1) % Size] \in Written
        /\ Contents[1] = buffer[(read_idx + 1 - 1) % Size][1]
    BY <2>1, ContentsIsSeq DEF ContentsOfSlots
  <2>3. (read_idx + 1 - 1) % Size = read_idx
    <3>1. 0 \in 0..Capacity /\ read_idx + 1 - 1 = read_idx + 0 /\ Distance(read_idx, read_idx) = 0
      BY <1>2, DistanceMoves DEF Slots
    <3> QED
      BY <1>2, <3>1, SlotAt, DistanceInjective
  <2>4. out = buffer[read_idx]
    BY <1>1 DEF RefInv, InHand
  <2>5. \A x \in Written : x = <<x[1]>>
    BY DEF Written
  <2> QED
    BY <1>1, <2>1, <2>2, <2>3, <2>4, <2>5
<1>7. Contents' = Tail(Contents)
  <2>1. ASSUME NEW k \in 1..Len(Contents') PROVE Contents'[k] = Contents[k + 1]
    <3>1. k + 1 \in 1..Len(Contents) /\ k - 1 \in 0..Capacity /\ k \in 0..Capacity /\ k \in Nat
      BY <1>2, <1>4, <1>5
    <3>2. Contents[k + 1] = buffer[(read_idx + (k + 1) - 1) % Size][1]
      BY <3>1, ContentsIsSeq DEF ContentsOfSlots
    <3>3. Contents'[k] = buffer'[(read_idx' + k - 1) % Size][1]
      BY ContentsIsSeqNext DEF ContentsOfSlots
    <3>4. (Succ(read_idx) + (k - 1)) % Size = (read_idx + k) % Size
      <4>1. Succ(read_idx) \in Slots
            /\ Succ(read_idx) = (IF read_idx = Capacity THEN 0 ELSE read_idx + 1)
        BY <1>2, SuccWraps
      <4>2. (Succ(read_idx) + (k - 1)) % Size =
               (IF Succ(read_idx) + (k - 1) <= Capacity THEN Succ(read_idx) + (k - 1)
                ELSE Succ(read_idx) + (k - 1) - Size)
        BY <3>1, <4>1, SlotAt
      <4>3. (read_idx + k) % Size =
               (IF read_idx + k <= Capacity THEN read_idx + k ELSE read_idx + k - Size)
        BY <1>2, <3>1, SlotAt
      <4> QED
        BY <1>2, <3>1, <4>1, <4>2, <4>3 DEF Size, Slots
    <3>5. Succ(read_idx) + k - 1 = Succ(read_idx) + (k - 1) /\ read_idx + (k + 1) - 1 = read_idx + k
      BY <1>2, <3>1, SuccWraps DEF Slots
    <3> QED
      BY <1>1, <3>2, <3>3, <3>4, <3>5
  <2> QED
    BY <1>2, <1>4, <1>5, <2>1
<1>8. Contents # <<>>
  BY <1>4, <1>5
<1> QED
  BY <1>6, <1>7, <1>8 DEF FIFO!Pop

\* The queue is a bounded FIFO of Capacity items, for every capacity, every kind
\* of item and however late the stores become visible: what the producer pushes
\* the consumer pops, once and in order, and a push is refused only for want of room.
THEOREM QueueImplementsFIFO == Spec => RefinesFIFO
<1>1. Init => FIFO!Init
  <2> SUFFICES ASSUME Init PROVE Contents = <<>> /\ popped = <<>>
    BY DEF FIFO!Init
  <2>1. Distance(read_idx, write_idx) = 0
    BY DEF Init, Distance
  <2> QED
    BY <2>1 DEF Init, Contents
<1>2. RefInv /\ RefInv' /\ [Next]_vars => [FIFO!Next]_<<Contents, popped>>
  <2> SUFFICES ASSUME RefInv, RefInv', [Next]_vars
               PROVE  FIFO!Next \/ UNCHANGED <<Contents, popped>>
    OBVIOUS
  <2>1. CASE StoreWriteIdx
    BY <2>1, StoreIsPush DEF FIFO!Next
  <2>2. CASE StoreReadIdx
    BY <2>2, StoreIsPop DEF FIFO!Next
  <2>3. CASE WriteSlot
    <3>1. /\ buffer' = [buffer EXCEPT ![write_idx] = item]
          /\ UNCHANGED <<write_idx, read_idx, popped>>
      BY <2>3 DEF WriteSlot, consumerVars
    <3>2. /\ Contents \in Seq(Items) /\ Contents' \in Seq(Items)
          /\ Len(Contents) = Distance(read_idx, write_idx)
          /\ Len(Contents') = Distance(read_idx', write_idx')
      BY ContentsIsSeq, ContentsIsSeqNext DEF ContentsOfSlots
    <3>3. ASSUME NEW k \in 1..Len(Contents) PROVE Contents'[k] = Contents[k]
      <4>1. /\ read_idx \in Slots /\ buffer \in [Slots -> Slot] /\ Capacity \in Nat
            /\ Len(Contents) \in 0..Capacity
        BY ContentsIsSeq, CapacityAssumption DEF ContentsOfSlots, RefInv, Inv, TypeOK
      <4>2. k - 1 \in 0..Capacity /\ read_idx + k - 1 = read_idx + (k - 1) /\ k - 1 # Len(Contents)
        BY <4>1 DEF Slots
      <4>3. (read_idx + k - 1) % Size # write_idx /\ (read_idx + k - 1) % Size \in Slots
        BY <3>2, <4>1, <4>2, SlotAt
      <4>4. Contents[k] = buffer[(read_idx + k - 1) % Size][1]
        BY ContentsIsSeq DEF ContentsOfSlots
      <4>5. Contents'[k] = buffer'[(read_idx' + k - 1) % Size][1]
        BY <3>1, <3>2, ContentsIsSeqNext DEF ContentsOfSlots
      <4> QED
        BY <3>1, <4>1, <4>3, <4>4, <4>5
    <3> QED
      BY <3>1, <3>2, <3>3
  <2>4. CASE UNCHANGED <<buffer, write_idx, read_idx, popped>>
    BY <2>4 DEF Contents
  <2> QED
    BY <2>1, <2>2, <2>3, <2>4
       DEF Next, Producer, Consumer, Visible, BeginPush, PushFull, PushRoom, PopEmpty, BeginPop, PopItem,
           ReadSlot, SeeReadIdx, SeeWriteIdx, vars, producerVars, consumerVars
<1> QED
  BY <1>1, <1>2, InitRef, NextRef, PTL DEF Spec, RefinesFIFO, FIFO!Spec
=============================================================================
