------------------------ MODULE MatchingEngine_proofs ------------------------
(***************************************************************************)
(* Proofs about MatchingEngine, for every set of ids, every price range    *)
(* and pool capacity, and every mix of order types; without iceberg orders *)
(* where the totals of the levels are concerned.                           *)
(***************************************************************************)
EXTENDS MatchingEngine, SequenceTheorems, FiniteSetTheorems, WellFoundedInduction, TLAPS

-----------------------------------------------------------------------------
(* Sequences. *)

\* PriceLevel::remove on a queue that holds the order once: the others close up
\* and keep their order.
LEMMA RemoveFirstUnique ==
    ASSUME NEW S, NEW q \in Seq(S), NEW i \in 1..Len(q),
           \A j \in 1..Len(q) : q[j] = q[i] => j = i
    PROVE  /\ RemoveFirst(q, q[i]) \in Seq(S)
           /\ Len(RemoveFirst(q, q[i])) = Len(q) - 1
           /\ \A j \in 1..(Len(q) - 1) :
                 RemoveFirst(q, q[i])[j] = IF j < i THEN q[j] ELSE q[j + 1]
<1> DEFINE e == q[i]
<1> DEFINE I == {j \in 1..Len(q) : q[j] = e}
<1>1. I = {i}
  OBVIOUS
<1>2. Min(I) = i
  <2>1. \A x \in I : (\A y \in I : x =< y) <=> x = i
    BY <1>1
  <2> QED
    BY <1>1, <2>1 DEF Min
<1>3. SelectInSeq(q, LAMBDA v : v = e) = i
  BY <1>1, <1>2 DEF SelectInSeq
<1>4. RemoveFirst(q, e) = RemoveAt(q, i)
  BY <1>3 DEF RemoveFirst
<1> DEFINE a == SubSeq(q, 1, i - 1)
           b == SubSeq(q, i + 1, Len(q))
<1>5. /\ a \in Seq(S) /\ Len(a) = i - 1
      /\ \A j \in 1..(i - 1) : a[j] = q[j]
  BY SubSeqProperties
<1>6. /\ b \in Seq(S) /\ Len(b) = Len(q) - i
      /\ \A j \in 1..(Len(q) - i) : b[j] = q[i + j]
  BY SubSeqProperties
<1> HIDE DEF a, b
<1>7. /\ a \o b \in Seq(S)
      /\ Len(a \o b) = Len(q) - 1
      /\ \A j \in 1..(Len(q) - 1) : (a \o b)[j] = IF j < i THEN q[j] ELSE q[j + 1]
  BY <1>5, <1>6, ConcatProperties
<1> QED
  BY <1>4, <1>7 DEF RemoveAt, a, b

-----------------------------------------------------------------------------
(* The book's indices. *)

QueueType == [Side -> [Ticks -> Seq(OrderIds)]]

OrderTable == [OrderIds -> Order]

\* An order appended to its level makes its price a level of its side.
LEMMA LinkLevels ==
    ASSUME NEW q \in QueueType, NEW id \in OrderIds, NEW o \in Order
    PROVE  \A s \in Side : levels(Link(q, o, id), s) =
              IF s = o.side THEN levels(q, s) \cup {o.price} ELSE levels(q, s)
<1> DEFINE Q == Link(q, o, id)
<1>1. o.side \in Side /\ o.price \in Ticks
  BY DEF Order
<1>2. q[o.side][o.price] \in Seq(OrderIds)
  BY <1>1 DEF QueueType
<1>3. Append(q[o.side][o.price], id) # <<>>
  BY <1>2, AppendProperties
<1>4. /\ Q[o.side][o.price] # <<>>
      /\ \A s \in Side, p \in Ticks : (s # o.side \/ p # o.price) => Q[s][p] = q[s][p]
  BY <1>1, <1>3 DEF Link, QueueType
<1> QED
  BY <1>1, <1>4 DEF levels

\* Appending a new order to its level keeps the indices in agreement.
LEMMA LinkAgrees ==
    ASSUME NEW q \in QueueType, NEW om \in SUBSET OrderIds, NEW ord \in OrderTable,
           NEW id \in OrderIds \ om, NEW o \in Order,
           IndicesAgree(q, om, ord)
    PROVE  /\ Link(q, o, id) \in QueueType
           /\ IndicesAgree(Link(q, o, id), om \cup {id}, [ord EXCEPT ![id] = o])
<1> DEFINE s0 == o.side
           p0 == o.price
           Q  == Link(q, o, id)
           R  == [ord EXCEPT ![id] = o]
<1>1. s0 \in Side /\ p0 \in Ticks
  BY DEF Order
<1>2. q[s0][p0] \in Seq(OrderIds)
  BY <1>1 DEF QueueType
<1>3. /\ Append(q[s0][p0], id) \in Seq(OrderIds)
      /\ Len(Append(q[s0][p0], id)) = Len(q[s0][p0]) + 1
      /\ \A i \in 1..Len(q[s0][p0]) : Append(q[s0][p0], id)[i] = q[s0][p0][i]
      /\ Append(q[s0][p0], id)[Len(q[s0][p0]) + 1] = id
  BY <1>2, AppendProperties
<1> DEFINE L == Len(q[s0][p0])
<1>4. /\ Q \in QueueType
      /\ L \in Nat
      /\ Len(Q[s0][p0]) = L + 1
      /\ \A i \in 1..L : Q[s0][p0][i] = q[s0][p0][i]
      /\ Q[s0][p0][L + 1] = id
      /\ \A s \in Side, p \in Ticks : (s # s0 \/ p # p0) => Q[s][p] = q[s][p]
  <2>1. /\ Q \in QueueType
        /\ Q[s0][p0] = Append(q[s0][p0], id)
        /\ \A s \in Side, p \in Ticks : (s # s0 \/ p # p0) => Q[s][p] = q[s][p]
    BY <1>1, <1>3 DEF Link, QueueType
  <2>2. L \in Nat
    BY <1>2, LenProperties
  <2> QED
    BY <2>1, <2>2, <1>3
<1> HIDE DEF Q, L
<1>5. R \in OrderTable /\ R[id] = o /\ \A x \in om : R[x] = ord[x]
  BY DEF OrderTable
<1> HIDE DEF R
<1>6. \A s \in Side, p \in Ticks : \A i \in 1..Len(q[s][p]) :
         q[s][p][i] \in om /\ q[s][p][i] # id
  BY DEF IndicesAgree, QueuedAreMapped
<1>7. QueuedAreMapped(Q, om \cup {id}, R)
  <2> SUFFICES ASSUME NEW s \in Side, NEW p \in Ticks, NEW i \in 1..Len(Q[s][p])
               PROVE  /\ Q[s][p][i] \in om \cup {id}
                      /\ R[Q[s][p][i]].side = s /\ R[Q[s][p][i]].price = p
    BY DEF QueuedAreMapped
  <2>1. CASE s # s0 \/ p # p0
    BY <2>1, <1>4, <1>5, <1>6 DEF IndicesAgree, QueuedAreMapped
  <2>2. CASE s = s0 /\ p = p0 /\ i \in 1..L
    <3>1. i \in 1..Len(q[s][p])
      BY <2>2 DEF L
    <3>2. Q[s][p][i] = q[s][p][i]
      BY <2>2, <1>4
    <3>3. q[s][p][i] \in om /\ ord[q[s][p][i]].side = s /\ ord[q[s][p][i]].price = p
      BY <3>1 DEF IndicesAgree, QueuedAreMapped
    <3> QED
      BY <3>2, <3>3, <1>5
  <2>3. CASE s = s0 /\ p = p0 /\ i = L + 1
    BY <2>3, <1>4, <1>5
  <2> QED
    BY <2>1, <2>2, <2>3, <1>4
<1>8. QueuedOnce(Q)
  <2> SUFFICES ASSUME NEW s \in Side, NEW p \in Ticks,
                      NEW i \in 1..Len(Q[s][p]), NEW j \in 1..Len(Q[s][p]),
                      Q[s][p][i] = Q[s][p][j]
               PROVE  i = j
    BY DEF QueuedOnce
  <2>1. CASE s # s0 \/ p # p0
    BY <2>1, <1>4 DEF IndicesAgree, QueuedOnce
  <2>2. CASE s = s0 /\ p = p0
    <3>1. ASSUME NEW k \in 1..L PROVE Q[s0][p0][k] # id
      <4>1. Q[s0][p0][k] = q[s0][p0][k]
        BY <1>4
      <4>2. k \in 1..Len(q[s0][p0]) /\ s0 \in Side /\ p0 \in Ticks
        BY <1>1 DEF L
      <4>3. q[s0][p0][k] # id
        BY <1>6, <4>2
      <4> QED
        BY <4>1, <4>3
    <3>2. \A k, l \in 1..L : q[s0][p0][k] = q[s0][p0][l] => k = l
      BY <1>1 DEF IndicesAgree, QueuedOnce, L
    <3> QED
      BY <2>2, <3>1, <3>2, <1>4
  <2> QED
    BY <2>1, <2>2
<1>9. MappedAreQueued(Q, om \cup {id}, R)
  <2> SUFFICES ASSUME NEW x \in om \cup {id}
               PROVE  \E i \in 1..Len(Q[R[x].side][R[x].price]) :
                         Q[R[x].side][R[x].price][i] = x
    BY DEF MappedAreQueued
  <2>1. CASE x = id
    BY <2>1, <1>4, <1>5
  <2>2. CASE x \in om
    <3> DEFINE s == ord[x].side
               p == ord[x].price
    <3>1. s \in Side /\ p \in Ticks
      BY <2>2 DEF OrderTable, Order
    <3>2. PICK i \in 1..Len(q[s][p]) : q[s][p][i] = x
      BY <2>2 DEF IndicesAgree, MappedAreQueued
    <3>3. CASE s = s0 /\ p = p0
      <4>1. R[x].side = s /\ R[x].price = p
        BY <2>2, <1>5
      <4> HIDE DEF s, p
      <4>2. i \in 1..L /\ q[s0][p0][i] = x
        BY <3>2, <3>3 DEF L
      <4> HIDE DEF s0, p0
      <4>3. i \in 1..Len(Q[s0][p0]) /\ Q[s0][p0][i] = x
        BY <4>2, <1>2, <1>4
      <4> QED
        BY <4>1, <4>3, <3>3
    <3>4. CASE s # s0 \/ p # p0
      <4>1. Q[s][p] = q[s][p]
        BY <3>1, <3>4, <1>4
      <4>2. R[x].side = s /\ R[x].price = p
        BY <2>2, <1>5
      <4> HIDE DEF s, p
      <4> QED
        BY <4>1, <4>2, <3>2
    <3> QED
      BY <3>3, <3>4
  <2> QED
    BY <2>1, <2>2
<1> QED
  BY <1>4, <1>7, <1>8, <1>9 DEF IndicesAgree, Q, R

\* Taking an order out of its level keeps the indices in agreement: the other
\* orders stay queued, and its price leaves the levels of its side only when
\* its queue is empty.
LEMMA UnlinkAgrees ==
    ASSUME NEW q \in QueueType, NEW om \in SUBSET OrderIds, NEW ord \in OrderTable,
           NEW id \in om, NEW o \in Order, NEW ord1 \in OrderTable,
           o.side = ord[id].side, o.price = ord[id].price,
           \A x \in om \ {id} : ord1[x].side = ord[x].side /\ ord1[x].price = ord[x].price,
           IndicesAgree(q, om, ord)
    PROVE  /\ Unlink(q, o, id) \in QueueType
           /\ IndicesAgree(Unlink(q, o, id), om \ {id}, ord1)
           /\ o.price \in levels(q, o.side)
           /\ \A s \in Side : levels(Unlink(q, o, id), s) =
                 IF s = o.side /\ Unlink(q, o, id)[s][o.price] = <<>>
                 THEN levels(q, s) \ {o.price} ELSE levels(q, s)
<1> DEFINE s0 == o.side
           p0 == o.price
           Q  == Unlink(q, o, id)
           L  == Len(q[s0][p0])
<1>1. s0 \in Side /\ p0 \in Ticks /\ id \in OrderIds
  BY DEF Order
<1>2. q[s0][p0] \in Seq(OrderIds) /\ L \in Nat
  BY <1>1, LenProperties DEF QueueType
<1>3. PICK k \in 1..L : q[s0][p0][k] = id
  BY DEF IndicesAgree, MappedAreQueued
<1>4. \A j \in 1..L : q[s0][p0][j] = q[s0][p0][k] => j = k
  BY <1>1, <1>3 DEF IndicesAgree, QueuedOnce
<1>5. /\ RemoveFirst(q[s0][p0], id) \in Seq(OrderIds)
      /\ Len(RemoveFirst(q[s0][p0], id)) = L - 1
      /\ \A j \in 1..(L - 1) :
            RemoveFirst(q[s0][p0], id)[j] = IF j < k THEN q[s0][p0][j] ELSE q[s0][p0][j + 1]
  <2> DEFINE r == q[s0][p0]
  <2>1. r \in Seq(OrderIds) /\ k \in 1..Len(r) /\ r[k] = id
        /\ \A j \in 1..Len(r) : r[j] = r[k] => j = k
    BY <1>2, <1>3, <1>4
  <2> HIDE DEF r
  <2>2. /\ RemoveFirst(r, r[k]) \in Seq(OrderIds)
        /\ Len(RemoveFirst(r, r[k])) = Len(r) - 1
        /\ \A j \in 1..(Len(r) - 1) :
              RemoveFirst(r, r[k])[j] = IF j < k THEN r[j] ELSE r[j + 1]
    BY <2>1, RemoveFirstUnique
  <2> QED
    BY <2>1, <2>2 DEF r
<1>6. /\ Q \in QueueType
      /\ Q[s0][p0] = RemoveFirst(q[s0][p0], id)
      /\ \A s \in Side, p \in Ticks : (s # s0 \/ p # p0) => Q[s][p] = q[s][p]
  BY <1>1, <1>5 DEF Unlink, QueueType
<1>7. /\ Len(Q[s0][p0]) = L - 1
      /\ \A j \in 1..(L - 1) :
            Q[s0][p0][j] = IF j < k THEN q[s0][p0][j] ELSE q[s0][p0][j + 1]
  BY <1>5, <1>6
<1> HIDE DEF Q
<1>8. QueuedAreMapped(Q, om \ {id}, ord1)
  <2> SUFFICES ASSUME NEW s \in Side, NEW p \in Ticks, NEW i \in 1..Len(Q[s][p])
               PROVE  /\ Q[s][p][i] \in om \ {id}
                      /\ ord1[Q[s][p][i]].side = s /\ ord1[Q[s][p][i]].price = p
    BY DEF QueuedAreMapped
  <2>1. CASE s # s0 \/ p # p0
    <3>1. Q[s][p] = q[s][p]
      BY <2>1, <1>6
    <3> DEFINE x == q[s][p][i]
    <3>2. x \in om /\ ord[x].side = s /\ ord[x].price = p
      BY <3>1 DEF IndicesAgree, QueuedAreMapped
    <3>3. x # id
      BY <3>2, <2>1
    <3> QED
      BY <3>1, <3>2, <3>3
  <2>2. CASE s = s0 /\ p = p0
    <3> DEFINE j == IF i < k THEN i ELSE i + 1
    <3>1. i \in 1..(L - 1)
      BY <2>2, <1>7
    <3>2. j \in 1..L /\ j # k
      BY <3>1, <1>2, <1>3
    <3>3. Q[s][p][i] = q[s][p][j]
      BY <2>2, <3>1, <1>7
    <3> HIDE DEF j
    <3>4. q[s][p][j] \in om /\ ord[q[s][p][j]].side = s /\ ord[q[s][p][j]].price = p
      <4>1. QueuedAreMapped(q, om, ord)
        BY DEF IndicesAgree
      <4>2. j \in 1..Len(q[s][p])
        BY <2>2, <3>2
      <4> QED
        BY <4>1, <4>2 DEF QueuedAreMapped
    <3>5. q[s][p][j] # id
      BY <2>2, <3>2, <1>3, <1>4
    <3> QED
      BY <3>3, <3>4, <3>5
  <2> QED
    BY <2>1, <2>2
<1>9. QueuedOnce(Q)
  <2> SUFFICES ASSUME NEW s \in Side, NEW p \in Ticks,
                      NEW i \in 1..Len(Q[s][p]), NEW j \in 1..Len(Q[s][p]),
                      Q[s][p][i] = Q[s][p][j]
               PROVE  i = j
    BY DEF QueuedOnce
  <2>1. CASE s # s0 \/ p # p0
    BY <2>1, <1>6 DEF IndicesAgree, QueuedOnce
  <2>2. CASE s = s0 /\ p = p0
    <3>1. \A m, n \in 1..L : q[s0][p0][m] = q[s0][p0][n] => m = n
      BY <1>1 DEF IndicesAgree, QueuedOnce
    <3>2. i \in 1..(L - 1) /\ j \in 1..(L - 1)
      BY <2>2, <1>7
    <3> DEFINE m == IF i < k THEN i ELSE i + 1
               n == IF j < k THEN j ELSE j + 1
    <3>3. m \in 1..L /\ n \in 1..L /\ (m = n => i = j)
      BY <3>2, <1>2, <1>3
    <3>4. q[s0][p0][m] = q[s0][p0][n]
      BY <2>2, <3>2, <1>7
    <3> HIDE DEF m, n
    <3> QED
      BY <3>1, <3>3, <3>4
  <2> QED
    BY <2>1, <2>2
<1>10. MappedAreQueued(Q, om \ {id}, ord1)
  <2> SUFFICES ASSUME NEW x \in om \ {id}
               PROVE  \E i \in 1..Len(Q[ord[x].side][ord[x].price]) :
                         Q[ord[x].side][ord[x].price][i] = x
    BY DEF MappedAreQueued
  <2> DEFINE s == ord[x].side
             p == ord[x].price
  <2>1. s \in Side /\ p \in Ticks
    BY DEF OrderTable, Order
  <2>2. PICK i \in 1..Len(q[s][p]) : q[s][p][i] = x
    BY DEF IndicesAgree, MappedAreQueued
  <2> HIDE DEF s, p
  <2>3. CASE s # s0 \/ p # p0
    <3>1. Q[s][p] = q[s][p]
      BY <2>1, <2>3, <1>6
    <3> QED
      BY <3>1, <2>2 DEF s, p
  <2>4. CASE s = s0 /\ p = p0
    <3>1. i \in 1..L /\ i # k
      BY <2>2, <2>4, <1>3
    <3> DEFINE j == IF i < k THEN i ELSE i - 1
    <3>2. j \in 1..(L - 1) /\ i = (IF j < k THEN j ELSE j + 1)
      BY <3>1, <1>2, <1>3
    <3>3. Q[s0][p0][j] = q[s0][p0][i]
      BY <3>2, <1>7
    <3> HIDE DEF j
    <3>4. j \in 1..Len(Q[s][p]) /\ Q[s][p][j] = x
      BY <3>2, <3>3, <2>2, <2>4, <1>7
    <3> QED
      BY <3>4 DEF s, p
  <2> QED
    BY <2>3, <2>4
<1>11. p0 \in levels(q, s0)
  <2>1. q[s0][p0] # <<>>
    BY <1>2, <1>3, EmptySeq
  <2> QED
    BY <2>1, <1>1 DEF levels
<1>12. \A s \in Side : levels(Q, s) = IF s = s0 /\ Q[s][p0] = <<>>
                                      THEN levels(q, s) \ {p0} ELSE levels(q, s)
  BY <1>1, <1>6, <1>11 DEF levels
<1> QED
  BY <1>6, <1>8, <1>9, <1>10, <1>11, <1>12 DEF IndicesAgree, Q

-----------------------------------------------------------------------------
(* The book's operations preserve its invariant. *)

TotalType == [Side -> [Ticks -> Int]]

\* What every operation of the book keeps: the types, the indices and the pool.
\* The order map is finite because the pool is.
BookInv ==
    /\ BookTypeOK
    /\ BookConsistent
    /\ IsFiniteSet(order_map)
    /\ PoolAccounting

\* The cached best prices stay prices.
LEMMA BestTypes ==
    ASSUME NEW b \in Bests, NEW s \in Side, NEW p \in Ticks
    PROVE  /\ BestAfterAdd(b, s, p) \in Bests
           /\ \A q1, o : o.side = s => BestAfterRemove(b, q1, o) \subseteq Bests
BY DEF Bests, BestAfterAdd, BestAfterRemove

\* add_order and add_iceberg_order.
LEMMA AddKeepsBookInv ==
    ASSUME BookInv, NEW id \in OrderIds, CanAdd(id), NEW o \in Order, AddOrder(id, o)
    PROVE  BookInv'
<1>1. o.side \in Side /\ o.price \in Ticks /\ Shown(o) \in Int
  BY DEF Order, Shown
<1>2. /\ queue' \in QueueType
      /\ IndicesAgree(queue', order_map', order')
  <2>1. /\ queue \in QueueType /\ order \in OrderTable
        /\ order_map \in SUBSET OrderIds /\ id \in OrderIds \ order_map
        /\ IndicesAgree(queue, order_map, order)
    BY DEF BookInv, BookTypeOK, BookConsistent, CanAdd, QueueType, OrderTable
  <2> QED
    BY <2>1, LinkAgrees DEF AddOrder
<1>3. /\ IsFiniteSet(order_map')
      /\ Cardinality(order_map') = Cardinality(order_map) + 1
      /\ Cardinality(order_map) \in Nat
  BY FS_AddElement, FS_CardinalityType DEF BookInv, AddOrder, CanAdd
<1>4. free' \in 0..PoolCapacity /\ PoolAccounting'
  <2>1. free \in 0..PoolCapacity /\ free > 0 /\ free' = free - 1
        /\ free + Cardinality(order_map) = PoolCapacity
    BY DEF BookInv, BookTypeOK, CanAdd, AddOrder, PoolAccounting
  <2> QED
    BY <2>1, <1>3, PoolAssumption DEF PoolAccounting
<1>5. total' \in TotalType
  <2>1. total \in TotalType /\ total' = LinkTotal(total, o, Shown(o))
    BY DEF BookInv, BookTypeOK, TotalType, AddOrder
  <2> QED
    BY <1>1, <2>1 DEF LinkTotal, TotalType
<1>6. best' \in Bests
  BY <1>1, BestTypes DEF BookInv, BookTypeOK, AddOrder
<1>7. order' \in OrderTable /\ order_map' \in SUBSET OrderIds
  BY DEF BookInv, BookTypeOK, OrderTable, AddOrder
<1> QED
  BY <1>2, <1>3, <1>4, <1>5, <1>6, <1>7
     DEF BookInv, BookTypeOK, BookConsistent, QueueType, OrderTable, TotalType

\* remove_order_from_level and the release of the slot, on the orders as the
\* fills of the same step left them.
LEMMA RemoveKeepsBookInv ==
    ASSUME BookInv, NEW id \in order_map, NEW ord \in OrderTable, NEW tot \in TotalType,
           \A x \in order_map : ord[x].side = order[x].side /\ ord[x].price = order[x].price,
           RemoveOrder(id, ord, tot)
    PROVE  BookInv'
<1> DEFINE o == ord[id]
           ord1 == [ord EXCEPT ![id] = BlankOrder]
<1>1. /\ queue \in QueueType /\ order \in OrderTable
      /\ order_map \in SUBSET OrderIds
      /\ IndicesAgree(queue, order_map, order)
  BY DEF BookInv, BookTypeOK, BookConsistent, QueueType, OrderTable
<1>2. o \in Order /\ o.side \in Side /\ o.price \in Ticks /\ remaining(o) \in Int
  BY <1>1 DEF OrderTable, Order, remaining
<1>3. ord1 \in OrderTable /\ \A x \in order_map \ {id} : ord1[x] = ord[x]
  <2>1. BlankOrder \in Order
    BY DEF BlankOrder, Order, Side, OrderType, Ticks
  <2> QED
    BY <1>1, <2>1 DEF OrderTable
<1>4. /\ queue' = Unlink(queue, o, id)
      /\ order' = ord1
      /\ order_map' = order_map \ {id}
      /\ total' = UnlinkTotal(tot, queue, o)
      /\ best' \in BestAfterRemove(best, queue', o)
      /\ free' = free + 1
  BY DEF RemoveOrder
<1> HIDE DEF o, ord1
<1>5. o.side = order[id].side /\ o.price = order[id].price
  BY DEF o
<1>6. \A x \in order_map \ {id} : ord1[x].side = order[x].side /\ ord1[x].price = order[x].price
  BY <1>3
<1>7. queue' \in QueueType /\ IndicesAgree(queue', order_map', order')
  BY <1>1, <1>2, <1>3, <1>4, <1>5, <1>6, UnlinkAgrees
<1>8. /\ IsFiniteSet(order_map')
      /\ Cardinality(order_map') = Cardinality(order_map) - 1
      /\ Cardinality(order_map) \in Nat /\ Cardinality(order_map') \in Nat
  BY <1>4, FS_RemoveElement, FS_CardinalityType DEF BookInv
<1>9. free' \in 0..PoolCapacity /\ PoolAccounting'
  <2>1. free \in 0..PoolCapacity /\ free + Cardinality(order_map) = PoolCapacity
    BY DEF BookInv, BookTypeOK, PoolAccounting
  <2> QED
    BY <1>4, <1>8, <2>1, PoolAssumption DEF PoolAccounting
<1>10. total' \in TotalType
  BY <1>2, <1>4 DEF UnlinkTotal, TotalType
<1>11. best' \in Bests
  BY <1>2, <1>4, BestTypes DEF BookInv, BookTypeOK
<1> QED
  BY <1>1, <1>3, <1>4, <1>7, <1>8, <1>9, <1>10, <1>11
     DEF BookInv, BookTypeOK, BookConsistent, QueueType, OrderTable, TotalType

\* Moving an order of the book: out of its level and to the back of the level
\* of its new fields.
LEMMA MoveAgrees ==
    ASSUME NEW q \in QueueType, NEW om \in SUBSET OrderIds, NEW ord \in OrderTable,
           NEW id \in om, NEW o \in Order, NEW o1 \in Order, NEW ord1 \in OrderTable,
           o.side = ord[id].side, o.price = ord[id].price,
           \A x \in om \ {id} : ord1[x].side = ord[x].side /\ ord1[x].price = ord[x].price,
           IndicesAgree(q, om, ord)
    PROVE  /\ Link(Unlink(q, o, id), o1, id) \in QueueType
           /\ IndicesAgree(Link(Unlink(q, o, id), o1, id), om, [ord1 EXCEPT ![id] = o1])
<1> DEFINE q1 == Unlink(q, o, id)
           om1 == om \ {id}
<1>1. q1 \in QueueType /\ IndicesAgree(q1, om1, ord1)
  BY UnlinkAgrees
<1>2. id \in OrderIds \ om1 /\ om1 \in SUBSET OrderIds /\ om1 \cup {id} = om
  OBVIOUS
<1> HIDE DEF q1, om1
<1>3. /\ Link(q1, o1, id) \in QueueType
      /\ IndicesAgree(Link(q1, o1, id), om1 \cup {id}, [ord1 EXCEPT ![id] = o1])
  BY <1>1, <1>2, LinkAgrees
<1> QED
  BY <1>2, <1>3 DEF q1

\* A change of the orders' fields, totals and best prices that leaves every
\* order where it is.
LEMMA InPlaceKeepsBookInv ==
    ASSUME BookInv, order' \in OrderTable, total' \in TotalType,
           \A x \in order_map : order'[x].side = order[x].side /\ order'[x].price = order[x].price,
           UNCHANGED <<order_map, queue, best, free>>
    PROVE  BookInv'
<1>1. IndicesAgree(queue, order_map, order')
  <2>1. IndicesAgree(queue, order_map, order)
    BY DEF BookInv, BookConsistent
  <2>2. QueuedAreMapped(queue, order_map, order')
    BY <2>1 DEF IndicesAgree, QueuedAreMapped
  <2>3. MappedAreQueued(queue, order_map, order')
    BY <2>1 DEF IndicesAgree, MappedAreQueued
  <2> QED
    BY <2>1, <2>2, <2>3 DEF IndicesAgree
<1> QED
  BY <1>1 DEF BookInv, BookTypeOK, BookConsistent, PoolAccounting, OrderTable, TotalType

\* modify_qty_down.
LEMMA QtyDownKeepsBookInv ==
    ASSUME BookInv, NEW id \in order_map, NEW n \in Int, ModifyQtyDown(id, n)
    PROVE  BookInv'
<1>1. order \in OrderTable /\ total \in TotalType /\ id \in OrderIds
  BY DEF BookInv, BookTypeOK, OrderTable, TotalType
<1> DEFINE o == order[id]
<1>2. o \in Order /\ o.side \in Side /\ o.price \in Ticks /\ remaining(o) \in Int
  BY <1>1 DEF OrderTable, Order, remaining
<1>3. QtyDown(o, n) \in Order /\ QtyDown(o, n).side = o.side /\ QtyDown(o, n).price = o.price
  BY <1>2 DEF Order, QtyDown
<1>4. /\ order' \in OrderTable
      /\ \A x \in order_map : order'[x].side = order[x].side /\ order'[x].price = order[x].price
  BY <1>1, <1>3 DEF ModifyQtyDown, OrderTable, BookInv, BookTypeOK
<1>5. total' \in TotalType
  BY <1>1, <1>2 DEF ModifyQtyDown, TotalType
<1> QED
  BY <1>4, <1>5, InPlaceKeepsBookInv DEF ModifyQtyDown

\* modify_order at another price.
LEMMA RepriceKeepsBookInv ==
    ASSUME BookInv, NEW id \in order_map, NEW p \in Prices, NEW n \in Int, Reprice(id, p, n)
    PROVE  BookInv'
<1> DEFINE o  == order[id]
           o1 == IF o.type = "ICEBERG" THEN IcebergOrder(o.side, p, n, o.display)
                                       ELSE LimitOrder(o.side, p, n)
           q1 == Unlink(queue, o, id)
<1>1. /\ order \in OrderTable /\ total \in TotalType /\ queue \in QueueType
      /\ order_map \in SUBSET OrderIds /\ id \in OrderIds /\ best \in Bests
      /\ IndicesAgree(queue, order_map, order)
  BY DEF BookInv, BookTypeOK, OrderTable, TotalType, QueueType, BookConsistent
<1>2. o \in Order /\ o.side \in Side /\ o.price \in Ticks /\ remaining(o) \in Int
  BY <1>1 DEF OrderTable, Order, remaining
<1>3. o1 \in Order /\ o1.side = o.side /\ o1.price = p /\ p \in Ticks
  BY <1>2 DEF IcebergOrder, LimitOrder, Order, OrderType, Ticks
<1>4. Shown(o1) \in Int
  BY <1>3 DEF Shown, Order
<1>5. /\ order' = [order EXCEPT ![id] = o1]
      /\ queue' = Link(q1, o1, id)
      /\ total' = LinkTotal(UnlinkTotal(total, queue, o), o1, Shown(o1))
      /\ \E b1 \in BestAfterRemove(best, q1, o) : best' = BestAfterAdd(b1, o.side, p)
      /\ UNCHANGED <<order_map, free>>
  BY DEF Reprice
<1> HIDE DEF o1
<1>6. queue' \in QueueType /\ IndicesAgree(queue', order_map, order')
  BY <1>1, <1>2, <1>3, <1>5, MoveAgrees
<1>7. order' \in OrderTable
  BY <1>1, <1>3, <1>5 DEF OrderTable
<1>8. total' \in TotalType
  <2>1. UnlinkTotal(total, queue, o) \in TotalType
    BY <1>1, <1>2 DEF UnlinkTotal, TotalType
  <2> QED
    BY <1>2, <1>3, <1>4, <1>5, <2>1 DEF LinkTotal, TotalType
<1>9. best' \in Bests
  BY <1>1, <1>2, <1>3, <1>5, BestTypes
<1> QED
  BY <1>1, <1>5, <1>6, <1>7, <1>8, <1>9
     DEF BookInv, BookTypeOK, BookConsistent, PoolAccounting, OrderTable, TotalType, QueueType

-----------------------------------------------------------------------------
(* The orders of a fill. *)

\* The maker is an order of the opposite side, at that side's best price; the
\* fill changes nothing of either order but its filled quantity.
LEMMA FillFacts ==
    ASSUME BookInv, TypeOK, pc = "match", CanMatch
    PROVE  /\ taker \in order_map /\ maker \in order_map /\ maker # taker
           /\ order[maker].side = Opposite(order[taker].side)
           /\ order[maker].price = OppositeBest
           /\ FillQty \in Int
           /\ Filled \in OrderTable
           /\ \A x \in OrderIds :
                 Filled[x] = IF x = maker \/ x = taker
                             THEN [order[x] EXCEPT !.filled = @ + FillQty]
                             ELSE order[x]
           /\ FilledTotal \in TotalType
<1> DEFINE s == Opposite(order[taker].side)
           b == OppositeBest
<1>1. /\ order \in OrderTable /\ total \in TotalType /\ queue \in QueueType
      /\ order_map \in SUBSET OrderIds /\ best \in Bests
      /\ IndicesAgree(queue, order_map, order)
  BY DEF BookInv, BookTypeOK, OrderTable, TotalType, QueueType, BookConsistent
<1>2. taker \in order_map /\ taker \in OrderIds
  BY <1>1 DEF TypeOK
<1>3. order[taker] \in Order /\ order[taker].side \in Side /\ s \in Side
      /\ s # order[taker].side
  BY <1>1, <1>2 DEF OrderTable, Order, Opposite, Side
<1>4. b \in Ticks
  BY <1>1, <1>3 DEF OppositeBest, Bests
<1>5. MakerLevel = queue[s][b] /\ MakerLevel \in Seq(OrderIds) /\ MakerLevel # <<>>
  BY <1>1, <1>3, <1>4 DEF MakerLevel, QueueType, CanMatch
<1>6. maker = queue[s][b][1] /\ 1 \in 1..Len(queue[s][b])
  <2>1. Len(MakerLevel) \in Nat /\ Len(MakerLevel) # 0
    BY <1>5, EmptySeq, LenProperties
  <2> QED
    BY <1>5, <2>1 DEF maker
<1>7. maker \in order_map /\ order[maker].side = s /\ order[maker].price = b
  BY <1>1, <1>3, <1>4, <1>6 DEF IndicesAgree, QueuedAreMapped
<1>8. maker # taker /\ maker \in OrderIds /\ order[maker] \in Order
  BY <1>1, <1>3, <1>7 DEF OrderTable
<1>9. FillQty \in Int
  BY <1>3, <1>8 DEF FillQty, MakerAvailable, remaining, Order
<1>10. /\ Filled \in OrderTable
       /\ \A x \in OrderIds :
             Filled[x] = IF x = maker \/ x = taker
                         THEN [order[x] EXCEPT !.filled = @ + FillQty]
                         ELSE order[x]
  <2>1. /\ [order[maker] EXCEPT !.filled = @ + FillQty] \in Order
        /\ [order[taker] EXCEPT !.filled = @ + FillQty] \in Order
    BY <1>3, <1>8, <1>9 DEF Order
  <2> QED
    BY <1>1, <1>2, <1>8, <2>1 DEF Filled, OrderTable
<1>11. FilledTotal \in TotalType
  <2>1. order[maker].side \in Side /\ order[maker].price \in Ticks
        /\ order[taker].side \in Side /\ order[taker].price \in Ticks
    BY <1>3, <1>8 DEF Order
  <2> QED
    BY <1>1, <1>9, <2>1 DEF FilledTotal, TotalType
<1> QED
  BY <1>2, <1>7, <1>8, <1>9, <1>10, <1>11

-----------------------------------------------------------------------------
(* The book's indices and the pool, for every mix of clients. *)

EngineInv == TypeOK /\ BookInv

\* The fields of a new order.
LEMMA NewOrderType ==
    ASSUME NEW s \in Side, NEW ty \in OrderType, NEW p \in ClientPrices,
           NEW n \in ClientQuantities, NEW d \in ClientQuantities, ValidNewOrder(ty, p, n, d)
    PROVE  /\ NewOrder(s, ty, p, n, d) \in Order
           /\ NewOrder(s, ty, p, n, d).side = s
           /\ NewOrder(s, ty, p, n, d).type = ty
           /\ NewOrder(s, ty, p, n, d).quantity = n
           /\ NewOrder(s, ty, p, n, d).filled = 0
           /\ NewOrder(s, ty, p, n, d).price = IF ty = "MARKET" THEN MarketPrice(s) ELSE p
           /\ ty # "MARKET" => p \in Prices
           /\ ty = "ICEBERG" => NewOrder(s, ty, p, n, d).display > 0
<1>1. n \in Int /\ d \in Int /\ (ty # "MARKET" => p \in Prices)
  BY MaxPriceAssumption, MaxQtyAssumption
     DEF ClientPrices, ClientQuantities, ValidNewOrder, OrderType, Prices
<1>2. MarketPrice(s) \in Ticks
  BY DEF MarketPrice, Ticks
<1>3. CASE ty = "LIMIT"
  BY <1>1, <1>3 DEF NewOrder, LimitOrder, Order, OrderType, Ticks
<1>4. CASE ty = "ICEBERG"
  BY <1>1, <1>4 DEF NewOrder, IcebergOrder, Order, OrderType, Ticks, ValidNewOrder
<1>5. CASE ty = "MARKET"
  BY <1>1, <1>2, <1>5 DEF NewOrder, LimitOrder, Order, OrderType
<1> QED
  BY <1>3, <1>4, <1>5 DEF OrderType

\* Displays are quantities.
LEMMA DisplayType ==
    ASSUME NEW ty \in ClientOrderTypes, NEW d \in ClientDisplays(ty)
    PROVE  ty \in OrderType /\ d \in ClientQuantities
BY ClientAssumption, MaxQtyAssumption DEF ClientDisplays, ClientQuantities

LEMMA NewOrderKeepsEngineInv ==
    ASSUME EngineInv, NEW id \in OrderIds, NEW s \in Side, NEW ty \in ClientOrderTypes,
           NEW p \in ClientPrices, NEW n \in ClientQuantities, NEW d \in ClientDisplays(ty),
           ProcessNewOrder(id, s, ty, p, n, d)
    PROVE  EngineInv'
<1>1. commands' \in 0..MaxCommands
  BY ClientAssumption DEF EngineInv, TypeOK, ProcessNewOrder
<1>2. CASE RefuseNewOrder(id, ty, p, n, d)
  BY <1>1, <1>2 DEF RefuseNewOrder, EngineInv, TypeOK, BookInv, BookTypeOK, BookConsistent,
                    PoolAccounting
<1>3. CASE AcceptNewOrder(id, s, ty, p, n, d)
  <2> DEFINE o == NewOrder(s, ty, p, n, d)
  <2>1. o \in Order
    BY <1>3, NewOrderType, DisplayType DEF AcceptNewOrder
  <2>2. CanAdd(id) /\ AddOrder(id, o)
    BY <1>3 DEF AcceptNewOrder
  <2> HIDE DEF o
  <2>3. BookInv'
    BY <2>1, <2>2, AddKeepsBookInv DEF EngineInv
  <2>4. /\ pc' \in {"idle", "match"}
        /\ taker' \in OrderIds \cup {NoOrder}
        /\ pc' = "match" <=> taker' # NoOrder
        /\ taker' # NoOrder => taker' \in order_map'
    <3>1. order_map' = order_map \cup {id}
      BY <2>2 DEF AddOrder
    <3>2. \/ pc' = "match" /\ taker' = id
          \/ pc' = pc /\ taker' = taker
      BY <1>3 DEF AcceptNewOrder
    <3> QED
      BY <3>1, <3>2, NoOrderAssumption DEF EngineInv, TypeOK
  <2> QED
    BY <1>1, <2>3, <2>4 DEF EngineInv, TypeOK, BookInv
<1> QED
  BY <1>2, <1>3 DEF ProcessNewOrder

LEMMA FillAndRemoveKeepsEngineInv ==
    ASSUME EngineInv, FillAndRemoveMaker
    PROVE  EngineInv'
<1>1. /\ taker \in order_map /\ maker \in order_map /\ maker # taker
      /\ Filled \in OrderTable /\ FilledTotal \in TotalType
      /\ \A x \in OrderIds :
            Filled[x] = IF x = maker \/ x = taker
                        THEN [order[x] EXCEPT !.filled = @ + FillQty]
                        ELSE order[x]
  BY FillFacts DEF FillAndRemoveMaker, EngineInv
<1>2. \A x \in order_map : x \in OrderIds /\ order[x] \in Order
  BY DEF EngineInv, BookInv, BookTypeOK
<1>3. \A x \in order_map : Filled[x].side = order[x].side /\ Filled[x].price = order[x].price
  BY <1>1, <1>2 DEF Order
<1>4. RemoveOrder(maker, Filled, FilledTotal)
  BY DEF FillAndRemoveMaker
<1>5. BookInv'
  BY <1>1, <1>3, <1>4, RemoveKeepsBookInv DEF EngineInv
<1>6. order_map' = order_map \ {maker} /\ UNCHANGED <<pc, taker, commands>>
  BY DEF FillAndRemoveMaker, RemoveOrder
<1> QED
  BY <1>1, <1>5, <1>6 DEF EngineInv, TypeOK, BookInv

LEMMA FillAndKeepKeepsEngineInv ==
    ASSUME EngineInv, FillAndKeepMaker
    PROVE  EngineInv'
<1>1. /\ taker \in order_map /\ maker \in order_map /\ maker # taker
      /\ Filled \in OrderTable /\ FilledTotal \in TotalType
      /\ \A x \in OrderIds :
            Filled[x] = IF x = maker \/ x = taker
                        THEN [order[x] EXCEPT !.filled = @ + FillQty]
                        ELSE order[x]
  BY FillFacts DEF FillAndKeepMaker, EngineInv
<1>2. \A x \in order_map : x \in OrderIds /\ order[x] \in Order
  BY DEF EngineInv, BookInv, BookTypeOK
<1>3. \A x \in order_map : Filled[x].side = order[x].side /\ Filled[x].price = order[x].price
  BY <1>1, <1>2 DEF Order
<1>4. UNCHANGED <<order_map, best, free, pc, taker, commands>>
  BY DEF FillAndKeepMaker
<1> DEFINE m == Filled[maker]
<1>5. m \in Order /\ m.side \in Side /\ m.price \in Ticks /\ remaining(m) \in Int
      /\ m.side = order[maker].side /\ m.price = order[maker].price
  BY <1>1, <1>2, <1>3 DEF OrderTable, Order, remaining
<1>6. CASE MustReplenish(m)
  <2>1. /\ order' = [Filled EXCEPT ![maker] = Replenished(m)]
        /\ queue' = Link(Unlink(queue, m, maker), m, maker)
        /\ total' = LinkTotal(FilledTotal, m, Slice(m) - remaining(m))
    BY <1>6 DEF FillAndKeepMaker
  <2> HIDE DEF m
  <2>2. Replenished(m) \in Order /\ Replenished(m).side = m.side /\ Replenished(m).price = m.price
    <3>1. /\ m.quantity - m.hidden \in Int
          /\ m.hidden - Slice(m) \in Int
      BY <1>5 DEF Slice, Order
    <3> DEFINE h == m.hidden - Slice(m)
               f == m.quantity - m.hidden
    <3>2. Replenished(m) = [m EXCEPT !.hidden = h, !.filled = f]
      BY DEF Replenished
    <3>3. h \in Int /\ f \in Int
      BY <3>1
    <3> HIDE DEF h, f
    <3> QED
      BY <1>5, <3>2, <3>3 DEF Order
  <2>3. /\ queue \in QueueType /\ order \in OrderTable /\ order_map \in SUBSET OrderIds
        /\ IndicesAgree(queue, order_map, order)
    BY DEF EngineInv, BookInv, BookTypeOK, BookConsistent, QueueType, OrderTable
  <2>4. Link(Unlink(queue, m, maker), m, maker)
          = Link(Unlink(queue, m, maker), Replenished(m), maker)
    BY <2>2 DEF Link
  <2>5. queue' \in QueueType /\ IndicesAgree(queue', order_map, order')
    <3> DEFINE m1 == Replenished(m)
    <3>1. /\ m1 \in Order
          /\ queue' = Link(Unlink(queue, m, maker), m1, maker)
          /\ order' = [Filled EXCEPT ![maker] = m1]
      BY <2>1, <2>2, <2>4
    <3> HIDE DEF m1
    <3>2. \A x \in order_map \ {maker} :
             Filled[x].side = order[x].side /\ Filled[x].price = order[x].price
      BY <1>3
    <3>3. Link(Unlink(queue, m, maker), m1, maker) \in QueueType
      BY <1>1, <1>5, <2>3, <3>1, <3>2, MoveAgrees
    <3>4. IndicesAgree(Link(Unlink(queue, m, maker), m1, maker), order_map,
                       [Filled EXCEPT ![maker] = m1])
      BY <1>1, <1>5, <2>3, <3>1, <3>2, MoveAgrees
    <3> QED
      BY <3>1, <3>3, <3>4
  <2>6. order' \in OrderTable
    BY <1>1, <2>1, <2>2 DEF OrderTable
  <2>7. total' \in TotalType
    <3>1. Slice(m) - remaining(m) \in Int
      BY <1>5 DEF Slice, Order, remaining
    <3> QED
      BY <1>1, <1>5, <2>1, <3>1 DEF LinkTotal, TotalType
  <2> QED
    BY <1>4, <2>5, <2>6, <2>7
       DEF EngineInv, TypeOK, BookInv, BookTypeOK, BookConsistent, PoolAccounting,
           QueueType, OrderTable, TotalType
<1>7. CASE ~MustReplenish(m)
  <2>1. order' = Filled /\ total' = FilledTotal /\ queue' = queue
    BY <1>7 DEF FillAndKeepMaker
  <2>2. BookInv'
    BY <1>1, <1>3, <1>4, <2>1, InPlaceKeepsBookInv DEF EngineInv
  <2> QED
    BY <1>4, <2>2 DEF EngineInv, TypeOK, BookInv
<1> QED
  BY <1>6, <1>7

LEMMA UnchangedBookInv ==
    ASSUME BookInv, UNCHANGED bookVars
    PROVE  BookInv'
BY DEF BookInv, BookTypeOK, BookConsistent, PoolAccounting, bookVars

LEMMA FinishKeepsEngineInv ==
    ASSUME EngineInv, FinishNewOrder
    PROVE  EngineInv'
<1>1. taker \in order_map /\ order \in OrderTable /\ total \in TotalType
  BY DEF EngineInv, TypeOK, BookInv, BookTypeOK, OrderTable, TotalType, FinishNewOrder
<1>2. BookInv'
  <2>1. CASE TakerLeaves
    BY <1>1, <2>1, RemoveKeepsBookInv DEF FinishNewOrder, EngineInv
  <2>2. CASE ~TakerLeaves
    BY <2>2, UnchangedBookInv DEF FinishNewOrder, EngineInv
  <2> QED
    BY <2>1, <2>2
<1>3. pc' = "idle" /\ taker' = NoOrder /\ commands' = commands
  BY DEF FinishNewOrder
<1> QED
  BY <1>2, <1>3 DEF EngineInv, TypeOK, BookInv

LEMMA CancelKeepsEngineInv ==
    ASSUME EngineInv, NEW id \in OrderIds, ProcessCancel(id)
    PROVE  EngineInv'
<1>1. order \in OrderTable /\ total \in TotalType
  BY DEF EngineInv, TypeOK, BookInv, BookTypeOK, OrderTable, TotalType
<1>2. BookInv'
  <2>1. CASE id \in order_map
    BY <1>1, <2>1, RemoveKeepsBookInv DEF ProcessCancel, EngineInv
  <2>2. CASE id \notin order_map
    BY <2>2, UnchangedBookInv DEF ProcessCancel, EngineInv
  <2> QED
    BY <2>1, <2>2
<1>3. pc = "idle" /\ taker = NoOrder /\ UNCHANGED <<pc, taker, commands>>
  BY DEF ProcessCancel, EngineInv, TypeOK
<1> QED
  BY <1>2, <1>3 DEF EngineInv, TypeOK, BookInv

LEMMA ModifyKeepsEngineInv ==
    ASSUME EngineInv, NEW id \in OrderIds, NEW p \in Prices, NEW n \in 1..MaxQty,
           ProcessModify(id, p, n)
    PROVE  EngineInv'
<1>1. id \in order_map /\ n \in Int
  BY MaxQtyAssumption DEF ProcessModify, ModifyAccepted
<1>2. BookInv'
  <2>1. CASE Reprice(id, p, n)
    BY <1>1, <2>1, RepriceKeepsBookInv DEF EngineInv
  <2>2. CASE ModifyQtyDown(id, n)
    BY <1>1, <2>2, QtyDownKeepsBookInv DEF EngineInv
  <2>3. CASE UNCHANGED bookVars
    BY <2>3, UnchangedBookInv DEF EngineInv
  <2> QED
    BY <2>1, <2>2, <2>3 DEF ProcessModify
<1>3. /\ pc = "idle" /\ taker = NoOrder /\ UNCHANGED <<pc, taker>>
      /\ commands' \in 0..MaxCommands
  BY ClientAssumption DEF ProcessModify, EngineInv, TypeOK
<1> QED
  BY <1>2, <1>3 DEF EngineInv, TypeOK, BookInv

LEMMA InitEngineInv == EngineInit => EngineInv
<1> SUFFICES ASSUME EngineInit PROVE EngineInv
  OBVIOUS
<1> USE DEF EngineInit, BookInit
<1>1. BlankOrder \in Order
  BY DEF BlankOrder, Order, Side, OrderType, Ticks
<1>2. BookTypeOK
  <2>1. best \in Bests
    BY DEF Bests, Ticks
  <2>2. queue \in [Side -> [Ticks -> Seq(OrderIds)]]
    OBVIOUS
  <2> QED
    BY <1>1, <2>1, <2>2, PoolAssumption DEF BookTypeOK
<1>3. BookConsistent
  <2>1. \A s \in Side, p \in Ticks : queue[s][p] = <<>> /\ Len(queue[s][p]) = 0
    OBVIOUS
  <2> QED
    BY <2>1 DEF BookConsistent, IndicesAgree, QueuedAreMapped, QueuedOnce, MappedAreQueued
<1>4. IsFiniteSet(order_map) /\ PoolAccounting
  BY FS_EmptySet, PoolAssumption DEF PoolAccounting
<1> QED
  BY <1>2, <1>3, <1>4, ClientAssumption DEF EngineInv, TypeOK, BookInv

\* Every step of the engine keeps the invariant.
LEMMA NextEngineInv == EngineInv /\ [Next]_vars => EngineInv'
<1> SUFFICES ASSUME EngineInv, [Next]_vars PROVE EngineInv'
  OBVIOUS
<1>1. CASE NewOrderStep
  BY <1>1, NewOrderKeepsEngineInv DEF NewOrderStep
<1>2. CASE CancelStep
  BY <1>2, CancelKeepsEngineInv DEF CancelStep
<1>3. CASE ModifyStep
  <2> PICK id \in OrderIds, p \in Prices, n \in 1..MaxQty :
         ProcessModify(id, p, n) \/ RefuseModify(id, n)
    BY <1>3 DEF ModifyStep
  <2>1. CASE ProcessModify(id, p, n)
    BY <2>1, ModifyKeepsEngineInv
  <2>2. CASE RefuseModify(id, n)
    BY <2>2 DEF RefuseModify, vars, EngineInv, TypeOK, BookInv, BookTypeOK, BookConsistent,
                PoolAccounting
  <2> QED
    BY <2>1, <2>2
<1>4. CASE FillAndRemoveMaker
  BY <1>4, FillAndRemoveKeepsEngineInv
<1>5. CASE FillAndKeepMaker
  BY <1>5, FillAndKeepKeepsEngineInv
<1>6. CASE FinishNewOrder
  BY <1>6, FinishKeepsEngineInv
<1>7. CASE UNCHANGED vars
  BY <1>7 DEF vars, EngineInv, TypeOK, BookInv, BookTypeOK, BookConsistent, PoolAccounting
<1> QED
  BY <1>1, <1>2, <1>3, <1>4, <1>5, <1>6, <1>7 DEF Next, MatchStep

\* The engine's state keeps its types, and the order it is matching is an order
\* of the book.
THEOREM TypeCorrect == Spec => []TypeOK
<1>1. EngineInv => TypeOK
  BY DEF EngineInv
<1> QED
  BY <1>1, InitEngineInv, NextEngineInv, PTL DEF Spec

\* order_map_, the price levels and the orders' own fields never disagree, for
\* any sequence of commands of any mix of clients: no cancel, fill or price
\* change leaves a queue with an order that is gone, or an order without queue.
THEOREM BookStaysConsistent == Spec => []BookConsistent
<1>1. EngineInv => BookConsistent
  BY DEF EngineInv, BookInv
<1> QED
  BY <1>1, InitEngineInv, NextEngineInv, PTL DEF Spec

\* The pool neither leaks a slot nor gets one back twice.
THEOREM NoSlotLeaks == Spec => []PoolAccounting
<1>1. EngineInv => PoolAccounting
  BY DEF EngineInv, BookInv
<1> QED
  BY <1>1, InitEngineInv, NextEngineInv, PTL DEF Spec

-----------------------------------------------------------------------------
(***************************************************************************)
(* The totals of the levels are exact, when no client sends iceberg        *)
(* orders: total_quantity_ is kept by increments, and is the sum of what   *)
(* is left of the orders of the level.                                     *)
(*                                                                         *)
(* The sum is a fold over a set.  What it computes is shown with the help  *)
(* of additive functions: there is one on the subsets of any finite set of *)
(* orders, and the fold is the value of each such function.  Both are      *)
(* inductions on the size of a set, by a least counterexample.             *)
(***************************************************************************)
(* Sums over finite sets of orders. *)

\* What is left of the orders of S, by the table ord.
Left(ord, S) == MapThenSumSet(LAMBDA id : remaining(ord[id]), S)

Countable(ord, S) == IsFiniteSet(S) /\ \A x \in S : remaining(ord[x]) \in Int

\* h adds what is left of an order when the order is added to a subset of S.
Additive(h, ord, S) ==
    /\ h \in [SUBSET S -> Int]
    /\ h[{}] = 0
    /\ \A t \in SUBSET S, x \in S : x \notin t => h[t \cup {x}] = h[t] + remaining(ord[x])

\* A set of sizes with a member has a least one.
LEMMA LeastSize ==
    ASSUME NEW T \in SUBSET Nat, NEW m \in T
    PROVE  \E n \in T : \A k \in T : ~ k < n
<1>1. \E n \in T : \A k \in T : ~ (<<k, n>> \in OpToRel(<, Nat))
  BY WFMin, NatLessThanWellFounded
<1> QED
  BY <1>1 DEF OpToRel

\* One more order.
LEMMA AdditiveGrows ==
    ASSUME NEW ord, NEW S, NEW x, x \notin S, remaining(ord[x]) \in Int,
           NEW h, Additive(h, ord, S), \A z \in S : remaining(ord[z]) \in Int
    PROVE  \E g : Additive(g, ord, S \cup {x})
<1> DEFINE W == S \cup {x}
           r == remaining(ord[x])
           g == [t \in SUBSET W |-> IF x \in t THEN h[t \ {x}] + r ELSE h[t]]
<1>1. h \in [SUBSET S -> Int] /\ h[{}] = 0 /\ r \in Int
  BY DEF Additive
<1>2. \A t \in SUBSET W : t \ {x} \in SUBSET S /\ (x \notin t => t \in SUBSET S)
  OBVIOUS
<1>3. g \in [SUBSET W -> Int]
  BY <1>1, <1>2
<1>4. g[{}] = 0
  BY <1>1
<1>5. ASSUME NEW t \in SUBSET W, NEW y \in W, y \notin t
      PROVE  g[t \cup {y}] = g[t] + remaining(ord[y])
  <2>1. t \cup {y} \in SUBSET W
    OBVIOUS
  <2>2. CASE y = x
    <3>1. (t \cup {y}) \ {x} = t /\ x \in t \cup {y}
      BY <1>5, <2>2
    <3>2. g[t \cup {y}] = h[t] + r /\ g[t] = h[t]
      BY <1>5, <2>1, <2>2, <3>1
    <3> QED
      BY <2>2, <3>2
  <2>3. CASE y # x /\ x \in t
    <3> DEFINE u == t \ {x}
    <3>1. u \in SUBSET S /\ y \in S /\ y \notin u /\ (t \cup {y}) \ {x} = u \cup {y}
      BY <1>5, <2>3
    <3>2. g[t \cup {y}] = h[u \cup {y}] + r /\ g[t] = h[u] + r
      BY <2>1, <2>3, <3>1
    <3> HIDE DEF u
    <3>3. h[u \cup {y}] = h[u] + remaining(ord[y])
      BY <3>1 DEF Additive
    <3>4. h[u] \in Int /\ remaining(ord[y]) \in Int
      BY <1>1, <3>1
    <3> DEFINE a == h[u]
               b == remaining(ord[y])
    <3>5. a \in Int /\ b \in Int /\ r \in Int
      BY <1>1, <3>4
    <3>6. g[t \cup {y}] = (a + b) + r /\ g[t] = a + r
      BY <3>2, <3>3
    <3> HIDE DEF a, g, r
    <3>7. g[t \cup {y}] = g[t] + b
      BY <3>5, <3>6
    <3> QED
      BY <3>7
  <2>4. CASE y # x /\ x \notin t
    <3>1. y \in S /\ t \in SUBSET S /\ x \notin t \cup {y}
      BY <1>5, <2>4
    <3>2. g[t \cup {y}] = h[t \cup {y}] /\ g[t] = h[t]
      BY <2>1, <2>4, <3>1
    <3> QED
      BY <1>5, <3>1, <3>2 DEF Additive
  <2> QED
    BY <2>2, <2>3, <2>4
<1> HIDE DEF g
<1>6. Additive(g, ord, W)
  BY <1>3, <1>4, <1>5 DEF Additive
<1> QED
  BY <1>6

\* The sets of a size for which there is no additive function.
Unsummed(ord, n) ==
    \E S : Countable(ord, S) /\ Cardinality(S) = n /\ ~ \E h : Additive(h, ord, S)

LEMMA AdditiveExists ==
    ASSUME NEW ord, NEW S, Countable(ord, S)
    PROVE  \E h : Additive(h, ord, S)
<1> DEFINE T == {n \in Nat : Unsummed(ord, n)}
<1> SUFFICES ASSUME ~ \E h : Additive(h, ord, S) PROVE FALSE
  OBVIOUS
<1>1. Cardinality(S) \in T
  <2>1. Cardinality(S) \in Nat
    BY FS_CardinalityType DEF Countable
  <2> QED
    BY <2>1 DEF Unsummed
<1>2. PICK n \in T : \A k \in T : ~ k < n
  <2>1. T \in SUBSET Nat
    OBVIOUS
  <2> HIDE DEF T
  <2> QED
    BY <1>1, <2>1, LeastSize
<1>3. PICK W : Countable(ord, W) /\ Cardinality(W) = n /\ ~ \E h : Additive(h, ord, W)
  BY DEF Unsummed
<1>4. W # {}
  <2> SUFFICES ASSUME W = {} PROVE FALSE
    OBVIOUS
  <2> DEFINE h == [t \in SUBSET {} |-> 0]
  <2>1. h \in [SUBSET {} -> Int] /\ h[{}] = 0
    OBVIOUS
  <2> HIDE DEF h
  <2>2. Additive(h, ord, {})
    BY <2>1 DEF Additive
  <2> QED
    BY <1>3, <2>2
<1>5. PICK x \in W : TRUE
  BY <1>4
<1> DEFINE V == W \ {x}
<1>6. /\ Countable(ord, V) /\ Cardinality(V) = n - 1 /\ n \in Nat /\ n - 1 \in Nat
      /\ remaining(ord[x]) \in Int
  <2>1. IsFiniteSet(W) /\ Cardinality(W) \in Nat
    BY <1>3, FS_CardinalityType DEF Countable
  <2>2. IsFiniteSet(V) /\ Cardinality(V) = Cardinality(W) - 1
    BY <2>1, FS_RemoveElement
  <2>3. Cardinality(V) \in Nat
    BY <2>2, FS_CardinalityType
  <2> QED
    BY <1>3, <2>1, <2>2, <2>3 DEF Countable
<1>7. n - 1 \notin T
  BY <1>2, <1>6
<1>8. PICK h : Additive(h, ord, V)
  <2> HIDE DEF V
  <2>1. ~Unsummed(ord, n - 1)
    BY <1>6, <1>7
  <2> QED
    BY <1>6, <2>1 DEF Unsummed
<1>9. \E g : Additive(g, ord, V \cup {x})
  <2>1. x \notin V
    OBVIOUS
  <2>2. \A z \in V : remaining(ord[z]) \in Int
    BY <1>6 DEF Countable
  <2> HIDE DEF V
  <2> QED
    BY <1>6, <1>8, <2>1, <2>2, AdditiveGrows
<1>10. V \cup {x} = W
  OBVIOUS
<1> QED
  BY <1>3, <1>9, <1>10

\* The fold is the value of each additive function.
LEMMA FoldIsAdditive ==
    ASSUME NEW ord, NEW S, Countable(ord, S), NEW h, Additive(h, ord, S)
    PROVE  Left(ord, S) = h[S]
<1> DEFINE pick(t) == CHOOSE x \in t : TRUE
           eqn(g) == g = [t \in SUBSET S |->
                             IF t = {} THEN 0
                             ELSE LET x == pick(t) IN remaining(ord[x]) + g[t \ {x}]]
           iter == CHOOSE g : eqn(g)
<1>1. Left(ord, S) = iter[S]
  BY DEF Left, MapThenSumSet, MapThenFoldSet
<1>2. \A t \in SUBSET S : t # {} => pick(t) \in t
  OBVIOUS
<1>3. \A t \in SUBSET S : t # {} => h[t] = remaining(ord[pick(t)]) + h[t \ {pick(t)}]
  <2> SUFFICES ASSUME NEW t \in SUBSET S, t # {}
               PROVE  h[t] = remaining(ord[pick(t)]) + h[t \ {pick(t)}]
    OBVIOUS
  <2> DEFINE x == pick(t)
             u == t \ {x}
  <2>1. x \in t
    BY <1>2
  <2> HIDE DEF x
  <2>2. u \in SUBSET S /\ x \in S /\ x \notin u /\ u \cup {x} = t
    BY <2>1
  <2> HIDE DEF u
  <2>3. h[t] = h[u] + remaining(ord[x]) /\ h[u] \in Int /\ remaining(ord[x]) \in Int
    BY <2>2 DEF Additive, Countable
  <2>4. h[t] = remaining(ord[x]) + h[u]
    BY <2>3
  <2> QED
    BY <2>4 DEF u, x
<1>4. eqn(h)
  <2> HIDE DEF pick
  <2>1. h \in [SUBSET S -> Int] /\ h[{}] = 0
    BY DEF Additive
  <2> QED
    BY <1>3, <2>1
<1>5. eqn(iter)
  <2> HIDE DEF eqn
  <2> QED
    BY <1>4
<1>6. \A t \in SUBSET S : iter[t] = IF t = {} THEN 0
                                    ELSE remaining(ord[pick(t)]) + iter[t \ {pick(t)}]
  <2> HIDE DEF iter, pick
  <2> QED
    BY <1>5
<1> HIDE DEF iter, eqn, pick
\* A least set on which they differ is not empty, and they agree on the rest of it.
<1> DEFINE T == {n \in Nat : \E t \in SUBSET S : Cardinality(t) = n /\ iter[t] # h[t]}
<1>7. T = {}
  <2> SUFFICES ASSUME NEW m \in T PROVE FALSE
    OBVIOUS
  <2>1. PICK n \in T : \A k \in T : ~ k < n
    <3>1. T \in SUBSET Nat
      OBVIOUS
    <3> HIDE DEF T
    <3> QED
      BY <3>1, LeastSize
  <2>2. PICK t \in SUBSET S : Cardinality(t) = n /\ iter[t] # h[t]
    OBVIOUS
  <2>3. t # {}
    BY <1>6, <2>2 DEF Additive
  <2> DEFINE x == pick(t)
             u == t \ {x}
  <2>4. x \in t /\ u \in SUBSET S
    BY <1>2, <2>3
  <2>5. Cardinality(u) = n - 1 /\ n \in Nat /\ n - 1 \in Nat
    <3>1. IsFiniteSet(t) /\ Cardinality(t) \in Nat
      BY FS_Subset, FS_CardinalityType DEF Countable
    <3> HIDE DEF x
    <3>2. IsFiniteSet(u) /\ Cardinality(u) = Cardinality(t) - 1
      BY <2>4, <3>1, FS_RemoveElement
    <3> HIDE DEF u
    <3>3. Cardinality(u) \in Nat
      BY <3>2, FS_CardinalityType
    <3> QED
      BY <2>2, <3>1, <3>2, <3>3
  <2>6. n - 1 \notin T
    BY <2>1, <2>5
  <2>7. iter[u] = h[u]
    BY <2>4, <2>5, <2>6
  <2>8. iter[t] = h[t]
    BY <1>3, <1>6, <2>3, <2>7
  <2> QED
    BY <2>2, <2>8
<1>8. Cardinality(S) \in Nat
  BY FS_CardinalityType DEF Countable
<1>9. iter[S] = h[S]
  BY <1>7, <1>8
<1> QED
  BY <1>1, <1>9

LEMMA LeftOfNone ==
    ASSUME NEW ord
    PROVE  Left(ord, {}) = 0
<1>1. Countable(ord, {})
  BY FS_EmptySet DEF Countable
<1>2. PICK h : Additive(h, ord, {})
  BY <1>1, AdditiveExists
<1>3. Left(ord, {}) = h[{}]
  BY <1>1, <1>2, FoldIsAdditive
<1> QED
  BY <1>2, <1>3 DEF Additive

LEMMA LeftOfOneMore ==
    ASSUME NEW ord, NEW S, Countable(ord, S), NEW x, x \notin S, remaining(ord[x]) \in Int
    PROVE  /\ Left(ord, S) \in Int
           /\ Left(ord, S \cup {x}) = Left(ord, S) + remaining(ord[x])
<1> DEFINE W == S \cup {x}
<1>1. Countable(ord, W)
  <2>1. IsFiniteSet(W)
    BY FS_AddElement DEF Countable
  <2> QED
    BY <2>1 DEF Countable
<1>2. PICK h : Additive(h, ord, W)
  <2> HIDE DEF W
  <2> QED
    BY <1>1, AdditiveExists
<1>3. Left(ord, W) = h[W]
  <2> HIDE DEF W
  <2> QED
    BY <1>1, <1>2, FoldIsAdditive
<1> DEFINE g == [t \in SUBSET S |-> h[t]]
<1>4. SUBSET S \subseteq SUBSET W /\ S \in SUBSET W /\ {} \in SUBSET S /\ x \in W
  OBVIOUS
<1>5. h \in [SUBSET W -> Int] /\ h[{}] = 0
      /\ \A t \in SUBSET W, y \in W : y \notin t => h[t \cup {y}] = h[t] + remaining(ord[y])
  <2> HIDE DEF W
  <2> QED
    BY <1>2 DEF Additive
<1>6. Additive(g, ord, S)
  <2>1. g \in [SUBSET S -> Int] /\ g[{}] = 0
    BY <1>4, <1>5
  <2>2. ASSUME NEW t \in SUBSET S, NEW y \in S, y \notin t
        PROVE  g[t \cup {y}] = g[t] + remaining(ord[y])
    <3>1. t \cup {y} \in SUBSET S /\ t \in SUBSET W /\ y \in W
      OBVIOUS
    <3> HIDE DEF W
    <3>2. h[t \cup {y}] = h[t] + remaining(ord[y])
      BY <1>5, <2>2, <3>1
    <3> QED
      BY <3>1, <3>2
  <2> HIDE DEF g
  <2> QED
    BY <2>1, <2>2 DEF Additive
<1>7. Left(ord, S) = g[S]
  <2> HIDE DEF g
  <2> QED
    BY <1>6, FoldIsAdditive
<1>8. g[S] = h[S] /\ h[S] \in Int
  BY <1>4, <1>5
<1>9. h[W] = h[S] + remaining(ord[x])
  BY <1>4, <1>5
<1> HIDE DEF g
<1> QED
  BY <1>3, <1>7, <1>8, <1>9

LEMMA LeftIsSame ==
    ASSUME NEW ord, NEW ord1, NEW S, Countable(ord, S),
           \A x \in S : remaining(ord1[x]) = remaining(ord[x])
    PROVE  Left(ord1, S) = Left(ord, S)
<1>1. PICK h : Additive(h, ord, S)
  BY AdditiveExists
<1>2. Countable(ord1, S)
  BY DEF Countable
<1>3. Additive(h, ord1, S)
  BY <1>1 DEF Additive
<1> QED
  BY <1>1, <1>2, <1>3, FoldIsAdditive

-----------------------------------------------------------------------------
(* The totals, by the orders of each level. *)

\* The orders of the map om at a side and price, by the table ord.
At(om, ord, s, p) == {x \in om : ord[x].side = s /\ ord[x].price = p}

Depth(om, ord, tot) ==
    \A s \in Side, p \in Ticks : tot[s][p] = Left(ord, At(om, ord, s, p))

\* What order id has left at a side and price.
Share(om, ord, id, s, p) == IF id \in At(om, ord, s, p) THEN remaining(ord[id]) ELSE 0

LEMMA RemainingIsInt ==
    ASSUME NEW o \in Order
    PROVE  remaining(o) \in Int
BY DEF Order, remaining

LEMMA LevelIsCountable ==
    ASSUME NEW om \in SUBSET OrderIds, IsFiniteSet(om), NEW ord \in OrderTable, NEW S \in SUBSET om
    PROVE  Countable(ord, S)
<1>1. IsFiniteSet(S)
  BY FS_Subset
<1>2. \A x \in S : ord[x] \in Order
  BY DEF OrderTable
<1> QED
  BY <1>1, <1>2, RemainingIsInt DEF Countable

\* The sum over a level, without and with one of its orders.
LEMMA WithAndWithout ==
    ASSUME NEW om \in SUBSET OrderIds, IsFiniteSet(om), NEW ord \in OrderTable,
           NEW id \in OrderIds, NEW s, NEW p
    PROVE  /\ Left(ord, At(om, ord, s, p) \ {id}) \in Int
           /\ Share(om, ord, id, s, p) \in Int
           /\ Left(ord, At(om, ord, s, p)) =
                 Left(ord, At(om, ord, s, p) \ {id}) + Share(om, ord, id, s, p)
<1> DEFINE A == At(om, ord, s, p)
           B == A \ {id}
           r == remaining(ord[id])
<1>1. A \in SUBSET om /\ B \in SUBSET om
  BY DEF At
<1>2. r \in Int
  BY RemainingIsInt DEF OrderTable
<1>3. id \notin B
  OBVIOUS
<1>4. Countable(ord, B)
  <2> HIDE DEF A, B
  <2> QED
    BY <1>1, LevelIsCountable
<1>5. Left(ord, B) \in Int /\ Left(ord, B \cup {id}) = Left(ord, B) + r
  <2> HIDE DEF B
  <2> QED
    BY <1>2, <1>3, <1>4, LeftOfOneMore
<1>6. CASE id \in A
  <2>1. B \cup {id} = A
    BY <1>6
  <2>2. Share(om, ord, id, s, p) = r
    BY <1>6 DEF Share
  <2> QED
    BY <1>2, <1>5, <2>1, <2>2
<1>7. CASE id \notin A
  <2>1. B = A
    BY <1>7
  <2>2. Share(om, ord, id, s, p) = 0
    BY <1>7 DEF Share
  <2>3. Left(ord, B) = Left(ord, B) + 0
    <3> DEFINE l == Left(ord, B)
    <3>1. l \in Int
      BY <1>5
    <3> HIDE DEF l
    <3>2. l = l + 0
      BY <3>1
    <3> QED
      BY <3>2 DEF l
  <2> QED
    BY <1>5, <2>1, <2>2, <2>3
<1> QED
  BY <1>6, <1>7

\* When one order changes, comes or goes, a level's sum changes by its share.
LEMMA OneChanges ==
    ASSUME NEW om \in SUBSET OrderIds, IsFiniteSet(om), NEW ord \in OrderTable,
           NEW om1 \in SUBSET OrderIds, IsFiniteSet(om1), NEW ord1 \in OrderTable,
           NEW id \in OrderIds, om1 \ {id} = om \ {id},
           \A x \in om \ {id} : ord1[x] = ord[x],
           NEW s, NEW p
    PROVE  /\ Left(ord, At(om, ord, s, p)) \in Int
           /\ Share(om, ord, id, s, p) \in Int /\ Share(om1, ord1, id, s, p) \in Int
           /\ Left(ord1, At(om1, ord1, s, p)) =
                 Left(ord, At(om, ord, s, p)) - Share(om, ord, id, s, p)
                                              + Share(om1, ord1, id, s, p)
<1> DEFINE B  == At(om, ord, s, p) \ {id}
           B1 == At(om1, ord1, s, p) \ {id}
           a  == Left(ord, At(om, ord, s, p))
           a1 == Left(ord1, At(om1, ord1, s, p))
           c  == Share(om, ord, id, s, p)
           c1 == Share(om1, ord1, id, s, p)
           l  == Left(ord, B)
<1>1. l \in Int /\ c \in Int /\ a = l + c
  BY WithAndWithout
<1>2. c1 \in Int /\ a1 = Left(ord1, B1) + c1
  BY WithAndWithout
<1>3. B1 = B /\ B \in SUBSET om /\ \A x \in B : ord1[x] = ord[x]
  BY DEF At
<1>4. Left(ord1, B) = l
  <2>1. Countable(ord, B)
    <3> HIDE DEF B
    <3> QED
      BY <1>3, LevelIsCountable
  <2> HIDE DEF B
  <2> QED
    BY <1>3, <2>1, LeftIsSame DEF remaining
<1>5. a1 = l + c1
  BY <1>2, <1>3, <1>4
<1> HIDE DEF a, a1, c, c1, l
<1>6. a \in Int /\ a1 = a - c + c1
  BY <1>1, <1>2, <1>5
<1> QED
  BY <1>1, <1>2, <1>6 DEF a, a1, c, c1
-----------------------------------------------------------------------------
(* The book's operations keep the totals exact. *)

LEMMA AddKeepsDepth ==
    ASSUME NEW om \in SUBSET OrderIds, IsFiniteSet(om), NEW ord \in OrderTable,
           NEW tot \in TotalType, NEW id \in OrderIds \ om, NEW o \in Order,
           Depth(om, ord, tot)
    PROVE  Depth(om \cup {id}, [ord EXCEPT ![id] = o], LinkTotal(tot, o, remaining(o)))
<1> DEFINE om1 == om \cup {id}
           ord1 == [ord EXCEPT ![id] = o]
           tot1 == LinkTotal(tot, o, remaining(o))
<1>1. /\ om1 \in SUBSET OrderIds /\ om1 \ {id} = om \ {id} /\ id \in om1
      /\ ord1 \in OrderTable /\ ord1[id] = o /\ \A x \in om \ {id} : ord1[x] = ord[x]
  BY DEF OrderTable
<1>2. IsFiniteSet(om1)
  BY FS_AddElement
<1>3. o.side \in Side /\ o.price \in Ticks /\ remaining(o) \in Int
  BY RemainingIsInt DEF Order
<1>4. \A s \in Side, p \in Ticks :
         tot1[s][p] = IF s = o.side /\ p = o.price THEN tot[s][p] + remaining(o) ELSE tot[s][p]
  BY <1>3 DEF LinkTotal, TotalType
<1> HIDE DEF om1, ord1, tot1
<1>5. ASSUME NEW s \in Side, NEW p \in Ticks
      PROVE  tot1[s][p] = Left(ord1, At(om1, ord1, s, p))
  <2> DEFINE a == Left(ord, At(om, ord, s, p))
             a1 == Left(ord1, At(om1, ord1, s, p))
             c == Share(om, ord, id, s, p)
             c1 == Share(om1, ord1, id, s, p)
  <2>1. a \in Int /\ c \in Int /\ c1 \in Int /\ a1 = a - c + c1
    BY <1>1, <1>2, OneChanges
  <2>2. tot[s][p] = a
    BY DEF Depth
  <2>3. c = 0
    BY DEF Share, At
  <2>4. c1 = IF s = o.side /\ p = o.price THEN remaining(o) ELSE 0
    BY <1>1 DEF Share, At
  <2> HIDE DEF a, a1, c, c1
  <2>5. tot1[s][p] = a1
    <3>1. CASE s = o.side /\ p = o.price
      BY <1>4, <2>1, <2>2, <2>3, <2>4, <3>1
    <3>2. CASE ~ (s = o.side /\ p = o.price)
      BY <1>4, <2>1, <2>2, <2>3, <2>4, <3>2
    <3> QED
      BY <3>1, <3>2
  <2> QED
    BY <2>5 DEF a1
<1>6. Depth(om1, ord1, tot1)
  BY <1>5 DEF Depth
<1> QED
  BY <1>6 DEF om1, ord1, tot1

\* An order that is alone in its queue is alone at its side and price.
LEMMA AloneInQueue ==
    ASSUME NEW q \in QueueType, NEW om \in SUBSET OrderIds, NEW ord \in OrderTable,
           IndicesAgree(q, om, ord), NEW id \in om, Len(q[ord[id].side][ord[id].price]) = 1
    PROVE  At(om, ord, ord[id].side, ord[id].price) = {id}
<1> DEFINE s == ord[id].side
           p == ord[id].price
           l == q[s][p]
<1>1. \A x \in om : ord[x].side = s /\ ord[x].price = p => \E i \in 1..Len(l) : l[i] = x
  BY DEF IndicesAgree, MappedAreQueued
<1>2. Len(l) = 1
  OBVIOUS
<1>3. \A x \in om : ord[x].side = s /\ ord[x].price = p => l[1] = x
  <2> HIDE DEF s, p, l
  <2> QED
    BY <1>1, <1>2
<1>4. \A x \in At(om, ord, s, p) : x = id
  <2>1. l[1] = id
    BY <1>3
  <2> HIDE DEF l
  <2> QED
    BY <1>3, <2>1 DEF At
<1>5. id \in At(om, ord, s, p)
  BY DEF At
<1> QED
  BY <1>4, <1>5

LEMMA RemoveKeepsDepth ==
    ASSUME NEW om \in SUBSET OrderIds, IsFiniteSet(om), NEW ord \in OrderTable,
           NEW tot \in TotalType, NEW q \in QueueType, IndicesAgree(q, om, ord),
           NEW id \in om, NEW ord1 \in OrderTable, \A x \in om \ {id} : ord1[x] = ord[x],
           Depth(om, ord, tot)
    PROVE  /\ UnlinkTotal(tot, q, ord[id]) \in TotalType
           /\ Depth(om \ {id}, ord1, UnlinkTotal(tot, q, ord[id]))
<1> DEFINE om1 == om \ {id}
           o == ord[id]
           s0 == o.side
           p0 == o.price
           alone == Len(q[s0][p0]) = 1
           tot1 == UnlinkTotal(tot, q, o)
<1>1. /\ om1 \in SUBSET OrderIds /\ om1 \ {id} = om \ {id} /\ id \notin om1 /\ id \in OrderIds
      /\ o \in Order
  BY DEF OrderTable
<1>2. IsFiniteSet(om1)
  BY FS_RemoveElement
<1>3. s0 \in Side /\ p0 \in Ticks /\ remaining(o) \in Int
  BY <1>1, RemainingIsInt DEF Order
<1> HIDE DEF o
<1>4. /\ tot1 \in TotalType
      /\ \A s \in Side, p \in Ticks :
            tot1[s][p] = IF s = s0 /\ p = p0
                         THEN IF alone THEN 0 ELSE tot[s][p] - remaining(o)
                         ELSE tot[s][p]
  BY <1>3 DEF UnlinkTotal, TotalType
<1> HIDE DEF om1, tot1
<1>5. ASSUME NEW s \in Side, NEW p \in Ticks
      PROVE  tot1[s][p] = Left(ord1, At(om1, ord1, s, p))
  <2> DEFINE a == Left(ord, At(om, ord, s, p))
             a1 == Left(ord1, At(om1, ord1, s, p))
             c == Share(om, ord, id, s, p)
             c1 == Share(om1, ord1, id, s, p)
  <2>1. a \in Int /\ c \in Int /\ c1 \in Int /\ a1 = a - c + c1
    BY <1>1, <1>2, OneChanges
  <2>2. tot[s][p] = a
    BY DEF Depth
  <2>3. c = IF s = s0 /\ p = p0 THEN remaining(o) ELSE 0
    BY DEF Share, At, o
  <2>4. c1 = 0
    BY <1>1 DEF Share, At
  <2>5. CASE s = s0 /\ p = p0 /\ alone
    <3>1. At(om, ord, s, p) = {id}
      BY <2>5, AloneInQueue DEF o
    <3>2. At(om1, ord1, s, p) = {}
      BY <3>1 DEF At, om1
    <3>3. tot1[s][p] = 0
      BY <1>4, <2>5
    <3> QED
      BY <3>2, <3>3, LeftOfNone
  <2>6. CASE s = s0 /\ p = p0 /\ ~alone
    <3>1. tot1[s][p] = tot[s][p] - remaining(o) /\ c = remaining(o)
      BY <1>4, <2>3, <2>6
    <3> HIDE DEF a, a1, c, c1
    <3>2. tot1[s][p] = a1
      BY <1>3, <2>1, <2>2, <2>4, <3>1
    <3> QED
      BY <3>2 DEF a1
  <2>7. CASE ~ (s = s0 /\ p = p0)
    <3>1. tot1[s][p] = tot[s][p] /\ c = 0
      BY <1>4, <2>3, <2>7
    <3> HIDE DEF a, a1, c, c1
    <3>2. tot1[s][p] = a1
      BY <2>1, <2>2, <2>4, <3>1
    <3> QED
      BY <3>2 DEF a1
  <2> QED
    BY <2>5, <2>6, <2>7
<1>6. Depth(om1, ord1, tot1)
  BY <1>5 DEF Depth
<1> QED
  BY <1>4, <1>6 DEF om1, tot1, o

\* An order is reduced by n where it stands.
LEMMA ReduceKeepsDepth ==
    ASSUME NEW om \in SUBSET OrderIds, IsFiniteSet(om), NEW ord \in OrderTable,
           NEW tot \in TotalType, NEW id \in om, NEW n \in Int, NEW o \in Order,
           o.side = ord[id].side, o.price = ord[id].price, remaining(o) = remaining(ord[id]) - n,
           Depth(om, ord, tot)
    PROVE  Depth(om, [ord EXCEPT ![id] = o], [tot EXCEPT ![o.side][o.price] = @ - n])
<1> DEFINE ord1 == [ord EXCEPT ![id] = o]
           tot1 == [tot EXCEPT ![o.side][o.price] = @ - n]
           r == remaining(ord[id])
<1>1. /\ ord1 \in OrderTable /\ ord1[id] = o /\ \A x \in om \ {id} : ord1[x] = ord[x]
      /\ id \in OrderIds /\ ord[id] \in Order
  BY DEF OrderTable
<1>2. o.side \in Side /\ o.price \in Ticks /\ r \in Int
  BY <1>1, RemainingIsInt DEF Order
<1>3. \A s \in Side, p \in Ticks :
         tot1[s][p] = IF s = o.side /\ p = o.price THEN tot[s][p] - n ELSE tot[s][p]
  BY <1>2 DEF TotalType
<1> HIDE DEF ord1, tot1
<1>4. ASSUME NEW s \in Side, NEW p \in Ticks
      PROVE  tot1[s][p] = Left(ord1, At(om, ord1, s, p))
  <2> DEFINE a == Left(ord, At(om, ord, s, p))
             a1 == Left(ord1, At(om, ord1, s, p))
             c == Share(om, ord, id, s, p)
             c1 == Share(om, ord1, id, s, p)
  <2>1. a \in Int /\ c \in Int /\ c1 \in Int /\ a1 = a - c + c1
    BY <1>1, OneChanges
  <2>2. tot[s][p] = a
    BY DEF Depth
  <2>3. c = IF s = o.side /\ p = o.price THEN r ELSE 0
    BY DEF Share, At
  <2>4. c1 = IF s = o.side /\ p = o.price THEN r - n ELSE 0
    BY <1>1 DEF Share, At
  <2> HIDE DEF a, a1, c, c1, r
  <2>5. CASE s = o.side /\ p = o.price
    <3>1. tot1[s][p] = a - n /\ c = r /\ c1 = r - n
      BY <1>3, <2>2, <2>3, <2>4, <2>5
    <3>2. tot1[s][p] = a1
      BY <1>2, <2>1, <3>1
    <3> QED
      BY <3>2 DEF a1
  <2>6. CASE ~ (s = o.side /\ p = o.price)
    <3>1. tot1[s][p] = a /\ c = 0 /\ c1 = 0
      BY <1>3, <2>2, <2>3, <2>4, <2>6
    <3>2. tot1[s][p] = a1
      BY <2>1, <3>1
    <3> QED
      BY <3>2 DEF a1
  <2> QED
    BY <2>5, <2>6
<1>5. Depth(om, ord1, tot1)
  BY <1>4 DEF Depth
<1> QED
  BY <1>5 DEF ord1, tot1
-----------------------------------------------------------------------------
(* The engine's steps. *)

Exact == Depth(order_map, order, total)

NoIcebergs == \A id \in order_map : order[id].type # "ICEBERG"

DepthInv == EngineInv /\ NoIcebergs /\ Exact

LEMMA ExactNext ==
    ASSUME Depth(order_map', order', total')
    PROVE  Exact'
BY DEF Exact

\* What the steps use of the engine's invariant.
LEMMA BookFacts ==
    ASSUME EngineInv
    PROVE  /\ order_map \in SUBSET OrderIds /\ IsFiniteSet(order_map)
           /\ order \in OrderTable /\ total \in TotalType /\ queue \in QueueType
           /\ IndicesAgree(queue, order_map, order)
BY DEF EngineInv, BookInv, BookTypeOK, BookConsistent, OrderTable, TotalType, QueueType

LEMMA NewOrderKeepsDepth ==
    ASSUME DepthInv, NEW id \in OrderIds, NEW s \in Side, NEW ty \in ClientOrderTypes,
           "ICEBERG" \notin ClientOrderTypes,
           NEW p \in ClientPrices, NEW n \in ClientQuantities, NEW d \in ClientDisplays(ty),
           ProcessNewOrder(id, s, ty, p, n, d)
    PROVE  NoIcebergs' /\ Exact'
<1>1. CASE RefuseNewOrder(id, ty, p, n, d)
  <2>1. UNCHANGED <<order_map, order, total>>
    BY <1>1 DEF RefuseNewOrder
  <2>2. Depth(order_map', order', total')
    BY <2>1 DEF DepthInv, Exact
  <2> QED
    BY <2>1, <2>2, ExactNext DEF DepthInv, NoIcebergs
<1>2. CASE AcceptNewOrder(id, s, ty, p, n, d)
  <2> DEFINE o == NewOrder(s, ty, p, n, d)
  <2>1. AddOrder(id, o) /\ id \in OrderIds \ order_map /\ ValidNewOrder(ty, p, n, d)
    BY <1>2 DEF AcceptNewOrder, CanAdd
  <2>2. o \in Order /\ o.type = ty /\ o.quantity = n /\ o.filled = 0
    BY <2>1, DisplayType, NewOrderType
  <2>3. o.type # "ICEBERG" /\ n \in Int
    BY <2>2, MaxQtyAssumption DEF ClientQuantities
  <2> HIDE DEF o
  <2>4. Shown(o) = remaining(o)
    BY <2>2, <2>3 DEF Shown, remaining
  <2>5. /\ order_map' = order_map \cup {id}
        /\ order' = [order EXCEPT ![id] = o]
        /\ total' = LinkTotal(total, o, remaining(o))
    BY <2>1, <2>4 DEF AddOrder
  <2>6. order \in OrderTable
    BY BookFacts DEF DepthInv
  <2>7. Depth(order_map \cup {id}, [order EXCEPT ![id] = o], LinkTotal(total, o, remaining(o)))
    BY <2>1, <2>2, BookFacts, AddKeepsDepth DEF DepthInv, Exact
  <2>8. NoIcebergs'
    BY <2>3, <2>5, <2>6, BookFacts DEF DepthInv, NoIcebergs, OrderTable
  <2> QED
    BY <2>5, <2>7, <2>8, ExactNext
<1> QED
  BY <1>1, <1>2 DEF ProcessNewOrder

\* The indices ask only for the side and the price of an order.
LEMMA AgreesAlike ==
    ASSUME NEW q \in QueueType, NEW om \in SUBSET OrderIds, NEW ord, NEW ord1,
           IndicesAgree(q, om, ord),
           \A x \in om : ord1[x].side = ord[x].side /\ ord1[x].price = ord[x].price
    PROVE  IndicesAgree(q, om, ord1)
<1>1. QueuedAreMapped(q, om, ord1)
  BY DEF IndicesAgree, QueuedAreMapped
<1>2. MappedAreQueued(q, om, ord1)
  BY DEF IndicesAgree, MappedAreQueued
<1> QED
  BY <1>1, <1>2 DEF IndicesAgree

\* remove_order, on orders and totals that are exact.
LEMMA RemoveOrderKeepsDepth ==
    ASSUME EngineInv, NEW id \in order_map, NEW ord \in OrderTable, NEW tot \in TotalType,
           \A x \in order_map : /\ ord[x].side = order[x].side /\ ord[x].price = order[x].price
                                /\ ord[x].type # "ICEBERG",
           Depth(order_map, ord, tot), RemoveOrder(id, ord, tot)
    PROVE  NoIcebergs' /\ Exact'
<1> DEFINE ord1 == [ord EXCEPT ![id] = BlankOrder]
<1>1. /\ order_map' = order_map \ {id} /\ order' = ord1
      /\ total' = UnlinkTotal(tot, queue, ord[id])
  BY DEF RemoveOrder
<1>2. BlankOrder \in Order
  BY DEF BlankOrder, Order, Side, OrderType, Ticks
<1>3. id \in OrderIds /\ order_map \in SUBSET OrderIds /\ IsFiniteSet(order_map)
      /\ queue \in QueueType
  BY BookFacts
<1>4. ord1 \in OrderTable /\ \A x \in order_map \ {id} : ord1[x] = ord[x]
  BY <1>2, <1>3 DEF OrderTable
<1>5. IndicesAgree(queue, order_map, ord)
  BY BookFacts, AgreesAlike
<1> HIDE DEF ord1
<1>6. Depth(order_map \ {id}, ord1, UnlinkTotal(tot, queue, ord[id]))
  BY <1>3, <1>4, <1>5, RemoveKeepsDepth
<1>7. NoIcebergs'
  BY <1>1, <1>4 DEF NoIcebergs
<1> QED
  BY <1>1, <1>6, <1>7, ExactNext

\* execute_fill reduces both orders and both orders' levels.
LEMMA FillKeepsDepth ==
    ASSUME DepthInv, pc = "match", CanMatch
    PROVE  /\ maker \in order_map /\ Filled \in OrderTable /\ FilledTotal \in TotalType
           /\ \A x \in order_map :
                 /\ Filled[x].side = order[x].side /\ Filled[x].price = order[x].price
                 /\ Filled[x].type # "ICEBERG"
           /\ Depth(order_map, Filled, FilledTotal)
<1> DEFINE m == maker
           t == taker
           F == FillQty
           om == [order[m] EXCEPT !.filled = @ + F]
           ot == [order[t] EXCEPT !.filled = @ + F]
           ord1 == [order EXCEPT ![m] = om]
           tot1 == [total EXCEPT ![om.side][om.price] = @ - F]
<1>1. /\ t \in order_map /\ m \in order_map /\ m # t /\ F \in Int
      /\ Filled \in OrderTable /\ FilledTotal \in TotalType
      /\ \A x \in OrderIds : Filled[x] = IF x = m \/ x = t
                                         THEN [order[x] EXCEPT !.filled = @ + F]
                                         ELSE order[x]
  BY FillFacts DEF DepthInv, EngineInv
<1>2. /\ order_map \in SUBSET OrderIds /\ IsFiniteSet(order_map) /\ order \in OrderTable
      /\ total \in TotalType
  BY BookFacts DEF DepthInv
<1>3. order[m].side # order[t].side
  <2>1. order[m].side = Opposite(order[t].side)
    BY FillFacts DEF DepthInv, EngineInv
  <2> QED
    BY <2>1 DEF Opposite
<1>4. FilledTotal = [total EXCEPT ![order[m].side][order[m].price] = @ - F,
                                  ![order[t].side][order[t].price] = @ - F]
  BY DEF FilledTotal
<1> HIDE DEF m, t, F
<1>5. order[m] \in Order /\ order[t] \in Order
  BY <1>1, <1>2 DEF OrderTable
<1>6. /\ om \in Order /\ om.side = order[m].side /\ om.price = order[m].price
      /\ remaining(om) = remaining(order[m]) - F
  BY <1>1, <1>5 DEF Order, remaining
<1>7. /\ ot \in Order /\ ot.side = order[t].side /\ ot.price = order[t].price
      /\ remaining(ot) = remaining(order[t]) - F
  BY <1>1, <1>5 DEF Order, remaining
<1>8. Filled = [ord1 EXCEPT ![t] = ot]
  <2>1. [ord1 EXCEPT ![t] = ot] \in [OrderIds -> Order]
    BY <1>2, <1>6, <1>7 DEF OrderTable
  <2>2. \A x \in OrderIds : [ord1 EXCEPT ![t] = ot][x] = Filled[x]
    BY <1>1, <1>2 DEF OrderTable
  <2> HIDE DEF ord1, ot
  <2> QED
    BY <1>1, <2>1, <2>2 DEF OrderTable
<1>9. FilledTotal = [tot1 EXCEPT ![ot.side][ot.price] = @ - F]
  <2> DEFINE a == order[m].side
             b == order[t].side
             x == order[m].price
             y == order[t].price
  <2>1. /\ a # b /\ a \in Side /\ b \in Side /\ x \in Ticks /\ y \in Ticks
        /\ om.side = a /\ om.price = x /\ ot.side = b /\ ot.price = y
        /\ FilledTotal = [total EXCEPT ![a][x] = @ - F, ![b][y] = @ - F]
    BY <1>3, <1>4, <1>5, <1>6, <1>7 DEF Order
  <2> HIDE DEF a, b, x, y, om, ot
  <2> QED
    BY <1>2, <2>1 DEF TotalType
<1> HIDE DEF om
<1>10. Depth(order_map, ord1, tot1)
  BY <1>1, <1>2, <1>6, ReduceKeepsDepth DEF DepthInv, Exact
<1>11. ord1 \in OrderTable /\ ord1[t] = order[t] /\ tot1 \in TotalType
  <2>1. om.side \in Side /\ om.price \in Ticks
    BY <1>6 DEF Order
  <2> QED
    BY <1>1, <1>2, <1>6, <2>1 DEF OrderTable, TotalType
<1> HIDE DEF ord1, tot1, ot
<1>12. Depth(order_map, Filled, FilledTotal)
  BY <1>1, <1>2, <1>7, <1>8, <1>9, <1>10, <1>11, ReduceKeepsDepth
<1>13. \A x \in order_map :
                 /\ Filled[x].side = order[x].side /\ Filled[x].price = order[x].price
                 /\ Filled[x].type # "ICEBERG"
  <2> SUFFICES ASSUME NEW x \in order_map
               PROVE  /\ Filled[x].side = order[x].side /\ Filled[x].price = order[x].price
                      /\ Filled[x].type = order[x].type
    BY DEF DepthInv, NoIcebergs
  <2>1. order[x] \in Order
    BY <1>2 DEF OrderTable
  <2>2. Filled[x] = [order[x] EXCEPT !.filled = @ + F] \/ Filled[x] = order[x]
    BY <1>1, <1>2
  <2> QED
    BY <2>1, <2>2 DEF Order
<1> QED
  BY <1>1, <1>12, <1>13 DEF m
LEMMA MatchKeepsDepth ==
    ASSUME DepthInv, FillAndRemoveMaker \/ FillAndKeepMaker
    PROVE  NoIcebergs' /\ Exact'
<1>1. /\ maker \in order_map /\ Filled \in OrderTable /\ FilledTotal \in TotalType
      /\ \A x \in order_map :
            /\ Filled[x].side = order[x].side /\ Filled[x].price = order[x].price
            /\ Filled[x].type # "ICEBERG"
      /\ Depth(order_map, Filled, FilledTotal)
  <2>1. pc = "match" /\ CanMatch
    BY DEF FillAndRemoveMaker, FillAndKeepMaker
  <2> QED
    BY <2>1, FillKeepsDepth
<1>2. CASE FillAndRemoveMaker
  <2>1. RemoveOrder(maker, Filled, FilledTotal)
    BY <1>2 DEF FillAndRemoveMaker
  <2> QED
    BY <1>1, <2>1, RemoveOrderKeepsDepth DEF DepthInv
<1>3. CASE FillAndKeepMaker
  <2>1. ~MustReplenish(Filled[maker])
    BY <1>1 DEF MustReplenish
  <2>2. order' = Filled /\ total' = FilledTotal /\ order_map' = order_map
    BY <1>3, <2>1 DEF FillAndKeepMaker
  <2>3. NoIcebergs'
    BY <1>1, <2>2 DEF NoIcebergs
  <2> QED
    BY <1>1, <2>2, <2>3, ExactNext
<1> QED
  BY <1>2, <1>3

LEMMA SameBookKeepsDepth ==
    ASSUME DepthInv, UNCHANGED <<order_map, order, total>>
    PROVE  NoIcebergs' /\ Exact'
<1>1. Depth(order_map', order', total')
  BY DEF DepthInv, Exact
<1> QED
  BY <1>1, ExactNext DEF DepthInv, NoIcebergs

\* cancel_order, and the end of process_new_order.
LEMMA TakeOutKeepsDepth ==
    ASSUME DepthInv, NEW id \in order_map, RemoveOrder(id, order, total)
    PROVE  NoIcebergs' /\ Exact'
BY BookFacts, RemoveOrderKeepsDepth DEF DepthInv, NoIcebergs, Exact

LEMMA FinishKeepsDepth ==
    ASSUME DepthInv, FinishNewOrder
    PROVE  NoIcebergs' /\ Exact'
<1>1. taker \in order_map
  BY DEF DepthInv, EngineInv, TypeOK, FinishNewOrder
<1>2. CASE TakerLeaves
  BY <1>1, <1>2, TakeOutKeepsDepth DEF FinishNewOrder
<1>3. CASE ~TakerLeaves
  BY <1>3, SameBookKeepsDepth DEF FinishNewOrder, bookVars
<1> QED
  BY <1>2, <1>3

LEMMA CancelKeepsDepth ==
    ASSUME DepthInv, NEW id \in OrderIds, ProcessCancel(id)
    PROVE  NoIcebergs' /\ Exact'
<1>1. CASE id \in order_map
  BY <1>1, TakeOutKeepsDepth DEF ProcessCancel
<1>2. CASE id \notin order_map
  BY <1>2, SameBookKeepsDepth DEF ProcessCancel, bookVars
<1> QED
  BY <1>1, <1>2

LEMMA QtyDownKeepsDepth ==
    ASSUME DepthInv, NEW id \in order_map, NEW n \in Int, ModifyQtyDown(id, n)
    PROVE  NoIcebergs' /\ Exact'
<1> DEFINE o == order[id]
           o1 == QtyDown(o, n)
           k == remaining(o) - n
<1>1. /\ order_map \in SUBSET OrderIds /\ IsFiniteSet(order_map) /\ order \in OrderTable
      /\ total \in TotalType
  BY BookFacts DEF DepthInv
<1>2. o \in Order /\ remaining(o) \in Int /\ k \in Int
  BY <1>1, RemainingIsInt DEF OrderTable
<1>3. /\ order' = [order EXCEPT ![id] = o1] /\ order_map' = order_map
      /\ total' = [total EXCEPT ![o.side][o.price] = @ - k]
  BY DEF ModifyQtyDown
<1>4. /\ o1 \in Order /\ o1.side = o.side /\ o1.price = o.price /\ o1.type = o.type
      /\ remaining(o1) = n
  BY <1>2 DEF QtyDown, Order, remaining
<1>5. remaining(o1) = remaining(o) - k
  BY <1>2, <1>4
<1> HIDE DEF o1, k
<1>6. Depth(order_map, [order EXCEPT ![id] = o1], [total EXCEPT ![o1.side][o1.price] = @ - k])
  BY <1>1, <1>2, <1>4, <1>5, ReduceKeepsDepth DEF DepthInv, Exact
<1>7. NoIcebergs'
  BY <1>1, <1>3, <1>4 DEF DepthInv, NoIcebergs, OrderTable
<1>8. total' = [total EXCEPT ![o1.side][o1.price] = @ - k]
  BY <1>3, <1>4
<1> QED
  BY <1>3, <1>6, <1>7, <1>8, ExactNext

LEMMA RepriceKeepsDepth ==
    ASSUME DepthInv, NEW id \in order_map, NEW p \in Prices, NEW n \in Int, Reprice(id, p, n)
    PROVE  NoIcebergs' /\ Exact'
<1> DEFINE o == order[id]
           o1 == LimitOrder(o.side, p, n)
           om == order_map \ {id}
           t1 == UnlinkTotal(total, queue, o)
<1>1. /\ order_map \in SUBSET OrderIds /\ IsFiniteSet(order_map) /\ order \in OrderTable
      /\ total \in TotalType /\ queue \in QueueType /\ id \in OrderIds
      /\ IndicesAgree(queue, order_map, order) /\ o.type # "ICEBERG"
  BY BookFacts DEF DepthInv, NoIcebergs
<1>2. /\ order' = [order EXCEPT ![id] = o1] /\ order_map' = order_map
      /\ total' = LinkTotal(t1, o1, Shown(o1))
  BY <1>1 DEF Reprice
<1>3. /\ o1 \in Order /\ o1.type # "ICEBERG" /\ Shown(o1) = remaining(o1)
  <2>1. o.side \in Side
    BY <1>1 DEF OrderTable, Order
  <2> QED
    BY <2>1 DEF LimitOrder, Order, OrderType, Ticks, Shown, remaining
<1>4. t1 \in TotalType /\ Depth(om, order, t1)
  BY <1>1, RemoveKeepsDepth DEF DepthInv, Exact
<1>5. om \in SUBSET OrderIds /\ IsFiniteSet(om) /\ id \in OrderIds \ om /\ om \cup {id} = order_map
  <2>1. IsFiniteSet(om)
    BY <1>1, FS_RemoveElement
  <2> QED
    BY <1>1, <2>1
<1> HIDE DEF o1, om, t1
<1>6. Depth(om \cup {id}, [order EXCEPT ![id] = o1], LinkTotal(t1, o1, remaining(o1)))
  BY <1>1, <1>3, <1>4, <1>5, AddKeepsDepth
<1>7. NoIcebergs'
  BY <1>1, <1>2, <1>3 DEF DepthInv, NoIcebergs, OrderTable
<1> QED
  BY <1>2, <1>3, <1>5, <1>6, <1>7, ExactNext

LEMMA ModifyKeepsDepth ==
    ASSUME DepthInv, NEW id \in OrderIds, NEW p \in Prices, NEW n \in 1..MaxQty,
           ProcessModify(id, p, n)
    PROVE  NoIcebergs' /\ Exact'
<1>1. id \in order_map /\ n \in Int
  BY MaxQtyAssumption DEF ProcessModify, ModifyAccepted
<1>2. CASE Reprice(id, p, n)
  BY <1>1, <1>2, RepriceKeepsDepth
<1>3. CASE ModifyQtyDown(id, n)
  BY <1>1, <1>3, QtyDownKeepsDepth
<1>4. CASE UNCHANGED bookVars
  BY <1>4, SameBookKeepsDepth DEF bookVars
<1> QED
  BY <1>2, <1>3, <1>4 DEF ProcessModify

LEMMA NextDepthInv ==
    ASSUME "ICEBERG" \notin ClientOrderTypes, DepthInv, [Next]_vars
    PROVE  DepthInv'
<1>1. EngineInv'
  BY NextEngineInv DEF DepthInv
<1>2. CASE NewOrderStep
  <2>1. NoIcebergs' /\ Exact'
    BY <1>2, NewOrderKeepsDepth DEF NewOrderStep
  <2> QED
    BY <1>1, <2>1 DEF DepthInv
<1>3. CASE CancelStep
  <2>1. NoIcebergs' /\ Exact'
    BY <1>3, CancelKeepsDepth DEF CancelStep
  <2> QED
    BY <1>1, <2>1 DEF DepthInv
<1>4. CASE ModifyStep
  <2>1. PICK id \in OrderIds, p \in Prices, n \in 1..MaxQty :
           ProcessModify(id, p, n) \/ RefuseModify(id, n)
    BY <1>4 DEF ModifyStep
  <2>2. CASE ProcessModify(id, p, n)
    <3>1. NoIcebergs' /\ Exact'
      BY <2>2, ModifyKeepsDepth
    <3> QED
      BY <1>1, <3>1 DEF DepthInv
  <2>3. CASE RefuseModify(id, n)
    <3>1. NoIcebergs' /\ Exact'
      BY <2>3, SameBookKeepsDepth DEF RefuseModify, vars
    <3> QED
      BY <1>1, <3>1 DEF DepthInv
  <2> QED
    BY <2>1, <2>2, <2>3
<1>5. CASE MatchStep
  <2>1. NoIcebergs' /\ Exact'
    BY <1>5, MatchKeepsDepth DEF MatchStep
  <2> QED
    BY <1>1, <2>1 DEF DepthInv
<1>6. CASE FinishNewOrder
  <2>1. NoIcebergs' /\ Exact'
    BY <1>6, FinishKeepsDepth
  <2> QED
    BY <1>1, <2>1 DEF DepthInv
<1>7. CASE UNCHANGED vars
  <2>1. NoIcebergs' /\ Exact'
    BY <1>7, SameBookKeepsDepth DEF vars
  <2> QED
    BY <1>1, <2>1 DEF DepthInv
<1> QED
  BY <1>2, <1>3, <1>4, <1>5, <1>6, <1>7 DEF Next

LEMMA InitDepthInv == EngineInit => DepthInv
<1> SUFFICES ASSUME EngineInit PROVE DepthInv
  OBVIOUS
<1>1. order_map = {} /\ total = [s \in Side |-> [p \in Ticks |-> 0]]
  BY DEF EngineInit, BookInit
<1>2. \A s \in Side, p \in Ticks : At(order_map, order, s, p) = {} /\ total[s][p] = 0
  BY <1>1 DEF At
<1>3. Exact
  BY <1>2, LeftOfNone DEF Exact, Depth
<1> QED
  BY <1>1, <1>3, InitEngineInv DEF DepthInv, NoIcebergs

\* The orders of a queue are those at its side and price.
LEMMA DepthInvImplies == DepthInv => DepthExact
<1> SUFFICES ASSUME DepthInv, NEW s \in Side, NEW p \in Ticks
             PROVE  total[s][p] = MapThenSumSet(LAMBDA id : remaining(order[id]), ToSet(queue[s][p]))
  BY DEF DepthExact
<1> DEFINE q == queue[s][p]
<1>1. q \in Seq(OrderIds) /\ IndicesAgree(queue, order_map, order)
  BY BookFacts DEF DepthInv, QueueType
<1>2. DOMAIN q = 1..Len(q)
  BY <1>1, LenProperties
<1>3. ASSUME NEW x \in ToSet(q) PROVE x \in At(order_map, order, s, p)
  <2>1. PICK i \in 1..Len(q) : x = q[i]
    BY <1>2, <1>3 DEF ToSet
  <2> QED
    BY <1>1, <2>1 DEF IndicesAgree, QueuedAreMapped, At
<1>4. ASSUME NEW x \in At(order_map, order, s, p) PROVE x \in ToSet(q)
  <2>1. x \in order_map /\ order[x].side = s /\ order[x].price = p
    BY DEF At
  <2>2. \E i \in 1..Len(q) : q[i] = x
    BY <1>1, <2>1 DEF IndicesAgree, MappedAreQueued
  <2> QED
    BY <1>2, <2>2 DEF ToSet
<1>5. ToSet(q) = At(order_map, order, s, p)
  BY <1>3, <1>4
<1>6. total[s][p] = Left(order, ToSet(q))
  BY <1>5 DEF DepthInv, Exact, Depth
<1> QED
  BY <1>6 DEF Left

\* The total that a level shows, which is what a snapshot of the book reports,
\* is the sum of what is left of its orders, whatever sequence of limit and
\* market orders, fills, cancels, reductions and price changes led here.
THEOREM DepthIsExact ==
    ASSUME "ICEBERG" \notin ClientOrderTypes
    PROVE  Spec => []DepthExact
<1>1. DepthInv /\ [Next]_vars => DepthInv'
  BY NextDepthInv
<1> QED
  BY <1>1, InitDepthInv, DepthInvImplies, PTL DEF Spec

-----------------------------------------------------------------------------
(***************************************************************************)
(* Prices: the cached best prices, the quantities that fills move and the  *)
(* uncrossed book.  They rest on the invariant above.                      *)
(*                                                                         *)
(* What holds depends on the clients.  best_bid_ is exact for all of them; *)
(* best_ask_ only if nobody sends market orders, because a filled market   *)
(* sell is left in asks_ at INVALID_PRICE.                                 *)
(***************************************************************************)
(* The cached best prices. *)

\* The cached price b of side s is right for the levels ls.
ExactFor(s, b, ls) ==
    IF ls = {} THEN b = INVALID_PRICE
               ELSE b \in ls /\ \A p \in ls : ~Better(s, p, b)

\* The sides whose cache is right, given what the clients send.
ExactSides == {s \in Side : s = "ASK" => "MARKET" \notin ClientOrderTypes}

BestInv ==
    \A s \in ExactSides :
        /\ INVALID_PRICE \notin levels(queue, s)
        /\ ExactFor(s, best[s], levels(queue, s))

\* Adding an order at price p.
LEMMA ExactAfterAdd ==
    ASSUME NEW s \in Side, NEW ls \in SUBSET Ticks, NEW b \in Bests,
           NEW p \in Ticks, INVALID_PRICE \notin ls, p # INVALID_PRICE,
           ExactFor(s, b[s], ls)
    PROVE  ExactFor(s, BestAfterAdd(b, s, p)[s], ls \cup {p})
<1>1. \A x \in Ticks : x \in Int
  BY MaxPriceAssumption DEF Ticks, Prices, INVALID_PRICE
<1>2. b[s] \in Ticks /\ (b[s] = INVALID_PRICE <=> ls = {})
  BY DEF Bests, ExactFor
<1>3. BestAfterAdd(b, s, p)[s] =
        IF b[s] = INVALID_PRICE \/ Better(s, p, b[s]) THEN p ELSE b[s]
  BY DEF BestAfterAdd, Bests, Better, Side
<1>4. CASE ls = {}
  BY <1>1, <1>2, <1>3, <1>4 DEF ExactFor, Better
<1>5. CASE ls # {} /\ Better(s, p, b[s])
  BY <1>1, <1>2, <1>3, <1>5 DEF ExactFor, Better
<1>6. CASE ls # {} /\ ~Better(s, p, b[s])
  BY <1>1, <1>2, <1>3, <1>6 DEF ExactFor, Better
<1> QED
  BY <1>4, <1>5, <1>6

\* The other side's cache is not touched.
LEMMA BestOfOtherSide ==
    ASSUME NEW b \in Bests, NEW s \in Side, NEW t \in Side, s # t
    PROVE  /\ \A p \in Ticks : BestAfterAdd(b, s, p)[t] = b[t]
           /\ \A q1, o : o.side = s =>
                 \A b1 \in BestAfterRemove(b, q1, o) : b1[t] = b[t]
BY DEF BestAfterAdd, BestAfterRemove, Bests

\* Removing an order at price o.price: the rescan of the side, when its level
\* goes and was the best, finds the next best level.
LEMMA ExactAfterRemove ==
    ASSUME NEW s \in Side, NEW ls \in SUBSET Ticks, NEW b \in Bests,
           NEW o \in Order, NEW q1, NEW b1 \in BestAfterRemove(b, q1, o),
           o.side = s, o.price \in ls, INVALID_PRICE \notin ls,
           ExactFor(s, b[s], ls),
           levels(q1, s) = IF q1[s][o.price] = <<>> THEN ls \ {o.price} ELSE ls
    PROVE  ExactFor(s, b1[s], levels(q1, s))
<1>1. \A x \in Ticks : x \in Int
  BY MaxPriceAssumption DEF Ticks, Prices, INVALID_PRICE
<1>2. b[s] \in ls /\ \A p \in ls : ~Better(s, p, b[s])
  BY DEF ExactFor
<1>3. CASE q1[s][o.price] = <<>> /\ o.price = b[s]
  <2>1. PICK p \in Ticks : update_best(s, levels(q1, s), p) /\ b1 = [b EXCEPT ![s] = p]
    BY <1>3 DEF BestAfterRemove
  <2>2. b1[s] = p
    BY <2>1 DEF Bests
  <2>3. levels(q1, s) \in SUBSET Ticks /\ INVALID_PRICE \notin levels(q1, s)
    OBVIOUS
  <2> QED
    BY <1>1, <2>1, <2>2, <2>3 DEF update_best, ExactFor, Better
<1>4. CASE ~(q1[s][o.price] = <<>> /\ o.price = b[s])
  <2>1. b1 = b
    BY <1>4 DEF BestAfterRemove
  <2> QED
    BY <1>2, <1>4, <2>1 DEF ExactFor
<1> QED
  BY <1>3, <1>4

LEMMA BookTypes ==
    ASSUME BookInv
    PROVE  /\ order \in OrderTable /\ total \in TotalType /\ queue \in QueueType
           /\ order_map \in SUBSET OrderIds /\ best \in Bests
           /\ IndicesAgree(queue, order_map, order)
           /\ \A s \in Side : levels(queue, s) \in SUBSET Ticks
BY DEF BookInv, BookTypeOK, OrderTable, TotalType, QueueType, BookConsistent, levels

LEMMA AddKeepsBestInv ==
    ASSUME BookInv, BestInv, NEW id \in OrderIds, CanAdd(id), NEW o \in Order,
           AddOrder(id, o),
           o.side \in ExactSides => o.price # INVALID_PRICE
    PROVE  BestInv'
<1>1. o.side \in Side /\ o.price \in Ticks
  BY DEF Order
<1>2. \A s \in Side : levels(queue', s) =
         IF s = o.side THEN levels(queue, s) \cup {o.price} ELSE levels(queue, s)
  <2>1. id \in OrderIds \ order_map /\ queue' = Link(queue, o, id)
    BY DEF CanAdd, AddOrder
  <2>2. /\ queue \in QueueType /\ order_map \in SUBSET OrderIds /\ order \in OrderTable
        /\ IndicesAgree(queue, order_map, order)
    BY BookTypes
  <2>3. \A s \in Side : levels(Link(queue, o, id), s) =
           IF s = o.side THEN levels(queue, s) \cup {o.price} ELSE levels(queue, s)
    BY <2>1, <2>2, LinkLevels
  <2> QED
    BY <2>1, <2>3
<1>3. best' = BestAfterAdd(best, o.side, o.price)
  BY DEF AddOrder
<1> SUFFICES ASSUME NEW s \in ExactSides
             PROVE  /\ INVALID_PRICE \notin levels(queue', s)
                    /\ ExactFor(s, best'[s], levels(queue', s))
  BY DEF BestInv
<1>4. /\ s \in Side
      /\ INVALID_PRICE \notin levels(queue, s)
      /\ ExactFor(s, best[s], levels(queue, s))
      /\ levels(queue, s) \in SUBSET Ticks /\ best \in Bests
  BY BookTypes DEF BestInv, ExactSides
<1>5. CASE s = o.side
  <2>1. ExactFor(s, BestAfterAdd(best, s, o.price)[s], levels(queue, s) \cup {o.price})
    BY <1>1, <1>4, <1>5, ExactAfterAdd
  <2>2. levels(queue', s) = levels(queue, s) \cup {o.price}
    BY <1>2, <1>4, <1>5
  <2> QED
    BY <1>3, <1>4, <1>5, <2>1, <2>2
<1>6. CASE s # o.side
  BY <1>1, <1>2, <1>3, <1>4, <1>6, BestOfOtherSide
<1> QED
  BY <1>5, <1>6

LEMMA RemoveKeepsBestInv ==
    ASSUME BookInv, BestInv, NEW id \in order_map, NEW ord \in OrderTable, NEW tot,
           \A x \in order_map : ord[x].side = order[x].side /\ ord[x].price = order[x].price,
           RemoveOrder(id, ord, tot)
    PROVE  BestInv'
<1> DEFINE o == ord[id]
<1>1. /\ queue' = Unlink(queue, o, id)
      /\ best' \in BestAfterRemove(best, queue', o)
      /\ o.side = order[id].side /\ o.price = order[id].price
  BY DEF RemoveOrder
<1>2. o \in Order
  BY BookTypes DEF OrderTable
<1> HIDE DEF o
<1>3. o.side \in Side /\ o.price \in Ticks
  BY <1>2 DEF Order
<1>4. /\ o.price \in levels(queue, o.side)
      /\ \A s \in Side : levels(queue', s) =
            IF s = o.side /\ queue'[s][o.price] = <<>>
            THEN levels(queue, s) \ {o.price} ELSE levels(queue, s)
  <2> DEFINE Q == Unlink(queue, o, id)
  <2>1. /\ queue \in QueueType /\ order_map \in SUBSET OrderIds /\ order \in OrderTable
        /\ IndicesAgree(queue, order_map, order)
    BY BookTypes
  <2>2. \A x \in order_map \ {id} : order[x].side = order[x].side /\ order[x].price = order[x].price
    OBVIOUS
  <2>3. o.price \in levels(queue, o.side)
    BY <1>1, <1>2, <2>1, <2>2, UnlinkAgrees
  <2>4. \A s \in Side : levels(Q, s) = IF s = o.side /\ Q[s][o.price] = <<>>
                                       THEN levels(queue, s) \ {o.price} ELSE levels(queue, s)
    BY <1>1, <1>2, <2>1, <2>2, UnlinkAgrees
  <2> QED
    BY <1>1, <2>3, <2>4
<1> SUFFICES ASSUME NEW s \in ExactSides
             PROVE  /\ INVALID_PRICE \notin levels(queue', s)
                    /\ ExactFor(s, best'[s], levels(queue', s))
  BY DEF BestInv
<1>5. /\ s \in Side
      /\ INVALID_PRICE \notin levels(queue, s)
      /\ ExactFor(s, best[s], levels(queue, s))
      /\ levels(queue, s) \in SUBSET Ticks /\ best \in Bests
  BY BookTypes DEF BestInv, ExactSides
<1>6. CASE s = o.side
  BY <1>1, <1>2, <1>4, <1>5, <1>6, ExactAfterRemove
<1>7. CASE s # o.side
  BY <1>1, <1>3, <1>4, <1>5, <1>7, BestOfOtherSide
<1> QED
  BY <1>6, <1>7

LEMMA RepriceKeepsBestInv ==
    ASSUME BookInv, BestInv, NEW id \in order_map, NEW p \in Prices, NEW n \in Int,
           Reprice(id, p, n)
    PROVE  BestInv'
<1> DEFINE o  == order[id]
           o1 == IF o.type = "ICEBERG" THEN IcebergOrder(o.side, p, n, o.display)
                                       ELSE LimitOrder(o.side, p, n)
           q1 == Unlink(queue, o, id)
<1>1. o \in Order /\ o.side \in Side /\ o.price \in Ticks /\ o.display \in Int
  BY BookTypes DEF OrderTable, Order
<1>2. p \in Ticks /\ p # INVALID_PRICE
  BY MaxPriceAssumption DEF Prices, Ticks, INVALID_PRICE
<1>3. o1 \in Order /\ o1.side = o.side /\ o1.price = p
  BY <1>1, <1>2 DEF IcebergOrder, LimitOrder, Order, OrderType
<1>4. queue' = Link(q1, o1, id)
  BY DEF Reprice
<1>5. PICK b1 \in BestAfterRemove(best, q1, o) : best' = BestAfterAdd(b1, o.side, p)
  BY DEF Reprice
<1> HIDE DEF o1
<1>6. /\ o.price \in levels(queue, o.side)
      /\ \A s \in Side : levels(q1, s) =
            IF s = o.side /\ q1[s][o.price] = <<>>
            THEN levels(queue, s) \ {o.price} ELSE levels(queue, s)
      /\ \A s \in Side : levels(queue', s) =
            IF s = o.side THEN levels(q1, s) \cup {p} ELSE levels(q1, s)
  <2>1. /\ queue \in QueueType /\ order_map \in SUBSET OrderIds /\ order \in OrderTable
        /\ IndicesAgree(queue, order_map, order)
    BY BookTypes
  <2>2. \A x \in order_map \ {id} : order[x].side = order[x].side /\ order[x].price = order[x].price
    OBVIOUS
  <2>3. o.price \in levels(queue, o.side)
    BY <1>1, <1>3, <2>1, <2>2, UnlinkAgrees
  <2>4. \A s \in Side : levels(q1, s) = IF s = o.side /\ q1[s][o.price] = <<>>
                                        THEN levels(queue, s) \ {o.price} ELSE levels(queue, s)
    BY <1>1, <1>3, <2>1, <2>2, UnlinkAgrees
  <2>5. \A s \in Side : levels(Link(q1, o1, id), s) =
           IF s = o1.side THEN levels(q1, s) \cup {o1.price} ELSE levels(q1, s)
    <3>1. q1 \in QueueType /\ id \in OrderIds
      BY <1>1, <1>3, <2>1, <2>2, UnlinkAgrees
    <3> QED
      BY <1>3, <3>1, LinkLevels
  <2> QED
    BY <1>3, <1>4, <2>3, <2>4, <2>5
<1> HIDE DEF q1, o
<1> SUFFICES ASSUME NEW s \in ExactSides
             PROVE  /\ INVALID_PRICE \notin levels(queue', s)
                    /\ ExactFor(s, best'[s], levels(queue', s))
  BY DEF BestInv
<1>7. /\ s \in Side
      /\ INVALID_PRICE \notin levels(queue, s)
      /\ ExactFor(s, best[s], levels(queue, s))
      /\ levels(queue, s) \in SUBSET Ticks /\ best \in Bests /\ b1 \in Bests
  BY <1>1, <1>5, BookTypes, BestTypes DEF BestInv, ExactSides
<1>8. CASE s = o.side
  <2>1. ExactFor(s, b1[s], levels(q1, s))
    BY <1>1, <1>5, <1>6, <1>7, <1>8, ExactAfterRemove
  <2>2. levels(q1, s) \in SUBSET Ticks /\ INVALID_PRICE \notin levels(q1, s)
    BY <1>6, <1>7
  <2>3. ExactFor(s, BestAfterAdd(b1, s, p)[s], levels(q1, s) \cup {p})
    BY <1>2, <1>7, <2>1, <2>2, ExactAfterAdd
  <2>4. levels(queue', s) = levels(q1, s) \cup {p}
    BY <1>6, <1>7, <1>8
  <2> QED
    BY <1>2, <1>5, <1>8, <2>2, <2>3, <2>4
<1>9. CASE s # o.side
  <2>1. levels(queue', s) = levels(queue, s)
    BY <1>6, <1>7, <1>9
  <2>2. best'[s] = best[s]
    BY <1>1, <1>2, <1>5, <1>7, <1>9, BestOfOtherSide
  <2> QED
    BY <1>7, <2>1, <2>2
<1> QED
  BY <1>8, <1>9

-----------------------------------------------------------------------------
(* Quantities. *)

\* What is true of each order of the book, the one being matched included.
GoodOrder(o) ==
    /\ 0 <= o.filled /\ o.filled <= o.quantity
    /\ o.type = "ICEBERG" => o.display > 0
    /\ o.type = "MARKET" => "MARKET" \in ClientOrderTypes

QtyInv ==
    \A id \in order_map :
        /\ GoodOrder(order[id])
        /\ ("MARKET" \notin ClientOrderTypes /\ id # taker) => remaining(order[id]) > 0

\* replenish_iceberg is never called: display - filled % display is at least 1
\* for every positive display.
LEMMA NeverReplenishes ==
    ASSUME NEW o \in Order, o.type = "ICEBERG" => o.display > 0
    PROVE  ~MustReplenish(o)
<1>1. \A a \in Int, d \in Int : d > 0 => a % d < d /\ a % d \in Int
  OBVIOUS
<1>2. o.filled \in Int /\ o.display \in Int
  BY DEF Order
<1> QED
  BY <1>1, <1>2 DEF MustReplenish

\* A fill is no larger than what is left of either order.
LEMMA FillIsBounded ==
    ASSUME EngineInv, QtyInv, pc = "match", CanMatch
    PROVE  /\ 0 <= FillQty
           /\ FillQty <= remaining(order[taker])
           /\ FillQty <= remaining(order[maker])
           /\ GoodOrder(Filled[maker]) /\ GoodOrder(Filled[taker])
           /\ ~MustReplenish(Filled[maker])
<1>1. /\ taker \in order_map /\ maker \in order_map /\ maker # taker
      /\ Filled \in OrderTable /\ FillQty \in Int
      /\ \A x \in OrderIds :
            Filled[x] = IF x = maker \/ x = taker
                        THEN [order[x] EXCEPT !.filled = @ + FillQty]
                        ELSE order[x]
  BY FillFacts DEF EngineInv
<1>2. \A x \in order_map : x \in OrderIds /\ order[x] \in Order
  BY DEF EngineInv, BookInv, BookTypeOK
<1>3. GoodOrder(order[maker]) /\ GoodOrder(order[taker])
  BY <1>1 DEF QtyInv
<1>4. remaining(order[maker]) \in Int /\ remaining(order[maker]) >= 0
      /\ remaining(order[taker]) \in Int /\ remaining(order[taker]) > 0
      /\ order[maker].display \in Int
  <2>1. \A o \in Order : GoodOrder(o) =>
           remaining(o) \in Int /\ remaining(o) >= 0 /\ o.display \in Int
    BY DEF remaining, GoodOrder, Order
  <2>2. remaining(order[taker]) > 0
    BY DEF CanMatch
  <2> QED
    BY <1>1, <1>2, <1>3, <2>1, <2>2
<1>5. /\ 0 <= FillQty
      /\ FillQty <= remaining(order[taker])
      /\ FillQty <= remaining(order[maker])
  BY <1>4 DEF FillQty, MakerAvailable
<1>6. \A x \in {maker, taker} :
         /\ Filled[x].filled = order[x].filled + FillQty
         /\ Filled[x].quantity = order[x].quantity
         /\ Filled[x].type = order[x].type
         /\ Filled[x].display = order[x].display
         /\ order[x].filled \in Int /\ order[x].quantity \in Int
  BY <1>1, <1>2 DEF Order
<1>7. GoodOrder(Filled[maker]) /\ GoodOrder(Filled[taker])
  BY <1>1, <1>3, <1>5, <1>6 DEF GoodOrder, remaining
<1>8. ~MustReplenish(Filled[maker])
  BY <1>1, <1>2, <1>7, NeverReplenishes DEF GoodOrder, OrderTable
<1> QED
  BY <1>5, <1>7, <1>8

LEMMA NewOrderKeepsQtyInv ==
    ASSUME EngineInv, QtyInv, NEW id \in OrderIds, NEW s \in Side,
           NEW ty \in ClientOrderTypes, NEW p \in ClientPrices, NEW n \in ClientQuantities,
           NEW d \in ClientDisplays(ty), ProcessNewOrder(id, s, ty, p, n, d)
    PROVE  QtyInv'
<1>1. CASE RefuseNewOrder(id, ty, p, n, d)
  BY <1>1 DEF RefuseNewOrder, QtyInv
<1>2. CASE AcceptNewOrder(id, s, ty, p, n, d)
  <2> DEFINE o == NewOrder(s, ty, p, n, d)
  <2>1. /\ o \in Order /\ o.type = ty /\ o.quantity = n /\ o.filled = 0
        /\ ty = "ICEBERG" => o.display > 0
        /\ n \in Int /\ n > 0
    <3>1. ValidNewOrder(ty, p, n, d) /\ ty \in OrderType /\ d \in ClientQuantities
      BY <1>2, DisplayType DEF AcceptNewOrder
    <3> QED
      BY <3>1, NewOrderType, MaxQtyAssumption DEF ValidNewOrder, ClientQuantities
  <2>2. order_map' = order_map \cup {id} /\ order' = [order EXCEPT ![id] = o]
        /\ id \notin order_map
    BY <1>2 DEF AcceptNewOrder, AddOrder, CanAdd
  <2> HIDE DEF o
  <2>3. GoodOrder(o) /\ remaining(o) > 0
    BY <2>1 DEF GoodOrder, remaining
  <2>4. pc = "idle" /\ taker = NoOrder
    BY DEF ProcessNewOrder, EngineInv, TypeOK
  <2>5. order'[id] = o /\ \A x \in order_map : order'[x] = order[x] /\ x # taker
    BY <2>2, <2>4, NoOrderAssumption DEF EngineInv, BookInv, BookTypeOK
  <2> QED
    BY <2>2, <2>3, <2>5 DEF QtyInv
<1> QED
  BY <1>1, <1>2 DEF ProcessNewOrder

\* Taking out an order, with the others good.
LEMMA RemoveKeepsQtyInv ==
    ASSUME EngineInv, NEW id \in order_map, NEW ord \in OrderTable, NEW tot,
           RemoveOrder(id, ord, tot),
           \A x \in order_map \ {id} :
              /\ GoodOrder(ord[x])
              /\ ("MARKET" \notin ClientOrderTypes /\ x # taker') => remaining(ord[x]) > 0
    PROVE  QtyInv'
<1>1. order_map' = order_map \ {id} /\ order' = [ord EXCEPT ![id] = BlankOrder]
  BY DEF RemoveOrder
<1>2. \A x \in order_map \ {id} : order'[x] = ord[x]
  BY <1>1 DEF EngineInv, BookInv, BookTypeOK, OrderTable
<1> QED
  BY <1>1, <1>2 DEF QtyInv

LEMMA FillKeepsQtyInv ==
    ASSUME EngineInv, QtyInv, MatchStep
    PROVE  QtyInv'
<1>1. pc = "match" /\ CanMatch /\ taker' = taker
  BY DEF MatchStep, FillAndRemoveMaker, FillAndKeepMaker
<1>2. /\ taker \in order_map /\ maker \in order_map /\ maker # taker
      /\ Filled \in OrderTable /\ FilledTotal \in TotalType
      /\ \A x \in OrderIds : x # maker /\ x # taker => Filled[x] = order[x]
  BY <1>1, FillFacts DEF EngineInv
<1>3. GoodOrder(Filled[maker]) /\ GoodOrder(Filled[taker]) /\ ~MustReplenish(Filled[maker])
  BY <1>1, FillIsBounded
<1>4. \A x \in order_map \ {maker} :
         /\ GoodOrder(Filled[x])
         /\ ("MARKET" \notin ClientOrderTypes /\ x # taker) => remaining(Filled[x]) > 0
  BY <1>2, <1>3 DEF QtyInv, EngineInv, BookInv, BookTypeOK
<1>5. CASE FillAndRemoveMaker
  BY <1>1, <1>2, <1>4, <1>5, RemoveKeepsQtyInv DEF FillAndRemoveMaker
<1>6. CASE FillAndKeepMaker
  <2>1. order' = Filled /\ order_map' = order_map /\ ~is_filled(Filled[maker])
    BY <1>3, <1>6 DEF FillAndKeepMaker
  <2>2. remaining(Filled[maker]) > 0
    <3>1. Filled[maker] \in Order
      BY <1>2 DEF OrderTable, EngineInv, BookInv, BookTypeOK
    <3> QED
      BY <2>1, <3>1 DEF is_filled, remaining, Order
  <2> QED
    BY <1>1, <1>2, <1>3, <1>4, <2>1, <2>2 DEF QtyInv
<1> QED
  BY <1>5, <1>6 DEF MatchStep

LEMMA FinishKeepsQtyInv ==
    ASSUME EngineInv, QtyInv, FinishNewOrder
    PROVE  QtyInv'
<1>1. taker \in order_map /\ order \in OrderTable /\ order[taker] \in Order
  BY DEF EngineInv, TypeOK, BookInv, BookTypeOK, OrderTable, FinishNewOrder
<1>2. CASE TakerLeaves
  BY <1>1, <1>2, RemoveKeepsQtyInv DEF FinishNewOrder, QtyInv
<1>3. CASE ~TakerLeaves
  <2>1. order' = order /\ order_map' = order_map
    BY <1>3 DEF FinishNewOrder, bookVars
  <2>2. "MARKET" \notin ClientOrderTypes => remaining(order[taker]) > 0
    <3>1. "MARKET" \notin ClientOrderTypes => order[taker].type # "MARKET"
      BY <1>1 DEF QtyInv, GoodOrder
    <3>2. remaining(order[taker]) \in Int
      BY <1>1 DEF remaining, Order
    <3> QED
      BY <1>3, <3>1, <3>2 DEF TakerLeaves
  <2> QED
    BY <1>1, <2>1, <2>2 DEF QtyInv
<1> QED
  BY <1>2, <1>3

LEMMA CancelKeepsQtyInv ==
    ASSUME EngineInv, QtyInv, NEW id \in OrderIds, ProcessCancel(id)
    PROVE  QtyInv'
<1>1. order \in OrderTable /\ taker' = taker
  BY DEF EngineInv, BookInv, BookTypeOK, OrderTable, ProcessCancel
<1>2. CASE id \in order_map
  BY <1>1, <1>2, RemoveKeepsQtyInv DEF ProcessCancel, QtyInv
<1>3. CASE id \notin order_map
  BY <1>1, <1>3 DEF ProcessCancel, QtyInv, bookVars
<1> QED
  BY <1>2, <1>3

LEMMA ModifyKeepsQtyInv ==
    ASSUME EngineInv, QtyInv, NEW id \in OrderIds, NEW p \in Prices, NEW n \in 1..MaxQty,
           ProcessModify(id, p, n)
    PROVE  QtyInv'
<1>1. id \in order_map /\ n \in Int /\ n > 0 /\ taker' = taker /\ order[id] \in Order
  BY MaxQtyAssumption DEF ProcessModify, ModifyAccepted, EngineInv, BookInv, BookTypeOK
<1>2. GoodOrder(order[id])
  BY <1>1 DEF QtyInv
<1>3. ASSUME NEW o, GoodOrder(o), remaining(o) > 0,
             order_map' = order_map, order' = [order EXCEPT ![id] = o]
      PROVE  QtyInv'
  BY <1>1, <1>3 DEF QtyInv, EngineInv, BookInv, BookTypeOK
<1>4. CASE Reprice(id, p, n)
  <2> DEFINE o1 == IF order[id].type = "ICEBERG"
                   THEN IcebergOrder(order[id].side, p, n, order[id].display)
                   ELSE LimitOrder(order[id].side, p, n)
  <2>1. GoodOrder(o1) /\ remaining(o1) > 0
    BY <1>1, <1>2 DEF GoodOrder, remaining, IcebergOrder, LimitOrder
  <2>2. order_map' = order_map /\ order' = [order EXCEPT ![id] = o1]
    BY <1>4 DEF Reprice
  <2> HIDE DEF o1
  <2> QED
    BY <1>3, <2>1, <2>2
<1>5. CASE ModifyQtyDown(id, n)
  <2>1. GoodOrder(QtyDown(order[id], n)) /\ remaining(QtyDown(order[id], n)) > 0
    BY <1>1, <1>2 DEF GoodOrder, remaining, QtyDown, Order
  <2> QED
    BY <1>3, <1>5, <2>1 DEF ModifyQtyDown
<1>6. CASE UNCHANGED bookVars
  BY <1>1, <1>6 DEF QtyInv, bookVars
<1> QED
  BY <1>4, <1>5, <1>6 DEF ProcessModify

-----------------------------------------------------------------------------
(* The invariant of prices and quantities. *)

PriceInv == EngineInv /\ QtyInv /\ BestInv

LEMMA NewOrderKeepsBestInv ==
    ASSUME PriceInv, NEW id \in OrderIds, NEW s \in Side, NEW ty \in ClientOrderTypes,
           NEW p \in ClientPrices, NEW n \in ClientQuantities, NEW d \in ClientDisplays(ty),
           ProcessNewOrder(id, s, ty, p, n, d)
    PROVE  BestInv'
<1>1. CASE RefuseNewOrder(id, ty, p, n, d)
  BY <1>1 DEF RefuseNewOrder, PriceInv, BestInv, levels
<1>2. CASE AcceptNewOrder(id, s, ty, p, n, d)
  <2> DEFINE o == NewOrder(s, ty, p, n, d)
  <2>1. /\ o \in Order /\ o.side = s
        /\ o.price = IF ty = "MARKET" THEN MarketPrice(s) ELSE p
        /\ ty # "MARKET" => p \in Prices
    <3>1. ValidNewOrder(ty, p, n, d) /\ ty \in OrderType /\ d \in ClientQuantities
      BY <1>2, DisplayType DEF AcceptNewOrder
    <3> QED
      BY <3>1, NewOrderType
  <2>2. CanAdd(id) /\ AddOrder(id, o)
    BY <1>2 DEF AcceptNewOrder
  <2> HIDE DEF o
  <2>3. o.side \in ExactSides => o.price # INVALID_PRICE
    BY <2>1, MaxPriceAssumption DEF ExactSides, MarketPrice, INVALID_PRICE, Prices, Side
  <2> QED
    BY <2>1, <2>2, <2>3, AddKeepsBestInv DEF PriceInv, EngineInv
<1> QED
  BY <1>1, <1>2 DEF ProcessNewOrder

LEMMA FillKeepsBestInv ==
    ASSUME PriceInv, MatchStep
    PROVE  BestInv'
<1>1. pc = "match" /\ CanMatch
  BY DEF MatchStep, FillAndRemoveMaker, FillAndKeepMaker
<1>2. ~MustReplenish(Filled[maker])
  BY <1>1, FillIsBounded DEF PriceInv
<1>3. CASE FillAndRemoveMaker
  <2>1. /\ maker \in order_map /\ Filled \in OrderTable
        /\ \A x \in OrderIds :
              Filled[x] = IF x = maker \/ x = taker
                          THEN [order[x] EXCEPT !.filled = @ + FillQty]
                          ELSE order[x]
    BY <1>1, FillFacts DEF PriceInv, EngineInv
  <2>2. \A x \in order_map : x \in OrderIds /\ order[x] \in Order
    BY DEF PriceInv, EngineInv, BookInv, BookTypeOK
  <2>3. \A x \in order_map : Filled[x].side = order[x].side /\ Filled[x].price = order[x].price
    BY <2>1, <2>2 DEF Order
  <2> QED
    BY <1>3, <2>1, <2>3, RemoveKeepsBestInv DEF FillAndRemoveMaker, PriceInv, EngineInv
<1>4. CASE FillAndKeepMaker
  BY <1>2, <1>4 DEF FillAndKeepMaker, PriceInv, BestInv, levels
<1> QED
  BY <1>3, <1>4 DEF MatchStep

LEMMA FinishKeepsBestInv ==
    ASSUME PriceInv, FinishNewOrder
    PROVE  BestInv'
<1>1. taker \in order_map /\ order \in OrderTable
  BY DEF PriceInv, EngineInv, TypeOK, BookInv, BookTypeOK, OrderTable, FinishNewOrder
<1>2. CASE TakerLeaves
  BY <1>1, <1>2, RemoveKeepsBestInv DEF FinishNewOrder, PriceInv, EngineInv
<1>3. CASE ~TakerLeaves
  BY <1>3 DEF FinishNewOrder, bookVars, PriceInv, BestInv, levels
<1> QED
  BY <1>2, <1>3

LEMMA CancelKeepsBestInv ==
    ASSUME PriceInv, NEW id \in OrderIds, ProcessCancel(id)
    PROVE  BestInv'
<1>1. order \in OrderTable
  BY DEF PriceInv, EngineInv, BookInv, BookTypeOK, OrderTable
<1>2. CASE id \in order_map
  BY <1>1, <1>2, RemoveKeepsBestInv DEF ProcessCancel, PriceInv, EngineInv
<1>3. CASE id \notin order_map
  BY <1>3 DEF ProcessCancel, bookVars, PriceInv, BestInv, levels
<1> QED
  BY <1>2, <1>3

LEMMA ModifyKeepsBestInv ==
    ASSUME PriceInv, NEW id \in OrderIds, NEW p \in Prices, NEW n \in 1..MaxQty,
           ProcessModify(id, p, n)
    PROVE  BestInv'
<1>1. id \in order_map /\ n \in Int
  BY MaxQtyAssumption DEF ProcessModify, ModifyAccepted
<1>2. CASE Reprice(id, p, n)
  BY <1>1, <1>2, RepriceKeepsBestInv DEF PriceInv, EngineInv
<1>3. CASE ModifyQtyDown(id, n)
  BY <1>3 DEF ModifyQtyDown, PriceInv, BestInv, levels
<1>4. CASE UNCHANGED bookVars
  BY <1>4 DEF bookVars, PriceInv, BestInv, levels
<1> QED
  BY <1>2, <1>3, <1>4 DEF ProcessModify

LEMMA InitPriceInv == EngineInit => PriceInv
<1> SUFFICES ASSUME EngineInit PROVE PriceInv
  OBVIOUS
<1>1. QtyInv
  BY DEF QtyInv, EngineInit, BookInit
<1>2. BestInv
  BY DEF BestInv, ExactFor, levels, ExactSides, EngineInit, BookInit
<1> QED
  BY <1>1, <1>2, InitEngineInv DEF PriceInv

LEMMA NextPriceInv == PriceInv /\ [Next]_vars => PriceInv'
<1> SUFFICES ASSUME PriceInv, [Next]_vars PROVE QtyInv' /\ BestInv'
  BY NextEngineInv DEF PriceInv
<1>1. CASE NewOrderStep
  BY <1>1, NewOrderKeepsQtyInv, NewOrderKeepsBestInv DEF NewOrderStep, PriceInv
<1>2. CASE CancelStep
  BY <1>2, CancelKeepsQtyInv, CancelKeepsBestInv DEF CancelStep, PriceInv
<1>3. CASE ModifyStep
  <2> PICK id \in OrderIds, p \in Prices, n \in 1..MaxQty :
         ProcessModify(id, p, n) \/ RefuseModify(id, n)
    BY <1>3 DEF ModifyStep
  <2>1. CASE ProcessModify(id, p, n)
    BY <2>1, ModifyKeepsQtyInv, ModifyKeepsBestInv DEF PriceInv
  <2>2. CASE RefuseModify(id, n)
    BY <2>2 DEF RefuseModify, vars, PriceInv, QtyInv, BestInv, levels
  <2> QED
    BY <2>1, <2>2
<1>4. CASE MatchStep
  BY <1>4, FillKeepsQtyInv, FillKeepsBestInv DEF PriceInv
<1>5. CASE FinishNewOrder
  BY <1>5, FinishKeepsQtyInv, FinishKeepsBestInv DEF PriceInv
<1>6. CASE UNCHANGED vars
  BY <1>6 DEF vars, PriceInv, QtyInv, BestInv, levels
<1> QED
  BY <1>1, <1>2, <1>3, <1>4, <1>5, <1>6 DEF Next

\* best_bid_ is the highest bid level, or INVALID_PRICE, after any sequence of
\* commands: the comparison of an add and the rescan after a removal suffice.
THEOREM BestBidIsExact == Spec => []BestBidExact
<1>1. PriceInv => BestBidExact
  <2> SUFFICES ASSUME PriceInv PROVE BestBidExact
    OBVIOUS
  <2>1. "BID" \in ExactSides
    BY DEF ExactSides, Side
  <2>2. \A p \in Ticks : p \in Int
    BY MaxPriceAssumption DEF Ticks, Prices, INVALID_PRICE
  <2>3. levels(queue, "BID") \in SUBSET Ticks
    BY DEF levels
  <2>4. ExactFor("BID", best["BID"], levels(queue, "BID"))
    BY <2>1 DEF PriceInv, BestInv
  <2> QED
    BY <2>2, <2>3, <2>4 DEF ExactFor, BestBidExact, Better
<1> QED
  BY <1>1, InitPriceInv, NextPriceInv, PTL DEF Spec

\* Both cached prices are exact when no client sends market orders.
THEOREM BestIsExactWithoutMarketOrders ==
    ASSUME "MARKET" \notin ClientOrderTypes
    PROVE  Spec => []BestExact
<1>1. PriceInv => BestExact
  <2> SUFFICES ASSUME PriceInv PROVE BestExact
    OBVIOUS
  <2>1. "BID" \in ExactSides /\ "ASK" \in ExactSides
    BY DEF ExactSides, Side
  <2>2. \A p \in Ticks : p \in Int
    BY MaxPriceAssumption DEF Ticks, Prices, INVALID_PRICE
  <2>3. levels(queue, "BID") \in SUBSET Ticks /\ levels(queue, "ASK") \in SUBSET Ticks
    BY DEF levels
  <2>4. /\ ExactFor("BID", best["BID"], levels(queue, "BID"))
        /\ ExactFor("ASK", best["ASK"], levels(queue, "ASK"))
        /\ INVALID_PRICE \notin levels(queue, "ASK")
    BY <2>1 DEF PriceInv, BestInv
  <2>5. BestBidExact
    BY <2>2, <2>3, <2>4 DEF ExactFor, BestBidExact, Better
  <2>6. BestAskExact
    BY <2>2, <2>3, <2>4 DEF ExactFor, BestAskExact, Better
  <2> QED
    BY <2>5, <2>6 DEF BestExact
<1> QED
  BY <1>1, InitPriceInv, NextPriceInv, PTL DEF Spec

\* No order is filled beyond its quantity, as maker or as taker.
THEOREM NothingIsOverfilled == Spec => []NeverOverfilled
<1>1. PriceInv => NeverOverfilled
  BY DEF PriceInv, QtyInv, GoodOrder, NeverOverfilled
<1> QED
  BY <1>1, InitPriceInv, NextPriceInv, PTL DEF Spec

\* Without market orders nothing that rests between two commands is filled.
THEOREM RestingOrdersCanTrade ==
    ASSUME "MARKET" \notin ClientOrderTypes
    PROVE  Spec => []RestingHasQuantity
<1>1. PriceInv => RestingHasQuantity
  <2> SUFFICES ASSUME PriceInv, pc = "idle", NEW id \in order_map
               PROVE  remaining(order[id]) > 0
    BY DEF RestingHasQuantity
  <2>1. id # taker
    BY NoOrderAssumption DEF PriceInv, EngineInv, TypeOK, BookInv, BookTypeOK
  <2> QED
    BY <2>1 DEF PriceInv, QtyInv
<1> QED
  BY <1>1, InitPriceInv, NextPriceInv, PTL DEF Spec

-----------------------------------------------------------------------------
(***************************************************************************)
(* The uncrossed book.  Clients send limit and iceberg orders and change   *)
(* no price: a price change is not matched, and may cross the book.        *)
(***************************************************************************)
PlainClients == "MARKET" \notin ClientOrderTypes /\ ~RepriceAllowed

\* Only the order being matched may cross others.
CrossInv == \A b, a \in order_map : Crossed(b, a) => taker \in {b, a}

\* The opposite best price answers for its whole side: what does not reach it
\* reaches no order there.
LEMMA BestAnswersForItsSide ==
    ASSUME PriceInv, PlainClients, NEW s \in Side, NEW p \in Ticks, ~Crosses(s, p)
    PROVE  \A x \in order_map : order[x].side = Opposite(s) =>
              IF s = "BID" THEN p < order[x].price ELSE p > order[x].price
<1> SUFFICES ASSUME NEW x \in order_map, order[x].side = Opposite(s)
             PROVE  IF s = "BID" THEN p < order[x].price ELSE p > order[x].price
  OBVIOUS
<1> DEFINE t == Opposite(s)
           ls == levels(queue, t)
<1>1. t \in ExactSides /\ t \in Side
  BY DEF PlainClients, ExactSides, Opposite, Side
<1>2. \A y \in Ticks : y \in Int
  BY MaxPriceAssumption DEF Ticks, Prices, INVALID_PRICE
<1>3. order[x].price \in ls
  <2>1. order[x].price \in Ticks /\ queue[t][order[x].price] \in Seq(OrderIds)
    BY <1>1, BookTypes DEF PriceInv, EngineInv, OrderTable, Order, QueueType
  <2>2. queue[t][order[x].price] # <<>>
    BY <2>1, BookTypes, EmptySeq DEF PriceInv, EngineInv, IndicesAgree, MappedAreQueued
  <2> QED
    BY <2>1, <2>2 DEF levels
<1>4. best[t] \in ls /\ \A y \in ls : ~Better(t, y, best[t])
  BY <1>1, <1>3 DEF PriceInv, BestInv, ExactFor
<1>5. ls \in SUBSET Ticks /\ INVALID_PRICE \notin ls
  BY <1>1 DEF levels, PriceInv, BestInv
<1> HIDE DEF ls
<1>6. best[t] # INVALID_PRICE /\ ~(IF s = "BID" THEN p >= best[t] ELSE p <= best[t])
  BY <1>4, <1>5 DEF Crosses
<1> QED
  BY <1>1, <1>2, <1>3, <1>4, <1>5, <1>6 DEF Better, Opposite, Side

LEMMA NewOrderKeepsCrossInv ==
    ASSUME PriceInv, CrossInv, PlainClients, NEW id \in OrderIds, NEW s \in Side,
           NEW ty \in ClientOrderTypes, NEW p \in ClientPrices, NEW n \in ClientQuantities,
           NEW d \in ClientDisplays(ty), ProcessNewOrder(id, s, ty, p, n, d)
    PROVE  CrossInv'
<1>1. CASE RefuseNewOrder(id, ty, p, n, d)
  BY <1>1 DEF RefuseNewOrder, CrossInv, Crossed
<1>2. CASE AcceptNewOrder(id, s, ty, p, n, d)
  <2> DEFINE o == NewOrder(s, ty, p, n, d)
  <2>1. o \in Order /\ o.side = s /\ o.price = p /\ p \in Ticks /\ ty # "MARKET"
    <3>1. ValidNewOrder(ty, p, n, d) /\ ty \in OrderType /\ d \in ClientQuantities
          /\ ty # "MARKET"
      BY <1>2, DisplayType DEF AcceptNewOrder, PlainClients
    <3> QED
      BY <3>1, NewOrderType DEF Ticks
  <2>2. order_map' = order_map \cup {id} /\ order' = [order EXCEPT ![id] = o]
        /\ id \notin order_map
    BY <1>2 DEF AcceptNewOrder, AddOrder, CanAdd
  <2> HIDE DEF o
  <2>3. order'[id] = o /\ \A x \in order_map : order'[x] = order[x]
    BY <2>2 DEF PriceInv, EngineInv, BookInv, BookTypeOK
  <2>4. \A b, a \in order_map : ~Crossed(b, a)
    BY NoOrderAssumption DEF ProcessNewOrder, PriceInv, EngineInv, TypeOK, BookInv, BookTypeOK,
                             CrossInv
  <2>5. CASE taker' = id
    BY <2>2, <2>3, <2>4, <2>5 DEF CrossInv, Crossed
  <2>6. CASE taker' # id
    <3>1. ~Crosses(s, p)
      BY <1>2, <2>6 DEF AcceptNewOrder
    <3>2. \A x \in order_map : order[x].side = Opposite(s) =>
             IF s = "BID" THEN p < order[x].price ELSE p > order[x].price
      BY <2>1, <3>1, BestAnswersForItsSide
    <3>3. \A x \in order_map : order[x].price \in Int
      BY BookTypes, MaxPriceAssumption
         DEF PriceInv, EngineInv, OrderTable, Order, Ticks, Prices, INVALID_PRICE
    <3>4. p \in Int
      BY MaxPriceAssumption DEF ClientPrices
    <3>5. ASSUME NEW b \in order_map', NEW a \in order_map', Crossed(b, a)'
          PROVE  FALSE
      <4>1. CASE b # id /\ a # id
        BY <2>2, <2>3, <2>4, <3>5, <4>1 DEF Crossed
      <4>2. CASE b = id /\ a # id
        BY <2>1, <2>2, <2>3, <3>2, <3>3, <3>4, <3>5, <4>2 DEF Crossed, Opposite
      <4>3. CASE b # id /\ a = id
        BY <2>1, <2>2, <2>3, <3>2, <3>3, <3>4, <3>5, <4>3 DEF Crossed, Opposite
      <4>4. CASE b = id /\ a = id
        BY <2>1, <2>3, <3>5, <4>4 DEF Crossed
      <4> QED
        BY <4>1, <4>2, <4>3, <4>4
    <3> QED
      BY <3>5 DEF CrossInv
  <2> QED
    BY <2>5, <2>6
<1> QED
  BY <1>1, <1>2 DEF ProcessNewOrder

\* A step that adds no order and moves none can only uncross.
LEMMA ShrinkKeepsCrossInv ==
    ASSUME CrossInv, order_map' \subseteq order_map,
           \A x \in order_map' : order'[x].side = order[x].side /\ order'[x].price = order[x].price
    PROVE  \A b, a \in order_map' : Crossed(b, a)' => Crossed(b, a) /\ taker \in {b, a}
BY DEF CrossInv, Crossed

\* What a removal leaves of the other orders.
LEMMA RemoveShrinks ==
    ASSUME PriceInv, NEW id \in order_map, NEW ord \in OrderTable, NEW tot,
           \A x \in order_map : ord[x].side = order[x].side /\ ord[x].price = order[x].price,
           RemoveOrder(id, ord, tot)
    PROVE  /\ order_map' = order_map \ {id}
           /\ \A x \in order_map' : order'[x].side = order[x].side /\ order'[x].price = order[x].price
<1>1. order_map' = order_map \ {id} /\ order' = [ord EXCEPT ![id] = BlankOrder]
  BY DEF RemoveOrder
<1>2. \A x \in order_map' : order'[x] = ord[x]
  BY <1>1, BookTypes DEF PriceInv, EngineInv, OrderTable
<1> QED
  BY <1>1, <1>2

LEMMA FillKeepsCrossInv ==
    ASSUME PriceInv, CrossInv, MatchStep
    PROVE  CrossInv'
<1>1. pc = "match" /\ CanMatch /\ taker' = taker
  BY DEF MatchStep, FillAndRemoveMaker, FillAndKeepMaker
<1>2. /\ maker \in order_map /\ Filled \in OrderTable
      /\ \A x \in OrderIds :
            Filled[x] = IF x = maker \/ x = taker
                        THEN [order[x] EXCEPT !.filled = @ + FillQty]
                        ELSE order[x]
  BY <1>1, FillFacts DEF PriceInv, EngineInv
<1>3. \A x \in order_map : x \in OrderIds /\ order[x] \in Order
  BY DEF PriceInv, EngineInv, BookInv, BookTypeOK
<1>4. \A x \in order_map : Filled[x].side = order[x].side /\ Filled[x].price = order[x].price
  BY <1>2, <1>3 DEF Order
<1>5. /\ order_map' \subseteq order_map
      /\ \A x \in order_map' : order'[x].side = order[x].side /\ order'[x].price = order[x].price
  <2>1. CASE FillAndRemoveMaker
    BY <1>2, <1>4, <2>1, RemoveShrinks DEF FillAndRemoveMaker
  <2>2. CASE FillAndKeepMaker
    <3>1. ~MustReplenish(Filled[maker])
      BY <1>1, FillIsBounded DEF PriceInv
    <3> QED
      BY <1>4, <2>2, <3>1 DEF FillAndKeepMaker
  <2> QED
    BY <2>1, <2>2 DEF MatchStep
<1> QED
  BY <1>1, <1>5, ShrinkKeepsCrossInv DEF CrossInv

\* The loop ends only when the taker is filled, and leaves, or crosses nothing.
LEMMA FinishKeepsCrossInv ==
    ASSUME PriceInv, CrossInv, PlainClients, FinishNewOrder
    PROVE  CrossInv'
<1>1. taker \in order_map /\ order \in OrderTable /\ order[taker] \in Order
  BY DEF PriceInv, EngineInv, TypeOK, BookInv, BookTypeOK, OrderTable, FinishNewOrder
<1>2. CASE TakerLeaves
  <2>1. /\ order_map' = order_map \ {taker}
        /\ \A x \in order_map' : order'[x].side = order[x].side /\ order'[x].price = order[x].price
    BY <1>1, <1>2, RemoveShrinks DEF FinishNewOrder
  <2> QED
    BY <2>1, ShrinkKeepsCrossInv DEF CrossInv
<1>3. CASE ~TakerLeaves
  <2> DEFINE s == order[taker].side
             p == order[taker].price
  <2>1. s \in Side /\ p \in Ticks /\ remaining(order[taker]) \in Int
    BY <1>1 DEF Order, remaining
  <2>2. order[taker].type # "MARKET"
    BY <1>1 DEF PriceInv, QtyInv, GoodOrder, PlainClients
  <2>3. remaining(order[taker]) > 0
    BY <1>3, <2>1, <2>2 DEF TakerLeaves
  <2>4. OppositeBest # INVALID_PRICE => MakerLevel # <<>>
    <3>1. Opposite(s) \in ExactSides
      BY <2>1 DEF PlainClients, ExactSides, Opposite, Side
    <3>2. ExactFor(Opposite(s), OppositeBest, levels(queue, Opposite(s)))
      BY <3>1 DEF PriceInv, BestInv, OppositeBest
    <3> QED
      BY <3>2 DEF ExactFor, levels, MakerLevel
  <2>5. ~Crosses(s, p)
    BY <2>2, <2>3, <2>4
       DEF FinishNewOrder, CanMatch, PriceCompatible, Crosses, OppositeBest
  <2>6. \A x \in order_map : order[x].side = Opposite(s) =>
           IF s = "BID" THEN p < order[x].price ELSE p > order[x].price
    BY <2>1, <2>5, BestAnswersForItsSide
  <2>7. \A x \in order_map : order[x].price \in Int /\ order[x].side \in Side
    BY BookTypes, MaxPriceAssumption
       DEF PriceInv, EngineInv, OrderTable, Order, Ticks, Prices, INVALID_PRICE
  <2>8. \A b, a \in order_map : ~Crossed(b, a)
    <3> SUFFICES ASSUME NEW b \in order_map, NEW a \in order_map, Crossed(b, a)
                 PROVE  FALSE
      OBVIOUS
    <3>1. CASE taker = b
      BY <1>1, <2>6, <2>7, <3>1 DEF Crossed, Opposite
    <3>2. CASE taker = a
      BY <1>1, <2>6, <2>7, <3>2 DEF Crossed, Opposite
    <3> QED
      BY <3>1, <3>2 DEF CrossInv
  <2>9. order_map' = order_map /\ order' = order
    BY <1>3 DEF FinishNewOrder, bookVars
  <2> QED
    BY <2>8, <2>9 DEF CrossInv, Crossed
<1> QED
  BY <1>2, <1>3

LEMMA CancelKeepsCrossInv ==
    ASSUME PriceInv, CrossInv, NEW id \in OrderIds, ProcessCancel(id)
    PROVE  CrossInv'
<1>1. order \in OrderTable /\ taker' = taker
  BY DEF PriceInv, EngineInv, BookInv, BookTypeOK, OrderTable, ProcessCancel
<1>2. /\ order_map' \subseteq order_map
      /\ \A x \in order_map' : order'[x].side = order[x].side /\ order'[x].price = order[x].price
  <2>1. CASE id \in order_map
    BY <1>1, <2>1, RemoveShrinks DEF ProcessCancel
  <2>2. CASE id \notin order_map
    BY <2>2 DEF ProcessCancel, bookVars
  <2> QED
    BY <2>1, <2>2
<1> QED
  BY <1>1, <1>2, ShrinkKeepsCrossInv DEF CrossInv

LEMMA ModifyKeepsCrossInv ==
    ASSUME PriceInv, CrossInv, PlainClients, NEW id \in OrderIds, NEW p \in Prices,
           NEW n \in 1..MaxQty, ProcessModify(id, p, n)
    PROVE  CrossInv'
<1>1. /\ order \in OrderTable /\ id \in order_map /\ order[id] \in Order /\ taker' = taker
      /\ p = order[id].price
  BY DEF PriceInv, EngineInv, BookInv, BookTypeOK, OrderTable, ProcessModify, ModifyAccepted,
         PlainClients
<1>2. /\ order_map' \subseteq order_map
      /\ \A x \in order_map' : order'[x].side = order[x].side /\ order'[x].price = order[x].price
  <2>1. CASE ModifyQtyDown(id, n)
    <3>1. QtyDown(order[id], n).side = order[id].side /\ QtyDown(order[id], n).price = order[id].price
      BY <1>1 DEF QtyDown, Order
    <3> QED
      BY <1>1, <2>1, <3>1, BookTypes
         DEF ModifyQtyDown, OrderTable, PriceInv, EngineInv
  <2>2. CASE UNCHANGED bookVars
    BY <2>2 DEF bookVars
  <2> QED
    BY <1>1, <2>1, <2>2 DEF ProcessModify
<1> QED
  BY <1>1, <1>2, ShrinkKeepsCrossInv DEF CrossInv

\* Between two commands no bid reaches an ask: match_order trades a crossing
\* order until it is filled or no longer crosses, and nothing else moves prices.
THEOREM BookIsNeverCrossed ==
    ASSUME PlainClients
    PROVE  Spec => []NotCrossed
<1> DEFINE Inv == PriceInv /\ CrossInv
<1>1. EngineInit => Inv
  BY InitPriceInv DEF CrossInv, EngineInit, BookInit
<1>2. Inv /\ [Next]_vars => Inv'
  <2> SUFFICES ASSUME PriceInv, CrossInv, [Next]_vars PROVE CrossInv'
    BY NextPriceInv
  <2>1. CASE NewOrderStep
    BY <2>1, NewOrderKeepsCrossInv DEF NewOrderStep
  <2>2. CASE CancelStep
    BY <2>2, CancelKeepsCrossInv DEF CancelStep
  <2>3. CASE ModifyStep
    <3> PICK id \in OrderIds, p \in Prices, n \in 1..MaxQty :
           ProcessModify(id, p, n) \/ RefuseModify(id, n)
      BY <2>3 DEF ModifyStep
    <3>1. CASE ProcessModify(id, p, n)
      BY <3>1, ModifyKeepsCrossInv
    <3>2. CASE RefuseModify(id, n)
      BY <3>2 DEF RefuseModify, vars, CrossInv, Crossed
    <3> QED
      BY <3>1, <3>2
  <2>4. CASE MatchStep
    BY <2>4, FillKeepsCrossInv
  <2>5. CASE FinishNewOrder
    BY <2>5, FinishKeepsCrossInv
  <2>6. CASE UNCHANGED vars
    BY <2>6 DEF vars, CrossInv, Crossed
  <2> QED
    BY <2>1, <2>2, <2>3, <2>4, <2>5, <2>6 DEF Next
<1>3. Inv => NotCrossed
  <2> SUFFICES ASSUME PriceInv, CrossInv, pc = "idle", NEW b \in order_map, NEW a \in order_map
               PROVE  ~Crossed(b, a)
    BY DEF NotCrossed
  <2> QED
    BY NoOrderAssumption DEF CrossInv, PriceInv, EngineInv, TypeOK, BookInv, BookTypeOK
<1> QED
  BY <1>1, <1>2, <1>3, PTL DEF Spec

-----------------------------------------------------------------------------
(* What a step of the matching loop may do. *)

\* Only a fill or the end of process_new_order happens while an order is being
\* matched, and these change no order but the taker and the maker.
LEMMA MatchingTouchesTwoOrders ==
    ASSUME PriceInv, Next, pc = "match"
    PROVE  \/ /\ MatchStep /\ CanMatch
              /\ order'[taker] = Filled[taker]
              /\ \A x \in order_map \ {maker, taker} : order'[x] = order[x]
           \/ /\ FinishNewOrder
              /\ \A x \in order_map \ {taker} : order'[x] = order[x]
<1>1. MatchStep \/ FinishNewOrder
  BY DEF Next, NewOrderStep, ProcessNewOrder, CancelStep, ProcessCancel, ModifyStep,
         ProcessModify, RefuseModify
<1>2. order_map \in SUBSET OrderIds /\ order \in OrderTable /\ taker \in order_map
  BY BookTypes DEF PriceInv, EngineInv, TypeOK
<1>3. CASE MatchStep
  <2>1. CanMatch
    BY <1>3 DEF MatchStep, FillAndRemoveMaker, FillAndKeepMaker
  <2>2. /\ maker \in order_map /\ maker # taker /\ Filled \in OrderTable
        /\ \A x \in OrderIds : x # maker /\ x # taker => Filled[x] = order[x]
        /\ ~MustReplenish(Filled[maker])
    BY <2>1, FillFacts, FillIsBounded DEF PriceInv, EngineInv
  <2>3. order' = Filled \/ order' = [Filled EXCEPT ![maker] = BlankOrder]
    BY <1>3, <2>2 DEF MatchStep, FillAndRemoveMaker, RemoveOrder, FillAndKeepMaker
  <2> QED
    BY <1>2, <1>3, <2>1, <2>2, <2>3 DEF OrderTable
<1>4. CASE FinishNewOrder
  <2>1. order' = order \/ order' = [order EXCEPT ![taker] = BlankOrder]
    BY <1>4 DEF FinishNewOrder, RemoveOrder, bookVars
  <2> QED
    BY <1>2, <1>4, <2>1 DEF OrderTable
<1> QED
  BY <1>1, <1>3, <1>4

\* Price-time priority of every fill, when no client sends market orders: the
\* maker is the head of the best level of its side, within the taker's limit.
THEOREM FillsFollowPriceTimePriority ==
    ASSUME "MARKET" \notin ClientOrderTypes
    PROVE  Spec => PriceTimePriority
<1> DEFINE A == \A m \in order_map :
                  (pc = "match" /\ m # taker /\ order'[m] # order[m])
                  => LET o == order[m] IN
                     /\ o.side # order[taker].side
                     /\ Head(queue[o.side][o.price]) = m
                     /\ \A p \in levels(queue, o.side) : ~Better(o.side, p, o.price)
                     /\ ~Better(o.side, order[taker].price, o.price)
<1>1. PriceInv /\ [Next]_vars => [A]_vars
  <2> SUFFICES ASSUME PriceInv, Next, NEW m \in order_map,
                      pc = "match", m # taker, order'[m] # order[m]
               PROVE  LET o == order[m] IN
                      /\ o.side # order[taker].side
                      /\ Head(queue[o.side][o.price]) = m
                      /\ \A p \in levels(queue, o.side) : ~Better(o.side, p, o.price)
                      /\ ~Better(o.side, order[taker].price, o.price)
    OBVIOUS
  <2>1. CanMatch /\ m = maker
    BY MatchingTouchesTwoOrders
  <2> DEFINE s == Opposite(order[taker].side)
  <2>2. /\ taker \in order_map
        /\ order[maker].side = s
        /\ order[maker].price = OppositeBest
    BY <2>1, FillFacts DEF PriceInv, EngineInv
  <2>3. order[taker] \in Order /\ order[taker].side \in Side
    BY <2>2, BookTypes DEF PriceInv, EngineInv, OrderTable, Order
  <2>4. s \in ExactSides /\ s # order[taker].side
    BY <2>3 DEF ExactSides, Opposite, Side
  <2>5. Head(queue[s][OppositeBest]) = maker
    BY DEF maker, MakerLevel
  <2>6. OppositeBest \in levels(queue, s) /\ OppositeBest \in Ticks
        /\ \A p \in levels(queue, s) : ~Better(s, p, OppositeBest)
    BY <2>1, <2>4 DEF PriceInv, BestInv, ExactFor, OppositeBest, CanMatch, levels
  <2>7. ~Better(s, order[taker].price, OppositeBest)
    <3>1. order[taker].type # "MARKET"
      BY <2>2 DEF PriceInv, QtyInv, GoodOrder
    <3>2. order[taker].price \in Int /\ OppositeBest \in Int
      BY <2>3, <2>6, MaxPriceAssumption DEF Order, Ticks, Prices, INVALID_PRICE
    <3>3. IF order[taker].side = "BID" THEN order[taker].price >= OppositeBest
                                       ELSE order[taker].price <= OppositeBest
      BY <2>1, <3>1 DEF CanMatch, PriceCompatible
    <3> QED
      BY <2>3, <3>2, <3>3 DEF Better, Opposite, Side
  <2> QED
    BY <2>1, <2>2, <2>4, <2>5, <2>6, <2>7
<1> QED
  BY <1>1, InitPriceInv, NextPriceInv, PTL DEF Spec, PriceTimePriority

\* Every iteration of the loop moves at least one unit, when no client sends
\* market orders (a filled market order left in the book is filled again by 0).
THEOREM EveryFillMoves ==
    ASSUME "MARKET" \notin ClientOrderTypes
    PROVE  Spec => FillsArePositive
<1>1. PriceInv /\ [Next]_vars =>
        [pc = "match" /\ pc' = "match" => order'[taker].filled > order[taker].filled]_vars
  <2> SUFFICES ASSUME PriceInv, Next, pc = "match", pc' = "match"
               PROVE  order'[taker].filled > order[taker].filled
    OBVIOUS
  <2>1. CanMatch /\ order'[taker] = Filled[taker]
    BY MatchingTouchesTwoOrders DEF FinishNewOrder
  <2>2. /\ taker \in order_map /\ maker \in order_map /\ maker # taker
        /\ taker \in OrderIds /\ order[taker] \in Order /\ order[maker] \in Order
        /\ Filled[taker] = [order[taker] EXCEPT !.filled = @ + FillQty]
        /\ FillQty \in Int
    <3>1. /\ taker \in order_map /\ maker \in order_map /\ maker # taker
          /\ FillQty \in Int
          /\ \A x \in OrderIds :
                Filled[x] = IF x = maker \/ x = taker
                            THEN [order[x] EXCEPT !.filled = @ + FillQty]
                            ELSE order[x]
      BY <2>1, FillFacts DEF PriceInv, EngineInv
    <3> QED
      BY <3>1, BookTypes DEF PriceInv, EngineInv, OrderTable
  <2>3. FillQty > 0
    <3>1. remaining(order[maker]) > 0 /\ remaining(order[taker]) > 0
      BY <2>1, <2>2 DEF PriceInv, QtyInv, CanMatch
    <3>2. remaining(order[maker]) \in Int /\ remaining(order[taker]) \in Int
          /\ order[maker].display \in Int
      BY <2>2 DEF remaining, Order
    <3> QED
      BY <3>1, <3>2 DEF FillQty, MakerAvailable
  <2>4. order[taker].filled \in Int /\ Filled[taker].filled = order[taker].filled + FillQty
    BY <2>2 DEF Order
  <2> QED
    BY <2>1, <2>2, <2>3, <2>4
<1> QED
  BY <1>1, InitPriceInv, NextPriceInv, PTL DEF Spec, FillsArePositive

-----------------------------------------------------------------------------
(* Time priority within a level. *)

\* What TimePriority says of one level, before and after a step.
KeepsPlaces(q, r) ==
    \A a, b \in ToSet(r) : (a # b /\ a \in ToSet(q) /\ ~Ahead(q, b, a)) => Ahead(r, a, b)

\* Orders that stay where they are; one is appended; one is taken out.
LEMMA SamePlaces ==
    ASSUME NEW q \in Seq(OrderIds)
    PROVE  KeepsPlaces(q, q)
<1> SUFFICES ASSUME NEW a \in ToSet(q), NEW b \in ToSet(q), a # b, ~Ahead(q, b, a)
             PROVE  Ahead(q, a, b)
  BY DEF KeepsPlaces
<1>1. DOMAIN q = 1..Len(q) /\ Len(q) \in Nat
  BY LenProperties
<1>2. PICK i \in 1..Len(q), j \in 1..Len(q) : q[i] = a /\ q[j] = b
  BY <1>1 DEF ToSet
<1>3. i \in Int /\ j \in Int /\ i # j /\ ~ j < i
  BY <1>1, <1>2 DEF Ahead
<1> QED
  BY <1>2, <1>3 DEF Ahead

LEMMA PlacesAfterAppend ==
    ASSUME NEW q \in Seq(OrderIds), NEW id \in OrderIds
    PROVE  KeepsPlaces(q, Append(q, id))
<1> DEFINE r == Append(q, id)
           n == Len(q)
<1>1. DOMAIN q = 1..n /\ n \in Nat
  BY LenProperties
<1>2. /\ r \in Seq(OrderIds) /\ Len(r) = n + 1
      /\ \A i \in 1..n : r[i] = q[i]
      /\ r[n + 1] = id
  BY AppendProperties
<1>3. DOMAIN r = 1..(n + 1)
  BY <1>2, LenProperties
<1> HIDE DEF r, n
<1> SUFFICES ASSUME NEW a \in ToSet(r), NEW b \in ToSet(r), a # b, a \in ToSet(q),
                    ~Ahead(q, b, a)
             PROVE  Ahead(r, a, b)
  BY DEF KeepsPlaces, r
<1>4. PICK i \in 1..n : q[i] = a
  BY <1>1 DEF ToSet
<1>5. PICK j \in 1..(n + 1) : r[j] = b
  BY <1>3 DEF ToSet
<1>6. i \in 1..(n + 1) /\ r[i] = a /\ i \in Int /\ j \in Int /\ i # j
  BY <1>1, <1>2, <1>4, <1>5
<1>7. ~ j < i
  <2> SUFFICES ASSUME j < i PROVE FALSE
    OBVIOUS
  <2>1. j \in 1..n /\ q[j] = b
    BY <1>1, <1>2, <1>4, <1>5
  <2> QED
    BY <1>4, <2>1 DEF Ahead, n
<1>8. i < j
  BY <1>6, <1>7
<1> QED
  BY <1>2, <1>5, <1>6, <1>8 DEF Ahead

LEMMA PlacesAfterRemove ==
    ASSUME NEW q \in Seq(OrderIds), NEW k \in 1..Len(q),
           \A j \in 1..Len(q) : q[j] = q[k] => j = k
    PROVE  KeepsPlaces(q, RemoveFirst(q, q[k]))
<1> DEFINE r == RemoveFirst(q, q[k])
           n == Len(q)
<1>1. n \in Nat
  BY LenProperties
<1>2. /\ r \in Seq(OrderIds) /\ Len(r) = n - 1
      /\ \A j \in 1..(n - 1) : r[j] = IF j < k THEN q[j] ELSE q[j + 1]
  BY RemoveFirstUnique
<1>3. DOMAIN r = 1..(n - 1)
  BY <1>2, LenProperties
<1> HIDE DEF r, n
<1> SUFFICES ASSUME NEW a \in ToSet(r), NEW b \in ToSet(r), a # b, ~Ahead(q, b, a)
             PROVE  Ahead(r, a, b)
  BY DEF KeepsPlaces, r
<1>4. PICK i \in 1..(n - 1), j \in 1..(n - 1) : r[i] = a /\ r[j] = b
  BY <1>3 DEF ToSet
<1>5. k \in Int /\ i \in Int /\ j \in Int /\ i # j
  BY <1>1, <1>4 DEF n
<1>6. ~ j < i
  <2> SUFFICES ASSUME j < i PROVE FALSE
    OBVIOUS
  <2> DEFINE f(x) == IF x < k THEN x ELSE x + 1
  <2>1. f(j) < f(i) /\ f(i) \in 1..n /\ f(j) \in 1..n
    BY <1>1, <1>4, <1>5
  <2>2. q[f(j)] = b /\ q[f(i)] = a
    BY <1>2, <1>4, <1>5
  <2> HIDE DEF f
  <2> QED
    BY <2>1, <2>2 DEF Ahead, n
<1>7. i < j
  BY <1>5, <1>6
<1> QED
  BY <1>2, <1>4, <1>7 DEF Ahead

BookKeepsPlaces(q, r) == \A s \in Side, p \in Ticks : KeepsPlaces(q[s][p], r[s][p])

LEMMA SameBook ==
    ASSUME NEW q \in QueueType
    PROVE  BookKeepsPlaces(q, q)
<1> SUFFICES ASSUME NEW s \in Side, NEW p \in Ticks PROVE KeepsPlaces(q[s][p], q[s][p])
  BY DEF BookKeepsPlaces
<1>1. q[s][p] \in Seq(OrderIds)
  BY DEF QueueType
<1> QED
  BY <1>1, SamePlaces

LEMMA LinkKeepsPlaces ==
    ASSUME NEW q \in QueueType, NEW id \in OrderIds, NEW o \in Order
    PROVE  BookKeepsPlaces(q, Link(q, o, id))
<1> SUFFICES ASSUME NEW s \in Side, NEW p \in Ticks
             PROVE  KeepsPlaces(q[s][p], Link(q, o, id)[s][p])
  BY DEF BookKeepsPlaces
<1>1. q[s][p] \in Seq(OrderIds) /\ o.side \in Side /\ o.price \in Ticks
  BY DEF QueueType, Order
<1>2. Link(q, o, id)[s][p] = IF s = o.side /\ p = o.price THEN Append(q[s][p], id) ELSE q[s][p]
  BY <1>1 DEF Link, QueueType
<1>3. KeepsPlaces(q[s][p], Append(q[s][p], id)) /\ KeepsPlaces(q[s][p], q[s][p])
  BY <1>1, SamePlaces, PlacesAfterAppend
<1> QED
  BY <1>2, <1>3

\* The order id of the book is taken out of its level.
LEMMA UnlinkKeepsPlaces ==
    ASSUME NEW q \in QueueType, NEW om, NEW ord, IndicesAgree(q, om, ord), NEW id \in om,
           NEW o \in Order, o.side = ord[id].side, o.price = ord[id].price
    PROVE  /\ BookKeepsPlaces(q, Unlink(q, o, id))
           /\ \A s \in Side, p \in Ticks :
                 (s # o.side \/ p # o.price) => Unlink(q, o, id)[s][p] = q[s][p]
<1> DEFINE r == q[o.side][o.price]
<1>1. r \in Seq(OrderIds) /\ o.side \in Side /\ o.price \in Ticks
  BY DEF QueueType, Order
<1>2. PICK k \in 1..Len(r) : r[k] = id
  BY DEF IndicesAgree, MappedAreQueued
<1>3. \A j \in 1..Len(r) : r[j] = r[k] => j = k
  BY <1>1, <1>2 DEF IndicesAgree, QueuedOnce
<1>4. KeepsPlaces(r, RemoveFirst(r, id))
  <2> HIDE DEF r
  <2>1. KeepsPlaces(r, RemoveFirst(r, r[k]))
    BY <1>1, <1>3, PlacesAfterRemove
  <2> QED
    BY <1>2, <2>1
<1>5. \A s \in Side, p \in Ticks :
         Unlink(q, o, id)[s][p] = IF s = o.side /\ p = o.price THEN RemoveFirst(r, id) ELSE q[s][p]
  BY <1>1 DEF Unlink, QueueType
<1>6. ASSUME NEW s \in Side, NEW p \in Ticks
      PROVE  KeepsPlaces(q[s][p], Unlink(q, o, id)[s][p])
  <2>1. KeepsPlaces(q[s][p], q[s][p])
    BY SameBook DEF BookKeepsPlaces
  <2> QED
    BY <1>4, <1>5, <2>1
<1> QED
  BY <1>5, <1>6 DEF BookKeepsPlaces

LEMMA RemoveKeepsPlaces ==
    ASSUME EngineInv, NEW id \in order_map, NEW ord \in OrderTable, NEW tot,
           ord[id].side = order[id].side, ord[id].price = order[id].price,
           RemoveOrder(id, ord, tot)
    PROVE  BookKeepsPlaces(queue, queue')
<1>1. queue' = Unlink(queue, ord[id], id)
  BY DEF RemoveOrder
<1>2. /\ queue \in QueueType /\ IndicesAgree(queue, order_map, order)
      /\ order_map \in SUBSET OrderIds
  BY DEF EngineInv, BookInv, BookTypeOK, BookConsistent, QueueType
<1>3. ord[id] \in Order
  BY <1>2 DEF OrderTable
<1> DEFINE o == ord[id]
<1>4. o \in Order /\ o.side = order[id].side /\ o.price = order[id].price
  BY <1>3
<1> HIDE DEF o
<1>5. BookKeepsPlaces(queue, Unlink(queue, o, id))
  BY <1>2, <1>4, UnlinkKeepsPlaces
<1> QED
  BY <1>1, <1>5 DEF o

LEMMA RepriceKeepsPlaces ==
    ASSUME EngineInv, NEW id \in order_map, NEW p \in Prices, NEW n \in Int,
           p # order[id].price, Reprice(id, p, n)
    PROVE  BookKeepsPlaces(queue, queue')
<1> DEFINE o == order[id]
           o1 == IF o.type = "ICEBERG" THEN IcebergOrder(o.side, p, n, o.display)
                                       ELSE LimitOrder(o.side, p, n)
           q1 == Unlink(queue, o, id)
<1>1. queue' = Link(q1, o1, id)
  BY DEF Reprice
<1>2. /\ queue \in QueueType /\ IndicesAgree(queue, order_map, order)
      /\ order_map \in SUBSET OrderIds /\ order \in OrderTable
  BY DEF EngineInv, BookInv, BookTypeOK, BookConsistent, QueueType, OrderTable
<1>3. o \in Order /\ id \in OrderIds
  BY <1>2 DEF OrderTable
<1>4. o1 \in Order /\ o1.side = o.side /\ o1.price = p
  BY <1>3 DEF IcebergOrder, LimitOrder, Order, Ticks, OrderType
<1>5. q1 \in QueueType
  <2>1. \A x \in order_map \ {id} :
           order[x].side = order[x].side /\ order[x].price = order[x].price
    OBVIOUS
  <2> QED
    BY <1>2, <1>3, <2>1, UnlinkAgrees
<1>6. /\ BookKeepsPlaces(queue, q1)
      /\ \A s \in Side, t \in Ticks : (s # o.side \/ t # o.price) => q1[s][t] = queue[s][t]
  BY <1>2, <1>3, UnlinkKeepsPlaces
<1> HIDE DEF q1, o1
<1>7. BookKeepsPlaces(q1, queue')
  BY <1>1, <1>3, <1>4, <1>5, LinkKeepsPlaces
<1>8. \A s \in Side, t \in Ticks : (s # o.side \/ t # p) => queue'[s][t] = q1[s][t]
  BY <1>1, <1>4, <1>5 DEF Link, QueueType
\* The level it leaves is not the one it joins.
<1>9. ASSUME NEW s \in Side, NEW t \in Ticks
      PROVE  KeepsPlaces(queue[s][t], queue'[s][t])
  <2>1. CASE s = o.side /\ t = p
    <3>1. q1[s][t] = queue[s][t]
      BY <1>6, <2>1
    <3> QED
      BY <1>7, <3>1 DEF BookKeepsPlaces
  <2>2. CASE ~(s = o.side /\ t = p)
    <3>1. queue'[s][t] = q1[s][t]
      BY <1>8, <2>2
    <3> QED
      BY <1>6, <3>1 DEF BookKeepsPlaces
  <2> QED
    BY <2>1, <2>2
<1> QED
  BY <1>9 DEF BookKeepsPlaces

\* No step of the engine moves an order ahead of one that was there before it.
LEMMA NextKeepsPlaces == PriceInv /\ Next => BookKeepsPlaces(queue, queue')
<1> SUFFICES ASSUME PriceInv, Next PROVE BookKeepsPlaces(queue, queue')
  OBVIOUS
<1>1. /\ EngineInv /\ QtyInv /\ queue \in QueueType /\ order \in OrderTable
      /\ order_map \in SUBSET OrderIds
  BY DEF PriceInv, EngineInv, BookInv, BookTypeOK, QueueType, OrderTable
<1>2. ASSUME queue' = queue PROVE BookKeepsPlaces(queue, queue')
  BY <1>1, <1>2, SameBook
<1>3. CASE NewOrderStep
  <2>1. PICK id \in OrderIds, s \in Side, ty \in ClientOrderTypes, p \in ClientPrices,
             n \in ClientQuantities : \E d \in ClientDisplays(ty) :
                 ProcessNewOrder(id, s, ty, p, n, d)
    BY <1>3 DEF NewOrderStep
  <2>2. PICK d \in ClientDisplays(ty) : ProcessNewOrder(id, s, ty, p, n, d)
    BY <2>1
  <2>3. CASE RefuseNewOrder(id, ty, p, n, d)
    BY <1>2, <2>3 DEF RefuseNewOrder
  <2>4. CASE AcceptNewOrder(id, s, ty, p, n, d)
    <3> DEFINE o == NewOrder(s, ty, p, n, d)
    <3>1. o \in Order
      BY <2>4, NewOrderType, DisplayType DEF AcceptNewOrder
    <3>2. queue' = Link(queue, o, id)
      BY <2>4 DEF AcceptNewOrder, AddOrder
    <3> HIDE DEF o
    <3> QED
      BY <1>1, <3>1, <3>2, LinkKeepsPlaces
  <2> QED
    BY <2>2, <2>3, <2>4 DEF ProcessNewOrder
<1>4. CASE CancelStep
  <2>1. PICK id \in OrderIds : ProcessCancel(id)
    BY <1>4 DEF CancelStep
  <2>2. CASE id \in order_map
    BY <1>1, <2>1, <2>2, RemoveKeepsPlaces DEF ProcessCancel
  <2>3. CASE id \notin order_map
    BY <1>2, <2>1, <2>3 DEF ProcessCancel, bookVars
  <2> QED
    BY <2>2, <2>3
<1>5. CASE ModifyStep
  <2>1. PICK id \in OrderIds, p \in Prices, n \in 1..MaxQty :
             ProcessModify(id, p, n) \/ RefuseModify(id, n)
    BY <1>5 DEF ModifyStep
  <2>2. CASE ProcessModify(id, p, n) /\ p # order[id].price
    <3>1. id \in order_map /\ n \in Int /\ Reprice(id, p, n)
      BY <2>2, MaxQtyAssumption DEF ProcessModify, ModifyAccepted
    <3> QED
      BY <1>1, <2>2, <3>1, RepriceKeepsPlaces
  <2>3. CASE ProcessModify(id, p, n) /\ p = order[id].price
    BY <1>2, <2>3 DEF ProcessModify, ModifyQtyDown, bookVars
  <2>4. CASE RefuseModify(id, n)
    BY <1>2, <2>4 DEF RefuseModify, vars
  <2> QED
    BY <2>1, <2>2, <2>3, <2>4
<1>6. CASE MatchStep
  <2>1. pc = "match" /\ CanMatch
    BY <1>6 DEF MatchStep, FillAndRemoveMaker, FillAndKeepMaker
  <2>2. /\ maker \in order_map /\ Filled \in OrderTable /\ FillQty \in Int
        /\ \A x \in OrderIds :
              Filled[x] = IF x = maker \/ x = taker
                          THEN [order[x] EXCEPT !.filled = @ + FillQty]
                          ELSE order[x]
    BY <1>1, <2>1, FillFacts DEF EngineInv
  <2>3. CASE FillAndRemoveMaker
    <3>1. order[maker] \in Order /\ maker \in OrderIds
      BY <1>1, <2>2 DEF OrderTable
    <3>2. Filled[maker].side = order[maker].side /\ Filled[maker].price = order[maker].price
      BY <2>2, <3>1 DEF Order
    <3>3. RemoveOrder(maker, Filled, FilledTotal)
      BY <2>3 DEF FillAndRemoveMaker
    <3> QED
      BY <1>1, <2>2, <3>2, <3>3, RemoveKeepsPlaces
  <2>4. CASE FillAndKeepMaker
    <3>1. ~MustReplenish(Filled[maker])
      BY <1>1, <2>1, FillIsBounded
    <3> QED
      BY <1>2, <2>4, <3>1 DEF FillAndKeepMaker
  <2> QED
    BY <1>6, <2>3, <2>4 DEF MatchStep
<1>7. CASE FinishNewOrder
  <2>1. CASE TakerLeaves
    <3>1. taker \in order_map
      BY <1>1, <1>7 DEF EngineInv, TypeOK, FinishNewOrder
    <3> QED
      BY <1>1, <1>7, <2>1, <3>1, RemoveKeepsPlaces DEF FinishNewOrder
  <2>2. CASE ~TakerLeaves
    BY <1>2, <1>7, <2>2 DEF FinishNewOrder, bookVars
  <2> QED
    BY <2>1, <2>2
<1> QED
  BY <1>3, <1>4, <1>5, <1>6, <1>7 DEF Next

\* Time priority for any mix of clients: while two orders stay in a level neither
\* passes the other, and who joins a level joins it at the back (TimePriority).
\* It rests on NeverReplenishes: a replenished iceberg would go to the back.
THEOREM PlacesAreKept == Spec => TimePriority
<1>1. PriceInv /\ [Next]_vars =>
        [\A s \in Side, p \in Ticks : \A a, b \in ToSet(queue'[s][p]) :
            (/\ a # b
             /\ a \in ToSet(queue[s][p])
             /\ ~Ahead(queue[s][p], b, a))
            => Ahead(queue'[s][p], a, b)]_vars
  BY NextKeepsPlaces DEF BookKeepsPlaces, KeepsPlaces
<1> QED
  BY <1>1, InitPriceInv, NextPriceInv, PTL DEF Spec, TimePriority
=============================================================================
