--------------------------- MODULE MatchingEngine ---------------------------
(***************************************************************************)
(* The matching engine, engine/src/matching_engine.cpp, on the book of     *)
(* OrderBook.  One engine thread takes commands one at a time; a command   *)
(* is handled to its end before the next one is taken, so that the only    *)
(* actions enabled while pc = "match" are the iterations of the loop of    *)
(* match_order and what process_new_order does after it.                   *)
(*                                                                         *)
(* A command that fails (a duplicate id, an exhausted pool, an unknown id, *)
(* a refused modification) leaves the book as it is.                       *)
(***************************************************************************)
EXTENDS OrderBook

CONSTANTS
    MaxQty,           \* client quantities are 1 .. MaxQty, and the refused 0
    ClientOrderTypes, \* order types the clients send
    RepriceAllowed,   \* whether the clients change prices with MODIFY_ORDER
    MaxCommands,      \* bound on total_orders_ + total_modifies_
    NoOrder           \* no incoming order is being matched

ASSUME MaxQtyAssumption == MaxQty \in Nat \ {0}
ASSUME ClientAssumption == /\ ClientOrderTypes \in SUBSET OrderType
                           /\ RepriceAllowed \in BOOLEAN
                           /\ MaxCommands \in Nat
ASSUME NoOrderAssumption == NoOrder \notin OrderIds

VARIABLES
    pc,           \* "idle" between commands, "match" in process_new_order
    taker,        \* the incoming order of match_order
    commands      \* total_orders_ + total_modifies_

vars == <<order_map, order, queue, total, best, free, pc, taker, commands>>

EngineInit ==
    /\ BookInit
    /\ pc = "idle"
    /\ taker = NoOrder
    /\ commands = 0

-----------------------------------------------------------------------------
(***************************************************************************)
(* process_new_order: validation, the add, and the test that decides       *)
(* whether match_order is called.                                          *)
(***************************************************************************)
ValidNewOrder(ty, p, n, d) ==
    /\ n > 0
    /\ ty = "LIMIT" => p > 0
    /\ ty = "ICEBERG" => p > 0 /\ d > 0

NewOrder(s, ty, p, n, d) ==
    CASE ty = "LIMIT"   -> LimitOrder(s, p, n)
      [] ty = "ICEBERG" -> IcebergOrder(s, p, n, d)
      [] ty = "MARKET"  -> [LimitOrder(s, MarketPrice(s), n)
                              EXCEPT !.type = "MARKET"]

\* Seeded fault: equal prices do not trade.
CrossesStrictly(s, p) ==
    LET b == best[Opposite(s)] IN
    /\ b # INVALID_PRICE
    /\ IF s = "BID" THEN p > b ELSE p < b

\* A limit order is aggressive when its price reaches the opposite best.
Crosses(s, p) ==
    LET b == best[Opposite(s)] IN
    /\ b # INVALID_PRICE
    /\ IF s = "BID" THEN p >= b ELSE p <= b

RefuseNewOrder(id, ty, p, n, d) ==
    /\ ~ValidNewOrder(ty, p, n, d) \/ ~CanAdd(id)
    /\ UNCHANGED <<order_map, order, queue, total, best, free, pc, taker>>

AcceptNewOrder(id, s, ty, p, n, d) ==
    /\ ValidNewOrder(ty, p, n, d)
    /\ CanAdd(id)
    /\ AddOrder(id, NewOrder(s, ty, p, n, d))
    /\ IF ty = "MARKET" \/ Crosses(s, p)
       THEN pc' = "match" /\ taker' = id
       ELSE UNCHANGED <<pc, taker>>

ProcessNewOrder(id, s, ty, p, n, d) ==
    /\ pc = "idle"
    /\ commands < MaxCommands
    /\ commands' = commands + 1
    /\ \/ RefuseNewOrder(id, ty, p, n, d)
       \/ AcceptNewOrder(id, s, ty, p, n, d)

-----------------------------------------------------------------------------
(***************************************************************************)
(* match_order: one action per iteration of its loop.                      *)
(***************************************************************************)
OppositeBest == best[Opposite(order[taker].side)]

MakerLevel == queue[Opposite(order[taker].side)][OppositeBest]

\* The conditions of the loop: something left to fill, an opposite best price,
\* a price that reaches it (a market order does not ask) and an order there.
PriceCompatible ==
    \/ order[taker].type = "MARKET"
    \/ IF order[taker].side = "BID" THEN order[taker].price >= OppositeBest
                                    ELSE order[taker].price <= OppositeBest

\* Seeded fault: the loop does not stop at a filled taker.
CanMatchFilled ==
    /\ remaining(order[taker]) >= 0
    /\ OppositeBest # INVALID_PRICE
    /\ PriceCompatible
    /\ MakerLevel # <<>>

CanMatch ==
    /\ remaining(order[taker]) > 0
    /\ OppositeBest # INVALID_PRICE
    /\ PriceCompatible
    /\ MakerLevel # <<>>

\* Seeded fault: the newest order of the level trades first.
NewestMaker == Last(MakerLevel)

maker == Head(MakerLevel)

MakerAvailable ==
    IF /\ order[maker].type = "ICEBERG"
       /\ order[maker].display > 0
       /\ order[maker].display < remaining(order[maker])
    THEN order[maker].display
    ELSE remaining(order[maker])

\* Seeded fault: the taker's side of the minimum is forgotten.
FillAllAvailable == MakerAvailable

FillQty == IF remaining(order[taker]) < MakerAvailable
           THEN remaining(order[taker])
           ELSE MakerAvailable

\* execute_fill: both orders, and both orders' levels.
Filled == [order EXCEPT ![maker].filled = @ + FillQty,
                        ![taker].filled = @ + FillQty]

\* Seeded fault: the taker's own level is not reduced.
FilledTotalOfMaker ==
    LET m == order[maker]
    IN  [total EXCEPT ![m.side][m.price] = @ - FillQty]

FilledTotal ==
    LET m == order[maker]
        t == order[taker]
    IN  [total EXCEPT ![m.side][m.price] = @ - FillQty,
                      ![t.side][t.price] = @ - FillQty]

\* When a partly filled iceberg gets its next slice.
MustReplenish(o) ==
    /\ o.type = "ICEBERG"
    /\ o.display - (o.filled % o.display) <= 0
    /\ has_hidden_qty(o)

FillAndRemoveMaker ==
    /\ pc = "match"
    /\ CanMatch
    /\ is_filled(Filled[maker])
    /\ RemoveOrder(maker, Filled, FilledTotal)
    /\ UNCHANGED <<pc, taker, commands>>

FillAndKeepMaker ==
    LET m == Filled[maker] IN
    /\ pc = "match"
    /\ CanMatch
    /\ ~is_filled(m)
    /\ IF MustReplenish(m)
       THEN /\ order' = [Filled EXCEPT ![maker] = Replenished(m)]
            /\ queue' = Link(Unlink(queue, m, maker), m, maker)
            /\ total' = LinkTotal(FilledTotal, m, Slice(m) - remaining(m))
       ELSE /\ order' = Filled
            /\ total' = FilledTotal
            /\ UNCHANGED queue
    /\ UNCHANGED <<order_map, best, free, pc, taker, commands>>

\* Seeded fault: a filled limit order is left in the book.
TakerStays ==
    order[taker].type = "MARKET" /\ remaining(order[taker]) > 0

\* The end of process_new_order.  A market order is taken out of the book if
\* something of it is left, a limit or iceberg order if nothing is.
TakerLeaves ==
    IF order[taker].type = "MARKET" THEN remaining(order[taker]) > 0
                                    ELSE remaining(order[taker]) <= 0

FinishNewOrder ==
    /\ pc = "match"
    /\ ~CanMatch
    /\ IF TakerLeaves THEN RemoveOrder(taker, order, total)
                      ELSE UNCHANGED bookVars
    /\ pc' = "idle"
    /\ taker' = NoOrder
    /\ UNCHANGED commands

-----------------------------------------------------------------------------
ProcessCancel(id) ==
    /\ pc = "idle"
    /\ IF id \in order_map THEN RemoveOrder(id, order, total)
                           ELSE UNCHANGED bookVars
    /\ UNCHANGED <<pc, taker, commands>>

\* A modification is refused when it asks for nothing or for more than is left.
ModifyAccepted(id, n) ==
    /\ id \in order_map
    /\ n > 0
    /\ n <= remaining(order[id])

ProcessModify(id, p, n) ==
    /\ pc = "idle"
    /\ ModifyAccepted(id, n)
    /\ p # order[id].price => RepriceAllowed
    /\ commands < MaxCommands
    /\ commands' = commands + 1
    /\ IF p # order[id].price THEN Reprice(id, p, n)
       ELSE IF n < remaining(order[id]) THEN ModifyQtyDown(id, n)
       ELSE UNCHANGED bookVars
    /\ UNCHANGED <<pc, taker>>

RefuseModify(id, n) ==
    /\ pc = "idle"
    /\ ~ModifyAccepted(id, n)
    /\ UNCHANGED vars

-----------------------------------------------------------------------------
ClientPrices == 0..MaxPrice
ClientQuantities == 0..MaxQty

\* Display sizes matter to iceberg orders only.
ClientDisplays(ty) == IF ty = "ICEBERG" THEN ClientQuantities ELSE {0}

NewOrderStep ==
    \E id \in OrderIds, s \in Side, ty \in ClientOrderTypes,
       p \in ClientPrices, n \in ClientQuantities :
        \E d \in ClientDisplays(ty) : ProcessNewOrder(id, s, ty, p, n, d)

CancelStep == \E id \in OrderIds : ProcessCancel(id)

ModifyStep == \E id \in OrderIds, p \in Prices, n \in 1..MaxQty :
                  ProcessModify(id, p, n) \/ RefuseModify(id, n)

MatchStep == FillAndRemoveMaker \/ FillAndKeepMaker

Next == NewOrderStep \/ CancelStep \/ ModifyStep \/ MatchStep \/ FinishNewOrder

Spec == EngineInit /\ [][Next]_vars

\* The engine thread runs a command it has begun to its end.
FairSpec == Spec /\ WF_vars(MatchStep \/ FinishNewOrder)

-----------------------------------------------------------------------------
(***************************************************************************)
(* Properties.                                                             *)
(***************************************************************************)

\* Type invariant; a taker is being matched exactly while pc = "match", and it
\* is in the book (process_new_order adds it before it matches it).
TypeOK ==
    /\ BookTypeOK
    /\ pc \in {"idle", "match"}
    /\ taker \in OrderIds \cup {NoOrder}
    /\ commands \in 0..MaxCommands
    /\ pc = "match" <=> taker # NoOrder
    /\ taker # NoOrder => taker \in order_map

\* The book's three indices agree: an id is in order_map_ exactly if it is in a
\* queue, in the queue of its own order's side and price, and only once.  What
\* cancel_order and release_order leave behind would be a dangling Order*.
BookConsistent == IndicesAgree(queue, order_map, order)

\* No pool slot leaks and none is given back twice: the slots in use are those
\* of the orders in order_map_.
PoolAccounting == free + Cardinality(order_map) = PoolCapacity

\* best_bid_ is the highest non-empty bid level, INVALID_PRICE if there is none,
\* whatever sequence of adds, fills, cancels and price changes led here.
BestBidExact ==
    IF levels(queue, "BID") = {}
    THEN best["BID"] = INVALID_PRICE
    ELSE /\ best["BID"] \in levels(queue, "BID")
         /\ \A p \in levels(queue, "BID") : p <= best["BID"]

\* The same of best_ask_ and the lowest ask level ("Returns INVALID_PRICE if
\* side is empty", order_book.hpp).
BestAskExact ==
    IF levels(queue, "ASK") = {}
    THEN best["ASK"] = INVALID_PRICE
    ELSE /\ best["ASK"] \in levels(queue, "ASK") \ {INVALID_PRICE}
         /\ \A p \in levels(queue, "ASK") : best["ASK"] <= p

\* Both cached best prices are those a walk of the levels would find.
BestExact == BestBidExact /\ BestAskExact

Crossed(b, a) == order[b].side = "BID" /\ order[a].side = "ASK"
                 /\ order[b].price >= order[a].price

\* Between two commands no resting bid reaches a resting ask: every order that
\* crosses the spread is matched at once (docs/matching_engine.md).
NotCrossed == pc = "idle" => \A b, a \in order_map : ~Crossed(b, a)

\* No order is filled beyond its quantity, whichever side of the fill it was on.
NeverOverfilled ==
    \A id \in order_map : 0 <= order[id].filled /\ order[id].filled <= order[id].quantity

\* Between two commands everything in the book can still trade: an order that is
\* filled has left the book, on the maker's side and on the taker's.
RestingHasQuantity ==
    pc = "idle" => \A id \in order_map : remaining(order[id]) > 0

\* total_quantity_, maintained by increments in six places, is what a walk of
\* the level would find: the sum of what is left of its orders.
DepthExact ==
    \A s \in Side, p \in Ticks :
        total[s][p] = MapThenSumSet(LAMBDA id : remaining(order[id]),
                                    ToSet(queue[s][p]))

Ahead(q, a, b) == \E i, j \in 1..Len(q) : i < j /\ q[i] = a /\ q[j] = b

\* While two orders stay in a level, neither passes the other, and an order that
\* joins a level joins it behind those already there.  In particular an order
\* whose quantity is reduced at the same price keeps its place, and so does the
\* maker of a fill in part, an iceberg too: the documents send it to the back
\* with each new slice (see ReplenishedGoesBack), the code never does.
TimePriority ==
    [][\A s \in Side, p \in Ticks : \A a, b \in ToSet(queue'[s][p]) :
          (/\ a # b
           /\ a \in ToSet(queue[s][p])
           /\ ~Ahead(queue[s][p], b, a))
          => Ahead(queue'[s][p], a, b)]_vars

Better(s, p1, p2) == IF s = "BID" THEN p1 > p2 ELSE p1 < p2

\* The maker of every fill is the oldest order of its level, no level of its
\* side has a better price, and its price is within the taker's limit.
PriceTimePriority ==
    [][\A m \in order_map :
          (pc = "match" /\ m # taker /\ order'[m] # order[m])
          => LET o == order[m] IN
             /\ o.side # order[taker].side
             /\ Head(queue[o.side][o.price]) = m
             /\ \A p \in levels(queue, o.side) : ~Better(o.side, p, o.price)
             /\ ~Better(o.side, order[taker].price, o.price)]_vars

\* Every fill moves at least one unit (the assertion of reduce_quantity).
FillsArePositive ==
    [][pc = "match" /\ pc' = "match" =>
          order'[taker].filled > order[taker].filled]_vars

\* The loop of match_order comes to an end.
MatchingEnds == pc = "match" ~> pc = "idle"

-----------------------------------------------------------------------------
(***************************************************************************)
(* What comments and documents say of the code and the code does not do.   *)
(***************************************************************************)

\* "Returns INVALID_PRICE if side is empty" (order_book.hpp): a best ask of
\* INVALID_PRICE means that there is no ask to buy from.
InvalidAskMeansNoAsks ==
    (pc = "idle" /\ best["ASK"] = INVALID_PRICE) =>
        \A id \in order_map : order[id].side = "BID" \/ remaining(order[id]) = 0

\* "When display portion is fully consumed, a fresh slice is auto-replenished from
\* hidden.  Replenishment sends the order to the back of the queue"
\* (docs/matching_engine.md; matching_engine.hpp, order_book.hpp): an iceberg that
\* a fill leaves with no unit of its slice is the last of its level afterwards.
ReplenishedGoesBack ==
    [][\A m \in order_map \cap order_map' :
          LET o == order[m] IN
          (/\ pc = "match" /\ m # taker /\ o.type = "ICEBERG"
           /\ order'[m].filled > o.filled
           /\ order'[m].filled % o.display = 0)
          => Last(queue'[o.side][o.price]) = m]_vars

\* "Crossing orders match immediately" (docs/matching_engine.md): between two
\* commands the book is not crossed, price changes or not.
CrossingOrdersMatch == NotCrossed
=============================================================================
