----------------------------- MODULE OrderBook -----------------------------
(***************************************************************************)
(* The limit order book of the C++ engine: engine/src/order_book.cpp with  *)
(* the price levels of engine/include/price_level.hpp and the order record *)
(* of engine/include/order.hpp.                                            *)
(*                                                                         *)
(* The module holds the book's state and its operations.  The operations   *)
(* are called by MatchingEngine, which turns each engine command into one  *)
(* action or, for the matching loop, into one action per iteration.        *)
(*                                                                         *)
(* Abstractions.  An Order* is the order's id: order_map_ maps an id to at *)
(* most one object, and the pool (ObjectPool) is the count of its free     *)
(* slots.  The intrusive list of a PriceLevel is the sequence of the ids   *)
(* in it, and a price that has no entry in bids_ or asks_ has the empty    *)
(* sequence.  Timestamps are left out: no decision of the code reads them. *)
(***************************************************************************)
EXTENDS Integers, Sequences, FiniteSets, SequencesExt

CONSTANTS
    OrderIds,      \* ids a client may use
    MaxPrice,      \* client prices are 1 .. MaxPrice ticks
    PoolCapacity   \* template parameter of ObjectPool

ASSUME MaxPriceAssumption == MaxPrice \in Nat \ {0}
ASSUME PoolAssumption == PoolCapacity \in Nat \ {0}

VARIABLES
    order_map,  \* the ids that order_map_ holds
    order,      \* the fields of each id's Order object
    queue,      \* bids_ and asks_: side -> price -> ids in time priority
    total,      \* total_quantity_ of each level
    best,       \* best_bid_ and best_ask_
    free        \* free slots of the pool

bookVars == <<order_map, order, queue, total, best, free>>

Side == {"BID", "ASK"}

Opposite(s) == IF s = "BID" THEN "ASK" ELSE "BID"

OrderType == {"LIMIT", "MARKET", "ICEBERG"}

(***************************************************************************)
(* Prices.  INVALID_PRICE is numeric_limits<int64>::min(), below every     *)
(* price, and it is also the price a market sell is booked at; a market    *)
(* buy is booked at numeric_limits<int64>::max(), above every price.       *)
(***************************************************************************)
INVALID_PRICE == -1

Prices == 1..MaxPrice

MarketPrice(s) == IF s = "BID" THEN MaxPrice + 1 ELSE INVALID_PRICE

Ticks == Prices \cup {INVALID_PRICE, MaxPrice + 1}

Order == [side: Side, type: OrderType, price: Ticks, quantity: Int,
          filled: Int, display: Int, hidden: Int]

BlankOrder == [side |-> "BID", type |-> "LIMIT", price |-> INVALID_PRICE,
               quantity |-> 0, filled |-> 0, display |-> 0, hidden |-> 0]

remaining(o) == o.quantity - o.filled

visible_remaining(o) ==
    IF o.type = "ICEBERG" /\ o.display > 0 /\ o.display < remaining(o)
    THEN o.display
    ELSE remaining(o)

is_filled(o) == o.filled >= o.quantity

has_hidden_qty(o) == o.type = "ICEBERG" /\ o.hidden > 0

(***************************************************************************)
(* Price levels.  Link and Unlink are PriceLevel::push_back and remove on  *)
(* the book q with level totals t.  A level that becomes empty is erased   *)
(* from the side's map, so that its total starts again from 0.             *)
(***************************************************************************)
\* Seeded fault: the order jumps the queue.
LinkAtFront(q, o, id) == [q EXCEPT ![o.side][o.price] = <<id>> \o @]

Link(q, o, id) == [q EXCEPT ![o.side][o.price] = Append(@, id)]

Unlink(q, o, id) == [q EXCEPT ![o.side][o.price] = RemoveFirst(@, id)]

LinkTotal(t, o, shown) == [t EXCEPT ![o.side][o.price] = @ + shown]

UnlinkTotal(t, q, o) ==
    [t EXCEPT ![o.side][o.price] = IF Len(q[o.side][o.price]) = 1
                                   THEN 0
                                   ELSE @ - remaining(o)]

levels(q, s) == {p \in Ticks : q[s][p] # <<>>}

(***************************************************************************)
(* The cached best prices.  Adding an order compares its price with the    *)
(* cached one, INVALID_PRICE standing for an empty side.                   *)
(***************************************************************************)
BestAfterAdd(b, s, p) ==
    IF \/ b[s] = INVALID_PRICE
       \/ s = "BID" /\ p > b[s]
       \/ s = "ASK" /\ p < b[s]
    THEN [b EXCEPT ![s] = p]
    ELSE b

(***************************************************************************)
(* update_best_bid and update_best_ask rescan the side's hash map in no    *)
(* particular order.  A level at INVALID_PRICE (a market sell left in      *)
(* asks_) restarts the ask scan: what is found is the least level visited  *)
(* after it, any level of the side, or INVALID_PRICE if it comes last.     *)
(***************************************************************************)
update_best(s, ls, b) ==
    \/ ls = {} /\ b = INVALID_PRICE
    \/ s = "BID" /\ b \in ls /\ \A p \in ls : p <= b
    \/ s = "ASK" /\ b \in ls /\ INVALID_PRICE \notin ls /\ \A p \in ls : b <= p
    \/ s = "ASK" /\ b \in ls /\ INVALID_PRICE \in ls

\* Seeded fault: the cache is not refreshed when its level goes.
BestKept(b, q1, o) == {b}

\* The caches that may result: a level that stays, or that was not the best
\* one, leaves the cache alone.
BestAfterRemove(b, q1, o) ==
    IF q1[o.side][o.price] = <<>> /\ o.price = b[o.side]
    THEN {[b EXCEPT ![o.side] = p] :
             p \in {p \in Ticks : update_best(o.side, levels(q1, o.side), p)}}
    ELSE {b}

Bests == [Side -> Ticks]

(***************************************************************************)
(* Operations of OrderBook.  add_order and add_iceberg_order return        *)
(* nullptr on a duplicate id and on an exhausted pool.                     *)
(***************************************************************************)
CanAdd(id) == id \notin order_map /\ free > 0

LimitOrder(s, p, n) ==
    [side |-> s, type |-> "LIMIT", price |-> p, quantity |-> n, filled |-> 0,
     display |-> 0, hidden |-> 0]

\* display may exceed the quantity: nothing checks it, hidden is negative then.
IcebergOrder(s, p, n, d) ==
    [side |-> s, type |-> "ICEBERG", price |-> p, quantity |-> n, filled |-> 0,
     display |-> d, hidden |-> n - d]

\* What push_back adds to the level's total: the display slice of an iceberg.
Shown(o) == IF o.type = "ICEBERG" THEN o.display ELSE o.quantity

AddOrder(id, o) ==
    /\ order_map' = order_map \cup {id}
    /\ order' = [order EXCEPT ![id] = o]
    /\ queue' = Link(queue, o, id)
    /\ total' = LinkTotal(total, o, Shown(o))
    /\ best' = BestAfterAdd(best, o.side, o.price)
    /\ free' = free - 1

\* Seeded faults: the id stays in order_map_; the slot is not given back; the
\* slot is given back twice.
RemoveKeepsId(id, ord, tot) ==
    LET o == ord[id] IN
    /\ order_map' = order_map
    /\ order' = ord
    /\ queue' = Unlink(queue, o, id)
    /\ total' = UnlinkTotal(tot, queue, o)
    /\ best' \in BestAfterRemove(best, queue', o)
    /\ free' = free + 1

RemoveWithSlots(id, ord, tot, slots) ==
    LET o == ord[id] IN
    /\ order_map' = order_map \ {id}
    /\ order' = [ord EXCEPT ![id] = BlankOrder]
    /\ queue' = Unlink(queue, o, id)
    /\ total' = UnlinkTotal(tot, queue, o)
    /\ best' \in BestAfterRemove(best, queue', o)
    /\ free' = free + slots

RemoveLeaksSlot(id, ord, tot) == RemoveWithSlots(id, ord, tot, 0)

RemoveFreesTwice(id, ord, tot) == RemoveWithSlots(id, ord, tot, 2)

\* remove_order_from_level, then erase from order_map_ and give the slot back;
\* ord and tot are the orders and totals after the fills of the same step.
RemoveOrder(id, ord, tot) ==
    LET o == ord[id] IN
    /\ order_map' = order_map \ {id}
    /\ order' = [ord EXCEPT ![id] = BlankOrder]
    /\ queue' = Unlink(queue, o, id)
    /\ total' = UnlinkTotal(tot, queue, o)
    /\ best' \in BestAfterRemove(best, queue', o)
    /\ free' = free + 1

\* Order fields after a reduction of what is left to n (modify_qty_down).
QtyDown(o, n) == [o EXCEPT !.quantity = o.filled + n]

ModifyQtyDown(id, n) ==
    LET o == order[id] IN
    /\ order' = [order EXCEPT ![id] = QtyDown(o, n)]
    /\ total' = [total EXCEPT ![o.side][o.price] = @ - (remaining(o) - n)]
    /\ UNCHANGED <<order_map, queue, best, free>>

\* A price change: remove, then add again at the back of the new level.  The
\* slot just freed is there for the add, whose result nobody looks at.
Reprice(id, p, n) ==
    LET o  == order[id]
        o1 == IF o.type = "ICEBERG" THEN IcebergOrder(o.side, p, n, o.display)
                                    ELSE LimitOrder(o.side, p, n)
        q1 == Unlink(queue, o, id)
    IN  /\ order' = [order EXCEPT ![id] = o1]
        /\ queue' = Link(q1, o1, id)
        /\ total' = LinkTotal(UnlinkTotal(total, queue, o), o1, Shown(o1))
        /\ \E b1 \in BestAfterRemove(best, q1, o) :
              best' = BestAfterAdd(b1, o.side, p)
        /\ UNCHANGED <<order_map, free>>

(***************************************************************************)
(* replenish_iceberg: a new display slice at the back of the same level.   *)
(***************************************************************************)
Slice(o) == IF o.display < o.hidden THEN o.display ELSE o.hidden

Replenished(o) ==
    [o EXCEPT !.hidden = @ - Slice(o),
              !.filled = o.quantity - o.hidden]

BookInit ==
    /\ order_map = {}
    /\ order = [id \in OrderIds |-> BlankOrder]
    /\ queue = [s \in Side |-> [p \in Ticks |-> <<>>]]
    /\ total = [s \in Side |-> [p \in Ticks |-> 0]]
    /\ best = [s \in Side |-> INVALID_PRICE]
    /\ free = PoolCapacity

(***************************************************************************)
(* The indices of a book agree: the ids om of the order map are those in   *)
(* the queues q, each once, at the side and price its order in ord has.    *)
(***************************************************************************)
QueuedAreMapped(q, om, ord) ==
    \A s \in Side, p \in Ticks : \A i \in 1..Len(q[s][p]) :
        /\ q[s][p][i] \in om
        /\ ord[q[s][p][i]].side = s
        /\ ord[q[s][p][i]].price = p

QueuedOnce(q) ==
    \A s \in Side, p \in Ticks : \A i, j \in 1..Len(q[s][p]) :
        q[s][p][i] = q[s][p][j] => i = j

MappedAreQueued(q, om, ord) ==
    \A id \in om : \E i \in 1..Len(q[ord[id].side][ord[id].price]) :
        q[ord[id].side][ord[id].price][i] = id

IndicesAgree(q, om, ord) ==
    /\ QueuedAreMapped(q, om, ord)
    /\ QueuedOnce(q)
    /\ MappedAreQueued(q, om, ord)

BookTypeOK ==
    /\ order_map \in SUBSET OrderIds
    /\ order \in [OrderIds -> Order]
    /\ queue \in [Side -> [Ticks -> Seq(OrderIds)]]
    /\ total \in [Side -> [Ticks -> Int]]
    /\ best \in Bests
    /\ free \in 0..PoolCapacity
=============================================================================
