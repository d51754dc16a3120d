-------------------------- MODULE TradingSimulator --------------------------
(***************************************************************************)
(* The Python process: the event loop of simulation/simulator.py, the      *)
(* agents of simulation/agents, the client of market/tcp_client.py and the *)
(* incoming queue of market/ws_bridge.py, with the engine at the far end.  *)
(*                                                                         *)
(* There is at most one agent of each kind.  Prices, probabilities and     *)
(* signals are choices, and every order of an agent is for one unit; the   *)
(* whale's is for many.                                                    *)
(*                                                                         *)
(* Time is left to EventOrder, which says in which order events can be     *)
(* popped; Simulation shows that the heap and the latencies implement it.  *)
(*                                                                         *)
(* Network.  Messages arrive whole and in order, but a message may be lost *)
(* at either end: sendall raises (the socket does not block) and nothing   *)
(* is sent, or the server reads it and cannot hand it on.  Wire has the    *)
(* bytes, and what becomes of the connection when a part of the message    *)
(* has been sent.                                                          *)
(***************************************************************************)
EXTENDS EventOrder, Sequences, FiniteSets, SequencesExt

CONSTANTS
    Levels,        \* num_levels of the market maker
    MaxInventory,  \* its inventory limit
    MaxPosition,   \* max_position of ARB
    IdBlock,       \* ids per agent (1,000,000 in the code)
    PoolCapacity,  \* orders the engine has room for
    RecvMax,       \* snapshots a recv of 4096 bytes has room for (15)
    MaxClicks,     \* bound on the messages from the browser
    MaxFailures    \* bound on the messages that are lost

ASSUME SimulatorAssumption ==
    /\ {Levels, MaxClicks, MaxFailures} \subseteq Nat
    /\ {MaxInventory, MaxPosition, PoolCapacity, RecvMax} \subseteq Nat \ {0}
    /\ IdBlock \in Nat \ {0, 1}

VARIABLES
    running,      \* the loop's flag, cleared by stop
    pc,           \* "loop", or "poll" after the sends of an action
    connected,    \* whether tcp_client is there
    next_id,      \* orders each agent has taken an id for
    active,       \* _active_orders of each agent
    inventory,    \* stats.inventory of each agent
    pending,      \* _pending_orders of HUMAN
    to_cancel,    \* _pending_cancels of HUMAN
    has_book,     \* whether HUMAN has a last_book
    last,         \* last_book_update
    incoming,     \* _incoming_queue of the bridge
    c2s, s2c,     \* the connection, in both directions
    book,         \* orders in the engine's order_map_
    version,      \* number of snapshots the engine has sent
    done,         \* orders of the book that are filled, market orders left there
    position,     \* units the engine has bought for ARB, less those it has sold
    lost,         \* ids whose cancel could not be sent or was dropped
    failures,     \* number of messages that were lost
    clicks        \* number of messages from the browser

simVars == <<running, pc, connected, orderVars>>
agentVars == <<next_id, active, inventory, pending, to_cancel, has_book>>
engineVars == <<book, version, done, position>>
netVars == <<c2s, lost, failures>>
uiVars == <<incoming, clicks>>
vars == <<simVars, agentVars, engineVars, netVars, uiVars, last, s2c>>

-----------------------------------------------------------------------------
\* Seeded fault: every agent starts from the same block.
SameBlock(a) == 0

\* _id_offset, by the order in which _create_agents makes them.
Offset(a) == IdBlock * CASE a = "MM" -> 0 [] a = "NOISE" -> 1
                         [] a = "INFORMED" -> 2 [] a = "MOMENTUM" -> 3
                         [] a = "ARB" -> 4 [] a = "HUMAN" -> 5

WhaleId == IdBlock - 1

Side == {"BID", "ASK"}

\* The k-th order from now of agent a, for which next_order_id is called.
AgentOrder(a, k, s, ty) ==
    [id |-> Offset(a) + next_id[a] + k, side |-> s, type |-> ty, agent |-> a]

WhaleOrder == [id |-> WhaleId, side |-> "BID", type |-> "MARKET", agent |-> "WHALE"]

New(o) == [kind |-> "NEW", order |-> o, id |-> o.id]
Cancel(id) == [kind |-> "CANCEL", id |-> id]

\* A set of numbers as a list in ascending order: there is one.
Listings(S) == {f \in [1..Cardinality(S) -> S] :
                   ToSet(f) = S /\ \A i, j \in DOMAIN f : i < j => f[i] < f[j]}

\* Where the messages of a kind are in a sequence of them.
Places(s, k) == {i \in DOMAIN s : s[i].kind = k}

IdsOf(orders) == {o.id : o \in orders}
Each(Op(_), s) == [i \in DOMAIN s |-> Op(s[i])]

Init ==
    /\ running = TRUE /\ pc = "loop" /\ connected \in BOOLEAN
    /\ OrderInit
    /\ next_id = [a \in Agents |-> 1]
    /\ active = [a \in Agents |-> {}]
    /\ inventory = [a \in Agents |-> 0]
    /\ pending = <<>> /\ to_cancel = {} /\ has_book = FALSE
    /\ last = [version |-> 0, usable |-> TRUE]
    /\ incoming = <<>> /\ c2s = <<>> /\ s2c = <<>>
    /\ book = {} /\ version = 0 /\ done = {} /\ position = 0
    /\ lost = {} /\ failures = 0 /\ clicks = 0

-----------------------------------------------------------------------------
(* Sending.  Each send of the list may fail on its own; the failure is     *)
(* logged, and the loop goes on with the next message.                     *)

Send(s) ==
    IF ~connected THEN UNCHANGED netVars
    ELSE \E bad \in SUBSET DOMAIN s :
            /\ failures + Cardinality(bad) <= MaxFailures
            /\ \E sent \in Listings(DOMAIN s \ bad) :
                  c2s' = c2s \o Each(LAMBDA i : s[i], sent)
            /\ lost' = lost \cup {s[i].id : i \in bad \cap Places(s, "CANCEL")}
            /\ failures' = failures + Cardinality(bad)

\* Seeded faults: the new quotes go first; the cancels are forgotten.
OrdersThenCancels(cancels, orders) == Send(Each(New, orders) \o Each(Cancel, cancels))
OrdersOnly(cancels, orders) == Send(Each(New, orders))

\* The two calls that end an AGENT_ACTION: _submit_cancels, _submit_orders.
Submit(cancels, orders) == Send(Each(Cancel, cancels) \o Each(New, orders))

-----------------------------------------------------------------------------
(* Messages of the browser.  _process_incoming_ws_messages takes those     *)
(* there at the head of the loop; one that comes while they are processed  *)
(* might as well have come after the event that is popped next.            *)

Clicks == [what: {"market", "limit"}, side: Side]
          \cup [what: {"cancel_all", "whale"}, side: {"BID"}]

Click ==
    /\ running
    /\ clicks < MaxClicks
    /\ clicks' = clicks + 1
    /\ \E m \in Clicks : incoming' = Append(incoming, m)
    /\ UNCHANGED <<simVars, agentVars, engineVars, netVars, last, s2c>>

\* The order waits for the next AGENT_ACTION of HUMAN: the one that should be
\* pushed for it is not, because the import before it raises.
HumanOrder(s, ty) ==
    /\ pending' = Append(pending, AgentOrder("HUMAN", 0, s, ty))
    /\ next_id' = [next_id EXCEPT !["HUMAN"] = @ + 1]
    /\ UNCHANGED <<active, inventory, to_cancel, has_book, netVars>>

\* place_limit_order returns without a book, and at a price that is not positive.
HumanLimit(s) == (has_book /\ HumanOrder(s, "LIMIT")) \/ UNCHANGED <<agentVars, netVars>>

HumanCancelAll ==
    /\ to_cancel' = to_cancel \cup IdsOf(active["HUMAN"])
    /\ active' = [active EXCEPT !["HUMAN"] = {}]
    /\ UNCHANGED <<next_id, inventory, pending, has_book, netVars>>

WhaleBuy == Send(<<New(WhaleOrder)>>) /\ UNCHANGED agentVars

ProcessClick ==
    /\ pc = "loop"
    /\ running /\ MoreEvents
    /\ incoming # <<>>
    /\ LET m == Head(incoming) IN
       \/ m.what = "market" /\ HumanOrder(m.side, "MARKET")
       \/ m.what = "limit" /\ HumanLimit(m.side)
       \/ m.what = "cancel_all" /\ HumanCancelAll
       \/ m.what = "whale" /\ WhaleBuy
    /\ incoming' = Tail(incoming)
    /\ UNCHANGED <<simVars, engineVars, clicks, last, s2c>>

-----------------------------------------------------------------------------
(* The event loop. *)

\* The loop goes on, and there is no message to process before the next event.
Popping == pc = "loop" /\ running /\ MoreEvents /\ incoming = <<>>

MidpriceMove ==
    /\ Popping
    /\ TakeMove
    /\ UNCHANGED <<running, pc, connected, agentVars, engineVars, netVars, uiVars,
                   last, s2c>>

\* Bookkeeping of an agent that sends the orders of s: ids and track_order.
Track(a, kept, s) ==
    /\ next_id' = [next_id EXCEPT ![a] = @ + Len(s)]
    /\ active' = [active EXCEPT ![a] = kept \cup ToSet(s)]

\* The quotes of one action: for each level a bid and an ask, unless the
\* inventory is at its limit.
QuoteSides == (IF inventory["MM"] < MaxInventory THEN <<"BID">> ELSE <<>>)
              \o (IF inventory["MM"] > -MaxInventory THEN <<"ASK">> ELSE <<>>)

Quotes == [k \in 1..(Levels * Len(QuoteSides)) |->
              AgentOrder("MM", k - 1, QuoteSides[1 + ((k - 1) % Len(QuoteSides))], "LIMIT")]

\* Every agent but HUMAN does nothing when a side of its snapshot is empty.
MarketMakerAction ==
    IF ~last.usable THEN Submit(<<>>, <<>>) /\ UNCHANGED agentVars
    ELSE /\ \E ids \in Listings(IdsOf(active["MM"])) : Submit(ids, Quotes)
         /\ Track("MM", {}, Quotes)
         /\ UNCHANGED <<inventory, pending, to_cancel, has_book>>

\* What each kind of trader may send, as pairs of a side and an order type.  The
\* signal it goes by, or the random number it draws, may also be for nothing: so
\* is MOMENTUM's first one, which sets its averages.
NoiseOrders == Side \X {"LIMIT", "MARKET"}

InformedOrders == Side \X {"MARKET"}

MomentumOrders == Side \X {"MARKET"}

\* ARB picks off a quote while its inventory is within the position limit, and
\* flattens with a limit order an inventory that is more than half of it.
ArbOrders ==
    LET held(s) == IF s = "BID" THEN inventory["ARB"] ELSE -inventory["ARB"] IN
    {x \in Side \X {"LIMIT", "MARKET"} :
        IF x[2] = "MARKET" THEN held(x[1]) < MaxPosition
                           ELSE -held(x[1]) > MaxPosition \div 2}

TraderOrders(a) == CASE a = "NOISE" -> NoiseOrders [] a = "INFORMED" -> InformedOrders
                     [] a = "MOMENTUM" -> MomentumOrders [] a = "ARB" -> ArbOrders

\* A trader sends one order or none.
TraderAction(a) ==
    /\ UNCHANGED <<inventory, pending, to_cancel, has_book>>
    /\ \/ Submit(<<>>, <<>>) /\ UNCHANGED <<next_id, active>>
       \/ \E x \in TraderOrders(a) :
             LET o == AgentOrder(a, 0, x[1], x[2]) IN
             last.usable /\ Submit(<<>>, <<o>>) /\ Track(a, active[a], <<o>>)

AgentAction(a) ==
    /\ Popping
    /\ TakeAction(a)
    /\ IF a = "MM" THEN MarketMakerAction ELSE TraderAction(a)
    /\ pc' = IF connected THEN "poll" ELSE "loop"
    /\ UNCHANGED <<running, connected, engineVars, uiVars, last, s2c>>

\* Seeded fault: HUMAN, too, wants both sides of the book.
HumanSubmitsIfUsable ==
    /\ has_book' = TRUE
    /\ IF last.usable
       THEN /\ \E ids \in Listings(to_cancel) : Submit(ids, pending)
            /\ active' = [active EXCEPT !["HUMAN"] = @ \cup ToSet(pending)]
            /\ pending' = <<>> /\ to_cancel' = {}
       ELSE UNCHANGED <<netVars, active, pending, to_cancel>>

HumanSubmits ==
    /\ has_book' = TRUE
    /\ \E ids \in Listings(to_cancel) : Submit(ids, pending)
    /\ active' = [active EXCEPT !["HUMAN"] = @ \cup ToSet(pending)]
    /\ pending' = <<>>
    /\ to_cancel' = {}

HumanAction ==
    /\ Popping
    /\ TakeHuman
    /\ HumanSubmits
    /\ pc' = IF connected THEN "poll" ELSE "loop"
    /\ UNCHANGED <<running, connected, next_id, inventory, engineVars, uiVars, last,
                   s2c>>

-----------------------------------------------------------------------------
(* TcpClient.poll, and what _submit_orders does with the messages. *)

\* on_fill: the first of the agent's orders that is part of the fill (dicts
\* keep the order of insertion, ids grow).
OnFill(m, acc) ==
    LET mine(a) == {o \in acc.active[a] : o.id \in {m.maker, m.taker}}
        own(a) == CHOOSE o \in mine(a) : \A x \in mine(a) : o.id <= x.id
    IN  [inventory |-> [a \in Agents |->
            acc.inventory[a] + (IF mine(a) = {} THEN 0
                                ELSE IF own(a).side = "BID" THEN 1 ELSE -1)],
         active |-> [a \in Agents |-> IF mine(a) = {} THEN acc.active[a]
                                      ELSE acc.active[a] \ {own(a)}]]

AfterFills(s) ==
    MapThenFoldSet(OnFill, [inventory |-> inventory, active |-> active],
                   LAMBDA i : s[i], Max, Places(s, "FILL"))

Snapshot(m) == [version |-> m.version, usable |-> m.usable]

\* Seeded fault: the oldest snapshot of the batch is kept.
OldestOf(s) == LET P == Places(s, "UPDATE") IN IF P = {} THEN last ELSE Snapshot(s[Min(P)])

NewestOf(s) == LET P == Places(s, "UPDATE") IN IF P = {} THEN last ELSE Snapshot(s[Max(P)])

\* One recv, of what has arrived by now.
Receive ==
    /\ pc = "poll"
    /\ \E n \in 0..(IF Len(s2c) < RecvMax THEN Len(s2c) ELSE RecvMax) :
          LET got == SubSeq(s2c, 1, n) IN
          /\ s2c' = SubSeq(s2c, n + 1, Len(s2c))
          /\ last' = NewestOf(got)
          /\ inventory' = AfterFills(got).inventory
          /\ active' = AfterFills(got).active
    /\ pc' = "loop"
    /\ UNCHANGED <<running, connected, orderVars, next_id, pending, to_cancel,
                   has_book, engineVars, netVars, uiVars>>

\* SIGINT; the flag is read at the head of the loop.
Stop ==
    /\ running
    /\ running' = FALSE
    /\ UNCHANGED <<pc, connected, orderVars, agentVars, engineVars, netVars, uiVars,
                   last, s2c>>

-----------------------------------------------------------------------------
(***************************************************************************)
(* The engine, reduced to which orders it holds (MatchingEngine has the    *)
(* book, EngineServer the queues).  A command that is not lost is          *)
(* answered, a new order and a cancel with a snapshot, a duplicate, a      *)
(* price that is not positive or an unknown id with a reject.  A filled    *)
(* market order stays in the book; no FILL is ever sent.                   *)
(***************************************************************************)
Against(o) == {m \in book \ done : m.side # o.side}

\* A filled market sell hides the asks from update_best and from match_order.
AsksHidden(d) == \E z \in d : z.side = "ASK"

\* Whether both best prices of the snapshot are positive.
Usable(b, d) ==
    IF {o.side : o \in {x \in b : x \in d => x.side = "BID"}} # Side THEN {FALSE}
    ELSE IF AsksHidden(d) THEN BOOLEAN ELSE {TRUE}

Answer(ok) ==
    IF ok THEN /\ version' = version + 1
               /\ \E u \in Usable(book', done') :
                     s2c' = Append(s2c, [kind |-> "UPDATE", version |-> version + 1,
                                         usable |-> u])
          ELSE s2c' = Append(s2c, [kind |-> "REJECT"]) /\ UNCHANGED version

Has(id) == id \in IdsOf(book)

\* Prices are choices: that of a limit order may be zero or less.  HUMAN looks at
\* the price, but not at the quantity the browser asks for.
MayBeInvalid(o) == o.type = "LIMIT" \/ o.agent = "HUMAN"

\* The server rejects a duplicate and invalid parameters; a duplicate that passes
\* its test is dropped by the engine, with a snapshot, and so is an order for
\* which the pool has no room.
EngineRefuses(o) ==
    /\ UNCHANGED <<book, done, position>>
    /\ \/ (Has(o.id) \/ MayBeInvalid(o)) /\ Answer(FALSE)
       \/ (Has(o.id) \/ Cardinality(book) = PoolCapacity) /\ Answer(TRUE)

\* Filled market buys are at the highest price: every order to sell meets them
\* first, fills nothing and takes them out.
Met(o) == {z \in done : o.side = "ASK" /\ z.side = "BID"}

\* What remains of a market order is taken out again.
EngineRests(o) ==
    /\ o.type = "LIMIT" \/ Against(o) = {} \/ (o.side = "BID" /\ AsksHidden(done))
    /\ book' = (book \ Met(o)) \cup {x \in {o} : x.type = "LIMIT"}
    /\ done' = done \ Met(o)
    /\ UNCHANGED position
    /\ Answer(TRUE)

Units(o) == IF o.agent # "ARB" THEN 0 ELSE IF o.side = "BID" THEN 1 ELSE -1

\* The order and the order it meets are filled; a filled market order stays.  The
\* whale meets several, and something of it may be left, which is taken out again.
EngineTrades(o) ==
    \E makers \in SUBSET Against(o), stays \in SUBSET {x \in {o} : x.type = "MARKET"} :
        /\ makers # {}
        /\ o # WhaleOrder => /\ Cardinality(makers) = 1
                             /\ o.type = "MARKET" => stays = {o}
        /\ book' = (book \ (makers \cup Met(o))) \cup stays
        /\ done' = (done \ Met(o)) \cup stays
        /\ position' = position + MapThenSumSet(Units, makers) + Units(o)
        /\ Answer(TRUE)

EngineNew(o) ==
    \/ EngineRefuses(o)
    \/ /\ ~Has(o.id)
       /\ Cardinality(book) < PoolCapacity
       /\ EngineRests(o) \/ EngineTrades(o)

EngineCancel(id) ==
    /\ book' = {o \in book : o.id # id}
    /\ done' = {o \in done : o.id # id}
    /\ UNCHANGED position
    /\ Answer(Has(id))

EngineStep ==
    /\ c2s # <<>>
    /\ LET m == Head(c2s) IN
       \/ m.kind = "NEW" /\ EngineNew(m.order)
       \/ m.kind = "CANCEL" /\ EngineCancel(m.id)
    /\ c2s' = Tail(c2s)
    /\ UNCHANGED <<simVars, agentVars, uiVars, last, lost, failures>>

\* A command that is lost on the server's side: process_message does not look at
\* the result of push_command, and one that finds in_queue_ full is gone without
\* an answer; so is one left in the connection when the server removes the client.
ServerDrops ==
    /\ c2s # <<>>
    /\ failures < MaxFailures
    /\ failures' = failures + 1
    /\ lost' = lost \cup {m.id : m \in {x \in {Head(c2s)} : x.kind = "CANCEL"}}
    /\ c2s' = Tail(c2s)
    /\ UNCHANGED <<simVars, agentVars, engineVars, uiVars, last, s2c>>

-----------------------------------------------------------------------------
SimStep == ProcessClick \/ MidpriceMove \/ HumanAction \/ Receive
           \/ \E a \in Roster : AgentAction(a)

Next == SimStep \/ EngineStep \/ ServerDrops \/ Click \/ Stop

Spec == Init /\ [][Next]_vars

\* The loop runs; the engine, the browser and the user do what they like.
FairSpec == Spec /\ WF_vars(SimStep)

-----------------------------------------------------------------------------
(***************************************************************************)
(* Properties.                                                             *)
(***************************************************************************)
OrdersOnTheWay == {c2s[i].order : i \in Places(c2s, "NEW")}
CancelsOnTheWay == {c2s[i].id : i \in Places(c2s, "CANCEL")}

\* An order that an agent has in the engine, or on the way to it, is one that
\* the agent can still cancel: it is in _active_orders, or its cancel is queued
\* or under way.  cancel_all forgets the orders before their cancels are sent, and
\* neither it nor _submit_cancels looks at what becomes of them: an order is out
\* of its agent's reach only if its cancel is lost, in the send or at a full
\* in_queue_.
NoOrderIsForgotten ==
    \A o \in book \cup OrdersOnTheWay :
        o.agent \in Agents =>
            \/ o \in active[o.agent]
            \/ o.agent = "HUMAN" /\ o.id \in to_cancel
            \/ o.id \in CancelsOnTheWay
            \/ o.id \in lost

\* Cancel-and-replace keeps the market maker's quotes in the engine to one set,
\* whatever is filled, delayed or swept in between, and but for the quotes whose
\* cancel is lost on the way: each of these stays for good ("This prevents order
\* accumulation that would exhaust the pool", market_maker.py).
QuotesDoNotAccumulate ==
    Cardinality({o \in book : o.agent = "MM"}) <=
        2 * Levels + Cardinality(lost)

\* No order of an agent meets another order with its id in the engine or on the
\* way there, that of another agent, its own or the whale's, so that none is
\* refused as a duplicate.
NoIdCollides ==
    /\ \A o, x \in book \cup OrdersOnTheWay : o.id = x.id => o = x
    /\ \A i, j \in Places(c2s, "NEW") :
          (i # j /\ c2s[i].order.agent \in Agents) => c2s[i].id # c2s[j].id
    /\ \A o \in OrdersOnTheWay : o.agent \in Agents => o \notin book

\* The agents' snapshot is the newest that has been read: those still in the
\* connection are its successors, one by one, up to the engine's present one.
SnapshotsInOrder ==
    LET P == Places(s2c, "UPDATE") IN
    /\ {s2c[i].version : i \in P} = (last.version + 1)..version
    /\ \A i, j \in P : i < j => s2c[i].version < s2c[j].version

\* The loop comes to an end, although events add events.
SimulationEnds == <>(~running \/ ~MoreEvents)

\* An order the player has placed is submitted, as long as an action of HUMAN is
\* still to come.
HumanIsServed ==
    (pending # <<>> /\ human_done < TotalSteps) ~> (pending = <<>> \/ ~running)

-----------------------------------------------------------------------------
(***************************************************************************)
(* What comments and documents say of the code and the code does not do.   *)
(***************************************************************************)
\* Each agent "Tracks its own inventory and PnL" (base_agent.py): when nothing is
\* under way, the inventory ARB goes by is what the engine has traded for it.
InventoryIsTracked ==
    ("ARB" \in Roster /\ c2s = <<>> /\ s2c = <<>>) => inventory["ARB"] = position
=============================================================================
