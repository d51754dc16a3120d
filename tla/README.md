# Liquidity Arena in TLA+

Liquidity Arena is a simulated exchange: a C++ limit order book and matching
engine behind a TCP server, and a Python simulation whose agents trade on it.
This directory holds TLA+ models of it, the TLC configurations that check them
on small instances, and TLAPS proofs of the properties that matter most.

1. [The system](#the-system): components, state, interactions, hard parts
2. [The modules](#the-modules): how state and actions correspond to the code
3. [The runs](#the-runs): what is checked, bounds, fairness
4. [Where documents and code disagree](#where-documents-and-code-disagree)
5. [The proofs](#the-proofs)
6. [What is not modelled](#what-is-not-modelled)
7. [Plan](#plan)

Run from this directory:

    tlc -workers 2 -config EngineLimit.cfg MCMatchingEngine
    tlapm MatchingEngine_proofs.tla

`PROJECT.json` lists every run with its configuration, the source lines behind
every definition (`map`), the seeded faults (`mutants`), the hazards and the
theorems.

## The system

### Components

| Component | State | Operations |
|---|---|---|
| Order book (`order_book.*`, `price_level.hpp`, `order.hpp`) | `order_map_`; `bids_` and `asks_`, hash maps from price to an intrusive FIFO list; the total of each level; `best_bid_`, `best_ask_` | add (limit, iceberg), cancel, modify, release, replenish, depth |
| Object pool (`object_pool.hpp`) | free list threaded through the slots | allocate, deallocate |
| Matching engine (`matching_engine.*`) | the book, the counters, two queues | new order, cancel, modify, the matching loop, the engine thread |
| SPSC queue (`spsc_queue.hpp`) | ring, two atomic indices | push, pop |
| TCP server (`tcp_server.*`, `main.cpp`) | `clients_` with receive and send buffers | poll: accept, read, dispatch, write; consume engine events |
| Wire protocol (`message.hpp`) | - | header, packed structs |
| Python TCP client (`tcp_client.py`) | socket, receive buffer | send order, send cancel, poll |
| Agents (`agents/*.py`) | active orders, inventory, PnL, per-strategy state | react to a book update, to a fill; cancel all |
| Simulator (`simulator.py`) | event heap, agents, last book update | schedule, process an event, submit, poll |
| WebSocket bridge (`ws_bridge.py`) | set of browsers, two queues, two threads | push, poll, broadcast |
| Metrics (`metrics.py`) | fills, quotes, histories | record, report |
| Price processes, latency model | random generators | step, sample |
| Dashboard (`frontend/`) | - | presentation |

### How they interact

A client writes framed messages to its connection. The **I/O thread** (the loop
of `main`) calls `TcpServer::poll`, which collects descriptors, waits, accepts at
most one connection, serves each client in turn, and passes each valid command
to the engine through `in_queue_` together with the *position* of the client in
`clients_`. The **engine thread** pops a command, runs it to the end on the book
and pushes one event (a book snapshot or a reject) to `out_queue_`, spinning
while that queue is full. The next `poll` that finds socket activity takes up to
100 events from `out_queue_` and appends them to the send buffers: snapshots to
all clients, a reject to the client at the recorded position.

The Python simulator is one such client. It keeps a heap of timestamped events;
on an agent's event it asks the agent for orders, sends cancels and orders, and
reads what the engine has sent back. Browsers talk to it through two queues of
the WebSocket bridge, which runs in a thread of its own.

### What is hard, and what correctness means

* **Order book.** Three indices (map, queues, cached best prices), level totals
  kept by increments and a pool must agree after any sequence of commands. They
  are updated in different places for adds, fills, cancels, price changes,
  quantity changes and replenishment. Correct: the indices agree, no slot leaks,
  the caches are what a walk would find, totals are the sum of what is left.
* **Matching.** Correct: price-time priority for every fill, no overfill, an
  uncrossed book between commands, a loop that ends.
* **SPSC queue.** Two threads, no lock, indices seen late. Correct: a bounded
  FIFO; the slot written is never the slot read; nothing is stuck.
* **Server.** Positions used after the table they index has changed; a full
  queue in one direction while the other thread waits; a timeout that skips
  work; `has_order` read from the wrong thread. Correct: commands and events are
  neither lost nor reordered, rejects find their sender, neither thread waits
  for ever, a healthy client is not disconnected.
* **Simulation.** Fills race with cancels the agent has already forgotten;
  latencies reorder; a send may fail on its own; agents act on old snapshots.
  Correct: what an agent has in the engine it can still cancel, quotes do not
  accumulate, ids never meet, inventories match what the engine did, the
  player's orders go out and the loop ends; time never runs backwards although
  events push events, and the three copies of the price agree.
* **Connections.** Bytes, not messages, travel; a send on a socket that does not
  block may take a part of a frame and raise. Correct: both sides cut the frames
  where they were joined, and a torn one harms nothing before it.
* **Bridge.** Two threads and an event loop; browsers come, stall and go during
  a broadcast. Correct: no gap and no reordering for any browser, none of which
  can stop the others.

The list of hazards, each at its line, is in `PROJECT.json`.

## The modules

| Module | Models | Used by |
|---|---|---|
| `OrderBook` | book, levels, best prices, pool count; the operations as operators and action fragments | `MatchingEngine` |
| `MatchingEngine` | the commands and the matching loop as actions; the properties | `MCMatchingEngine` |
| `MatchingEngine_proofs` | theorems on the two above | |
| `SPSCQueue` | the ring, one action per shared access | |
| `BoundedFIFO` | what the queue promises; abstract specification | `SPSCQueue` |
| `SPSCQueue_proofs` | theorems on the ring | |
| `EngineServer` | I/O thread, engine thread, queues, clients | |
| `EngineServer_proofs` | theorems on the server | |
| `Wire` | one connection byte by byte: both ends of the framing | `MCWire` |
| `Channel` | what a connection promises; abstract specification | `Wire` |
| `Wire_proofs` | theorems on a connection | |
| `EventOrder` | in which order events can be popped; abstract specification | `TradingSimulator`, `Simulation` |
| `TradingSimulator` | the Python process: event loop, agents, TCP client, messages of the browser; a reduced engine at the other end | |
| `TradingSimulator_proofs` | theorems on the Python process | |
| `Simulation` | the event loop with its heap, clock, latencies and scenarios | `MCSimulation` |
| `PriceProcess` | the price processes and the Hawkes process | `Simulation` |
| `Simulation_proofs` | theorems on the event loop, the price and the Hawkes memory | |
| `Ledger` | what agents and metrics believe of their orders, send by send, while the engine acts on its own | |
| `Ledger_proofs` | theorems on these books | |
| `WsBridge` | the bridge to the browsers | |
| `WsBridge_proofs` | theorem on the bridge | |
| `MCMatchingEngine`, `MCSimulation`, `MCWire` | symmetry, latencies, message sizes for TLC | |

`EngineServer` composes the two others by abstraction: its queues are the
bounded FIFOs `SPSCQueue` implements, its book is the set of ids in `order_map_`
with matching taking out an arbitrary set of orders, which covers every step of
`MatchingEngine`. `TradingSimulator` does the same on the client's side: its
engine is the set of resting orders, of which a trade takes out any that could
be met; every command is answered as `EngineServer` answers it, or lost as it can
be lost there. Both take a
connection to be a `Channel`, which `Wire` is shown to implement up to the first
torn frame. `TradingSimulator` extends `EventOrder`, the order of events without
times, which `Simulation`, with times and latencies, is shown to implement
(`RefinesEventOrder`).

### OrderBook and MatchingEngine

| Variable | Code |
|---|---|
| `order_map` | the keys of `order_map_`; an `Order*` is its id |
| `order` | the fields of each order |
| `queue[s][p]` | the list of the level at price `p` of side `s`; empty if the map has no entry |
| `total[s][p]` | `total_quantity_` |
| `best` | `best_bid_`, `best_ask_` |
| `free` | free slots of the pool |
| `pc`, `taker` | whether `match_order` is running, and its `incoming` |
| `commands` | `total_orders_` + `total_modifies_`, the bound of the runs |

`INVALID_PRICE` (the least 64-bit integer) is -1, below all client prices; a
market sell is booked at that very value and a market buy at
`MaxPrice + 1`, which stands for the greatest 64-bit integer. Orders sent with
price or quantity 0 are refused; the prices clients ask for in a modification
are positive, because the code does not check them and no client of the
repository sends others.

`NewOrderStep` is `process_new_order` up to the call of `match_order`;
`FillAndRemoveMaker` and `FillAndKeepMaker` are one iteration of its loop, with
`execute_fill`, the removal or the replenishment; `FinishNewOrder` is everything
after the loop. `ProcessCancel`, `ProcessModify` and `RefuseModify` are the
other commands. The rescan of a hash map that holds a level at `INVALID_PRICE`
depends on the order of iteration; `update_best` allows every outcome.
Timestamps, fees, counters and the fill callback do not influence any decision
and are left out.

### SPSCQueue

The indices, the slots and what each thread holds in registers. An acquire load
may return an older value than the last store: `read_view` and `write_view` are
what a thread sees of the other's index; they follow it one store at a time, at
any later moment. `Contents`, the slots from `read_idx` to `write_idx`, is the
refinement mapping to `BoundedFIFO`; the stores of the indices are the points at
which a push and a pop take effect. `pop` is called (`BeginPop`) before it looks
at the other index (`PopEmpty`, `PopItem`), because nothing makes the I/O thread
call it: progress is stated under the condition that it goes on being called.

### EngineServer

`iopc` says where the I/O thread is: in `::poll`, serving the client at `pos`,
processing the messages read from it, or consuming events. `fds` is what
`::poll` reported, *by position when it was called*; `clients` may have changed
since, as in the code. A position past the end of `fds` (a client accepted in
this call) yields an arbitrary report: the code reads past the end of the
vector. `HasOrder` is either answer while the engine thread is changing the map.
`epc` says where the engine thread is. Clients connect, send commands with
distinct numbers; those in `Leavers` close or reset at any time. Clients need
not say anything: a call of `::poll` with nothing to report times out
(`PollTimeout`) and consumes no event. Messages are
whole (`Wire`); socket errors other than a reset are left out, and so is
shutdown.

### Wire

A byte is known by its message and its place in the frame. `up` and `down` are
the bytes in the two directions, `rbuf` is `recv_buffer` up to `recv_offset`,
`sbuf` is `send_buffer`, `cbuf` is `_recv_buffer`; `sent`, `handled`, `replies`
and `polled` are the messages at the four ends. `ClientSend` is `sendall` on a
socket that does not block: it takes what there is room for and raises if that
is not all, and the caller goes on with its next message. `ServerRead` and
`ClientPoll` read any number of bytes and run the loop that cuts frames
(`Parse`). A length field read from bytes that are not a header is arbitrary:
`ServerRead` tries every value up to one that is too large. The server removes
the client then, as it does when `recv` has no room. `RemovedForAnother` is a
removal that has nothing to do with the bytes: while the descriptors are out of
step with `clients_` (see `EngineServer`), a client is removed for its neighbour's
hangup, or because its own `recv` finds nothing and fails.

### Simulation and PriceProcess

`heap` is a set of timed events; ties are popped in any order, because `Event`
compares timestamps only. `Sample` is the set of delays `LatencyModel.sample` can
return, spikes included. `MidpriceMove`, `AgentAction` and `TakeSample` are the
branches of `_process_event`, `FlashCrash` and `VolSpike` the scenarios, which
change the process and the loop's copy of the price. Prices are integers and a
move has the size of the volatility and either sign; odds are left out, so that
every regime can follow every other. An agent's action changes nothing here:
what it does is in `TradingSimulator` and `Ledger`.

### WsBridge

`loop` tells whether the WebSocket thread has made its event loop and whether
its server has started; `ready` holds the puts that `run_coroutine_threadsafe`
has scheduled, `queue` is `_message_queue`, `sending` the browsers `gather` waits
for. A task runs from one `await` to the next. The `websockets` library is
external: a send ends when the browser has taken the data or the connection has
closed, and a browser that has stopped answering is closed by the keepalive.

### TradingSimulator

| Variable | Code |
|---|---|
| `running`, `pc`, `connected` | the flag of `run`, where the loop is, `tcp_client is not None` |
| `step_count`, `due`, `human_done` | the event heap (of `EventOrder`): steps begun, actions that can be popped, HUMAN's popped ones |
| `next_id`, `active`, `inventory` | `_next_order_id`, `_active_orders`, `stats.inventory` of each agent |
| `pending`, `to_cancel`, `has_book` | `_pending_orders`, `_pending_cancels`, `last_book` of the player |
| `last` | `last_book_update`: which snapshot, and whether both best prices are positive |
| `incoming`, `c2s`, `s2c` | the browser's queue, the two directions of the connection |
| `book`, `done`, `version`, `position` | the engine: resting orders, filled market orders among them, snapshots sent, the arbitrageur's real position |
| `lost`, `failures`, `clicks` | history and bounds |

The order of events is `EventOrder`: an action can be popped at any time after
the move of its step, because latencies are positive and a spike exceeds a step;
the player's latency is 0, so that its action may tie with that move.
`MidpriceMove`, `AgentAction` and `HumanAction` are the branches of
`_process_event`; an action computes the agent's orders and sends cancels, then
orders, each of which may fail by itself; `Receive` is the `poll` that follows,
separate because the engine runs in between. `EngineStep` is the engine taking
a command, `ServerDrops` the server losing one: the result of `push_command` is
ignored when `in_queue_` is full, and what a removed client has sent is not read.
`lost` collects the ids of the cancels lost in either way. What the server makes of
the bytes behind a torn frame is in `Wire` only. `ProcessClick` is one message of
`_process_incoming_ws_messages`; the loop pops an event only when there is none
left. The event that should be pushed for the player's order is not, because the
import before it names a module that does not exist and the exception is caught.

Each kind of agent occurs once. A trader sends one of the orders its kind may
send, or none; the market maker cancels all it tracks and quotes afresh. Prices
are choices: whether two orders meet is not decided by the model.
`OnFill` is translated too, and never has a message to work on: the engine sends
no FILL (`doc_inventory`). A list of ids is *the* ascending listing of a set
(`Listings`), and the snapshot a batch leaves is the one at the greatest place, so
that neither needs a recursion.

### Ledger

`active`, `pending`, `cancels` and `orders` are the agents' side: what each agent
tracks, what the player's `_pending_cancels` holds between two of its events, and
what the present `AGENT_ACTION` has yet to cancel and to send. `quotes` are the
`QuoteRecord`s of `MetricsEngine`. `Action` is the decision of `on_book_update`;
`SendCancel` and `SendOrder` are one iteration each of the loops of
`_submit_cancels` and `_submit_orders`, with the record that follows a send that
did not raise. The engine takes commands from the connection, fills orders and
loses commands between any two of these steps; no message tells the agents of a
fill. `unsent` and `dropped` are the ids of the cancels lost at either end, `filled`
the times of the fills, for the statement about lifetimes.

## The runs

Every property of a passing run has a seeded fault, an operator next to the
definition it replaces, that makes TLC report the property.

| Run | Bounds | Checks |
|---|---|---|
| `engine_limit` | 4 ids, 3 prices, quantities 0..2, 5 new orders or modifications, any number of cancels; limit orders; ids symmetric | `TypeOK BestExact NotCrossed DepthExact TimePriority PriceTimePriority FillsArePositive` |
| `engine_all` | 3 ids, pool of 2, 2 prices, quantities 0..2, 4 commands; limit, market and iceberg orders and price changes | `BookConsistent PoolAccounting BestBidExact NeverOverfilled MatchingEnds` |
| `spsc_queue` | capacity 3, two items, no other bound | `RingOrder NoSlotRace RefinesFIFO EverythingIsPopped` |
| `server` | 2 clients, one of which may leave, 2 commands of any kind, queues of 1, 1 event per poll | `TypeOK NothingVanishes RejectReachesSender CommandsInOrder UpdatesInOrder CommandsAreAnswered` |
| `wire` | header of 2 bytes, payloads of 1 and 2, 3 sends, 2 replies, sockets with room for 5 and 3 bytes, a buffer for one frame | `ReadsGoOn OrdersArriveIntact RepliesArriveIntact OnlyTornFramesAreRefused EverythingArrives` |
| `sim_quotes` | market maker with one level and the player, 2 steps, 2 messages of the browser, 2 lost messages, room for 3 orders, 2 snapshots per `recv` | `NoOrderIsForgotten QuotesDoNotAccumulate SnapshotsInOrder NoIdCollides` |
| `sim_flow` | noise trader, arbitrageur and player, 1 step with up to 1 extra Hawkes event, 1 message of the browser | `SimulationEnds HumanIsServed` |
| `simulation` | market maker, noise trader and player, 3 steps, 1 Hawkes event per step, 1 scenario, each price process, a sample every 2 steps | `EventsAreTimely MidFollowsProcess MemoryIsBounded RefinesEventOrder` |
| `ledger` | market maker, player and noise trader, 3 orders, up to 2 per action, 1 lost message, times 0..2 | `RecordsAgree` |
| `ws_bridge` | 2 browsers with 2 commands each, 3 messages | `NothingIsSkipped BridgeDelivers` |

*Why the bounds are enough.* Four orders at three prices make levels with
several orders, a taker that fills the first of them, sweeps through two levels
with a partly filled third order, a best level that empties while others stay, and
a cancel in the middle of a queue. The pool of two with three ids makes exhaustion
and reuse happen; places in a level with icebergs and price changes, for which a
pool of two has no room, are left to `PlacesAreKept` (below). The ring of capacity 3 wraps with every combination of full, empty and stale views;
its state space is finite without a bound. Queues of 1 make `in_queue_`
refuse a command and the engine spin; two commands from two clients interleave
in every order, with one of the clients gone before, between or after them.
Three sends into a socket with room for five bytes make a frame that is whole,
one that is torn at any byte, and one behind it; a buffer for a single frame is
the tightest the code's assumption (`recv_buffer` holds `MAX_MSG_SIZE`) allows.
Two steps make the market maker replace its quotes while their fills, their cancels or earlier snapshots are still under way, and
the player cancel what has just been sent; two losses can be any of the messages,
cancels too, in the send or on the server's side; three slots are fewer than the quotes, the player's orders and the
whale, so that the pool is exhausted. In `sim_flow` a step with two actions of the
noise trader, one of the arbitrageur, the player's and the whale gives every order of
theirs; a second step adds no interaction, because a trader never cancels, and the
informed and the momentum trader send what the noise trader may send as well. In `simulation` the market maker is faster than half a step but for a
spike of more than two steps, and the noise trader slower than a step: actions
fall before, on and after samples and later moves, and an event pushed while the
heap is drained goes before some that are in it. In `ledger` three orders make a
quote that is cancelled while its own NEW is still under way, and a second cancel of
the player before the first is sent; three messages are enough for a browser that misses the one before it
joins, gets one, stalls and is closed with one under way. What must
hold at every size and is not a matter of liveness is, for the most part, proved
(below).

*Fairness.* `FairSpec` of the engine: the engine thread runs a command it has
begun to its end; nothing is assumed about clients. `FairSpec` of the queue:
stores become visible, and a push or a pop that has begun ends. That pop is called
is not assumed: the I/O thread does not call it when `::poll` times out
(`tcp_server.cpp:105`), and while `out_queue_` is full the engine thread does not
call it either (`matching_engine.cpp:99`). It is the premise of
`EverythingIsPopped`: if pop is called again and again, every item is popped.
`FairSpec` of the server: both threads run. Nothing is assumed of the clients;
`CommandsAreAnswered` has the premise that again and again a call of `::poll` finds
something to report, without which it fails (`EventsAreBroadcast`, below).
`FairSpec` of the simulator: its loop runs, as a single thread that never waits
does; nothing is assumed about the engine, the browser or the user. `FairSpec` of
the connection: the server's loop reads and writes when it can, and the client
polls, as it does after each action. `FairSpec` of the bridge: an `asyncio` loop
runs every task that can go on, the simulator polls with each event, and the
library closes a connection whose pings are not answered (its default); nothing
is assumed about browsers.

Deadlock is checked in the runs of the engine, the queue and the server, which
never end; the others stop when their bounds are used up or the simulation is
over. The server's I/O thread can always poll: that everyone waits for everyone
would show in `CommandsAreAnswered` rather than as a state without successors.

## Where documents and code disagree

Each of these properties is a sentence of a comment or document, and TLC shows a
behaviour of the code that contradicts it. The first two are runs of the project,
with the quotations in `PROJECT.json`; the others are kept with a configuration of
their own, to be run by hand (`tlc -config DocIceberg.cfg MCMatchingEngine`; the
module is `EngineServer` for `DocBroadcast` and `DocReject`, `Ledger` for
`DocLifetime`).

| Configuration | Property | Behaviour |
|---|---|---|
| `DocBestAsk`, run `doc_best_ask` | `InvalidAskMeansNoAsks` | A market order that is *completely* filled is not taken out of the book (only `remaining > 0` is). A market sell then sits in `asks_` at `INVALID_PRICE`, `best_ask()` answers "empty", and buyers no longer reach the asks that are there. |
| `DocInventory`, run `doc_inventory` | `InventoryIsTracked` | No FILL is ever pushed to `out_queue_`, although `message.hpp` says it is "sent to both maker and taker": `on_fill` of the agents is never called and their inventories stay 0. The position limit of the arbitrageur and the inventory skew of the market maker have no effect. |
| `DocIceberg` | `ReplenishedGoesBack` | `display - filled % display` (`matching_engine.cpp:231`) is at least 1, so that `replenish_iceberg` is never called (proved: `NeverReplenishes`): an iceberg order whose slice is consumed stays ahead of the orders behind it. `docs/matching_engine.md:22` says "Replenishment sends the order to the **back of the queue**", and so do `matching_engine.hpp:15` and `order_book.hpp:95`. |
| `DocReprice` | `CrossingOrdersMatch` | A price change (`order_book.cpp:149`) re-adds the order without matching it: a bid moved up to an ask rests there, in a crossed book, although "crossing orders match immediately" (`docs/matching_engine.md:11`). |
| `DocBroadcast` | `EventsAreBroadcast` | After a timeout `poll` returns (`tcp_server.cpp:105`) before it consumes the events of the engine: a snapshot, "broadcast after each event" (`message.hpp:153`), waits for the next activity on a socket, for ever if every client waits for it. |
| `DocReject` | `RejectTargetsSender` | `client_idx`, "Used for Reject to target a specific client" (`message.hpp:213`), is a position in `clients_`; after `remove_client` (`tcp_server.cpp:281`) it is another client's. |
| `DocLifetime` | `LifetimesEndWithFills` | The lifetime of a quote, the "time a quote is live before cancel/fill" (`metrics.py:169`), ends with the cancel also when the quote was filled long before. |

Some of these sentences have a weaker counterpart that holds: `NotCrossed` without
price changes, `RejectReachesSender` until a client is removed, `CommandsAreAnswered`
while sockets are active, and `TimePriority`, in which an iceberg order is an order
like any other.

Seen while modelling, without a run of their own: a filled market order in the
book is matched again with quantity 0 (the assertion of `reduce_quantity`, which
release builds drop); a new order refused by the engine (duplicate id in the
queue, exhausted pool) is answered by a snapshot and no reject; a full
`in_queue_` loses the command silently. Adding an iceberg counts its
display slice, fills and removals take off everything: the level total drifts and
can be negative. After a removal the loop over `clients_` keeps counting
descriptors: a client is served with its neighbour's report, its `recv` finds
nothing and it is disconnected. In the simulator, a snapshot with an empty side
silences every agent but the player, who sends nothing either unless clicked: no
command, no new snapshot, and the market stays as it is to the end. An order the
player places after its last scheduled event is never sent. The second whale
order is refused as a duplicate when the first was filled completely.

Of the Python side further: a frame that `sendall` has sent in part is never
completed, and all later frames of the connection are read in the wrong places.
Were FILLs sent, `on_fill` would not drop an order that is filled in parts: it
compares the order's whole quantity with one fill. `HawkesProcess.step` compares the intensity with a
"conservative upper bound" that holds for one accepted event: from the first on
every candidate is accepted. `vol_spike` leaves `_steps_in_regime` as it was, so
that the spike can end at once. Data pushed before the WebSocket thread has run is
dropped, and after a failed start it piles up in a loop that has stopped.
`pnl_decomposition` subtracts adverse selection, which `inventory_pnl` already
contains, leaves out quantities, and takes every fill for a buy, since
`record_fill` is always given side 0; `was_filled` is never set, and with several
fills per order `fill_ratio` can exceed 1.

## The proofs

For every value of the constants that satisfies the named assumptions
(`MaxPriceAssumption`, `PoolAssumption`, `MaxQtyAssumption`, `ClientAssumption`,
`NoOrderAssumption`; `CapacityAssumption` for the ring; `ServerAssumption`,
`BridgeAssumption`, `SimulationAssumption`, `PriceAssumption`, `OrderAssumption`,
`SimulatorAssumption`, `LedgerAssumption` and `WireAssumption` for the others). They
say that capacities, bounds and latencies are natural numbers, that a capacity, a
limit, a header or the window of the Hawkes process (`10 / beta`) is not 0, that a
block of ids has at least two, that the server has finitely many clients, and of a
connection that there is a longest message and that `recv_buffer` holds it.

| Theorem | Statement | Clients |
|---|---|---|
| `TypeCorrect` | `Spec => []TypeOK` | all |
| `BookStaysConsistent` | `Spec => []BookConsistent` | all |
| `NoSlotLeaks` | `Spec => []PoolAccounting` | all |
| `BestBidIsExact` | `Spec => []BestBidExact` | all |
| `NothingIsOverfilled` | `Spec => []NeverOverfilled` | all |
| `PlacesAreKept` | `Spec => TimePriority` | all |
| `DepthIsExact` | `Spec => []DepthExact` | no iceberg orders |
| `BestIsExactWithoutMarketOrders` | `Spec => []BestExact` | no market orders |
| `RestingOrdersCanTrade` | `Spec => []RestingHasQuantity` | no market orders |
| `FillsFollowPriceTimePriority` | `Spec => PriceTimePriority` | no market orders |
| `EveryFillMoves` | `Spec => FillsArePositive` | no market orders |
| `BookIsNeverCrossed` | `Spec => []NotCrossed` | no market orders, no price changes |
| `IndicesKeepRingOrder` | `Spec => []RingOrder` | any capacity |
| `NoDataRaceOnSlots` | `Spec => []NoSlotRace` | any capacity |
| `TypeCorrect` (ring) | `Spec => []TypeOK` | any capacity |
| `QueueImplementsFIFO` | `Spec => RefinesFIFO` | any capacity |
| `ServerTypeCorrect` | `Spec => []TypeOK` | any number, leaving at will |
| `NoCommandVanishes` | `Spec => []NothingVanishes` | any number, leaving at will |
| `RejectsAreRouted` | `Spec => []RejectReachesSender` | any number, until one is removed |
| `CommandsKeepOrder` | `Spec => []CommandsInOrder` | any number, leaving at will |
| `SnapshotsKeepOrder` | `Spec => []UpdatesInOrder` | any number, leaving at will |
| `ServerKeepsReading` | `Spec => []ReadsGoOn` | any sizes of frames, sockets and buffer |
| `WholeFramesAreAccepted` | `Spec => OnlyTornFramesAreRefused` | any sizes of frames, sockets and buffer |
| `ServerGetsOrders` | `Spec => OrdersArriveIntact` | any sizes, up to the first torn frame |
| `ClientGetsReplies` | `Spec => RepliesArriveIntact` | any sizes |
| `BridgeSkipsNothing` | `Spec => []NothingIsSkipped` | any number of browsers |
| `EventsComeInTime` | `Spec => []EventsAreTimely` | any roster |
| `HeapImplementsOrder` | `Spec => RefinesEventOrder` | any roster |
| `PriceFollowsProcess` | `Spec => []MidFollowsProcess` | any roster |
| `MemoryStaysBounded` | `Spec => []MemoryIsBounded` | any window, any number of events per step |
| `AgentsSeeNewest` | `Spec => []SnapshotsInOrder` | any roster |
| `OrdersAreTracked` | `Spec => []NoOrderIsForgotten` | any roster |
| `QuotesAreReplaced` | `Spec => []QuotesDoNotAccumulate` | any roster, any number of levels |
| `IdsDoNotCollide` | `Spec => [](IdsLeft => NoIdCollides)` | any roster, until a block of ids is used up |
| `QuotesStayInStep` | `Spec => []RecordsAgree` | any agents, any number of orders and losses |

The assumptions on the clients of the engine are those that the previous section
shows to be needed.

**Book** (`MatchingEngine_proofs`). The inductive invariant `EngineInv` joins
`TypeOK`, `BookConsistent`, `PoolAccounting` and the finiteness of `order_map`.
They need each other: that `free` stays within the capacity follows from the
accounting, the accounting from the id being in the map when its slot is given
back, and that from the agreement of queue and map (the maker is taken from a
queue). The agreement is an invariant on its own, but only with the orders'
sides and prices in it: a maker and a taker differ because they are on different
sides. `RemoveFirstUnique` says what `PriceLevel::remove` does to a list that
holds the order once; `LinkAgrees`, `UnlinkAgrees` and `MoveAgrees` lift that to
the three indices, and there is one lemma per operation and one per action.

*Depth.* `DepthExact` compares a total that is kept by increments with a sum, and
the sum is a fold whose choice of the next element is not known. `AdditiveExists`
and `FoldIsAdditive` show that the fold does not depend on it: on the subsets of any
finite set of orders there is a function that adds what an order has left when the
order is added, and the fold is its value. Both go by a least counterexample in the
size of the set (`WFMin`), which asks for no operator parameter. By the agreement of
the indices the orders of a queue are those of the map at its side and price, so that
the sums are over sets and one lemma, `OneChanges`, covers every operation: when one
order changes, comes or goes, each level's sum changes by that order's share. The
case that `UnlinkTotal` tells apart, the last order of a level, whose total starts
again from 0, is exact because that order is alone (`AloneInQueue`). Iceberg orders
are excluded because a new one adds only what it displays.

**Prices** (`MatchingEngine_proofs` too). `PriceInv` adds two parts. `BestInv`: on a
side on which nothing is booked at `INVALID_PRICE` the cache is the best level;
inductive because an add compares with the cache and a removal rescans only when
the best level has gone (`ExactAfterAdd`, `ExactAfterRemove`). `QtyInv`:
every order is filled within its quantity, an iceberg displays something (hence
`NeverReplenishes`), and without market orders everything but the order being
matched has something left. `NotCrossed` says nothing while an order is matched,
so that `CrossInv` strengthens it: only the taker may cross. When the loop ends
with something left, the best price of the opposite side is out of the taker's
reach, and by `BestInv` so is the whole side. *Time priority* is proved of one
list first (appended to, or with one order taken out, `PlacesAfterAppend` and
`PlacesAfterRemove`) and then of the book: a price change takes an order out of one
level and appends it to another, and the one operation that would move an order
within its level, the replenishment, never happens.

**Ring** (`SPSCQueue_proofs`). `RingOrder`, with the types, is inductive as it
stands: producer's view of `read_idx`, `read_idx`, consumer's view of
`write_idx`, `write_idx`, in this order along the ring. If the slots written and
read were the same, the consumer's view would have to equal `read_idx`, and it
would not be reading. The refinement needs no more than that: the store of an
index moves one end of `Contents` by one slot, and every other step leaves the
slots between the indices alone.

**Server** (`EngineServer_proofs`). `Inv` has one part per question. `Types` goes
beyond `TypeOK` to the messages in every queue. *Nothing vanishes* is inductive
with the types. *Rejects*: `Senders` says who sent what is still in a connection
or in the batch, `AllRouted` that every position recorded in a command, in the
engine thread's hands or in a REJECT of `out_q` is still its sender's; it holds
until somebody is removed, because `clients` otherwise grows only at its end.
*Commands*: the numbers of a client's commands are ordered stage by stage
(`Stages`: `out_q`, engine, `in_q`, batch, connection), each stage is sorted and
older than those behind it; `StagesMove` lists what a step can do to five such
sets. *Snapshots*: for some `g` the versions after `g` are in `out_q` and the
engine, and every client has in its buffer those from its own last one to `g`
(`Broadcasted`); consuming a snapshot moves `g` by one (`OldestIsNext`), a flush
moves a client to `g`, and a new client starts there, because it has got nothing
(`Fresh`).

**Connection** (`Wire_proofs`). The same argument serves both directions. `Frames` says
where frames start: the bytes from the front of the reader's buffer to the end of the
writer's begin with the frames of the messages that have not been cut out, at the
positions `e`; downward, and upward while nothing is torn, there is nothing behind
them (`Exact`). `InStep` adds that what was cut out is what was written. It is
inductive: a read only moves the border between buffer and socket, a write appends a
frame or, upward, a part of one, after which the direction is only known up to there.
The parser is a recursive function; `ParseLoops` shows that there is one, built from
the end of the buffer to its front, and `ParseCuts` that it stops at the positions `e`
and nowhere else: at each of them a header is whole and says what it should, or the
loop ends (`HeadOfFrame`, `WholeFrame`, `PartOfFrame`). When all known frames are cut
it may cut more, from bytes behind a torn frame, of which nothing is claimed. Where it
ends there is no whole frame, so that what is kept is shorter than the longest one
(`RestHasRoom`); that gives `ReadsGoOn`. And every length field the loop looks at is
that of a frame while nothing is torn, so that none is oversized
(`OnlyTornFramesAreRefused`). The refinement of `Channel` follows from
`InStep` before and after a step (`ReadDelivers`, `SendAppends`, `PartIsNotSeen`).

**Bridge** (`WsBridge_proofs`). `Pipeline` gives every pushed number its place:
received, at `_ws_main`, in the queue or scheduled on the loop, without a gap;
`Handlers` says which browsers a broadcast can meet, and when one that has left
can still be in `_clients`.

**Event loop** (`Simulation_proofs`). `Inv` says what is still in the heap: the
moves from `step_count` on, the samples that have not been taken, one first action
per agent and step to come, the player's events as a run of steps; and the clock
is at or before all of it. From that every step of the loop is a step of
`EventOrder` under the mapping (`HeapImplementsOrder`). The price has an invariant
of its own (`PriceInv`). So has the memory of the Hawkes process (`MemoryInv`): it is
sorted, within the window, and of any `MaxExtra` consecutive places the last is a
step later than the first; a longer memory than the bound would reach out of the
window. A count alone would not be inductive: how many events the pruning takes out
depends on where they are.

**Python process** (`TradingSimulator_proofs`). First, `StepIs`: every step is one
of eight shapes, of which four send a list and one takes a command from the
connection, with or without effect, and `SubmitIs`: whatever fails, what a
list adds to the connection has its cancels before its orders, the orders in their
order and none twice, and a cancel that is missing is in `lost`. The invariants
then go by *places* in the connection, because what an order is worth to its agent
depends on what is behind it. `Tracked`: an order that its agent has given up has
a cancel behind it; a cancel ahead of it would not do, so that
`NoOrderIsForgotten`, which only says that there is one, is not inductive.
`Quoted`: of two quotes of the market maker either both are of one set, their ids
less than `2 * Levels` apart, or a cancel of the older is between them or lost
(`DropIs`: a cancel that leaves the connection without effect is in `lost`); in
the engine nothing is between, and what is left fits an interval of ids. It needs
`Tracked` when new quotes are sent: an older quote that is not in `active` any more
has its cancel ahead of them. `Snapshots`: versions in the connection grow by one
from the agents' to the engine's. `Issued` and `Unique`: an id belongs to an order
whose agent has called `next_order_id` for it, no two orders in the engine, on
the way or waiting with the player share one. This holds while every `next_id` is
within its block (`IdsLeft`; a million orders per agent in the code, which does not
check it): beyond it an agent runs into its neighbour's block. Not part of
any statement but of the types: the inventory stays 0, because no FILL arrives
(`NoFills`), so that the market maker always quotes both sides.

**Books** (`Ledger_proofs`). `IInv` has three parts. `Books`: an order is tracked by
the agent that placed it and by nobody once it is to be cancelled, so that no cancel
is recorded for an order that is still tracked; one that is yet to be sent is tracked
and has no record, so that a send never reopens a record. `Records`: the two
parts of `RecordsAgree` as far as they are about the Python process, and that no record is from
the future, which gives `cancel >= at`. `Way`: behind a recorded cancel everything is
as `CancelledQuotesLeave` says. It goes by places in the connection: a CANCEL that is
sent is behind every NEW (`CancelGoesBehind`), and taking the first message leaves a
CANCEL behind each NEW that had one (`FirstTaken`), so that an order enters the book
only ahead of its CANCEL.

**Only model-checked.** Liveness (`MatchingEnds`, `EverythingIsPopped`,
`CommandsAreAnswered`, `SimulationEnds`, `HumanIsServed`, `EverythingArrives`,
`BridgeDelivers`), which is out of the prover's reach. Every other property of a
passing run is the statement of a theorem. Where one needs an induction over data, for
which the library's induction theorems are of no use here (no installed prover
instantiates their operator parameter), the proof takes the least counterexample
instead (`LeastNumber`, from `WFMin`).

## What is not modelled

Fees, statistics, `get_depth` and the layout of messages (data, no decisions);
the free list and the intrusive links as pointers; start and shutdown of the
server, and a server that goes away while the simulator runs; the HTTP thread of
the bridge. The distributions of the random processes, the statistics of the
metrics report and the quoting formulas are floating-point arithmetic: their
random numbers and results are choices here, and `generate`, which the simulator
does not call, is left out. In `TradingSimulator` orders are for one unit (the
whale's for many), and what the server misreads behind a torn frame is not handed to
its engine. The dashboard is presentation, and
`strategy.hpp` is an interface nothing implements.

## Plan

In this order.

1. **Pointers** (`ObjectPool`, `PriceLevelList`): the free list and the doubly
   linked list as pointers, shown to implement the count and the sequence
   `OrderBook` uses.
2. **Metrics**: the counters and the decomposition as a pure algorithm over small
   histories, against the sum of cash and inventory.
