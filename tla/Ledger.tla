------------------------------- MODULE Ledger -------------------------------
(***************************************************************************)
(* What the Python process believes of its orders: _active_orders of the   *)
(* agents and the QuoteRecords of MetricsEngine, against what the engine   *)
(* holds.  Both are written when a message is sent; the engine acts on it  *)
(* later, or never, and says nothing of the fills in between (it sends no  *)
(* FILL, see TradingSimulator).                                            *)
(*                                                                         *)
(* Each send of an action is a step, and the engine may act between two of *)
(* them.  Order ids are distinct (NoIdCollides of TradingSimulator): an id *)
(* is a position in placed here, taken when the agent tracks the order.    *)
(***************************************************************************)
EXTENDS Integers, Sequences

CONSTANTS
    Agents,       \* agents, MM and HUMAN may be among them
    Batch,        \* bound on the orders of one action
    MaxOrders,    \* bound on the orders they place
    MaxFailures,  \* bound on the messages that are lost
    MaxTime       \* bound on current_time

ASSUME LedgerAssumption == {Batch, MaxOrders, MaxFailures, MaxTime} \subseteq Nat

VARIABLES
    now,        \* current_time, which never goes back (Simulation)
    placed,     \* the agent of every order, by id
    active,     \* ids in _active_orders of each agent
    pending,    \* ids in _pending_cancels of HUMAN, between two of its actions
    cancels,    \* ids the present action has yet to cancel
    orders,     \* ids it has yet to send
    quotes,     \* QuoteRecords: timestamp and cancel_timestamp, by id
    c2s,        \* the connection and in_queue_
    resting,    \* ids of the orders at the engine
    filled,     \* when the orders that are filled were, by id
    unsent,     \* ids whose CANCEL could not be sent
    dropped,    \* ids whose CANCEL is lost on the server's side
    failures    \* number of messages that were lost

sending == <<cancels, orders>>
books == <<now, placed, active, pending>>
engine == <<resting, filled>>
losses == <<unsent, dropped, failures>>
vars == <<books, sending, quotes, c2s, engine, losses>>

Never == -1  \* a cancel_timestamp of None

New(id) == [kind |-> "NEW", id |-> id]
Cancel(id) == [kind |-> "CANCEL", id |-> id]

Init ==
    /\ now = 0 /\ placed = <<>> /\ active = [a \in Agents |-> {}] /\ pending = {}
    /\ cancels = {} /\ orders = {}
    /\ quotes = <<>>
    /\ c2s = <<>>
    /\ resting = {} /\ filled = <<>>
    /\ unsent = {} /\ dropped = {} /\ failures = 0

-----------------------------------------------------------------------------
(* AGENT_ACTION.  on_book_update decides; _submit_cancels and              *)
(* _submit_orders then send one message after the other.                   *)

Idle == cancels = {} /\ orders = {}

\* What on_book_update gives up: MM's cancel_all.  HUMAN's has been called before,
\* by _process_incoming_ws_messages.
GivenUp(a) == CASE a = "MM" -> active[a] [] a = "HUMAN" -> pending [] OTHER -> {}

\* How many orders an action may have.
Orders(a) == IF a \in {"MM", "HUMAN"} THEN 0..Batch ELSE 0..1

\* The agent gives up old orders, and tracks and sends new ones.  An agent but
\* HUMAN may also leave everything as it is (a book with an empty side, no signal).
Decide(a, n) ==
    LET ids == (Len(placed) + 1)..(Len(placed) + n) IN
    /\ Len(placed) + n <= MaxOrders
    /\ placed' = placed \o [i \in 1..n |-> a]
    /\ active' = [active EXCEPT ![a] = (@ \ GivenUp(a)) \cup ids]
    /\ pending' = pending \ GivenUp(a)
    /\ cancels' = GivenUp(a)
    /\ orders' = ids

Action(a) ==
    /\ Idle
    /\ now' \in now..MaxTime
    /\ \/ \E n \in Orders(a) : Decide(a, n)
       \/ a # "HUMAN" /\ UNCHANGED <<placed, active, pending, sending>>
    /\ UNCHANGED <<quotes, c2s, engine, losses>>

\* cancel_all_quotes, at the head of the loop.
HumanCancelAll ==
    /\ Idle
    /\ "HUMAN" \in Agents
    /\ pending' = pending \cup active["HUMAN"]
    /\ active' = [active EXCEPT !["HUMAN"] = {}]
    /\ UNCHANGED <<now, placed, sending, quotes, c2s, engine, losses>>

\* Lists of ids are in ascending order.
First(S, id) == id \in S /\ \A x \in S : id <= x

\* record_cancel: ids are distinct, so that there is at most one record.  There is
\* none if the order could not be sent.
RecordCancel(id) ==
    quotes' = [x \in DOMAIN quotes |->
                  IF x = id THEN [quotes[x] EXCEPT !.cancel = now] ELSE quotes[x]]

\* Seeded fault: the cancel is recorded before it is sent.
FailedCancelRecorded(id) == RecordCancel(id)

\* sendall has raised: nothing is recorded.
FailedCancel(id) == UNCHANGED quotes

SendCancel ==
    \E id \in cancels :
        /\ First(cancels, id)
        /\ cancels' = cancels \ {id}
        /\ \/ /\ c2s' = Append(c2s, Cancel(id))
              /\ RecordCancel(id)
              /\ UNCHANGED <<unsent, failures>>
           \/ /\ failures < MaxFailures
              /\ failures' = failures + 1
              /\ unsent' = unsent \cup {id}
              /\ FailedCancel(id)
              /\ UNCHANGED c2s
        /\ UNCHANGED <<books, orders, engine, dropped>>

\* _submit_orders comes after _submit_cancels.
SendOrder ==
    \E id \in orders :
        /\ cancels = {}
        /\ First(orders, id)
        /\ orders' = orders \ {id}
        /\ \/ /\ c2s' = Append(c2s, New(id))
              /\ quotes' = [x \in DOMAIN quotes \cup {id} |->
                               IF x = id THEN [at |-> now, cancel |-> Never] ELSE quotes[x]]
              /\ UNCHANGED failures
           \/ /\ failures < MaxFailures
              /\ failures' = failures + 1
              /\ UNCHANGED <<c2s, quotes>>
        /\ UNCHANGED <<books, cancels, engine, unsent, dropped>>

-----------------------------------------------------------------------------
(* The engine, at its own pace. *)

\* A new order rests, or is filled or refused at once.
EngineActs ==
    /\ c2s # <<>>
    /\ c2s' = Tail(c2s)
    /\ LET id == Head(c2s).id IN
       \/ /\ Head(c2s).kind = "NEW"
          /\ resting' = resting \cup {id} \/ UNCHANGED resting
       \/ /\ Head(c2s).kind = "CANCEL"
          /\ resting' = resting \ {id}
    /\ UNCHANGED <<books, sending, quotes, filled, losses>>

\* The server cannot hand the command on (ServerDrops of TradingSimulator).
ServerDrops ==
    /\ c2s # <<>>
    /\ failures < MaxFailures
    /\ failures' = failures + 1
    /\ c2s' = Tail(c2s)
    /\ dropped' = dropped \cup {m.id : m \in {x \in {Head(c2s)} : x.kind = "CANCEL"}}
    /\ UNCHANGED <<books, sending, quotes, engine, unsent>>

\* An order is filled.  Nothing tells the Python process.
Fill ==
    \E id \in resting :
        /\ resting' = resting \ {id}
        /\ filled' = [x \in DOMAIN filled \cup {id} |-> IF x = id THEN now ELSE filled[x]]
        /\ UNCHANGED <<books, sending, quotes, c2s, losses>>

-----------------------------------------------------------------------------
Next == \/ \E a \in Agents : Action(a)
        \/ HumanCancelAll \/ SendCancel \/ SendOrder
        \/ EngineActs \/ ServerDrops \/ Fill

Spec == Init /\ [][Next]_vars

-----------------------------------------------------------------------------
(***************************************************************************)
(* Properties.                                                             *)
(***************************************************************************)
\* Where the messages of a kind about an order are in the connection.
Under(kind, id) == {i \in DOMAIN c2s : c2s[i] = [kind |-> kind, id |-> id]}

\* A quote that MetricsEngine takes to be alive is one that its agent tracks or is
\* about to cancel, or its CANCEL could not be sent.
OpenQuotesAreTracked ==
    \A id \in DOMAIN quotes :
        quotes[id].cancel = Never =>
            id \in active[placed[id]] \cup pending \cup cancels \cup unsent

\* One that it takes to be cancelled is not tracked any more and has not ended
\* before it began.  It may still be in the engine, or on the way there, and
\* trade: but then its CANCEL is under way behind it, or was lost.
CancelledQuotesLeave ==
    \A id \in DOMAIN quotes :
        quotes[id].cancel # Never =>
            /\ quotes[id].cancel >= quotes[id].at
            /\ id \notin active[placed[id]] \cup pending \cup cancels
            /\ \/ id \in dropped
               \/ /\ id \in resting => Under("CANCEL", id) # {}
                  /\ \A i \in Under("NEW", id) : \E j \in Under("CANCEL", id) : i < j

\* What MetricsEngine has recorded of a quote agrees with what its agent, the
\* connection and the engine hold of it, however sends, fills and losses interleave.
RecordsAgree == OpenQuotesAreTracked /\ CancelledQuotesLeave

-----------------------------------------------------------------------------
(***************************************************************************)
(* What comments and documents say of the code and the code does not do.   *)
(***************************************************************************)
\* The lifetime of a quote is "time a quote is live before cancel/fill"
\* (metrics.py): a quote that was filled is not live after the fill.
LifetimesEndWithFills ==
    \A id \in DOMAIN quotes \cap DOMAIN filled :
        quotes[id].cancel # Never => quotes[id].cancel <= filled[id]
=============================================================================
