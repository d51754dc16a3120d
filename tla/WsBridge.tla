------------------------------ MODULE WsBridge ------------------------------
(***************************************************************************)
(* WebSocketBridge of market/ws_bridge.py: the simulator's thread, which   *)
(* pushes data and polls commands, and the WebSocket thread, whose event   *)
(* loop runs _ws_main and one _ws_handler for each browser.                *)
(*                                                                         *)
(* A task runs from one await to the next.  The websockets library is      *)
(* external: it makes connections, completes a send when the browser has   *)
(* taken the data, and closes one that has stopped answering its pings.    *)
(* What is pushed is numbered, and so are the commands of a browser; one   *)
(* that reconnects counts as another.                                      *)
(***************************************************************************)
EXTENDS Naturals, Sequences, FiniteSetsExt

CONSTANTS
    Browsers,
    MaxPushes,   \* bound on the calls of push
    MaxCommands  \* bound on the commands of a browser

ASSUME BridgeAssumption == {MaxPushes, MaxCommands} \subseteq Nat

VARIABLES
    loop,      \* "none" while _loop is None, "set", "serving", or "failed" to serve
    pushed,    \* number of calls of push
    early,     \* number of those that found no _loop
    ready,     \* puts scheduled on the loop
    queue,     \* _message_queue
    data,      \* the last message _ws_main has taken from it, 0 if none
    sending,   \* browsers whose send of it the gather waits for
    clients,   \* _clients
    conn,      \* each browser: "none", "open", "stuck" (takes nothing) or "closed"
    handler,   \* _ws_handler of each: "none", "running" or "done"
    joined,    \* data when a browser entered _clients
    received,  \* what a browser has received
    inbox,     \* commands of a browser that its handler has not read
    sent,      \* number of commands it has sent
    incoming,  \* _incoming_queue
    polled     \* what poll_incoming has returned

pushVars == <<loop, pushed, early, ready, queue>>
sendVars == <<data, sending, received>>
browserVars == <<clients, conn, handler, joined>>
commandVars == <<inbox, sent, incoming, polled>>
vars == <<pushVars, sendVars, browserVars, commandVars>>

Init ==
    /\ loop = "none" /\ pushed = 0 /\ early = 0 /\ ready = <<>> /\ queue = <<>>
    /\ data = 0 /\ sending = {} /\ clients = {}
    /\ conn = [b \in Browsers |-> "none"]
    /\ handler = [b \in Browsers |-> "none"]
    /\ joined = [b \in Browsers |-> 0]
    /\ received = [b \in Browsers |-> <<>>]
    /\ inbox = [b \in Browsers |-> <<>>]
    /\ sent = [b \in Browsers |-> 0]
    /\ incoming = <<>> /\ polled = <<>>

-----------------------------------------------------------------------------
(* The simulator's thread. *)

\* Before the thread has made the loop the data is dropped.
Push ==
    /\ pushed < MaxPushes
    /\ pushed' = pushed + 1
    /\ IF loop = "none" THEN early' = early + 1 /\ UNCHANGED ready
       ELSE ready' = Append(ready, pushed + 1) /\ UNCHANGED early
    /\ UNCHANGED <<loop, queue, sendVars, browserVars, commandVars>>

PollIncoming ==
    /\ incoming # <<>>
    /\ polled' = polled \o incoming
    /\ incoming' = <<>>
    /\ UNCHANGED <<pushVars, sendVars, browserVars, inbox, sent>>

-----------------------------------------------------------------------------
(* The WebSocket thread. *)

NewEventLoop ==
    /\ loop = "none"
    /\ loop' = "set"
    /\ UNCHANGED <<pushed, early, ready, queue, sendVars, browserVars, commandVars>>

\* websockets.serve raises if the port is taken, and the loop stops for good.
Serve ==
    /\ loop = "set"
    /\ loop' \in {"serving", "failed"}
    /\ UNCHANGED <<pushed, early, ready, queue, sendVars, browserVars, commandVars>>

\* The coroutine run_coroutine_threadsafe was given.
Put ==
    /\ loop \in {"set", "serving"}
    /\ ready # <<>>
    /\ queue' = Append(queue, Head(ready))
    /\ ready' = Tail(ready)
    /\ UNCHANGED <<loop, pushed, early, sendVars, browserVars, commandVars>>

\* Seeded fault: the sends are started, and nobody waits for them.
BroadcastAtOnce ==
    /\ loop = "serving"
    /\ queue # <<>>
    /\ data' = Head(queue)
    /\ queue' = Tail(queue)
    /\ sending' = clients
    /\ UNCHANGED <<loop, pushed, early, ready, received, browserVars, commandVars>>

\* _ws_main goes on when the sends of the message before are done.
Broadcast ==
    /\ loop = "serving"
    /\ sending = {}
    /\ queue # <<>>
    /\ data' = Head(queue)
    /\ queue' = Tail(queue)
    /\ sending' = clients
    /\ UNCHANGED <<loop, pushed, early, ready, received, browserVars, commandVars>>

SendDone(b) ==
    /\ b \in sending
    /\ conn[b] = "open"
    /\ received' = [received EXCEPT ![b] = Append(@, data)]
    /\ sending' = sending \ {b}
    /\ UNCHANGED <<pushVars, data, browserVars, commandVars>>

\* Seeded fault: gather without return_exceptions.
SendRaises(b) ==
    /\ loop = "serving"
    /\ b \in sending
    /\ conn[b] = "closed"
    /\ loop' = "crashed"
    /\ UNCHANGED <<pushed, early, ready, queue, sendVars, browserVars, commandVars>>

\* The exception is one of the results of gather.
SendFails(b) ==
    /\ b \in sending
    /\ conn[b] = "closed"
    /\ sending' = sending \ {b}
    /\ UNCHANGED <<pushVars, data, received, browserVars, commandVars>>

-----------------------------------------------------------------------------
(* _ws_handler *)

Join(b) ==
    /\ conn[b] # "none"
    /\ handler[b] = "none"
    /\ handler' = [handler EXCEPT ![b] = "running"]
    /\ clients' = clients \cup {b}
    /\ joined' = [joined EXCEPT ![b] = data]
    /\ UNCHANGED <<pushVars, sendVars, conn, commandVars>>

Receive(b) ==
    /\ handler[b] = "running"
    /\ inbox[b] # <<>>
    /\ incoming' = Append(incoming, [from |-> b, n |-> Head(inbox[b])])
    /\ inbox' = [inbox EXCEPT ![b] = Tail(@)]
    /\ UNCHANGED <<pushVars, sendVars, browserVars, sent, polled>>

\* The iteration over a closed connection ends once what it holds is read.
Leave(b) ==
    /\ handler[b] = "running"
    /\ conn[b] = "closed"
    /\ inbox[b] = <<>>
    /\ handler' = [handler EXCEPT ![b] = "done"]
    /\ clients' = clients \ {b}
    /\ UNCHANGED <<pushVars, sendVars, conn, joined, commandVars>>

-----------------------------------------------------------------------------
(* The browsers and the library. *)

BecomesOneOf(b, states) ==
    /\ \E s \in states : conn' = [conn EXCEPT ![b] = s]
    /\ UNCHANGED <<pushVars, sendVars, clients, handler, joined, commandVars>>

Connect(b) == loop = "serving" /\ conn[b] = "none" /\ BecomesOneOf(b, {"open"})
StallOrClose(b) == conn[b] = "open" /\ BecomesOneOf(b, {"stuck", "closed"})
KeepaliveTimeout(b) == conn[b] = "stuck" /\ BecomesOneOf(b, {"closed"})

Command(b) ==
    /\ conn[b] = "open"
    /\ sent[b] < MaxCommands
    /\ sent' = [sent EXCEPT ![b] = @ + 1]
    /\ inbox' = [inbox EXCEPT ![b] = Append(@, sent[b] + 1)]
    /\ UNCHANGED <<pushVars, sendVars, browserVars, incoming, polled>>

-----------------------------------------------------------------------------
Next ==
    \/ Push \/ PollIncoming \/ NewEventLoop \/ Serve \/ Put \/ Broadcast
    \/ \E b \in Browsers :
          \/ SendDone(b) \/ SendFails(b) \/ Join(b) \/ Receive(b) \/ Leave(b)
          \/ Connect(b) \/ StallOrClose(b) \/ KeepaliveTimeout(b) \/ Command(b)

Spec == Init /\ [][Next]_vars

\* The loop runs every task that can go on, the library times out, the simulator
\* polls with each event.  Browsers do what they like.
FairSpec ==
    /\ Spec
    /\ WF_vars(PollIncoming) /\ WF_vars(NewEventLoop) /\ WF_vars(Serve)
    /\ WF_vars(Put) /\ WF_vars(Broadcast)
    /\ \A b \in Browsers :
          /\ WF_vars(SendDone(b)) /\ WF_vars(SendFails(b)) /\ WF_vars(KeepaliveTimeout(b))
          /\ WF_vars(Join(b)) /\ WF_vars(Receive(b)) /\ WF_vars(Leave(b))

-----------------------------------------------------------------------------
(***************************************************************************)
(* Properties.                                                             *)
(***************************************************************************)
Floor(b) == Max({joined[b], early})

\* In order, from when it joins.
ReceivedInOrder(b) == \A i \in DOMAIN received[b] : received[b][i] = Floor(b) + i

\* Without a gap, to when its connection closes.
KeepsUp(b) ==
    b \in clients /\ conn[b] # "closed" =>
        Floor(b) + Len(received[b]) = IF b \in sending THEN data - 1 ELSE Max({data, early})

Taken == polled \o incoming
TakenFrom(b) == {i \in DOMAIN Taken : Taken[i].from = b}

\* Once each and in order: the commands taken, then those in the inbox.
CommandsInOrder(b) ==
    LET read == sent[b] - Len(inbox[b]) IN
    /\ read >= 0
    /\ \A i, j \in TakenFrom(b) : i < j => Taken[i].n < Taken[j].n
    /\ {Taken[i].n : i \in TakenFrom(b)} = 1..read
    /\ \A i \in DOMAIN inbox[b] : inbox[b][i] = read + i

\* A browser receives what is pushed in order and without a gap, from when it joins
\* to when its connection closes, while others join, stall and leave during a
\* broadcast; only what is pushed before the loop exists is lost.  Its commands
\* are polled in order, once each, also those of one that has left.
NothingIsSkipped ==
    \A b \in Browsers : ReceivedInOrder(b) /\ KeepsUp(b) /\ CommandsInOrder(b)

\* Unless the server could not start, what is pushed is sent to all and what the
\* browsers send is polled: one that has stopped reading holds up the others only
\* until its connection times out, and one that fails holds up nobody.
BridgeDelivers ==
    []<>(\/ loop = "failed"
         \/ /\ ready = <<>> /\ queue = <<>> /\ sending = {} /\ incoming = <<>>
            /\ \A b \in Browsers : inbox[b] = <<>>)
=============================================================================
