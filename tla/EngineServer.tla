---------------------------- MODULE EngineServer ----------------------------
(***************************************************************************)
(* The engine process: the I/O thread (TcpServer::poll, called in a loop   *)
(* by main), the engine thread (the loop of MatchingEngine::start with     *)
(* process_client_command) and the two queues between them.                *)
(*                                                                         *)
(* The I/O thread is split where the engine thread can interleave: at poll *)
(* itself, for each client served, each message processed and each engine  *)
(* event consumed.  The queues are the bounded FIFOs SPSCQueue is shown to *)
(* implement.  The book is reduced to the ids in it: a new order enters it *)
(* if its id is new and the pool has room, and matching may take any       *)
(* orders out, the new one included (MatchingEngine has the details).      *)
(*                                                                         *)
(* Sockets: a connection delivers whole messages in order (Wire shows      *)
(* when), and always has room for what the server sends.                   *)
(***************************************************************************)
EXTENDS Integers, Sequences, FiniteSets, SequencesExt

CONSTANTS
    Clients,       \* connections that may be made
    Ids,           \* order ids
    PoolCapacity,  \* orders the pool has room for
    InCapacity,    \* capacity of in_queue_ (8192 in the code)
    OutCapacity,   \* capacity of out_queue_ (8192 in the code)
    EventsPerTick, \* events consumed per poll (100 in the code)
    MaxMessages,   \* bound on the messages the clients send
    Kinds,         \* kinds of messages the clients send
    Leavers        \* clients that may close or reset their connections

MessageKinds == {"NEW", "CANCEL", "MODIFY", "INVALID", "OTHER"}

ASSUME ServerAssumption ==
    /\ PoolCapacity \in Nat \ {0}
    /\ InCapacity \in Nat \ {0}
    /\ OutCapacity \in Nat \ {0}
    /\ EventsPerTick \in Nat \ {0}
    /\ MaxMessages \in Nat
    /\ Kinds \in SUBSET MessageKinds
    /\ Leavers \subseteq Clients
    /\ IsFiniteSet(Clients)

VARIABLES
    conn,     \* each connection: "none", "pending", "open", "closed", "reset"
              \* on the client's side, "removed" once the server has closed it
    recv,     \* messages in the connection, not yet read by the server
    clients,  \* clients_, whose positions are the client_idx of commands
    sendbuf,  \* send_buffer of each client
    seen,     \* version of the last BOOK_UPDATE the client has got, 0 if none
    iopc,     \* "poll", "serve", "batch" or "consume"
    fds,      \* what ::poll reported, by position in clients_
    pos,      \* loop index of "serve", number of events done of "consume"
    batch,    \* messages read from the client being served
    in_q, out_q,
    epc,      \* "idle", "work" or "emit"
    cmd,      \* the command the engine thread has popped
    event,    \* the event it is pushing
    book,     \* ids in order_map_
    version,  \* number of book snapshots taken
    sent,     \* number of messages sent by the clients
    unanswered \* numbers of the commands put in in_q, and not answered yet

netVars == <<conn, recv, sent>>
ioVars == <<clients, sendbuf, seen, iopc, fds, pos, batch>>
engineVars == <<epc, cmd, event, book, version>>
vars == <<conn, recv, clients, sendbuf, seen, iopc, fds, pos, batch,
          in_q, out_q, epc, cmd, event, book, version, sent, unanswered>>

None == [kind |-> "NONE"]

Init ==
    /\ conn = [c \in Clients |-> "none"]
    /\ recv = [c \in Clients |-> <<>>]
    /\ clients = <<>>
    /\ sendbuf = [c \in Clients |-> <<>>]
    /\ seen = [c \in Clients |-> 0]
    /\ iopc = "poll" /\ fds = <<>> /\ pos = 0 /\ batch = <<>>
    /\ in_q = <<>> /\ out_q = <<>>
    /\ epc = "idle" /\ cmd = None /\ event = None
    /\ book = {} /\ version = 0 /\ sent = 0 /\ unanswered = {}

-----------------------------------------------------------------------------
(* Clients, outside the process. *)

Connect(c) ==
    /\ conn[c] = "none"
    /\ conn' = [conn EXCEPT ![c] = "pending"]
    /\ UNCHANGED <<recv, sent, ioVars, in_q, out_q, engineVars, unanswered>>

Send(c, k, id) ==
    /\ conn[c] \in {"pending", "open"}
    /\ sent < MaxMessages
    /\ sent' = sent + 1
    /\ recv' = [recv EXCEPT ![c] =
                   Append(@, [kind |-> k, id |-> id, from |-> c, n |-> sent + 1])]
    /\ UNCHANGED <<conn, ioVars, in_q, out_q, engineVars, unanswered>>

\* A message of a type process_message does not know, which it ignores: the
\* client shows activity and nothing else.
Chat(c) ==
    /\ "OTHER" \in Kinds
    /\ conn[c] = "open"
    /\ recv[c] = <<>>
    /\ recv' = [recv EXCEPT ![c] = <<[kind |-> "OTHER", from |-> c, n |-> 0]>>]
    /\ UNCHANGED <<conn, sent, ioVars, in_q, out_q, engineVars, unanswered>>

Disconnect(c, how) ==
    /\ c \in Leavers
    /\ conn[c] \in {"pending", "open"}
    /\ conn' = [conn EXCEPT ![c] = how]
    /\ UNCHANGED <<recv, sent, ioVars, in_q, out_q, engineVars, unanswered>>

-----------------------------------------------------------------------------
(* TcpServer::poll *)

Accepted == ToSet(clients)

\* Connections the listening socket reports: asked for, and not accepted yet.
Backlog == {c \in Clients : conn[c] \in {"pending", "closed", "reset"}} \ Accepted

Revents(c) == [hup |-> conn[c] = "reset",
               in  |-> recv[c] # <<>> \/ conn[c] = "closed",
               out |-> sendbuf[c] # <<>>]

Quiet == [hup |-> FALSE, in |-> FALSE, out |-> FALSE]

\* The descriptors are collected before the new client is accepted.  When none
\* is ready the call returns after its timeout and nothing else is done.
Poll ==
    LET ready == [i \in 1..Len(clients) |-> Revents(clients[i])] IN
    /\ iopc = "poll"
    /\ Backlog # {} \/ \E i \in 1..Len(clients) : ready[i] # Quiet
    /\ fds' = ready
    /\ pos' = 1
    /\ iopc' = "serve"
    /\ IF Backlog = {}
       THEN UNCHANGED <<clients, conn>>
       ELSE \E c \in Backlog :
               /\ clients' = Append(clients, c)
               /\ conn' = [conn EXCEPT ![c] = IF @ = "pending" THEN "open" ELSE @]
    /\ UNCHANGED <<recv, sent, sendbuf, seen, batch, in_q, out_q, engineVars,
                   unanswered>>

PollTimeout ==
    /\ iopc = "poll"
    /\ Backlog = {}
    /\ \A c \in Accepted : Revents(c) = Quiet
    /\ UNCHANGED vars

\* fds[fd_idx] for the client at position pos of clients_ as it is now.  Past
\* the end (a client has just been accepted) the value read is arbitrary.
Reported == IF pos <= Len(fds) THEN {fds[pos]}
            ELSE [hup: BOOLEAN, in: BOOLEAN, out: BOOLEAN]

\* remove_client: the clients behind it move up by one position.
RemoveClient(i) ==
    /\ conn' = [conn EXCEPT ![clients[i]] = "removed"]
    /\ recv' = [recv EXCEPT ![clients[i]] = <<>>]
    /\ clients' = RemoveAt(clients, i)

\* handle_client_write: the clients in S get what is in their buffers, while
\* the buffers of those in gone go with them.
Versions(s) == {s[i].version : i \in {j \in 1..Len(s) : s[j].kind = "UPDATE"}}

Flush(S, gone) ==
    /\ sendbuf' = [c \in Clients |-> IF c \in S \cup gone THEN <<>> ELSE sendbuf[c]]
    /\ seen' = [c \in Clients |-> IF c \in S THEN Max(Versions(sendbuf[c]) \cup {seen[c]})
                                              ELSE seen[c]]

Writable(r, i) == IF r.out /\ i <= Len(clients) THEN {clients[i]} ELSE {}

\* One client of the loop, by what the descriptor at its position reports.  A
\* read that finds nothing (end of file, or a socket with no data) removes the
\* client, and the POLLOUT is then served for the one that has moved up.  Behind
\* the last one clients_[i] is past the end: what is read there is the socket
\* just closed, on which send fails and changes nothing.
ServeHangup(r) ==
    /\ r.hup
    /\ RemoveClient(pos)
    /\ Flush({}, {clients[pos]})
    /\ pos' = pos + 1
    /\ UNCHANGED <<iopc, batch>>

ServeEmptyRead(r) ==
    /\ ~r.hup /\ r.in
    /\ recv[clients[pos]] = <<>>
    /\ RemoveClient(pos)
    /\ Flush(Writable(r, pos + 1), {clients[pos]})
    /\ pos' = pos + 1
    /\ UNCHANGED <<iopc, batch>>

ServeRead(r) ==
    /\ ~r.hup /\ r.in
    /\ recv[clients[pos]] # <<>>
    /\ batch' = recv[clients[pos]]
    /\ recv' = [recv EXCEPT ![clients[pos]] = <<>>]
    /\ iopc' = "batch"
    /\ UNCHANGED <<conn, clients, sendbuf, seen, pos>>

ServeWrite(r) ==
    /\ ~r.hup /\ ~r.in
    /\ Flush(Writable(r, pos), {})
    /\ pos' = pos + 1
    /\ UNCHANGED <<conn, recv, clients, iopc, batch>>

Serve ==
    /\ iopc = "serve"
    /\ pos <= Len(clients)
    /\ \E r \in Reported :
          ServeHangup(r) \/ ServeEmptyRead(r) \/ ServeRead(r) \/ ServeWrite(r)
    /\ UNCHANGED <<sent, fds, in_q, out_q, engineVars, unanswered>>

\* Seeded faults: the event counter is not reset; the events are left alone.
EndServeKeepsPos ==
    /\ iopc = "serve"
    /\ pos > Len(clients)
    /\ iopc' = "consume"
    /\ pos' = pos
    /\ fds' = <<>>
    /\ UNCHANGED <<netVars, clients, sendbuf, seen, batch, in_q, out_q,
                   engineVars, unanswered>>

EndServeNoEvents ==
    /\ iopc = "serve"
    /\ pos > Len(clients)
    /\ iopc' = "poll"
    /\ pos' = 0
    /\ fds' = <<>>
    /\ UNCHANGED <<netVars, clients, sendbuf, seen, batch, in_q, out_q,
                   engineVars, unanswered>>

EndServe ==
    /\ iopc = "serve"
    /\ pos > Len(clients)
    /\ iopc' = "consume"
    /\ pos' = 0
    /\ fds' = <<>>
    /\ UNCHANGED <<netVars, clients, sendbuf, seen, batch, in_q, out_q,
                   engineVars, unanswered>>

-----------------------------------------------------------------------------
(* process_message, on the first message of the batch. *)

Rejection(m, why) == [kind |-> "REJECT", n |-> m.n, from |-> m.from, reason |-> why]

\* Seeded fault: the position is one too small.
SendRejectOffByOne(i, reject) ==
    IF i > Len(clients) THEN UNCHANGED sendbuf
    ELSE sendbuf' = [sendbuf EXCEPT ![clients[IF i = 1 THEN 1 ELSE i - 1]] =
                        Append(@, reject)]

\* send_reject, to whoever is at position i now.
SendReject(i, reject) ==
    IF i > Len(clients) THEN UNCHANGED sendbuf
    ELSE sendbuf' = [sendbuf EXCEPT ![clients[i]] = Append(@, reject)]

\* has_order reads order_map_ from the I/O thread: while the engine thread is
\* at work on it the answer may be either.
HasOrder(id) == IF epc = "work" THEN BOOLEAN ELSE {id \in book}

\* The result of push is ignored: a full queue loses the command.
PushCommand(m) ==
    in_q' = IF Len(in_q) = InCapacity THEN in_q
            ELSE Append(in_q, [kind |-> m.kind, id |-> m.id, from |-> m.from,
                               n |-> m.n, client_idx |-> pos])

ProcessReject(m) ==
    \E why \in {"INVALID_PARAMS", "DUPLICATE_ID"} :
        /\ why = "INVALID_PARAMS" => m.kind = "INVALID"
        /\ why = "DUPLICATE_ID" => m.kind = "NEW" /\ TRUE \in HasOrder(m.id)
        /\ SendReject(pos, Rejection(m, why))
        /\ UNCHANGED <<in_q, unanswered>>

ProcessCommand(m) ==
    /\ m.kind \in {"NEW", "CANCEL", "MODIFY"}
    /\ m.kind = "NEW" => FALSE \in HasOrder(m.id)
    /\ PushCommand(m)
    /\ unanswered' = IF Len(in_q) = InCapacity THEN unanswered
                                              ELSE unanswered \cup {m.n}
    /\ UNCHANGED sendbuf

ProcessOther(m) ==
    /\ m.kind = "OTHER"
    /\ UNCHANGED <<sendbuf, in_q, unanswered>>

\* Seeded fault: the newest message first.
ProcessLastMessage ==
    /\ iopc = "batch"
    /\ batch # <<>>
    /\ \/ ProcessReject(Last(batch))
       \/ ProcessCommand(Last(batch))
       \/ ProcessOther(Last(batch))
    /\ batch' = Front(batch)
    /\ UNCHANGED <<netVars, clients, seen, iopc, fds, pos, out_q, engineVars>>

ProcessMessage ==
    /\ iopc = "batch"
    /\ batch # <<>>
    /\ \/ ProcessReject(Head(batch))
       \/ ProcessCommand(Head(batch))
       \/ ProcessOther(Head(batch))
    /\ batch' = Tail(batch)
    /\ UNCHANGED <<netVars, clients, seen, iopc, fds, pos, out_q, engineVars>>

\* After the read, the same client's POLLOUT.
EndBatch ==
    /\ iopc = "batch"
    /\ batch = <<>>
    /\ iopc' = "serve"
    /\ pos' = pos + 1
    /\ \E r \in Reported : Flush(Writable(r, pos), {})
    /\ UNCHANGED <<netVars, clients, fds, batch, in_q, out_q, engineVars,
                   unanswered>>

-----------------------------------------------------------------------------
(* consume_engine_events *)

\* Seeded fault: a client with something to send is passed over.
BroadcastToIdle(e) ==
    sendbuf' = [c \in Clients |-> IF c \in Accepted /\ sendbuf[c] = <<>>
                                  THEN <<e>> ELSE sendbuf[c]]

Broadcast(e) ==
    sendbuf' = [c \in Clients |-> IF c \in Accepted THEN Append(sendbuf[c], e)
                                                    ELSE sendbuf[c]]

ConsumeEvent ==
    /\ iopc = "consume"
    /\ pos < EventsPerTick
    /\ out_q # <<>>
    /\ LET e == Head(out_q) IN
       /\ IF e.kind = "UPDATE"
          THEN Broadcast([kind |-> "UPDATE", version |-> e.version])
          ELSE SendReject(e.client_idx, Rejection(e, e.reason))
       /\ unanswered' = unanswered \ {e.n}
    /\ out_q' = Tail(out_q)
    /\ pos' = pos + 1
    /\ UNCHANGED <<netVars, clients, seen, iopc, fds, batch, in_q, engineVars>>

EndConsume ==
    /\ iopc = "consume"
    /\ pos = EventsPerTick \/ out_q = <<>>
    /\ iopc' = "poll"
    /\ pos' = 0
    /\ UNCHANGED <<netVars, clients, sendbuf, seen, fds, batch, in_q, out_q,
                   engineVars, unanswered>>

-----------------------------------------------------------------------------
(* The engine thread. *)

PopCommand ==
    /\ epc = "idle"
    /\ in_q # <<>>
    /\ cmd' = Head(in_q)
    /\ in_q' = Tail(in_q)
    /\ epc' = "work"
    /\ UNCHANGED <<netVars, ioVars, out_q, event, book, version, unanswered>>

Update(c) == [kind |-> "UPDATE", n |-> c.n, from |-> c.from,
              version |-> version + 1]

EngineReject(c, why) == [kind |-> "REJECT", n |-> c.n, from |-> c.from,
                         client_idx |-> c.client_idx, reason |-> why]

Refused(id) == id \in book \/ Cardinality(book) = PoolCapacity

\* A new order is answered with a snapshot of the book, whatever became of it.
ProcessNew ==
    /\ cmd.kind = "NEW"
    /\ IF Refused(cmd.id) THEN UNCHANGED book
       ELSE \E filled \in SUBSET (book \cup {cmd.id}) :
               book' = (book \cup {cmd.id}) \ filled
    /\ event' = Update(cmd)
    /\ version' = version + 1

ProcessCancel ==
    /\ cmd.kind = "CANCEL"
    /\ IF cmd.id \in book
       THEN /\ book' = book \ {cmd.id}
            /\ event' = Update(cmd)
            /\ version' = version + 1
       ELSE /\ event' = EngineReject(cmd, "ORDER_NOT_FOUND")
            /\ UNCHANGED <<book, version>>

\* Whether a modification of a known order is accepted depends on quantities.
ProcessModify ==
    /\ cmd.kind = "MODIFY"
    /\ \/ /\ cmd.id \in book
          /\ event' = Update(cmd)
          /\ version' = version + 1
       \/ /\ event' = EngineReject(cmd, "INVALID_MODIFY")
          /\ UNCHANGED version
    /\ UNCHANGED book

Work ==
    /\ epc = "work"
    /\ ProcessNew \/ ProcessCancel \/ ProcessModify
    /\ epc' = "emit"
    /\ cmd' = None
    /\ UNCHANGED <<netVars, ioVars, in_q, out_q, unanswered>>

\* Seeded fault: an event that finds no room is dropped.
EmitOrDrop ==
    /\ epc = "emit"
    /\ out_q' = IF Len(out_q) < OutCapacity THEN Append(out_q, event) ELSE out_q
    /\ event' = None
    /\ epc' = "idle"
    /\ UNCHANGED <<netVars, ioVars, in_q, cmd, book, version, unanswered>>

\* The engine thread spins until out_queue_ has room.
Emit ==
    /\ epc = "emit"
    /\ Len(out_q) < OutCapacity
    /\ out_q' = Append(out_q, event)
    /\ event' = None
    /\ epc' = "idle"
    /\ UNCHANGED <<netVars, ioVars, in_q, cmd, book, version, unanswered>>

-----------------------------------------------------------------------------
ClientStep ==
    \E c \in Clients :
        \/ Connect(c)
        \/ \E k \in Kinds \ {"OTHER"}, id \in Ids : Send(c, k, id)
        \/ Chat(c)
        \/ Disconnect(c, "closed")
        \/ Disconnect(c, "reset")

IOStep == Poll \/ PollTimeout \/ Serve \/ EndServe \/ ProcessMessage \/ EndBatch
          \/ ConsumeEvent \/ EndConsume

EngineStep == PopCommand \/ Work \/ Emit

Next == ClientStep \/ IOStep \/ EngineStep

Spec == Init /\ [][Next]_vars

\* Both threads run; the clients do what they like.
FairSpec == Spec /\ WF_vars(IOStep) /\ WF_vars(EngineStep)

-----------------------------------------------------------------------------
(***************************************************************************)
(* Properties.                                                             *)
(***************************************************************************)

\* Type invariant: no socket is in clients_ twice, the queues are within their
\* capacities and the loop indices within their loops.
TypeOK ==
    /\ conn \in [Clients -> {"none", "pending", "open", "closed", "reset", "removed"}]
    /\ clients \in Seq(Clients) /\ IsInjective(clients)
    /\ seen \in [Clients -> 0..version]
    /\ iopc \in {"poll", "serve", "batch", "consume"}
    /\ iopc \in {"serve", "batch"} => pos \in 1..(Cardinality(Clients) + 1)
    /\ iopc = "consume" => pos \in 0..EventsPerTick
    /\ iopc = "batch" => pos <= Len(clients)
    /\ Len(in_q) <= InCapacity /\ Len(out_q) <= OutCapacity
    /\ epc \in {"idle", "work", "emit"}
    /\ book \subseteq Ids /\ Cardinality(book) <= PoolCapacity

Numbers(s) == {s[i].n : i \in 1..Len(s)}

InEngine == (IF epc = "work" THEN <<cmd>> ELSE <<>>)
            \o (IF epc = "emit" THEN <<event>> ELSE <<>>)

\* Every command that found room in in_queue_ is in a queue or in the engine
\* thread's hands until its answer (a REJECT, or the BOOK_UPDATE that follows
\* it) is handed to a send buffer: the spin on a full out_queue_ loses nothing.
NothingVanishes ==
    unanswered \subseteq Numbers(in_q) \cup Numbers(InEngine) \cup Numbers(out_q)

\* Until a client is removed, a REJECT is queued for the client whose command it
\* answers: it is routed by a position in clients_ recorded two queues earlier, and
\* erase shifts the positions (RejectTargetsSender shows what happens then).
RejectReachesSender ==
    (\A c \in Clients : conn[c] # "removed") =>
        \A c \in Clients : \A i \in 1..Len(sendbuf[c]) :
            sendbuf[c][i].kind = "REJECT" => sendbuf[c][i].from = c

\* Commands of one client, in the order it sent them.
Sorted(s, c) ==
    \A i, j \in 1..Len(s) :
        i < j /\ s[i].from = c /\ s[j].from = c /\ s[i].n # 0 /\ s[j].n # 0 => s[i].n < s[j].n

\* The commands of one client reach the engine in the order it sent them.
CommandsInOrder ==
    \A c \in Clients : Sorted(out_q \o InEngine \o in_q \o batch \o recv[c], c)

\* Snapshots in the order in which they were taken.
Ascending(s) ==
    \A i, j \in 1..Len(s) :
        i < j /\ s[i].kind = "UPDATE" /\ s[j].kind = "UPDATE" => s[i].version < s[j].version

\* A client that has got one book snapshot gets every later one, in order.
UpdatesInOrder ==
    \A c \in Accepted :
        LET way == sendbuf[c] \o out_q \o InEngine IN
        /\ Ascending(way)
        /\ \E base \in 0..version : /\ Versions(way) = (base + 1)..version
                                    /\ seen[c] # 0 => seen[c] = base

\* If poll does not from some time on end in its timeout every time, every command
\* is answered: each ready poll consumes engine events, the engine thread's spin on
\* a full out_queue_ ends, and a command that finds the id gone or taken, whatever
\* has_order said, is answered too.
CommandsAreAnswered ==
    []<>(iopc = "serve") =>
        \A n \in 1..MaxMessages : (n \in unanswered) ~> (n \notin unanswered)

-----------------------------------------------------------------------------
(***************************************************************************)
(* What comments say of the code and the code does not do.                 *)
(***************************************************************************)

\* "Broadcast after each event" (message.hpp, of the book snapshot): the snapshot
\* the engine has taken after a command goes to the clients, with no more assumed
\* than that both threads run.
EventsAreBroadcast ==
    \A n \in 1..MaxMessages : (n \in Numbers(out_q)) ~> (n \notin Numbers(out_q))

\* "Used for Reject to target a specific client" (message.hpp, of client_idx): the
\* client at this position is the one whose command is rejected, also when another
\* one has left in between.
RejectTargetsSender ==
    \A c \in Clients : \A i \in 1..Len(sendbuf[c]) :
        sendbuf[c][i].kind = "REJECT" => sendbuf[c][i].from = c
=============================================================================
