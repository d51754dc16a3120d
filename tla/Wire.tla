-------------------------------- MODULE Wire --------------------------------
(***************************************************************************)
(* One connection between TcpClient of market/tcp_client.py and TcpServer  *)
(* of the engine, byte by byte: frames of a header and a payload, sockets  *)
(* that take or give a part of what is asked, the buffer each side reads   *)
(* into and the loop that cuts frames out of it.                           *)
(*                                                                         *)
(* A byte is known by the message it was written for and its place in the  *)
(* frame.  The length field of bytes that are not a header is arbitrary.   *)
(***************************************************************************)
EXTENDS Integers, Sequences, SequencesExt

CONSTANTS
    Header,      \* bytes of a header (5 in the code)
    Payload,     \* payload bytes of each kind of message
    UpKinds,     \* kinds the client sends
    DownKinds,   \* kinds the server sends
    UpRoom,      \* bytes the client's socket has room for
    DownRoom,    \* bytes the server's socket has room for
    RecvMax,     \* bytes TcpClient.poll reads at a time (4096)
    BufferSize,  \* bytes of the server's recv_buffer (4096)
    MaxSends,    \* bound on the messages the client tries to send
    MaxReplies   \* bound on the messages the server sends

MaxPayload == Max({Payload[k] : k \in DOMAIN Payload})

ASSUME WireAssumption ==
    /\ {Header, UpRoom, DownRoom, RecvMax, BufferSize} \subseteq Nat \ {0}
    /\ {MaxSends, MaxReplies} \subseteq Nat
    /\ UpKinds \cup DownKinds \subseteq DOMAIN Payload
    /\ Payload \in [DOMAIN Payload -> Nat]
    /\ \E k \in DOMAIN Payload : \A j \in DOMAIN Payload : Payload[j] <= Payload[k]
    /\ BufferSize >= Header + MaxPayload

VARIABLES
    sent,       \* messages of which the client has sent a byte
    torn,       \* place in sent of the first that was sent in part, 0 if none
    tries,      \* number of calls of send_new_order and send_cancel
    up,         \* bytes between the client and the server
    rbuf,       \* recv_buffer of the server, up to recv_offset
    handled,    \* messages process_message has been called with
    alive,      \* whether the server has the client
    replies,    \* messages put in send_buffer
    sbuf,       \* send_buffer of the server
    down,       \* bytes between the server and the client
    cbuf,       \* _recv_buffer of the client
    polled,     \* messages poll has cut out of it
    closed      \* whether the client has closed the connection

upVars == <<sent, torn, tries, up>>
serverVars == <<rbuf, handled, alive>>
downVars == <<replies, sbuf, down>>
clientVars == <<cbuf, polled>>
vars == <<upVars, serverVars, downVars, clientVars, closed>>

\* Messages are numbered, so that equal ones can be told apart.
Message(k, n) == [kind |-> k, n |-> n]
Frame(m) == [i \in 1..(Header + Payload[m.kind]) |-> [m |-> m, i |-> i]]
Garbage == [kind |-> "GARBAGE", n |-> 0]

Init ==
    /\ sent = <<>> /\ torn = 0 /\ tries = 0 /\ up = <<>>
    /\ rbuf = <<>> /\ handled = <<>> /\ alive = TRUE
    /\ replies = <<>> /\ sbuf = <<>> /\ down = <<>>
    /\ cbuf = <<>> /\ polled = <<>> /\ closed = FALSE

-----------------------------------------------------------------------------
(* The loop that both sides run over their buffer. *)

\* The length field at position p: g if the bytes there are no header.
LengthAt(buf, p, g) ==
    LET m == buf[p + 1].m IN
    IF SubSeq(buf, p + 1, p + Header) = SubSeq(Frame(m), 1, Header)
    THEN Payload[m.kind] ELSE g

SizeAt(buf, p, g) == Header + LengthAt(buf, p, g)

MessageAt(buf, p, g) ==
    IF SubSeq(buf, p + 1, p + SizeAt(buf, p, g)) = Frame(buf[p + 1].m)
    THEN buf[p + 1].m ELSE Garbage

\* Seeded fault: any length is waited for.
NoOversize(buf, p, g) == FALSE

\* The header announces more than MAX_MSG_SIZE (the server's never does).
Oversized(buf, p, g) == p + Header <= Len(buf) /\ LengthAt(buf, p, g) > MaxPayload

FrameIsThere(buf, p, g) ==
    p + Header <= Len(buf) /\ ~Oversized(buf, p, g) /\ p + SizeAt(buf, p, g) <= Len(buf)

\* The whole frames of a buffer from position p on: their messages, and the
\* position behind them.
Parse(buf, g) ==
    LET cut[p \in 0..(Len(buf) + Header + MaxPayload + 1)] ==
            IF ~FrameIsThere(buf, p, g) THEN [msgs |-> <<>>, pos |-> p]
            ELSE LET rest == cut[p + SizeAt(buf, p, g)] IN
                 [msgs |-> <<MessageAt(buf, p, g)>> \o rest.msgs, pos |-> rest.pos]
    IN  cut[0]

Rest(buf, p) == SubSeq(buf, p + 1, Len(buf))

-----------------------------------------------------------------------------
(* From the client to the server. *)

\* sendall: the socket takes what it has room for; if that is not all of the frame
\* the call raises, and the caller goes on with its next message.
ClientSend(k) ==
    /\ ~closed
    /\ tries < MaxSends
    /\ tries' = tries + 1
    /\ LET m == Message(k, tries + 1)
           bytes == SubSeq(Frame(m), 1, Min({UpRoom - Len(up), Len(Frame(m))})) IN
       /\ up' = up \o bytes
       /\ sent' = IF bytes = <<>> THEN sent ELSE Append(sent, m)
       /\ torn' = IF torn = 0 /\ bytes # <<>> /\ Len(bytes) < Len(Frame(m))
                  THEN Len(sent) + 1 ELSE torn
    /\ UNCHANGED <<serverVars, downVars, clientVars, closed>>

\* Seeded fault: the bytes of an incomplete frame are dropped.
KeepsNothing(buf, p) == <<>>

\* The buffer is compacted: what is left of it moves to the front.
Compacted(buf, p) == Rest(buf, p)

\* handle_client_read: recv returns at least one byte, and at most what it has room
\* for.
ServerRead ==
    /\ alive
    /\ up # <<>>
    /\ \E n \in 1..Len(up), g \in 0..(MaxPayload + 1) :
          LET buf == rbuf \o SubSeq(up, 1, n)
              done == Parse(buf, g) IN
          /\ Len(buf) <= BufferSize
          /\ up' = Rest(up, n)
          /\ handled' = handled \o done.msgs
          /\ rbuf' = Compacted(buf, done.pos)
          /\ alive' = ~Oversized(buf, done.pos, g)
    /\ UNCHANGED <<sent, torn, tries, downVars, clientVars, closed>>

\* recv returns 0 or fails, and the client is removed: end of file, a connection
\* that is reset because the client closed it before it had read everything (what
\* is in it is lost), or a recv_buffer without room.
ServerSeesEnd ==
    /\ alive
    /\ \/ closed /\ (up = <<>> \/ down # <<>>)
       \/ up # <<>> /\ Len(rbuf) = BufferSize
    /\ alive' = FALSE
    /\ UNCHANGED <<upVars, rbuf, handled, downVars, clientVars, closed>>

\* While the descriptors of poll and clients_ are out of step (EngineServer) the
\* client is removed for another one's report: for its hangup, or for its data,
\* when recv finds none here and fails.
RemovedForAnother ==
    /\ alive
    /\ alive' = FALSE
    /\ UNCHANGED <<upVars, rbuf, handled, downVars, clientVars, closed>>

-----------------------------------------------------------------------------
(* From the server to the client. *)

\* send_reject and broadcast serialize a message to the end of send_buffer.
ServerReply(k) ==
    /\ alive
    /\ Len(replies) < MaxReplies
    /\ LET m == Message(k, Len(replies) + 1) IN
       /\ replies' = Append(replies, m)
       /\ sbuf' = sbuf \o Frame(m)
    /\ UNCHANGED <<upVars, serverVars, down, clientVars, closed>>

\* Seeded fault: the buffer is cleared whatever was sent.
SendBufferCleared(n) == <<>>

\* handle_client_write: what was sent is erased.
SendBufferAfter(n) == Rest(sbuf, n)

ServerWrite ==
    /\ alive
    /\ \E n \in 1..Len(sbuf) :
          /\ n <= DownRoom - Len(down)
          /\ down' = down \o SubSeq(sbuf, 1, n)
          /\ sbuf' = SendBufferAfter(n)
    /\ UNCHANGED <<upVars, serverVars, replies, clientVars, closed>>

\* TcpClient.poll; frames of the server always begin with a header.
ClientPoll ==
    /\ ~closed
    /\ down # <<>>
    /\ \E n \in 1..Len(down) :
          LET buf == cbuf \o SubSeq(down, 1, n)
              done == Parse(buf, 0) IN
          /\ n <= RecvMax
          /\ down' = Rest(down, n)
          /\ polled' = polled \o done.msgs
          /\ cbuf' = Rest(buf, done.pos)
    /\ UNCHANGED <<upVars, serverVars, replies, sbuf, closed>>

ClientDisconnect ==
    /\ ~closed
    /\ closed' = TRUE
    /\ UNCHANGED <<upVars, serverVars, downVars, clientVars>>

-----------------------------------------------------------------------------
Next == \/ \E k \in UpKinds : ClientSend(k)
        \/ \E k \in DownKinds : ServerReply(k)
        \/ ServerRead \/ ServerSeesEnd \/ RemovedForAnother \/ ServerWrite
        \/ ClientPoll \/ ClientDisconnect

Spec == Init /\ [][Next]_vars

\* The server's loop runs, and the client keeps polling.
FairSpec == Spec /\ WF_vars(ServerRead) /\ WF_vars(ServerWrite) /\ WF_vars(ClientPoll)

-----------------------------------------------------------------------------
(***************************************************************************)
(* Properties.                                                             *)
(***************************************************************************)
\* The messages before the first that was sent in part.
Intact == IF torn = 0 THEN Len(sent) ELSE torn - 1
FirstHandled == SubSeq(handled, 1, Min({Len(handled), Intact}))

Up == INSTANCE Channel WITH
    Messages <- [kind: UpKinds, n: 1..MaxSends],
    sent <- SubSeq(sent, 1, Intact), got <- FirstHandled
Down == INSTANCE Channel WITH
    Messages <- [kind: DownKinds, n: 1..MaxReplies],
    sent <- replies, got <- polled

\* However the bytes are cut on their way, the engine handles the client's messages
\* whole, in order and once each, up to the first one of which sendall has sent a
\* part: that one takes those behind it along.
OrdersArriveIntact == Up!Spec

\* The client gets the server's messages whole, in order and once each: a send that
\* takes a part of the buffer goes on with the rest.
RepliesArriveIntact == Down!Spec

\* recv_buffer always has room for the next read, torn frames or not, so that recv
\* never returns 0 for want of it; and as long as nothing was sent in part nothing
\* but the client's messages is handled.
ReadsGoOn ==
    /\ alive => Len(rbuf) < BufferSize
    /\ torn = 0 => Len(handled) <= Len(sent)

\* A read refuses a client only behind a frame it has sent in part: however the bytes
\* of whole frames are cut, and whatever was kept of the read before, no length field
\* of theirs is misread as that of an oversized message.
OnlyTornFramesAreRefused ==
    [][up' # up /\ alive /\ ~alive' => torn # 0]_vars

\* Everything that is sent before a torn frame is handled, and every reply polled,
\* while neither side closes the connection: again and again nothing is under way.
EverythingArrives ==
    []<>(\/ ~alive \/ closed
         \/ Len(handled) >= Intact /\ Len(polled) = Len(replies))
=============================================================================
