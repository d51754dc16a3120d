-------------------------- MODULE WsBridge_proofs ---------------------------
(***************************************************************************)
(* Proofs about WsBridge, for any number of browsers, pushes and commands: *)
(* what a browser receives has no gap and keeps its order, and so do the   *)
(* commands it sends, whoever joins, stalls or leaves meanwhile.           *)
(*                                                                         *)
(* The invariant says where each pushed number is: received, at _ws_main,  *)
(* in _message_queue or scheduled on the loop, in this order and without a *)
(* gap; and which browsers a broadcast can meet.                           *)
(***************************************************************************)
EXTENDS WsBridge, SequenceTheorems, TLAPS

Commands == [from: Browsers, n: Nat]

\* The types of the variables.
TypeInv ==
    /\ loop \in {"none", "set", "serving", "failed"}
    /\ pushed \in Nat /\ early \in Nat /\ data \in Nat
    /\ ready \in Seq(Nat) /\ queue \in Seq(Nat)
    /\ sending \in SUBSET Browsers /\ clients \in SUBSET Browsers
    /\ conn \in [Browsers -> {"none", "open", "stuck", "closed"}]
    /\ handler \in [Browsers -> {"none", "running", "done"}]
    /\ joined \in [Browsers -> Nat]
    /\ received \in [Browsers -> Seq(Nat)]
    /\ inbox \in [Browsers -> Seq(Nat)]
    /\ sent \in [Browsers -> Nat]
    /\ incoming \in Seq(Commands) /\ polled \in Seq(Commands)

\* The last number that has been broadcast, or that nobody will get.
Reached == IF data >= early THEN data ELSE early

\* The numbers on their way follow one another.
Pipeline ==
    /\ data = 0 \/ data > early
    /\ loop = "none" => pushed = early /\ ready = <<>> /\ queue = <<>> /\ data = 0
    /\ \A i \in 1..Len(queue) : queue[i] = Reached + i
    /\ \A i \in 1..Len(ready) : ready[i] = Reached + Len(queue) + i
    /\ pushed = Reached + Len(queue) + Len(ready)

\* A browser is in _clients while its handler runs, which ends with its connection.
Handlers ==
    /\ sending # {} => data # 0
    /\ \A b \in Browsers :
          /\ loop # "serving" => conn[b] = "none"
          /\ conn[b] = "none" => handler[b] = "none"
          /\ handler[b] = "none" => b \notin sending /\ received[b] = <<>>
          /\ handler[b] = "running" <=> b \in clients
          /\ handler[b] = "done" => conn[b] = "closed"

Inv == TypeInv /\ Pipeline /\ Handlers /\ NothingIsSkipped

LEMMA MaxOfTwo ==
    ASSUME NEW x \in Nat, NEW y \in Nat
    PROVE  Max({x, y}) = IF x >= y THEN x ELSE y
<1>1. (IF x >= y THEN x ELSE y) \in {x, y}
      /\ \A z \in {x, y} : (IF x >= y THEN x ELSE y) >= z
  OBVIOUS
<1>2. \A m \in {x, y} : (\A z \in {x, y} : m >= z) => m = IF x >= y THEN x ELSE y
  OBVIOUS
<1> QED
  BY <1>1, <1>2 DEF Max

LEMMA AppendOf ==
    ASSUME NEW S, NEW s \in Seq(S), NEW x \in S
    PROVE  /\ Append(s, x) \in Seq(S) /\ Len(s) \in Nat
           /\ Len(Append(s, x)) = Len(s) + 1
           /\ \A i \in 1..Len(s) : Append(s, x)[i] = s[i]
           /\ Append(s, x)[Len(s) + 1] = x
BY AppendProperties

LEMMA TailOf ==
    ASSUME NEW S, NEW s \in Seq(S), s # <<>>
    PROVE  /\ Head(s) = s[1] /\ s[1] \in S /\ Tail(s) \in Seq(S)
           /\ Len(s) \in Nat /\ Len(s) >= 1 /\ Len(Tail(s)) = Len(s) - 1
           /\ \A i \in 1..(Len(s) - 1) : Tail(s)[i] = s[i + 1]
BY HeadTailProperties, EmptySeq, LenProperties

\* A run of consecutive numbers goes on.
LEMMA AppendRun ==
    ASSUME NEW s \in Seq(Nat), NEW base \in Int, NEW x \in Nat, x = base + Len(s) + 1,
           \A i \in 1..Len(s) : s[i] = base + i
    PROVE  /\ Append(s, x) \in Seq(Nat) /\ Len(s) \in Nat /\ Len(Append(s, x)) = Len(s) + 1
           /\ \A i \in 1..Len(Append(s, x)) : Append(s, x)[i] = base + i
<1>1. /\ Append(s, x) \in Seq(Nat) /\ Len(s) \in Nat
      /\ Len(Append(s, x)) = Len(s) + 1
      /\ \A i \in 1..Len(s) : Append(s, x)[i] = s[i]
      /\ Append(s, x)[Len(s) + 1] = x
  BY AppendOf
<1>2. ASSUME NEW i \in 1..(Len(s) + 1) PROVE Append(s, x)[i] = base + i
  <2>1. CASE i = Len(s) + 1
    BY <1>1, <2>1
  <2>2. CASE i \in 1..Len(s)
    BY <1>1, <2>2
  <2> QED
    BY <1>1, <2>1, <2>2
<1> QED
  BY <1>1, <1>2

-----------------------------------------------------------------------------
LEMMA NextType == TypeInv /\ [Next]_vars => TypeInv'
<1> SUFFICES ASSUME TypeInv, [Next]_vars PROVE TypeInv'
  OBVIOUS
<1> USE DEF TypeInv, pushVars, sendVars, browserVars, commandVars
<1>1. CASE Push
  <2>1. pushed' \in Nat /\ early' \in Nat /\ ready' \in Seq(Nat)
    <3>1. pushed + 1 \in Nat /\ early + 1 \in Nat /\ Append(ready, pushed + 1) \in Seq(Nat)
      BY AppendOf
    <3> QED
      BY <1>1, <3>1 DEF Push
  <2> QED
    BY <1>1, <2>1 DEF Push
<1>2. CASE PollIncoming
  BY <1>2 DEF PollIncoming
<1>3. CASE NewEventLoop
  BY <1>3 DEF NewEventLoop
<1>4. CASE Serve
  BY <1>4 DEF Serve
<1>5. CASE Put
  BY <1>5 DEF Put
<1>6. CASE Broadcast
  BY <1>6 DEF Broadcast
<1>7. ASSUME NEW b \in Browsers, SendDone(b) PROVE TypeInv'
  BY <1>7 DEF SendDone
<1>8. ASSUME NEW b \in Browsers, SendFails(b) PROVE TypeInv'
  BY <1>8 DEF SendFails
<1>9. ASSUME NEW b \in Browsers, Join(b) PROVE TypeInv'
  BY <1>9 DEF Join
<1>10. ASSUME NEW b \in Browsers, Receive(b) PROVE TypeInv'
  <2>1. /\ incoming' = Append(incoming, [from |-> b, n |-> Head(inbox[b])])
        /\ inbox' = [inbox EXCEPT ![b] = Tail(@)] /\ inbox[b] # <<>>
        /\ UNCHANGED <<pushVars, sendVars, browserVars, sent, polled>>
    BY <1>10 DEF Receive
  <2>2. Head(inbox[b]) \in Nat /\ Tail(inbox[b]) \in Seq(Nat)
    BY <2>1, TailOf
  <2>3. [from |-> b, n |-> Head(inbox[b])] \in Commands
    BY <2>2 DEF Commands
  <2>4. incoming' \in Seq(Commands)
    BY <2>1, <2>3, AppendOf
  <2>5. inbox' \in [Browsers -> Seq(Nat)]
    BY <2>1, <2>2
  <2> QED
    BY <2>1, <2>4, <2>5
<1>11. ASSUME NEW b \in Browsers, Leave(b) PROVE TypeInv'
  BY <1>11 DEF Leave
<1>12. ASSUME NEW b \in Browsers, Connect(b) \/ StallOrClose(b) \/ KeepaliveTimeout(b) PROVE TypeInv'
  BY <1>12 DEF Connect, StallOrClose, KeepaliveTimeout, BecomesOneOf
<1>13. ASSUME NEW b \in Browsers, Command(b) PROVE TypeInv'
  BY <1>13 DEF Command
<1>14. CASE UNCHANGED vars
  BY <1>14 DEF vars
<1> QED
  BY <1>1, <1>2, <1>3, <1>4, <1>5, <1>6, <1>7, <1>8, <1>9, <1>10, <1>11, <1>12, <1>13, <1>14
     DEF Next

\* What is pushed goes to the end of the numbers on their way, a put hands one on
\* from the loop to the queue, and a broadcast takes the next.
LEMMA NextPipeline == Inv /\ [Next]_vars => Pipeline'
<1> SUFFICES ASSUME Inv, [Next]_vars PROVE Pipeline'
  OBVIOUS
<1>0. TypeInv /\ Pipeline
  BY DEF Inv
<1>1. CASE Push
  <2>1. CASE loop = "none"
    BY <1>0, <1>1, <2>1 DEF Push, Pipeline, TypeInv, Reached, sendVars
  <2>2. CASE loop # "none"
    <3>1. /\ ready' = Append(ready, pushed + 1) /\ pushed' = pushed + 1
          /\ UNCHANGED <<loop, early, queue, data>>
      BY <1>1, <2>2 DEF Push, sendVars
    <3> QED
      <4>1. /\ Reached' = Reached /\ Reached \in Nat /\ Len(queue) \in Nat
            /\ ready \in Seq(Nat) /\ Len(ready) \in Nat /\ pushed \in Nat
        BY <1>0, <3>1, LenProperties DEF TypeInv, Reached
      <4>2. pushed + 1 = (Reached + Len(queue)) + Len(ready) + 1
        BY <1>0, <4>1 DEF Pipeline
      <4>3. /\ Len(ready') = Len(ready) + 1
            /\ \A i \in 1..Len(ready') : ready'[i] = (Reached + Len(queue)) + i
        <5> DEFINE base == Reached + Len(queue)
        <5>1. base \in Int /\ pushed + 1 \in Nat /\ pushed + 1 = base + Len(ready) + 1
          BY <4>1, <4>2
        <5>2. \A i \in 1..Len(ready) : ready[i] = base + i
          BY <1>0 DEF Pipeline
        <5> HIDE DEF base
        <5>3. /\ Len(ready') = Len(ready) + 1
              /\ \A i \in 1..Len(ready') : ready'[i] = base + i
          BY <3>1, <4>1, <5>1, <5>2, AppendRun
        <5> QED
          BY <5>3 DEF base
      <4> QED
        BY <1>0, <2>2, <3>1, <4>1, <4>2, <4>3 DEF Pipeline
  <2> QED
    BY <2>1, <2>2
<1>2. CASE NewEventLoop \/ Serve
  BY <1>0, <1>2 DEF NewEventLoop, Serve, Pipeline, Reached, sendVars, TypeInv
<1>3. CASE Put
  <2>1. /\ queue' = Append(queue, Head(ready)) /\ ready' = Tail(ready) /\ ready # <<>>
        /\ UNCHANGED <<loop, pushed, early, data>> /\ loop # "none"
    BY <1>3 DEF Put, sendVars
  <2>2. ready \in Seq(Nat) /\ queue \in Seq(Nat) /\ Reached \in Nat /\ Reached' = Reached
    BY <1>0, <2>1 DEF TypeInv, Reached
  <2>3. /\ Len(queue') = Len(queue) + 1 /\ Len(queue) \in Nat
        /\ \A i \in 1..Len(queue) : queue'[i] = queue[i]
        /\ queue'[Len(queue) + 1] = ready[1]
        /\ Len(ready) \in Nat /\ Len(ready) >= 1 /\ Len(ready') = Len(ready) - 1
        /\ \A i \in 1..(Len(ready) - 1) : ready'[i] = ready[i + 1]
    BY <2>1, <2>2, AppendOf, TailOf
  <2>4. ready[1] = Reached + Len(queue) + 1
    BY <1>0, <2>3 DEF Pipeline
  <2>5. \A i \in 1..Len(queue') : queue'[i] = Reached' + i
    <3>1. ready[1] \in Nat /\ queue' = Append(queue, ready[1])
      BY <2>1, <2>2, TailOf
    <3>2. \A i \in 1..Len(queue) : queue[i] = Reached + i
      BY <1>0 DEF Pipeline
    <3>3. \A i \in 1..Len(queue') : queue'[i] = Reached + i
      <4> DEFINE x == ready[1]
      <4>1. x \in Nat /\ x = Reached + Len(queue) + 1 /\ queue' = Append(queue, x) /\ Reached \in Int
        BY <2>2, <2>4, <3>1
      <4> HIDE DEF x
      <4> QED
        BY <2>2, <3>2, <4>1, AppendRun
    <3> QED
      BY <2>2, <3>3
  <2>6. \A i \in 1..Len(ready') : ready'[i] = Reached' + Len(queue') + i
    BY <1>0, <2>2, <2>3 DEF Pipeline
  <2>7. pushed' = Reached' + Len(queue') + Len(ready')
    BY <1>0, <2>1, <2>2, <2>3 DEF Pipeline
  <2> QED
    BY <1>0, <2>1, <2>5, <2>6, <2>7 DEF Pipeline
<1>4. CASE Broadcast
  <2>1. /\ queue # <<>> /\ data' = Head(queue) /\ queue' = Tail(queue)
        /\ UNCHANGED <<loop, pushed, early, ready>> /\ loop # "none"
    BY <1>4 DEF Broadcast
  <2>2. /\ Head(queue) = queue[1] /\ Len(queue) \in Nat /\ Len(queue) >= 1
        /\ Len(queue') = Len(queue) - 1 /\ Len(ready) \in Nat
        /\ \A i \in 1..(Len(queue) - 1) : queue'[i] = queue[i + 1]
    BY <1>0, <2>1, TailOf DEF TypeInv
  <2>3. /\ data' = Reached + 1 /\ Reached' = Reached + 1 /\ Reached \in Nat
        /\ data' > early'
    BY <1>0, <2>1, <2>2 DEF Pipeline, TypeInv, Reached
  <2>4. \A i \in 1..Len(queue') : queue'[i] = Reached' + i
    BY <1>0, <2>2, <2>3 DEF Pipeline
  <2>5. \A i \in 1..Len(ready') : ready'[i] = Reached' + Len(queue') + i
    BY <1>0, <2>1, <2>2, <2>3 DEF Pipeline
  <2>6. pushed' = Reached' + Len(queue') + Len(ready')
    BY <1>0, <2>1, <2>2, <2>3 DEF Pipeline
  <2> QED
    BY <1>0, <2>1, <2>3, <2>4, <2>5, <2>6 DEF Pipeline
<1>5. CASE UNCHANGED <<pushVars, data>>
  BY <1>0, <1>5 DEF Pipeline, Reached, pushVars
<1> QED
  BY <1>1, <1>2, <1>3, <1>4, <1>5
     DEF Next, PollIncoming, SendDone, SendFails, Join, Receive, Leave, Connect, StallOrClose,
         KeepaliveTimeout, BecomesOneOf, Command, vars, sendVars

LEMMA NextHandlers == Inv /\ [Next]_vars => Handlers'
<1> SUFFICES ASSUME Inv, [Next]_vars PROVE Handlers'
  OBVIOUS
<1>0. TypeInv /\ Pipeline /\ Handlers
  BY DEF Inv
<1> USE DEF TypeInv, Handlers
<1>1. CASE Push \/ PollIncoming \/ Put
  BY <1>0, <1>1 DEF Push, PollIncoming, Put, sendVars, browserVars, pushVars
<1>2. CASE NewEventLoop \/ Serve
  BY <1>0, <1>2 DEF NewEventLoop, Serve, sendVars, browserVars
<1>3. CASE Broadcast
  <2>1. data' = queue[1] /\ 1 \in 1..Len(queue)
    BY <1>0, <1>3, TailOf DEF Broadcast
  <2>2. data' # 0
    BY <1>0, <2>1 DEF Pipeline, Reached
  <2> QED
    BY <1>0, <1>3, <2>2 DEF Broadcast, browserVars
<1>4. ASSUME NEW b \in Browsers, SendDone(b) \/ SendFails(b) PROVE Handlers'
  BY <1>0, <1>4 DEF SendDone, SendFails, browserVars, pushVars
<1>5. ASSUME NEW b \in Browsers, Join(b) PROVE Handlers'
  BY <1>0, <1>5 DEF Join, pushVars, sendVars
<1>6. ASSUME NEW b \in Browsers, Leave(b) PROVE Handlers'
  BY <1>0, <1>6 DEF Leave, pushVars, sendVars
<1>7. ASSUME NEW b \in Browsers, Connect(b) \/ StallOrClose(b) \/ KeepaliveTimeout(b) PROVE Handlers'
  BY <1>0, <1>7 DEF Connect, StallOrClose, KeepaliveTimeout, BecomesOneOf, pushVars, sendVars
<1>8. ASSUME NEW b \in Browsers, Receive(b) \/ Command(b) PROVE Handlers'
  BY <1>0, <1>8 DEF Receive, Command, pushVars, sendVars, browserVars
<1>9. CASE UNCHANGED vars
  BY <1>0, <1>9 DEF vars, pushVars, sendVars, browserVars
<1> QED
  BY <1>1, <1>2, <1>3, <1>4, <1>5, <1>6, <1>7, <1>8, <1>9 DEF Next

-----------------------------------------------------------------------------
\* A browser's share of the invariant does not depend on what the others do.
DownstreamOK(b) == ReceivedInOrder(b) /\ KeepsUp(b)

LEMMA NextDownstream ==
    ASSUME Inv, [Next]_vars, NEW b \in Browsers
    PROVE  DownstreamOK(b)'
<1>0. TypeInv /\ Pipeline /\ Handlers /\ ReceivedInOrder(b) /\ KeepsUp(b)
  BY DEF Inv, NothingIsSkipped
<1>1. /\ Floor(b) = IF joined[b] >= early THEN joined[b] ELSE early
      /\ Max({data, early}) = Reached
      /\ Floor(b) \in Nat /\ Reached \in Nat
  <2>1. joined[b] \in Nat /\ early \in Nat /\ data \in Nat
    BY <1>0 DEF TypeInv
  <2> QED
    BY <2>1, MaxOfTwo DEF Floor, Reached
<1>2. ASSUME UNCHANGED <<data, early, conn, clients>>, UNCHANGED joined[b], UNCHANGED received[b],
             b \in sending' <=> b \in sending
      PROVE  DownstreamOK(b)'
  BY <1>0, <1>2 DEF DownstreamOK, ReceivedInOrder, KeepsUp, Floor
<1>3. CASE Push
  <2>1. CASE loop = "none"
    <3>1. b \notin clients' /\ received'[b] = <<>>
      BY <1>0, <1>3, <2>1 DEF Push, Handlers, TypeInv, browserVars, sendVars
    <3> QED
      BY <3>1 DEF DownstreamOK, ReceivedInOrder, KeepsUp
  <2>2. CASE loop # "none"
    BY <1>2, <1>3, <2>2 DEF Push, browserVars, sendVars
  <2> QED
    BY <2>1, <2>2
<1>4. CASE Broadcast
  <2>1. /\ sending = {} /\ sending' = clients /\ queue # <<>> /\ data' = Head(queue)
        /\ UNCHANGED <<early, received, clients, conn, joined>>
    BY <1>4 DEF Broadcast, browserVars
  <2>2. data' = Reached + 1
    BY <1>0, <2>1, TailOf DEF Pipeline, TypeInv
  <2>3. Floor(b)' = Floor(b)
    BY <2>1 DEF Floor
  <2> QED
    BY <1>0, <1>1, <2>1, <2>2, <2>3 DEF DownstreamOK, ReceivedInOrder, KeepsUp
<1>5. ASSUME NEW c \in Browsers, SendDone(c) PROVE DownstreamOK(b)'
  <2>1. /\ c \in sending /\ conn[c] = "open" /\ sending' = sending \ {c}
        /\ received' = [received EXCEPT ![c] = Append(@, data)]
        /\ UNCHANGED <<data, early, conn, clients, joined>>
    BY <1>5 DEF SendDone, browserVars, pushVars
  <2>2. CASE c = b
    <3>1. b \in clients /\ data # 0 /\ data > early
      BY <1>0, <2>1, <2>2 DEF Handlers, Pipeline, TypeInv
    <3>2. Floor(b) + Len(received[b]) = data - 1
      BY <1>0, <2>1, <2>2, <3>1 DEF KeepsUp
    <3>3. Reached = data /\ Floor(b)' = Floor(b)
      BY <1>0, <2>1, <3>1 DEF Reached, Floor, TypeInv
    <3>4. /\ received'[b] = Append(received[b], data)
          /\ received[b] \in Seq(Nat) /\ received'[b] \in Seq(Nat)
          /\ Len(received[b]) \in Nat /\ Len(received'[b]) = Len(received[b]) + 1
          /\ \A i \in 1..Len(received[b]) : received'[b][i] = received[b][i]
          /\ received'[b][Len(received[b]) + 1] = data /\ data \in Nat
      BY <1>0, <2>1, <2>2, AppendOf DEF TypeInv
    <3>5. \A i \in 1..Len(received'[b]) : received'[b][i] = Floor(b) + i
      <4>1. data = Floor(b) + Len(received[b]) + 1 /\ Floor(b) \in Int
        BY <1>1, <3>2, <3>4
      <4>2. \A i \in 1..Len(received[b]) : received[b][i] = Floor(b) + i
        BY <1>0, <3>4 DEF ReceivedInOrder
      <4> QED
        BY <3>4, <4>1, <4>2, AppendRun
    <3>6. ReceivedInOrder(b)'
      BY <3>3, <3>4, <3>5 DEF ReceivedInOrder
    <3>7. Floor(b) + Len(received'[b]) = data /\ Max({data, early})' = data
      <4>1. Max({data, early})' = Max({data, early})
        BY <2>1
      <4>2. Max({data, early}) = data
        BY <1>1, <3>3
      <4>3. Floor(b) \in Nat /\ Floor(b) + Len(received[b]) = data - 1
        BY <1>1, <3>2
      <4>4. Floor(b) + Len(received'[b]) = data
        <5> DEFINE f == Floor(b)
                   l == Len(received[b])
                   k == Len(received'[b])
        <5>1. f \in Nat /\ l \in Nat /\ data \in Nat /\ k = l + 1 /\ f + l = data - 1
          BY <3>4, <4>3
        <5> HIDE DEF f, l, k
        <5>2. f + k = data
          BY <5>1
        <5> QED
          BY <5>2 DEF f, k
      <4> QED
        BY <4>1, <4>2, <4>4
    <3>8. KeepsUp(b)'
      BY <2>1, <2>2, <3>3, <3>7 DEF KeepsUp
    <3> QED
      BY <3>6, <3>8 DEF DownstreamOK
  <2>3. CASE c # b
    BY <1>0, <1>2, <2>1, <2>3 DEF TypeInv
  <2> QED
    BY <2>2, <2>3
<1>6. ASSUME NEW c \in Browsers, SendFails(c) PROVE DownstreamOK(b)'
  <2>1. /\ conn[c] = "closed" /\ sending' = sending \ {c}
        /\ UNCHANGED <<data, early, conn, clients, joined, received>>
    BY <1>6 DEF SendFails, browserVars, pushVars
  <2>2. CASE c = b
    BY <1>0, <2>1, <2>2 DEF DownstreamOK, ReceivedInOrder, KeepsUp, Floor
  <2>3. CASE c # b
    BY <1>2, <2>1, <2>3
  <2> QED
    BY <2>2, <2>3
<1>7. ASSUME NEW c \in Browsers, Join(c) PROVE DownstreamOK(b)'
  <2>1. /\ handler[c] = "none" /\ clients' = clients \cup {c}
        /\ joined' = [joined EXCEPT ![c] = data]
        /\ UNCHANGED <<data, early, conn, received, sending>>
    BY <1>7 DEF Join, pushVars, sendVars
  <2>2. CASE c = b
    <3>1. received'[b] = <<>> /\ b \notin sending' /\ joined'[b] = data
      BY <1>0, <2>1, <2>2 DEF Handlers, TypeInv
    <3>2. Floor(b)' = Max({data, early})'
      BY <2>1, <3>1 DEF Floor
    <3>3. Max({data, early})' \in Nat
      BY <1>1, <2>1
    <3> QED
      BY <3>1, <3>2, <3>3 DEF DownstreamOK, ReceivedInOrder, KeepsUp
  <2>3. CASE c # b
    BY <1>0, <2>1, <2>3 DEF DownstreamOK, ReceivedInOrder, KeepsUp, Floor, TypeInv
  <2> QED
    BY <2>2, <2>3
<1>8. ASSUME NEW c \in Browsers, Leave(c) PROVE DownstreamOK(b)'
  <2>1. clients' = clients \ {c} /\ UNCHANGED <<data, early, conn, received, sending, joined>>
    BY <1>8 DEF Leave, pushVars, sendVars
  <2> QED
    BY <1>0, <2>1 DEF DownstreamOK, ReceivedInOrder, KeepsUp, Floor
<1>9. ASSUME NEW c \in Browsers, Connect(c) PROVE DownstreamOK(b)'
  <2>1. /\ conn[c] = "none" /\ conn' = [conn EXCEPT ![c] = "open"]
        /\ UNCHANGED <<data, early, clients, received, sending, joined>>
    BY <1>9 DEF Connect, BecomesOneOf, pushVars, sendVars
  <2>2. c \notin clients
    BY <1>0, <2>1 DEF Handlers, TypeInv
  <2> QED
    BY <1>0, <2>1, <2>2 DEF DownstreamOK, ReceivedInOrder, KeepsUp, Floor, TypeInv
<1>10. ASSUME NEW c \in Browsers, StallOrClose(c) \/ KeepaliveTimeout(c) PROVE DownstreamOK(b)'
  <2>1. PICK s \in {"stuck", "closed"} :
            /\ conn[c] # "closed" /\ conn' = [conn EXCEPT ![c] = s]
            /\ UNCHANGED <<data, early, clients, received, sending, joined>>
    BY <1>10 DEF StallOrClose, KeepaliveTimeout, BecomesOneOf, pushVars, sendVars
  <2> QED
    BY <1>0, <2>1 DEF DownstreamOK, ReceivedInOrder, KeepsUp, Floor, TypeInv
<1>11. CASE UNCHANGED <<data, early, conn, clients, joined, received, sending>>
  BY <1>2, <1>11
<1> QED
  BY <1>3, <1>4, <1>5, <1>6, <1>7, <1>8, <1>9, <1>10, <1>11
     DEF Next, PollIncoming, NewEventLoop, Serve, Put, Receive, Command, vars, pushVars, sendVars,
         browserVars

-----------------------------------------------------------------------------
\* What has been taken from the inboxes only grows, at its end.
LEMMA TakenGrows ==
    ASSUME TypeInv
    PROVE  /\ Taken \in Seq(Commands)
           /\ PollIncoming => Taken' = Taken
           /\ \A b \in Browsers : Receive(b) =>
                 Taken' = Append(Taken, [from |-> b, n |-> Head(inbox[b])])
<1>1. polled \in Seq(Commands) /\ incoming \in Seq(Commands)
  BY DEF TypeInv
<1>2. Taken \in Seq(Commands)
  BY <1>1 DEF Taken
<1>3. ASSUME PollIncoming PROVE Taken' = Taken
  <2>1. polled' = polled \o incoming /\ incoming' = <<>>
    BY <1>3 DEF PollIncoming
  <2>2. (polled \o incoming) \o <<>> = polled \o incoming
    BY <1>2, ConcatEmptySeq DEF Taken
  <2> QED
    BY <2>1, <2>2 DEF Taken
<1>4. ASSUME NEW b \in Browsers, Receive(b)
      PROVE  Taken' = Append(Taken, [from |-> b, n |-> Head(inbox[b])])
  <2> DEFINE m == [from |-> b, n |-> Head(inbox[b])]
  <2>1. incoming' = Append(incoming, m) /\ polled' = polled
    BY <1>4 DEF Receive
  <2>2. m \in Commands
    BY <1>4 DEF Receive, TypeInv, Commands
  <2> HIDE DEF m
  <2>3. polled \o Append(incoming, m) = Append(polled \o incoming, m)
    BY <1>1, <2>2
  <2> QED
    BY <2>1, <2>3 DEF Taken, m
<1> QED
  BY <1>2, <1>3, <1>4

LEMMA NextCommands ==
    ASSUME Inv, [Next]_vars, NEW b \in Browsers
    PROVE  CommandsInOrder(b)'
<1>0. TypeInv /\ CommandsInOrder(b) /\ Taken \in Seq(Commands)
  BY TakenGrows DEF Inv, NothingIsSkipped
<1> DEFINE read == sent[b] - Len(inbox[b])
<1>1. /\ sent[b] \in Nat /\ inbox[b] \in Seq(Nat) /\ Len(inbox[b]) \in Nat
      /\ \A i \in DOMAIN Taken : Taken[i].from \in Browsers /\ Taken[i].n \in Nat
  <2>1. \A i \in DOMAIN Taken : Taken[i] \in Commands
    BY <1>0, LenProperties
  <2> QED
    BY <1>0, <2>1, LenProperties DEF TypeInv, Commands
<1>2. ASSUME Taken' = Taken, UNCHANGED sent[b], UNCHANGED inbox[b] PROVE CommandsInOrder(b)'
  BY <1>0, <1>2 DEF CommandsInOrder, TakenFrom
<1>3. CASE PollIncoming
  BY <1>0, <1>2, <1>3, TakenGrows DEF PollIncoming
<1>4. ASSUME NEW c \in Browsers, Receive(c) PROVE CommandsInOrder(b)'
  <2> DEFINE m == [from |-> c, n |-> Head(inbox[c])]
             L == Len(Taken)
  <2>1. /\ Taken' = Append(Taken, m) /\ inbox[c] # <<>>
        /\ inbox' = [inbox EXCEPT ![c] = Tail(@)] /\ UNCHANGED sent
    BY <1>0, <1>4, TakenGrows DEF Receive
  <2>2. /\ L \in Nat /\ DOMAIN Taken = 1..L /\ DOMAIN Taken' = 1..(L + 1)
        /\ \A i \in 1..L : Taken'[i] = Taken[i]
        /\ Taken'[L + 1] = m
    <3>1. m \in Commands
      <4>1. inbox[c] \in Seq(Nat)
        BY <1>0 DEF TypeInv
      <4>2. Head(inbox[c]) \in Nat
        BY <2>1, <4>1, TailOf
      <4> QED
        BY <4>2 DEF Commands
    <3> HIDE DEF m
    <3> QED
      BY <1>0, <2>1, <3>1
  <2>3. m.from = c /\ m.n = Head(inbox[c])
    OBVIOUS
  <2> HIDE DEF m, L
  <2>4. CASE c = b
    <3>1. /\ m.n = read + 1 /\ inbox'[b] = Tail(inbox[b]) /\ inbox'[b] \in Seq(Nat)
          /\ Len(inbox'[b]) = Len(inbox[b]) - 1 /\ sent'[b] - Len(inbox'[b]) = read + 1
          /\ \A i \in DOMAIN inbox'[b] : inbox'[b][i] = inbox[b][i + 1] /\ i + 1 \in DOMAIN inbox[b]
      BY <1>0, <1>1, <2>1, <2>3, <2>4 DEF CommandsInOrder, TypeInv
    <3>2. TakenFrom(b)' = TakenFrom(b) \cup {L + 1}
      BY <2>2, <2>3, <2>4 DEF TakenFrom
    <3>3. \A i \in TakenFrom(b) : i \in 1..L /\ Taken'[i] = Taken[i] /\ Taken[i].n \in 1..read
      BY <1>0, <2>2 DEF TakenFrom, CommandsInOrder
    <3>4. \A i, j \in TakenFrom(b)' : i < j => Taken'[i].n < Taken'[j].n
      <4>1. SUFFICES ASSUME NEW i \in TakenFrom(b)', NEW j \in TakenFrom(b)', i < j
                     PROVE  Taken'[i].n < Taken'[j].n
        OBVIOUS
      <4>2. i \in TakenFrom(b)
        BY <2>2, <3>2, <3>3, <4>1
      <4>3. CASE j \in TakenFrom(b)
        BY <1>0, <3>3, <4>1, <4>2, <4>3 DEF CommandsInOrder
      <4>4. CASE j = L + 1
        <5>1. Taken'[i].n \in 1..read /\ Taken'[j].n = read + 1
          BY <2>2, <3>1, <3>3, <4>2, <4>4
        <5> QED
          BY <1>1, <5>1
      <4> QED
        BY <3>2, <4>3, <4>4
    <3>5. {Taken'[i].n : i \in TakenFrom(b)'} = 1..(read + 1)
      <4>1. {Taken'[i].n : i \in TakenFrom(b)'} = {Taken[i].n : i \in TakenFrom(b)} \cup {m.n}
        BY <2>2, <3>2, <3>3
      <4>2. read \in Int /\ (read + 1 >= 1)
        BY <1>0, <1>1 DEF CommandsInOrder
      <4>3. 1..(read + 1) = (1..read) \cup {read + 1}
        BY <4>2
      <4> QED
        BY <1>0, <3>1, <4>1, <4>3 DEF CommandsInOrder
    <3>6. \A i \in DOMAIN inbox'[b] : inbox'[b][i] = (read + 1) + i
      <4>1. ASSUME NEW i \in DOMAIN inbox'[b] PROVE inbox'[b][i] = (read + 1) + i
        <5>1. i \in Nat /\ inbox'[b][i] = inbox[b][i + 1] /\ i + 1 \in DOMAIN inbox[b]
          BY <3>1, LenProperties
        <5>2. inbox[b][i + 1] = read + (i + 1)
          BY <1>0, <5>1 DEF CommandsInOrder
        <5>3. read \in Int
          BY <1>1
        <5> HIDE DEF read
        <5> QED
          BY <5>1, <5>2, <5>3
      <4> QED
        BY <4>1
    <3>7. read + 1 >= 0
      BY <1>0, <1>1 DEF CommandsInOrder
    <3> QED
      BY <3>1, <3>4, <3>5, <3>6, <3>7 DEF CommandsInOrder
  <2>5. CASE c # b
    <3>1. TakenFrom(b)' = TakenFrom(b) /\ UNCHANGED sent[b] /\ UNCHANGED inbox[b]
      <4>1. \A i \in 1..(L + 1) : Taken'[i].from = b <=> i \in 1..L /\ Taken[i].from = b
        BY <2>2, <2>3, <2>5
      <4>2. TakenFrom(b)' = TakenFrom(b)
        BY <2>2, <4>1 DEF TakenFrom
      <4> QED
        BY <1>0, <2>1, <2>5, <4>2 DEF TypeInv
    <3>2. \A i \in TakenFrom(b) : Taken'[i] = Taken[i]
      BY <2>2 DEF TakenFrom
    <3> QED
      BY <1>0, <3>1, <3>2 DEF CommandsInOrder
  <2> QED
    BY <2>4, <2>5
<1>5. ASSUME NEW c \in Browsers, Command(c) PROVE CommandsInOrder(b)'
  <2>1. /\ inbox' = [inbox EXCEPT ![c] = Append(@, sent[c] + 1)]
        /\ sent' = [sent EXCEPT ![c] = @ + 1] /\ Taken' = Taken
    BY <1>5 DEF Command, Taken
  <2>2. CASE c = b
    <3>1. /\ inbox'[b] = Append(inbox[b], sent[b] + 1) /\ sent'[b] = sent[b] + 1
          /\ Len(inbox'[b]) = Len(inbox[b]) + 1
      BY <1>0, <2>1, <2>2 DEF TypeInv
    <3>2. sent'[b] - Len(inbox'[b]) = read
      BY <1>1, <3>1
    <3>3. \A i \in DOMAIN inbox'[b] : inbox'[b][i] = read + i
      BY <1>0, <1>1, <3>1 DEF CommandsInOrder
    <3>4. TakenFrom(b)' = TakenFrom(b)
      BY <2>1 DEF TakenFrom
    <3> QED
      BY <1>0, <2>1, <3>2, <3>3, <3>4 DEF CommandsInOrder
  <2>3. CASE c # b
    BY <1>0, <1>2, <2>1, <2>3 DEF TypeInv
  <2> QED
    BY <2>2, <2>3
<1>6. CASE UNCHANGED commandVars
  BY <1>2, <1>6 DEF commandVars, Taken
<1> QED
  BY <1>3, <1>4, <1>5, <1>6
     DEF Next, Push, NewEventLoop, Serve, Put, Broadcast, SendDone, SendFails, Join, Leave, Connect,
         StallOrClose, KeepaliveTimeout, BecomesOneOf, vars

-----------------------------------------------------------------------------
LEMMA InitInv == Init => Inv
<1> SUFFICES ASSUME Init PROVE Inv
  OBVIOUS
<1>1. TypeInv /\ Pipeline /\ Handlers
  BY DEF Init, TypeInv, Pipeline, Handlers, Reached, Commands
<1>2. ASSUME NEW b \in Browsers PROVE ReceivedInOrder(b) /\ KeepsUp(b)
  BY DEF Init, ReceivedInOrder, KeepsUp
<1>3. ASSUME NEW b \in Browsers PROVE CommandsInOrder(b)
  <2>1. Taken = <<>> /\ inbox[b] = <<>> /\ sent[b] = 0
    BY DEF Init, Taken
  <2>2. TakenFrom(b) = {} /\ sent[b] - Len(inbox[b]) = 0
    <3>1. Len(<<>>) = 0 /\ \A i \in DOMAIN <<>> : FALSE
      OBVIOUS
    <3>2. TakenFrom(b) = {}
      BY <2>1, <3>1 DEF TakenFrom
    <3>3. Len(inbox[b]) = 0
      BY <2>1, <3>1
    <3>4. sent[b] - Len(inbox[b]) = 0
      <4>1. sent[b] = 0
        BY <2>1
      <4> QED
        BY <3>3, <4>1
    <3> QED
      BY <3>2, <3>4
  <2> QED
    BY <2>1, <2>2 DEF CommandsInOrder
<1> QED
  BY <1>1, <1>2, <1>3 DEF Inv, NothingIsSkipped

LEMMA NextInv == Inv /\ [Next]_vars => Inv'
<1> SUFFICES ASSUME Inv, [Next]_vars PROVE Inv'
  OBVIOUS
<1>1. NothingIsSkipped'
  BY NextDownstream, NextCommands DEF NothingIsSkipped, DownstreamOK
<1> QED
  BY <1>1, NextType, NextPipeline, NextHandlers DEF Inv

\* For any number of browsers, messages and commands: from when it joins to when its
\* connection closes a browser gets every message, in order, and the simulator
\* polls every command, once and in order.
THEOREM BridgeSkipsNothing == Spec => []NothingIsSkipped
<1>1. Inv => NothingIsSkipped
  BY DEF Inv
<1> QED
  BY <1>1, InitInv, NextInv, PTL DEF Spec
=============================================================================
