------------------------ MODULE EngineServer_proofs -------------------------
(***************************************************************************)
(* Proofs about EngineServer, for any number of clients, ids and messages, *)
(* any capacities and any number of events per tick: no command is lost    *)
(* between the threads, commands and snapshots keep their order, and a     *)
(* REJECT finds its sender as long as nobody has been removed.             *)
(*                                                                         *)
(* A command travels from its connection through batch, in_q and the       *)
(* engine thread to out_q.  The invariant orders the numbers of a client's *)
(* commands stage by stage, and the versions of the snapshots from the     *)
(* send buffers back to the engine in the same way.                        *)
(***************************************************************************)
EXTENDS EngineServer, SequenceTheorems, FiniteSetTheorems, FunctionTheorems, TLAPS

Numbered == Nat \ {0}
Reasons == {"INVALID_PARAMS", "DUPLICATE_ID", "ORDER_NOT_FOUND", "INVALID_MODIFY"}

Messages == [kind: MessageKinds \ {"OTHER"}, id: Ids, from: Clients, n: Numbered]
            \cup [kind: {"OTHER"}, from: Clients, n: {0}]
Commands == [kind: {"NEW", "CANCEL", "MODIFY"}, id: Ids, from: Clients, n: Numbered,
             client_idx: Numbered]
Events == [kind: {"UPDATE"}, n: Numbered, from: Clients, version: Nat]
          \cup [kind: {"REJECT"}, n: Numbered, from: Clients, client_idx: Numbered,
                reason: Reasons]
Buffered == [kind: {"UPDATE"}, version: Nat]
            \cup [kind: {"REJECT"}, n: Numbered, from: Clients, reason: Reasons]

NetTypes ==
    /\ conn \in [Clients -> {"none", "pending", "open", "closed", "reset", "removed"}]
    /\ recv \in [Clients -> Seq(Messages)] /\ sent \in Nat

IOTypes ==
    /\ clients \in Seq(Clients) /\ IsInjective(clients)
    /\ sendbuf \in [Clients -> Seq(Buffered)] /\ seen \in [Clients -> Nat]
    /\ batch \in Seq(Messages)

LoopTypes ==
    /\ iopc \in {"poll", "serve", "batch", "consume"} /\ pos \in Nat
    /\ iopc \in {"serve", "batch"} => pos \in 1..(Cardinality(Clients) + 1)
    /\ iopc = "consume" => pos \in 0..EventsPerTick
    /\ IF iopc = "batch" THEN pos <= Len(clients) ELSE batch = <<>>

QueueTypes ==
    /\ in_q \in Seq(Commands) /\ Len(in_q) <= InCapacity
    /\ out_q \in Seq(Events) /\ Len(out_q) <= OutCapacity

EngineTypes ==
    /\ epc \in {"idle", "work", "emit"}
    /\ epc = "work" => cmd \in Commands
    /\ epc = "emit" => event \in Events
    /\ version \in Nat
    /\ IsFiniteSet(book) /\ book \subseteq Ids /\ Cardinality(book) <= PoolCapacity

Types == NetTypes /\ IOTypes /\ LoopTypes /\ QueueTypes /\ EngineTypes

\* Who sent what has not been passed on to the engine yet.
Senders ==
    /\ \A c \in Clients : \A i \in 1..Len(recv[c]) : recv[c][i].from = c
    /\ iopc = "batch" => \A i \in 1..Len(batch) : batch[i].from = clients[pos]

\* A position recorded in a command or REJECT is still that of its sender.
Routed(m) == m.client_idx \in 1..Len(clients) /\ clients[m.client_idx] = m.from

NobodyRemoved == \A c \in Clients : conn[c] # "removed"

AllRouted ==
    NobodyRemoved =>
        /\ \A i \in 1..Len(in_q) : Routed(in_q[i])
        /\ epc = "work" => Routed(cmd)
        /\ epc = "emit" /\ event.kind = "REJECT" => Routed(event)
        /\ \A i \in 1..Len(out_q) : out_q[i].kind = "REJECT" => Routed(out_q[i])

\* The numbers of c's commands, and the version of a snapshot.
NumOf(m, c) == IF m.from = c /\ m.n # 0 THEN {m.n} ELSE {}
Nums(s, c) == {s[i].n : i \in {j \in 1..Len(s) : s[j].from = c /\ s[j].n # 0}}
VersionOf(e) == IF e.kind = "UPDATE" THEN {e.version} ELSE {}
Before(S, T) == \A x \in S, y \in T : x < y

\* Numbers up to top, in five stages of which each is older than the next.
Ordered(o, e, q, b, r, top) ==
    /\ Before(o, e) /\ Before(o, q) /\ Before(o, b) /\ Before(o, r)
    /\ Before(e, q) /\ Before(e, b) /\ Before(e, r)
    /\ Before(q, b) /\ Before(q, r) /\ Before(b, r)
    /\ o \cup e \cup q \cup b \cup r \subseteq 1..top

\* The commands of c, from the oldest in out_q to the newest in its connection.
InStages(c) ==
    /\ Sorted(out_q, c) /\ Sorted(in_q, c) /\ Sorted(batch, c) /\ Sorted(recv[c], c)
    /\ Ordered(Nums(out_q, c), Nums(InEngine, c), Nums(in_q, c), Nums(batch, c),
               Nums(recv[c], c), sent)

Stages == \A c \in Clients : InStages(c)

\* Of the snapshots up to g, a client that has got those up to x has the others in
\* its buffer s.
CaughtUp(s, x, g) ==
    /\ Ascending(s)
    /\ \E base \in 0..g : Versions(s) = (base + 1)..g /\ (x # 0 => x = base)

\* The snapshots from g + 1 to v are on their way in o and h.
OnTheWay(o, h, g, v) ==
    /\ Versions(o) \cup Versions(h) = (g + 1)..v
    /\ Ascending(o) /\ Before(Versions(o), Versions(h))

\* The snapshots up to g have been broadcast.
Broadcasted(g) ==
    /\ OnTheWay(out_q, InEngine, g, version)
    /\ \A c \in Accepted : CaughtUp(sendbuf[c], seen[c], g)

Snapshots == \E g \in 0..version : Broadcasted(g)

\* A client that has not been accepted has got nothing, and nobody has got more
\* than there is.
Fresh ==
    /\ \A c \in Clients \ Accepted : conn[c] # "removed" => sendbuf[c] = <<>> /\ seen[c] = 0
    /\ \A c \in Clients : seen[c] <= version

Inv == /\ Types /\ NothingVanishes /\ Senders /\ AllRouted /\ RejectReachesSender
       /\ Stages /\ Snapshots /\ Fresh

-----------------------------------------------------------------------------
(***************************************************************************)
(* Sequences.                                                              *)
(***************************************************************************)
LEMMA AppendOf ==
    ASSUME NEW S, NEW s \in Seq(S), NEW x \in S
    PROVE  /\ Append(s, x) \in Seq(S) /\ Len(s) \in Nat
           /\ Len(Append(s, x)) = Len(s) + 1
           /\ \A i \in 1..Len(s) : Append(s, x)[i] = s[i]
           /\ Append(s, x)[Len(s) + 1] = x
           /\ \A i : i \in 1..(Len(s) + 1) <=> i \in 1..Len(s) \/ i = Len(s) + 1
<1>1. Len(s) \in Nat
  BY LenProperties
<1>2. \A i : i \in 1..(Len(s) + 1) <=> i \in 1..Len(s) \/ i = Len(s) + 1
  BY <1>1
<1> QED
  BY <1>1, <1>2, AppendProperties

LEMMA TailOf ==
    ASSUME NEW S, NEW s \in Seq(S), s # <<>>
    PROVE  /\ Head(s) = s[1] /\ s[1] \in S /\ Tail(s) \in Seq(S)
           /\ Len(s) \in Nat /\ Len(s) >= 1 /\ Len(Tail(s)) = Len(s) - 1
           /\ \A i \in 1..(Len(s) - 1) : Tail(s)[i] = s[i + 1] /\ i + 1 \in 1..Len(s)
           /\ \A i \in 1..Len(s) : i = 1 \/ i - 1 \in 1..(Len(s) - 1)
<1>1. Len(s) \in Nat /\ Len(s) >= 1
  BY EmptySeq
<1>2. /\ \A i \in 1..(Len(s) - 1) : i + 1 \in 1..Len(s)
      /\ \A i \in 1..Len(s) : i = 1 \/ i - 1 \in 1..(Len(s) - 1)
  BY <1>1
<1> QED
  BY <1>1, <1>2, HeadTailProperties

LEMMA ConcatOf ==
    ASSUME NEW S, NEW T, NEW s \in Seq(S), NEW t \in Seq(T)
    PROVE  /\ s \o t \in Seq(S \cup T) /\ Len(s) \in Nat /\ Len(t) \in Nat
           /\ Len(s \o t) = Len(s) + Len(t)
           /\ \A i \in 1..Len(s) : (s \o t)[i] = s[i] /\ i \in 1..(Len(s) + Len(t))
           /\ \A i \in 1..Len(t) : (s \o t)[Len(s) + i] = t[i]
                                   /\ Len(s) + i \in 1..(Len(s) + Len(t))
           /\ \A i \in 1..(Len(s) + Len(t)) : i \in 1..Len(s) \/ i - Len(s) \in 1..Len(t)
<1>1. s \in Seq(S \cup T) /\ t \in Seq(S \cup T)
  BY SeqMonotonic
<1>2. Len(s) \in Nat /\ Len(t) \in Nat
  BY LenProperties
<1>3. /\ s \o t \in Seq(S \cup T) /\ Len(s \o t) = Len(s) + Len(t)
      /\ \A i \in 1..(Len(s) + Len(t)) :
            (s \o t)[i] = IF i <= Len(s) THEN s[i] ELSE t[i - Len(s)]
  BY <1>1, ConcatProperties
<1> DEFINE m == Len(s)
           n == Len(t)
<1>4. /\ \A i \in 1..m : i \in 1..(m + n) /\ i <= m
      /\ \A i \in 1..n : m + i \in 1..(m + n) /\ ~(m + i <= m) /\ (m + i) - m = i
      /\ \A i \in 1..(m + n) : i \in 1..m \/ i - m \in 1..n
  BY <1>2
<1> QED
  BY <1>2, <1>3, <1>4

\* Numbers of commands, and their order.
LEMMA NumsIn ==
    ASSUME NEW s, NEW c
    PROVE  /\ \A x : x \in Nums(s, c) <=> \E i \in 1..Len(s) : x \in NumOf(s[i], c)
           /\ Sorted(s, c) <=>
                \A i, j \in 1..Len(s) : i < j => Before(NumOf(s[i], c), NumOf(s[j], c))
<1>1. \A x : x \in Nums(s, c) <=> \E i \in 1..Len(s) : x \in NumOf(s[i], c)
  BY DEF Nums, NumOf
<1>2. \A m, k : Before(NumOf(m, c), NumOf(k, c)) <=>
         (m.from = c /\ k.from = c /\ m.n # 0 /\ k.n # 0 => m.n < k.n)
  BY DEF Before, NumOf
<1>3. Sorted(s, c) <=>
        \A i, j \in 1..Len(s) : i < j => Before(NumOf(s[i], c), NumOf(s[j], c))
  BY <1>2 DEF Sorted
<1> QED
  BY <1>1, <1>3

LEMMA NumsOfAppend ==
    ASSUME NEW S, NEW s \in Seq(S), NEW x \in S, NEW c
    PROVE  /\ Nums(Append(s, x), c) = Nums(s, c) \cup NumOf(x, c)
           /\ Sorted(s, c) /\ Before(Nums(s, c), NumOf(x, c)) => Sorted(Append(s, x), c)
<1> DEFINE a == Append(s, x)
           n == Len(s)
<1>1. /\ n \in Nat /\ Len(a) = n + 1 /\ a[n + 1] = x /\ \A i \in 1..n : a[i] = s[i]
      /\ \A i : i \in 1..(n + 1) <=> i \in 1..n \/ i = n + 1
  BY AppendOf
<1> HIDE DEF a, n
<1>2. Nums(a, c) = Nums(s, c) \cup NumOf(x, c)
  <2>1. \A y : y \in Nums(a, c) <=> \E i \in 1..(n + 1) : y \in NumOf(a[i], c)
    BY <1>1, NumsIn
  <2>2. \A y : y \in Nums(s, c) <=> \E i \in 1..n : y \in NumOf(s[i], c)
    BY NumsIn DEF n
  <2> QED
    BY <1>1, <2>1, <2>2
<1>3. ASSUME Sorted(s, c), Before(Nums(s, c), NumOf(x, c)) PROVE Sorted(a, c)
  <2> SUFFICES ASSUME NEW i \in 1..(n + 1), NEW j \in 1..(n + 1), i < j
               PROVE  Before(NumOf(a[i], c), NumOf(a[j], c))
    BY <1>1, NumsIn
  <2>1. i \in 1..n
    BY <1>1
  <2>2. CASE j \in 1..n
    BY <1>1, <1>3, <2>1, <2>2, NumsIn DEF n
  <2>3. CASE j = n + 1
    <3>1. NumOf(s[i], c) \subseteq Nums(s, c)
      BY <2>1, NumsIn DEF n
    <3> QED
      BY <1>1, <1>3, <2>1, <2>3, <3>1 DEF Before
  <2> QED
    BY <1>1, <2>2, <2>3
<1> QED
  BY <1>2, <1>3 DEF a

LEMMA NumsOfTail ==
    ASSUME NEW S, NEW s \in Seq(S), s # <<>>, NEW c
    PROVE  /\ Nums(s, c) = NumOf(Head(s), c) \cup Nums(Tail(s), c)
           /\ Sorted(s, c) => Sorted(Tail(s), c) /\ Before(NumOf(Head(s), c), Nums(Tail(s), c))
<1> DEFINE t == Tail(s)
           n == Len(s)
<1>1. /\ n \in Nat /\ n >= 1 /\ Len(t) = n - 1 /\ Head(s) = s[1]
      /\ \A i \in 1..(n - 1) : t[i] = s[i + 1] /\ i + 1 \in 1..n
      /\ \A i \in 1..n : i = 1 \/ i - 1 \in 1..(n - 1)
  BY TailOf
<1> HIDE DEF t, n
<1>2. \A y : y \in Nums(t, c) <=> \E i \in 1..(n - 1) : y \in NumOf(t[i], c)
  BY <1>1, NumsIn
<1>3. \A y : y \in Nums(s, c) <=> \E i \in 1..n : y \in NumOf(s[i], c)
  BY NumsIn DEF n
<1>4. 1 \in 1..n /\ \A i \in 1..n : i # 1 => s[i] = t[i - 1] /\ i - 1 \in 1..(n - 1)
  <2>1. \A i \in 1..n : (i - 1) + 1 = i
    BY <1>1
  <2> QED
    BY <1>1, <2>1
<1>5. Nums(s, c) = NumOf(Head(s), c) \cup Nums(t, c)
  BY <1>1, <1>2, <1>3, <1>4
<1>6. ASSUME Sorted(s, c) PROVE Sorted(t, c) /\ Before(NumOf(Head(s), c), Nums(t, c))
  <2>1. \A i, j \in 1..n : i < j => Before(NumOf(s[i], c), NumOf(s[j], c))
    BY <1>6, NumsIn DEF n
  <2>2. \A i, j \in 1..(n - 1) : i < j => i + 1 < j + 1
    BY <1>1
  <2>3. \A i, j \in 1..(n - 1) : i < j => Before(NumOf(t[i], c), NumOf(t[j], c))
    BY <1>1, <2>1, <2>2
  <2>4. \A j \in 1..(n - 1) : 1 < j + 1
    BY <1>1
  <2>5. \A j \in 1..(n - 1) : Before(NumOf(s[1], c), NumOf(t[j], c))
    BY <1>1, <1>4, <2>1, <2>4
  <2> QED
    BY <1>1, <1>2, <2>3, <2>5, NumsIn DEF Before
<1> QED
  BY <1>5, <1>6 DEF t

LEMMA NumsOfConcat ==
    ASSUME NEW S, NEW T, NEW s \in Seq(S), NEW t \in Seq(T), NEW c
    PROVE  /\ Nums(s \o t, c) = Nums(s, c) \cup Nums(t, c)
           /\ Sorted(s, c) /\ Sorted(t, c) /\ Before(Nums(s, c), Nums(t, c))
                => Sorted(s \o t, c)
<1> DEFINE a == s \o t
           m == Len(s)
           n == Len(t)
<1>1. /\ m \in Nat /\ n \in Nat /\ Len(a) = m + n
      /\ \A i \in 1..m : a[i] = s[i] /\ i \in 1..(m + n)
      /\ \A i \in 1..n : a[m + i] = t[i] /\ m + i \in 1..(m + n)
      /\ \A i \in 1..(m + n) : i \in 1..m \/ i - m \in 1..n
  BY ConcatOf
<1> HIDE DEF a, m, n
<1>2. \A i \in 1..(m + n) : i \notin 1..m => i - m \in 1..n /\ a[i] = t[i - m]
  <2>1. \A i \in 1..(m + n) : m + (i - m) = i
    BY <1>1
  <2> QED
    BY <1>1, <2>1
<1>3. \A y : y \in Nums(a, c) <=> \E i \in 1..(m + n) : y \in NumOf(a[i], c)
  BY <1>1, NumsIn
<1>4. \A y : y \in Nums(s, c) <=> \E i \in 1..m : y \in NumOf(s[i], c)
  BY NumsIn DEF m
<1>5. \A y : y \in Nums(t, c) <=> \E i \in 1..n : y \in NumOf(t[i], c)
  BY NumsIn DEF n
<1>6. Nums(a, c) = Nums(s, c) \cup Nums(t, c)
  BY <1>1, <1>2, <1>3, <1>4, <1>5
<1>7. ASSUME Sorted(s, c), Sorted(t, c), Before(Nums(s, c), Nums(t, c)) PROVE Sorted(a, c)
  <2> SUFFICES ASSUME NEW i \in 1..(m + n), NEW j \in 1..(m + n), i < j
               PROVE  Before(NumOf(a[i], c), NumOf(a[j], c))
    BY <1>1, NumsIn
  <2>1. CASE i \in 1..m /\ j \in 1..m
    BY <1>1, <1>7, <2>1, NumsIn DEF m
  <2>2. CASE i \in 1..m /\ j \notin 1..m
    <3>1. NumOf(a[i], c) \subseteq Nums(s, c) /\ NumOf(a[j], c) \subseteq Nums(t, c)
      BY <1>1, <1>2, <1>4, <1>5, <2>2
    <3> QED
      BY <1>7, <3>1 DEF Before
  <2>3. CASE i \notin 1..m /\ j \notin 1..m
    <3>1. i - m < j - m
      BY <1>1
    <3>2. i - m \in 1..n /\ a[i] = t[i - m] /\ j - m \in 1..n /\ a[j] = t[j - m]
      BY <1>2, <2>3
    <3> QED
      BY <1>7, <3>1, <3>2, NumsIn DEF n
  <2>4. i \notin 1..m => j \notin 1..m
    BY <1>1
  <2> QED
    BY <2>1, <2>2, <2>3, <2>4
<1> QED
  BY <1>6, <1>7 DEF a

LEMMA NumsOfEmpty ==
    ASSUME NEW c
    PROVE  Nums(<<>>, c) = {} /\ Sorted(<<>>, c)
BY DEF Nums, Sorted

LEMMA NumsOfOne ==
    ASSUME NEW c, NEW x
    PROVE  Nums(<<x>>, c) = NumOf(x, c) /\ Sorted(<<x>>, c)
<1> DEFINE s == <<x>>
<1>1. s[1] = x /\ \A i : i \in 1..Len(s) <=> i = 1
  OBVIOUS
<1> HIDE DEF s
<1>2. \A y : y \in Nums(s, c) <=> y \in NumOf(x, c)
  BY <1>1, NumsIn
<1>3. Sorted(s, c)
  BY <1>1 DEF Sorted
<1> QED
  BY <1>2, <1>3 DEF s

\* Versions of snapshots, and their order.
LEMMA VersionsIn ==
    ASSUME NEW s
    PROVE  /\ \A x : x \in Versions(s) <=> \E i \in 1..Len(s) : x \in VersionOf(s[i])
           /\ Ascending(s) <=>
                \A i, j \in 1..Len(s) : i < j => Before(VersionOf(s[i]), VersionOf(s[j]))
<1>1. \A x : x \in Versions(s) <=> \E i \in 1..Len(s) : x \in VersionOf(s[i])
  BY DEF Versions, VersionOf
<1>2. \A m, k : Before(VersionOf(m), VersionOf(k)) <=>
         (m.kind = "UPDATE" /\ k.kind = "UPDATE" => m.version < k.version)
  BY DEF Before, VersionOf
<1>3. Ascending(s) <=>
        \A i, j \in 1..Len(s) : i < j => Before(VersionOf(s[i]), VersionOf(s[j]))
  BY <1>2 DEF Ascending
<1> QED
  BY <1>1, <1>3

LEMMA VersionsOfAppend ==
    ASSUME NEW S, NEW s \in Seq(S), NEW x \in S
    PROVE  /\ Versions(Append(s, x)) = Versions(s) \cup VersionOf(x)
           /\ Ascending(s) /\ Before(Versions(s), VersionOf(x)) => Ascending(Append(s, x))
<1> DEFINE a == Append(s, x)
           n == Len(s)
<1>1. /\ n \in Nat /\ Len(a) = n + 1 /\ a[n + 1] = x /\ \A i \in 1..n : a[i] = s[i]
      /\ \A i : i \in 1..(n + 1) <=> i \in 1..n \/ i = n + 1
  BY AppendOf
<1> HIDE DEF a, n
<1>2. Versions(a) = Versions(s) \cup VersionOf(x)
  <2>1. \A y : y \in Versions(a) <=> \E i \in 1..(n + 1) : y \in VersionOf(a[i])
    BY <1>1, VersionsIn
  <2>2. \A y : y \in Versions(s) <=> \E i \in 1..n : y \in VersionOf(s[i])
    BY VersionsIn DEF n
  <2> QED
    BY <1>1, <2>1, <2>2
<1>3. ASSUME Ascending(s), Before(Versions(s), VersionOf(x)) PROVE Ascending(a)
  <2> SUFFICES ASSUME NEW i \in 1..(n + 1), NEW j \in 1..(n + 1), i < j
               PROVE  Before(VersionOf(a[i]), VersionOf(a[j]))
    BY <1>1, VersionsIn
  <2>1. i \in 1..n
    BY <1>1
  <2>2. CASE j \in 1..n
    BY <1>1, <1>3, <2>1, <2>2, VersionsIn DEF n
  <2>3. CASE j = n + 1
    <3>1. VersionOf(s[i]) \subseteq Versions(s)
      BY <2>1, VersionsIn DEF n
    <3> QED
      BY <1>1, <1>3, <2>1, <2>3, <3>1 DEF Before
  <2> QED
    BY <1>1, <2>2, <2>3
<1> QED
  BY <1>2, <1>3 DEF a

LEMMA VersionsOfTail ==
    ASSUME NEW S, NEW s \in Seq(S), s # <<>>
    PROVE  /\ Versions(s) = VersionOf(Head(s)) \cup Versions(Tail(s))
           /\ Ascending(s) => Ascending(Tail(s)) /\ Before(VersionOf(Head(s)), Versions(Tail(s)))
<1> DEFINE t == Tail(s)
           n == Len(s)
<1>1. /\ n \in Nat /\ n >= 1 /\ Len(t) = n - 1 /\ Head(s) = s[1]
      /\ \A i \in 1..(n - 1) : t[i] = s[i + 1] /\ i + 1 \in 1..n
      /\ \A i \in 1..n : i = 1 \/ i - 1 \in 1..(n - 1)
  BY TailOf
<1> HIDE DEF t, n
<1>2. \A y : y \in Versions(t) <=> \E i \in 1..(n - 1) : y \in VersionOf(t[i])
  BY <1>1, VersionsIn
<1>3. \A y : y \in Versions(s) <=> \E i \in 1..n : y \in VersionOf(s[i])
  BY VersionsIn DEF n
<1>4. 1 \in 1..n /\ \A i \in 1..n : i # 1 => s[i] = t[i - 1] /\ i - 1 \in 1..(n - 1)
  <2>1. \A i \in 1..n : (i - 1) + 1 = i
    BY <1>1
  <2> QED
    BY <1>1, <2>1
<1>5. Versions(s) = VersionOf(Head(s)) \cup Versions(t)
  BY <1>1, <1>2, <1>3, <1>4
<1>6. ASSUME Ascending(s) PROVE Ascending(t) /\ Before(VersionOf(Head(s)), Versions(t))
  <2>1. \A i, j \in 1..n : i < j => Before(VersionOf(s[i]), VersionOf(s[j]))
    BY <1>6, VersionsIn DEF n
  <2>2. \A i, j \in 1..(n - 1) : i < j => i + 1 < j + 1
    BY <1>1
  <2>3. \A i, j \in 1..(n - 1) : i < j => Before(VersionOf(t[i]), VersionOf(t[j]))
    BY <1>1, <2>1, <2>2
  <2>4. \A j \in 1..(n - 1) : 1 < j + 1
    BY <1>1
  <2>5. \A j \in 1..(n - 1) : Before(VersionOf(s[1]), VersionOf(t[j]))
    BY <1>1, <1>4, <2>1, <2>4
  <2> QED
    BY <1>1, <1>2, <2>3, <2>5, VersionsIn DEF Before
<1> QED
  BY <1>5, <1>6 DEF t

LEMMA VersionsOfConcat ==
    ASSUME NEW S, NEW T, NEW s \in Seq(S), NEW t \in Seq(T)
    PROVE  /\ Versions(s \o t) = Versions(s) \cup Versions(t)
           /\ Ascending(s) /\ Ascending(t) /\ Before(Versions(s), Versions(t))
                => Ascending(s \o t)
<1> DEFINE a == s \o t
           m == Len(s)
           n == Len(t)
<1>1. /\ m \in Nat /\ n \in Nat /\ Len(a) = m + n
      /\ \A i \in 1..m : a[i] = s[i] /\ i \in 1..(m + n)
      /\ \A i \in 1..n : a[m + i] = t[i] /\ m + i \in 1..(m + n)
      /\ \A i \in 1..(m + n) : i \in 1..m \/ i - m \in 1..n
  BY ConcatOf
<1> HIDE DEF a, m, n
<1>2. \A i \in 1..(m + n) : i \notin 1..m => i - m \in 1..n /\ a[i] = t[i - m]
  <2>1. \A i \in 1..(m + n) : m + (i - m) = i
    BY <1>1
  <2> QED
    BY <1>1, <2>1
<1>3. \A y : y \in Versions(a) <=> \E i \in 1..(m + n) : y \in VersionOf(a[i])
  BY <1>1, VersionsIn
<1>4. \A y : y \in Versions(s) <=> \E i \in 1..m : y \in VersionOf(s[i])
  BY VersionsIn DEF m
<1>5. \A y : y \in Versions(t) <=> \E i \in 1..n : y \in VersionOf(t[i])
  BY VersionsIn DEF n
<1>6. Versions(a) = Versions(s) \cup Versions(t)
  BY <1>1, <1>2, <1>3, <1>4, <1>5
<1>7. ASSUME Ascending(s), Ascending(t), Before(Versions(s), Versions(t)) PROVE Ascending(a)
  <2> SUFFICES ASSUME NEW i \in 1..(m + n), NEW j \in 1..(m + n), i < j
               PROVE  Before(VersionOf(a[i]), VersionOf(a[j]))
    BY <1>1, VersionsIn
  <2>1. CASE i \in 1..m /\ j \in 1..m
    BY <1>1, <1>7, <2>1, VersionsIn DEF m
  <2>2. CASE i \in 1..m /\ j \notin 1..m
    <3>1. VersionOf(a[i]) \subseteq Versions(s) /\ VersionOf(a[j]) \subseteq Versions(t)
      BY <1>1, <1>2, <1>4, <1>5, <2>2
    <3> QED
      BY <1>7, <3>1 DEF Before
  <2>3. CASE i \notin 1..m /\ j \notin 1..m
    <3>1. i - m < j - m
      BY <1>1
    <3>2. i - m \in 1..n /\ a[i] = t[i - m] /\ j - m \in 1..n /\ a[j] = t[j - m]
      BY <1>2, <2>3
    <3> QED
      BY <1>7, <3>1, <3>2, VersionsIn DEF n
  <2>4. i \notin 1..m => j \notin 1..m
    BY <1>1
  <2> QED
    BY <2>1, <2>2, <2>3, <2>4
<1> QED
  BY <1>6, <1>7 DEF a

LEMMA VersionsOfEmpty ==
    Versions(<<>>) = {} /\ Ascending(<<>>)
BY DEF Versions, Ascending

LEMMA VersionsOfOne ==
    ASSUME NEW x
    PROVE  Versions(<<x>>) = VersionOf(x) /\ Ascending(<<x>>)
<1> DEFINE s == <<x>>
<1>1. s[1] = x /\ \A i : i \in 1..Len(s) <=> i = 1
  OBVIOUS
<1> HIDE DEF s
<1>2. \A y : y \in Versions(s) <=> y \in VersionOf(x)
  BY <1>1, VersionsIn
<1>3. Ascending(s)
  BY <1>1 DEF Ascending
<1> QED
  BY <1>2, <1>3 DEF s

-----------------------------------------------------------------------------
(***************************************************************************)
(* Types.                                                                  *)
(***************************************************************************)
LEMMA MessageIs ==
    ASSUME NEW m \in Messages
    PROVE  /\ m.from \in Clients /\ m.n \in Nat /\ m.kind \in MessageKinds
           /\ m.kind = "OTHER" => m.n = 0
           /\ m.kind # "OTHER" => m.n \in Numbered /\ m.id \in Ids
BY DEF Messages, MessageKinds, Numbered

LEMMA CommandIs ==
    ASSUME NEW m \in Commands
    PROVE  /\ m.kind \in {"NEW", "CANCEL", "MODIFY"} /\ m.id \in Ids
           /\ m.from \in Clients /\ m.n \in Numbered /\ m.n \in Nat /\ m.n # 0
           /\ m.client_idx \in Numbered
BY DEF Commands, Numbered

LEMMA EventIs ==
    ASSUME NEW e \in Events
    PROVE  /\ e.kind \in {"UPDATE", "REJECT"} /\ e.from \in Clients
           /\ e.n \in Numbered /\ e.n \in Nat /\ e.n # 0
           /\ e.kind = "UPDATE" => e.version \in Nat
           /\ e.kind = "REJECT" => e.client_idx \in Numbered /\ e.reason \in Reasons
BY DEF Events, Numbered

LEMMA RejectionIs ==
    ASSUME NEW m, m.n \in Numbered, m.from \in Clients, NEW why \in Reasons
    PROVE  /\ Rejection(m, why) \in Buffered /\ Rejection(m, why).kind = "REJECT"
           /\ Rejection(m, why).from = m.from
BY DEF Rejection, Buffered

\* clients_ is no longer than there are connections.
LEMMA ClientsFit ==
    ASSUME clients \in Seq(Clients), IsInjective(clients)
    PROVE  /\ Len(clients) \in Nat /\ Cardinality(Clients) \in Nat
           /\ Len(clients) <= Cardinality(Clients)
<1> DEFINE n == Len(clients)
<1>1. n \in Nat /\ clients \in [1..n -> Clients]
  BY LenProperties
<1>2. clients \in Injection(1..n, Clients)
  BY <1>1 DEF Injection
<1>3. IsFiniteSet(Clients)
  BY ServerAssumption
<1>4. Cardinality(1..n) <= Cardinality(Clients)
  BY <1>2, <1>3, FS_Injection
<1>5. Cardinality(1..n) = n
  <2>1. Cardinality(1..n) = IF 1 > n THEN 0 ELSE n - 1 + 1
    BY <1>1, FS_Interval
  <2> QED
    BY <1>1, <2>1
<1> QED
  BY <1>1, <1>3, <1>4, <1>5, FS_CardinalityType

LEMMA RemoveAtIs ==
    ASSUME NEW S, NEW s \in Seq(S), IsInjective(s), NEW i \in 1..Len(s)
    PROVE  /\ RemoveAt(s, i) \in Seq(S) /\ IsInjective(RemoveAt(s, i))
           /\ ToSet(RemoveAt(s, i)) = ToSet(s) \ {s[i]}
<1> DEFINE n == Len(s)
           a == SubSeq(s, 1, i - 1)
           b == SubSeq(s, i + 1, n)
           r == a \o b
<1>1. n \in Nat /\ DOMAIN s = 1..n /\ i \in Nat /\ i >= 1 /\ i <= n
  BY LenProperties
<1>2. \A j \in 1..n : s[j] \in S
  BY LenProperties
<1>3. /\ a \in Seq(S) /\ Len(a) = i - 1 /\ \A j \in 1..(i - 1) : a[j] = s[j]
  <2>1. \A j \in 1..(i - 1) : s[j] \in S
    BY <1>1, <1>2
  <2>2. /\ a \in Seq(S) /\ Len(a) = IF 1 <= i - 1 THEN (i - 1) - 1 + 1 ELSE 0
        /\ \A j \in 1..((i - 1) - 1 + 1) : a[j] = s[1 + j - 1]
    BY <1>1, <2>1, SubSeqProperties
  <2>3. (i - 1) - 1 + 1 = i - 1 /\ \A j \in 1..(i - 1) : 1 + j - 1 = j
    BY <1>1
  <2> HIDE DEF a
  <2> QED
    BY <1>1, <2>2, <2>3
<1>4. /\ b \in Seq(S) /\ Len(b) = n - i /\ \A j \in 1..(n - i) : b[j] = s[i + j]
  <2>1. \A j \in (i + 1)..n : s[j] \in S
    BY <1>1, <1>2
  <2>2. /\ b \in Seq(S) /\ Len(b) = IF i + 1 <= n THEN n - (i + 1) + 1 ELSE 0
        /\ \A j \in 1..(n - (i + 1) + 1) : b[j] = s[(i + 1) + j - 1]
    BY <1>1, <2>1, SubSeqProperties
  <2>3. n - (i + 1) + 1 = n - i /\ \A j \in 1..(n - i) : (i + 1) + j - 1 = i + j
    BY <1>1
  <2> HIDE DEF b, n
  <2>4. Len(b) = n - i
    BY <1>1, <2>2
  <2>5. \A j \in 1..(n - i) : b[j] = s[i + j]
    BY <2>2, <2>3
  <2> QED
    BY <2>2, <2>4, <2>5
<1> HIDE DEF a, b, n
<1>5. /\ r \in Seq(S) /\ Len(r) = (i - 1) + (n - i)
      /\ \A j \in 1..(i - 1) : r[j] = s[j]
      /\ \A j \in 1..(n - i) : r[(i - 1) + j] = s[i + j]
  <2>1. /\ r \in Seq(S \cup S) /\ Len(r) = Len(a) + Len(b)
        /\ \A j \in 1..Len(a) : r[j] = a[j]
        /\ \A j \in 1..Len(b) : r[Len(a) + j] = b[j]
    <3>1. a \in Seq(S) /\ b \in Seq(S)
      BY <1>3, <1>4
    <3> QED
      BY <3>1, ConcatOf
  <2>2. S \cup S = S
    OBVIOUS
  <2> HIDE DEF r
  <2>3. r \in Seq(S)
    BY <2>1, <2>2
  <2>4. Len(a) = i - 1 /\ Len(b) = n - i
    BY <1>3, <1>4
  <2>5. \A j \in 1..(i - 1) : r[j] = s[j]
    BY <1>3, <2>1, <2>4
  <2>6. \A j \in 1..(n - i) : r[(i - 1) + j] = s[i + j]
    BY <1>4, <2>1, <2>4
  <2> QED
    BY <2>1, <2>3, <2>4, <2>5, <2>6
<1> HIDE DEF r
<1>6. Len(r) = n - 1 /\ DOMAIN r = 1..(n - 1)
  BY <1>1, <1>5, LenProperties
<1>7. \A j \in 1..(n - 1) : r[j] = s[IF j < i THEN j ELSE j + 1]
  <2>1. ASSUME NEW j \in 1..(n - 1), j < i PROVE r[j] = s[j]
    BY <1>1, <1>5, <2>1
  <2>2. ASSUME NEW j \in 1..(n - 1), ~(j < i) PROVE r[j] = s[j + 1]
    <3>1. j - i + 1 \in 1..(n - i) /\ (i - 1) + (j - i + 1) = j /\ i + (j - i + 1) = j + 1
      BY <1>1, <2>2
    <3> QED
      BY <1>5, <3>1
  <2> QED
    BY <2>1, <2>2
<1>8. /\ \A j \in 1..(n - 1) : (IF j < i THEN j ELSE j + 1) \in 1..n
      /\ \A j \in 1..(n - 1) : (IF j < i THEN j ELSE j + 1) # i
      /\ \A j, k \in 1..(n - 1) :
            (IF j < i THEN j ELSE j + 1) = (IF k < i THEN k ELSE k + 1) => j = k
  BY <1>1
<1>9. \A j, k \in 1..n : s[j] = s[k] => j = k
  BY <1>1 DEF IsInjective
<1>10. IsInjective(r)
  BY <1>6, <1>7, <1>8, <1>9 DEF IsInjective
<1>11. ToSet(r) = ToSet(s) \ {s[i]}
  <2>1. ASSUME NEW j \in 1..(n - 1) PROVE r[j] \in ToSet(s) \ {s[i]}
    BY <1>1, <1>7, <1>8, <1>9 DEF ToSet
  <2>2. ASSUME NEW j \in 1..n, j # i PROVE \E k \in 1..(n - 1) : r[k] = s[j]
    <3>1. CASE j < i
      BY <1>1, <1>7, <3>1
    <3>2. CASE j > i
      <4>1. j - 1 \in 1..(n - 1) /\ ~(j - 1 < i) /\ (j - 1) + 1 = j
        BY <1>1, <3>2
      <4> QED
        BY <1>7, <4>1
    <3> QED
      BY <1>1, <2>2, <3>1, <3>2
  <2>3. \A x \in ToSet(s) \ {s[i]} : \E j \in 1..n : j # i /\ x = s[j]
    BY <1>1 DEF ToSet
  <2>4. \A x : x \in ToSet(r) <=> \E k \in 1..(n - 1) : r[k] = x
    BY <1>6 DEF ToSet
  <2>5. \A x : x \in ToSet(r) <=> x \in ToSet(s) \ {s[i]}
    BY <2>1, <2>2, <2>3, <2>4
  <2> QED
    BY <2>5
<1>12. r = RemoveAt(s, i)
  BY DEF RemoveAt, r, a, b, n
<1> QED
  BY <1>5, <1>10, <1>11, <1>12

LEMMA AcceptedIs ==
    ASSUME clients \in Seq(Clients)
    PROVE  /\ Accepted \subseteq Clients /\ Len(clients) \in Nat
           /\ \A c : c \in Accepted <=> \E i \in 1..Len(clients) : clients[i] = c
           /\ \A i \in 1..Len(clients) : clients[i] \in Clients
BY LenProperties DEF Accepted, ToSet

\* The largest version a flush can tell.
LEMMA MaxOfRun ==
    ASSUME NEW base \in Nat, NEW g \in Nat, base <= g, NEW x \in Nat, x = 0 \/ x = base
    PROVE  LET m == Max(((base + 1)..g) \cup {x}) IN
           /\ m \in Nat /\ (m = x \/ m = g)
           /\ m # 0 => m = g
<1> DEFINE T == ((base + 1)..g) \cup {x}
           m == Max(T)
<1>1. CASE base = g
  <2>1. T = {x}
    BY <1>1
  <2>2. m = x
    BY <2>1 DEF Max
  <2> HIDE DEF T, m
  <2>3. m \in Nat /\ (m = x \/ m = g) /\ (m # 0 => m = g)
    BY <1>1, <2>2
  <2> QED
    BY <2>3 DEF m, T
<1>2. CASE base < g
  <2>1. g \in T /\ \A y \in T : y \in Nat /\ g >= y
    BY <1>2
  <2> HIDE DEF T
  <2>2. m \in T /\ \A y \in T : m >= y
    BY <2>1 DEF Max
  <2>3. m = g
    <3>1. m \in Nat /\ m >= g /\ g >= m
      BY <2>1, <2>2
    <3> HIDE DEF m
    <3> QED
      BY <3>1
  <2> HIDE DEF m
  <2>4. m \in Nat /\ (m = x \/ m = g) /\ (m # 0 => m = g)
    BY <2>3
  <2> QED
    BY <2>4 DEF m, T
<1> QED
  BY <1>1, <1>2

LEMMA FlushIs ==
    ASSUME IOTypes, NEW g \in Nat, Broadcasted(g), NEW S, S \subseteq Accepted, NEW gone,
           Flush(S, gone)
    PROVE  /\ sendbuf' \in [Clients -> Seq(Buffered)] /\ seen' \in [Clients -> Nat]
           /\ \A c \in Clients : c \in S \cup gone => sendbuf'[c] = <<>>
           /\ \A c \in Clients : c \notin S \cup gone => sendbuf'[c] = sendbuf[c]
           /\ \A c \in Clients : c \notin S => seen'[c] = seen[c]
           /\ \A c \in S : seen'[c] = seen[c] \/ seen'[c] = g
           /\ \A c \in S : seen'[c] # 0 => seen'[c] = g
<1>1. Accepted \subseteq Clients
  BY AcceptedIs DEF IOTypes
<1>2. /\ sendbuf' = [c \in Clients |-> IF c \in S \cup gone THEN <<>> ELSE sendbuf[c]]
      /\ seen' = [c \in Clients |-> IF c \in S THEN Max(Versions(sendbuf[c]) \cup {seen[c]})
                                                ELSE seen[c]]
  BY DEF Flush
<1>3. ASSUME NEW c \in S
      PROVE  /\ seen'[c] \in Nat /\ (seen'[c] = seen[c] \/ seen'[c] = g)
             /\ seen'[c] # 0 => seen'[c] = g
  <2>1. seen'[c] = Max(Versions(sendbuf[c]) \cup {seen[c]})
    BY <1>1, <1>2
  <2>2. PICK base \in 0..g : /\ Versions(sendbuf[c]) = (base + 1)..g
                             /\ seen[c] # 0 => seen[c] = base
    BY DEF Broadcasted, CaughtUp
  <2>3. seen[c] \in Nat /\ base \in Nat /\ base <= g
    BY <1>1 DEF IOTypes
  <2> DEFINE m == Max(((base + 1)..g) \cup {seen[c]})
  <2>4. m \in Nat /\ (m = seen[c] \/ m = g) /\ (m # 0 => m = g)
    BY <2>2, <2>3, MaxOfRun
  <2>5. seen'[c] = m
    BY <2>1, <2>2
  <2> HIDE DEF m
  <2> QED
    BY <2>4, <2>5
<1>4. seen' \in [Clients -> Nat]
  <2>1. \A c \in Clients : seen'[c] \in Nat
    BY <1>2, <1>3 DEF IOTypes
  <2> QED
    BY <1>2, <2>1
<1>5. sendbuf' \in [Clients -> Seq(Buffered)]
  <2>1. <<>> \in Seq(Buffered)
    BY EmptySeq
  <2> QED
    BY <1>2, <2>1 DEF IOTypes
<1>6. /\ \A c \in Clients : c \in S \cup gone => sendbuf'[c] = <<>>
      /\ \A c \in Clients : c \notin S \cup gone => sendbuf'[c] = sendbuf[c]
      /\ \A c \in Clients : c \notin S => seen'[c] = seen[c]
  BY <1>2
<1> QED
  BY <1>3, <1>4, <1>5, <1>6

LEMMA WritableIs ==
    ASSUME clients \in Seq(Clients), NEW r, NEW i \in Nat, i >= 1
    PROVE  Writable(r, i) \subseteq Accepted
<1>1. Len(clients) \in Nat
  BY AcceptedIs
<1>2. i <= Len(clients) => clients[i] \in Accepted
  BY <1>1, AcceptedIs
<1> QED
  BY <1>2 DEF Writable

\* A REJECT is put in the buffer of the client at that position, if there is one.
LEMMA SendRejectIs ==
    ASSUME IOTypes, NEW i \in Numbered, NEW x \in Buffered, SendReject(i, x)
    PROVE  /\ sendbuf' \in [Clients -> Seq(Buffered)]
           /\ \A c \in Clients :
                 \/ sendbuf'[c] = sendbuf[c]
                 \/ /\ i \in 1..Len(clients) /\ c = clients[i]
                    /\ sendbuf'[c] = Append(sendbuf[c], x)
           /\ \A c \in Clients \ Accepted : sendbuf'[c] = sendbuf[c]
<1>1. Len(clients) \in Nat /\ \A j \in 1..Len(clients) : clients[j] \in Clients
  BY AcceptedIs DEF IOTypes
<1>2. CASE i > Len(clients)
  BY <1>2 DEF SendReject, IOTypes
<1>3. CASE ~(i > Len(clients))
  <2>1. i \in 1..Len(clients)
    BY <1>1, <1>3 DEF Numbered
  <2> DEFINE d == clients[i]
  <2>2. d \in Clients /\ d \in Accepted
    BY <1>1, <2>1, AcceptedIs DEF IOTypes
  <2>3. sendbuf' = [sendbuf EXCEPT ![d] = Append(sendbuf[d], x)]
    BY <1>3 DEF SendReject
  <2>4. sendbuf \in [Clients -> Seq(Buffered)] /\ Append(sendbuf[d], x) \in Seq(Buffered)
    BY <2>2, AppendOf DEF IOTypes
  <2> QED
    BY <2>1, <2>2, <2>3, <2>4
<1> QED
  BY <1>2, <1>3

LEMMA BroadcastIs ==
    ASSUME IOTypes, NEW x \in Buffered, Broadcast(x)
    PROVE  /\ sendbuf' \in [Clients -> Seq(Buffered)]
           /\ \A c \in Accepted : sendbuf'[c] = Append(sendbuf[c], x)
           /\ \A c \in Clients \ Accepted : sendbuf'[c] = sendbuf[c]
<1>1. Accepted \subseteq Clients
  BY AcceptedIs DEF IOTypes
<1>2. \A c \in Clients : Append(sendbuf[c], x) \in Seq(Buffered)
  BY AppendOf DEF IOTypes
<1> QED
  BY <1>1, <1>2 DEF Broadcast, IOTypes

\* The client being served, and its messages.
LEMMA ServeIs ==
    ASSUME Types, Serve
    PROVE  /\ pos \in 1..Len(clients) /\ clients[pos] \in Clients /\ clients[pos] \in Accepted
           /\ \E r : ServeHangup(r) \/ ServeEmptyRead(r) \/ ServeRead(r) \/ ServeWrite(r)
           /\ batch = <<>>
<1>1. pos \in Nat /\ pos >= 1 /\ pos <= Len(clients) /\ iopc = "serve"
  <2>1. pos \in 1..(Cardinality(Clients) + 1)
    BY DEF Serve, Types, LoopTypes
  <2>2. Cardinality(Clients) \in Nat
    BY ServerAssumption, FS_CardinalityType
  <2> QED
    BY <2>1, <2>2 DEF Serve
<1>2. Len(clients) \in Nat
  BY AcceptedIs DEF Types, IOTypes
<1>3. pos \in 1..Len(clients)
  BY <1>1, <1>2
<1>4. clients[pos] \in Clients /\ clients[pos] \in Accepted
  BY <1>3, AcceptedIs DEF Types, IOTypes
<1>5. batch = <<>>
  BY <1>1 DEF Types, LoopTypes
<1>6. \E r : ServeHangup(r) \/ ServeEmptyRead(r) \/ ServeRead(r) \/ ServeWrite(r)
  BY DEF Serve
<1> QED
  BY <1>3, <1>4, <1>5, <1>6

\* The message that is processed.
LEMMA BatchIs ==
    ASSUME Types, ProcessMessage
    PROVE  /\ pos \in 1..Len(clients) /\ pos \in Numbered
           /\ batch # <<>> /\ Head(batch) \in Messages /\ Head(batch) = batch[1]
           /\ batch' = Tail(batch) /\ Tail(batch) \in Seq(Messages)
           /\ \/ ProcessReject(Head(batch)) \/ ProcessCommand(Head(batch))
              \/ ProcessOther(Head(batch))
           /\ iopc = "batch" /\ iopc' = iopc /\ pos' = pos /\ clients' = clients
<1>1. pos \in 1..(Cardinality(Clients) + 1) /\ pos <= Len(clients) /\ batch \in Seq(Messages)
  BY DEF ProcessMessage, Types, LoopTypes, IOTypes
<1>2. Cardinality(Clients) \in Nat /\ Len(clients) \in Nat
  BY ServerAssumption, FS_CardinalityType, AcceptedIs DEF Types, IOTypes
<1>3. pos \in 1..Len(clients) /\ pos \in Numbered
  BY <1>1, <1>2 DEF Numbered
<1>4. batch # <<>>
  BY DEF ProcessMessage
<1>5. Head(batch) \in Messages /\ Head(batch) = batch[1] /\ Tail(batch) \in Seq(Messages)
  BY <1>1, <1>4, TailOf
<1> QED
  BY <1>3, <1>4, <1>5 DEF ProcessMessage

\* A message that is no command is answered at once, or ignored.
LEMMA RejectedMessage ==
    ASSUME Types, ProcessMessage, ProcessReject(Head(batch))
    PROVE  /\ \E why \in Reasons : SendReject(pos, Rejection(Head(batch), why))
                                   /\ Rejection(Head(batch), why) \in Buffered
           /\ Head(batch).kind # "OTHER" /\ UNCHANGED <<in_q, unanswered>>
<1>1. PICK why \in {"INVALID_PARAMS", "DUPLICATE_ID"} :
         /\ why = "INVALID_PARAMS" => Head(batch).kind = "INVALID"
         /\ why = "DUPLICATE_ID" => Head(batch).kind = "NEW"
         /\ SendReject(pos, Rejection(Head(batch), why))
         /\ UNCHANGED <<in_q, unanswered>>
  BY DEF ProcessReject
<1>2. why \in Reasons /\ Head(batch).kind # "OTHER"
  BY <1>1 DEF Reasons
<1>3. Head(batch).n \in Numbered /\ Head(batch).from \in Clients
  BY <1>2, BatchIs, MessageIs
<1> QED
  BY <1>1, <1>2, <1>3, RejectionIs

\* A command is put in in_q with the position of its client, or lost.
Queued(m) == [kind |-> m.kind, id |-> m.id, from |-> m.from, n |-> m.n, client_idx |-> pos]

LEMMA QueuedCommand ==
    ASSUME Types, ProcessMessage, ProcessCommand(Head(batch))
    PROVE  /\ \/ in_q' = in_q /\ unanswered' = unanswered
              \/ /\ in_q' = Append(in_q, Queued(Head(batch))) /\ Len(in_q) < InCapacity
                 /\ unanswered' = unanswered \cup {Head(batch).n}
           /\ Queued(Head(batch)) \in Commands /\ Queued(Head(batch)).n = Head(batch).n
           /\ Queued(Head(batch)).from = Head(batch).from
           /\ Queued(Head(batch)).client_idx = pos /\ sendbuf' = sendbuf
<1> DEFINE m == Head(batch)
<1>1. m.kind \in {"NEW", "CANCEL", "MODIFY"} /\ PushCommand(m) /\ sendbuf' = sendbuf
      /\ unanswered' = IF Len(in_q) = InCapacity THEN unanswered ELSE unanswered \cup {m.n}
  BY DEF ProcessCommand
<1>2. m \in Messages /\ pos \in Numbered
  BY BatchIs
<1>3. m.n \in Numbered /\ m.id \in Ids /\ m.from \in Clients
  BY <1>1, <1>2, MessageIs
<1> HIDE DEF m
<1>4. Queued(m) \in Commands /\ Queued(m).n = m.n /\ Queued(m).from = m.from
      /\ Queued(m).client_idx = pos
  BY <1>1, <1>2, <1>3 DEF Queued, Commands
<1>5. in_q' = IF Len(in_q) = InCapacity THEN in_q ELSE Append(in_q, Queued(m))
  BY <1>1 DEF PushCommand, Queued
<1>6. Len(in_q) \in Nat /\ InCapacity \in Nat /\ Len(in_q) <= InCapacity
  BY ServerAssumption, LenProperties DEF Types, QueueTypes
<1>7. Len(in_q) # InCapacity => Len(in_q) < InCapacity
  BY <1>6
<1> QED
  BY <1>1, <1>4, <1>5, <1>7 DEF m

LEMMA ClientKeepsTypes ==
    ASSUME Types, ClientStep
    PROVE  NetTypes'
<1>1. conn \in [Clients -> {"none", "pending", "open", "closed", "reset", "removed"}]
      /\ recv \in [Clients -> Seq(Messages)] /\ sent \in Nat
  BY DEF Types, NetTypes
<1>2. PICK c \in Clients : \/ Connect(c) \/ Disconnect(c, "closed") \/ Disconnect(c, "reset")
                           \/ \E k \in Kinds \ {"OTHER"}, id \in Ids : Send(c, k, id)
                           \/ Chat(c)
  BY DEF ClientStep
<1>3. CASE Connect(c) \/ Disconnect(c, "closed") \/ Disconnect(c, "reset")
  BY <1>1, <1>3 DEF Connect, Disconnect, NetTypes
<1>4. ASSUME NEW k \in Kinds \ {"OTHER"}, NEW id \in Ids, Send(c, k, id) PROVE NetTypes'
  <2> DEFINE m == [kind |-> k, id |-> id, from |-> c, n |-> sent + 1]
  <2>1. k \in MessageKinds \ {"OTHER"} /\ sent + 1 \in Numbered
    BY <1>1, ServerAssumption DEF Numbered
  <2>2. m \in Messages
    BY <2>1 DEF Messages
  <2>3. Append(recv[c], m) \in Seq(Messages)
    BY <1>1, <2>2, AppendOf
  <2>4. recv' = [recv EXCEPT ![c] = Append(recv[c], m)] /\ conn' = conn /\ sent' = sent + 1
    BY <1>4 DEF Send
  <2> QED
    BY <1>1, <2>3, <2>4 DEF NetTypes
<1>5. CASE Chat(c)
  <2> DEFINE m == [kind |-> "OTHER", from |-> c, n |-> 0]
  <2>1. m \in Messages
    BY DEF Messages
  <2>2. <<m>> \in Seq(Messages)
    BY <2>1
  <2>3. recv' = [recv EXCEPT ![c] = <<m>>] /\ conn' = conn /\ sent' = sent
    BY <1>5 DEF Chat
  <2> QED
    BY <1>1, <2>2, <2>3 DEF NetTypes
<1> QED
  BY <1>2, <1>3, <1>4, <1>5

LEMMA PollKeepsTypes ==
    ASSUME Types, Poll
    PROVE  NetTypes' /\ IOTypes' /\ LoopTypes'
<1>1. /\ conn \in [Clients -> {"none", "pending", "open", "closed", "reset", "removed"}]
      /\ recv \in [Clients -> Seq(Messages)] /\ sent \in Nat
      /\ clients \in Seq(Clients) /\ IsInjective(clients)
  BY DEF Types, NetTypes, IOTypes
<1>2. UNCHANGED <<recv, sent, sendbuf, seen, batch>> /\ iopc = "poll" /\ iopc' = "serve" /\ pos' = 1
  BY DEF Poll
<1>3. CASE Backlog = {}
  <2>1. UNCHANGED <<clients, conn>>
    BY <1>3 DEF Poll
  <2> QED
    BY <1>1, <1>2, <2>1, ServerAssumption, FS_CardinalityType
    DEF Types, NetTypes, IOTypes, LoopTypes
<1>4. ASSUME NEW c \in Backlog, clients' = Append(clients, c),
             conn' = [conn EXCEPT ![c] = IF @ = "pending" THEN "open" ELSE @]
      PROVE  NetTypes' /\ IOTypes' /\ LoopTypes'
  <2>1. c \in Clients /\ c \notin Accepted
    BY DEF Backlog
  <2>2. NetTypes'
    BY <1>1, <1>2, <1>4, <2>1 DEF NetTypes
  <2> DEFINE n == Len(clients)
  <2>3. /\ clients' \in Seq(Clients) /\ n \in Nat /\ Len(clients') = n + 1
        /\ \A i \in 1..n : clients'[i] = clients[i] /\ clients'[n + 1] = c
        /\ \A i : i \in 1..(n + 1) <=> i \in 1..n \/ i = n + 1
    BY <1>1, <1>4, <2>1, AppendOf
  <2>4. DOMAIN clients' = 1..(n + 1) /\ DOMAIN clients = 1..n
    BY <1>1, <2>3, LenProperties
  <2>5. \A i \in 1..n : clients[i] # c
    BY <1>1, <2>1, AcceptedIs
  <2>6. clients'[n + 1] = c
    BY <1>1, <1>4, <2>1, AppendOf
  <2>7. IsInjective(clients')
    <3> SUFFICES ASSUME NEW i \in 1..(n + 1), NEW j \in 1..(n + 1), clients'[i] = clients'[j]
                 PROVE  i = j
      BY <2>4 DEF IsInjective
    <3>1. CASE i \in 1..n /\ j \in 1..n
      BY <1>1, <2>3, <2>4, <3>1 DEF IsInjective
    <3> QED
      BY <2>3, <2>5, <2>6, <3>1
  <2>8. IOTypes'
    BY <1>2, <2>3, <2>7 DEF Types, IOTypes
  <2>9. LoopTypes'
    BY <1>2, ServerAssumption, FS_CardinalityType DEF Types, LoopTypes
  <2> QED
    BY <2>2, <2>8, <2>9
<1> QED
  BY <1>3, <1>4 DEF Poll

LEMMA RemoveKeepsTypes ==
    ASSUME Types, NEW i \in 1..Len(clients), RemoveClient(i)
    PROVE  /\ conn' \in [Clients -> {"none", "pending", "open", "closed", "reset", "removed"}]
           /\ recv' \in [Clients -> Seq(Messages)]
           /\ clients' \in Seq(Clients) /\ IsInjective(clients')
           /\ Accepted' = Accepted \ {clients[i]} /\ conn'[clients[i]] = "removed"
           /\ recv'[clients[i]] = <<>>
           /\ \A c \in Clients : c # clients[i] => conn'[c] = conn[c] /\ recv'[c] = recv[c]
<1>1. clients[i] \in Clients /\ clients \in Seq(Clients) /\ IsInjective(clients)
  BY AcceptedIs DEF Types, IOTypes
<1>2. <<>> \in Seq(Messages)
  BY EmptySeq
<1>3. clients' = RemoveAt(clients, i)
  BY DEF RemoveClient
<1>4. clients' \in Seq(Clients) /\ IsInjective(clients') /\ Accepted' = Accepted \ {clients[i]}
  BY <1>1, <1>3, RemoveAtIs DEF Accepted
<1> QED
  BY <1>1, <1>2, <1>4 DEF RemoveClient, Types, NetTypes

LEMMA ServeKeepsTypes ==
    ASSUME Types, NEW g \in Nat, Broadcasted(g), Serve
    PROVE  NetTypes' /\ IOTypes' /\ LoopTypes'
<1>1. /\ pos \in 1..Len(clients) /\ clients[pos] \in Clients /\ clients[pos] \in Accepted
      /\ batch = <<>>
  BY ServeIs
<1>2. PICK r : ServeHangup(r) \/ ServeEmptyRead(r) \/ ServeRead(r) \/ ServeWrite(r)
  BY ServeIs
<1>3. sent' = sent /\ iopc = "serve" /\ sent \in Nat
  BY DEF Serve, Types, NetTypes
<1>4. /\ Len(clients) \in Nat /\ Cardinality(Clients) \in Nat
      /\ Len(clients) <= Cardinality(Clients)
  BY ClientsFit DEF Types, IOTypes
<1>5. pos + 1 \in Nat /\ pos + 1 >= 1 /\ pos + 1 \in 1..(Cardinality(Clients) + 1) /\ pos \in Nat /\ pos >= 1
  BY <1>1, <1>4
<1>6. CASE ServeHangup(r) \/ ServeEmptyRead(r)
  <2>1. RemoveClient(pos) /\ pos' = pos + 1 /\ iopc' = iopc /\ batch' = batch
    BY <1>6 DEF ServeHangup, ServeEmptyRead
  <2>2. \E S : S \subseteq Accepted /\ Flush(S, {clients[pos]})
    BY <1>5, <1>6, WritableIs DEF ServeHangup, ServeEmptyRead, Types, IOTypes
  <2>3. sendbuf' \in [Clients -> Seq(Buffered)] /\ seen' \in [Clients -> Nat]
    BY <2>2, FlushIs DEF Types
  <2>4. NetTypes'
    BY <1>1, <1>3, <2>1, RemoveKeepsTypes DEF NetTypes
  <2>5. IOTypes'
    BY <1>1, <2>1, <2>3, RemoveKeepsTypes DEF IOTypes, Types
  <2>6. LoopTypes'
    BY <1>1, <1>3, <1>5, <2>1 DEF LoopTypes
  <2> QED
    BY <2>4, <2>5, <2>6
<1>7. CASE ServeRead(r)
  <2>1. /\ batch' = recv[clients[pos]] /\ recv' = [recv EXCEPT ![clients[pos]] = <<>>]
        /\ iopc' = "batch" /\ UNCHANGED <<conn, clients, sendbuf, seen, pos>>
    BY <1>7 DEF ServeRead
  <2>2. <<>> \in Seq(Messages)
    BY EmptySeq
  <2>3. NetTypes' /\ batch' \in Seq(Messages)
    BY <1>1, <1>3, <2>1, <2>2 DEF Types, NetTypes
  <2>4. LoopTypes'
    BY <1>1, <1>3, <2>1 DEF Types, LoopTypes
  <2> QED
    BY <2>1, <2>3, <2>4 DEF Types, IOTypes
<1>8. CASE ServeWrite(r)
  <2>1. /\ Flush(Writable(r, pos), {}) /\ pos' = pos + 1
        /\ UNCHANGED <<conn, recv, clients, iopc, batch>>
    BY <1>8 DEF ServeWrite
  <2>2. Writable(r, pos) \subseteq Accepted
    BY <1>5, WritableIs DEF Types, IOTypes
  <2>3. sendbuf' \in [Clients -> Seq(Buffered)] /\ seen' \in [Clients -> Nat]
    BY <2>1, <2>2, FlushIs DEF Types
  <2>4. LoopTypes'
    BY <1>1, <1>3, <1>5, <2>1 DEF Types, LoopTypes
  <2> QED
    BY <1>3, <2>1, <2>3, <2>4 DEF Types, NetTypes, IOTypes
<1> QED
  BY <1>2, <1>6, <1>7, <1>8

LEMMA ProcessKeepsTypes ==
    ASSUME Types, ProcessMessage
    PROVE  IOTypes' /\ LoopTypes' /\ QueueTypes'
<1>1. /\ batch' = Tail(batch) /\ Tail(batch) \in Seq(Messages)
      /\ iopc = "batch" /\ iopc' = iopc /\ pos' = pos /\ clients' = clients
      /\ pos \in Numbered
  BY BatchIs
<1>2. seen' = seen /\ out_q' = out_q
  BY DEF ProcessMessage
<1>3. LoopTypes'
  BY <1>1 DEF Types, LoopTypes
<1>4. CASE ProcessReject(Head(batch))
  <2>1. sendbuf' \in [Clients -> Seq(Buffered)] /\ in_q' = in_q
    BY <1>1, <1>4, RejectedMessage, SendRejectIs DEF Types
  <2> QED
    BY <1>1, <1>2, <1>3, <2>1 DEF Types, IOTypes, QueueTypes
<1>5. CASE ProcessCommand(Head(batch))
  <2>1. sendbuf' = sendbuf
    BY <1>5, QueuedCommand
  <2>2. in_q' \in Seq(Commands) /\ Len(in_q') <= InCapacity
    <3>1. in_q \in Seq(Commands) /\ InCapacity \in Nat /\ Len(in_q) <= InCapacity
      BY ServerAssumption DEF Types, QueueTypes
    <3>2. CASE in_q' = in_q
      BY <3>1, <3>2
    <3>3. CASE in_q' = Append(in_q, Queued(Head(batch))) /\ Len(in_q) < InCapacity
      <4>1. in_q' \in Seq(Commands) /\ Len(in_q') = Len(in_q) + 1 /\ Len(in_q) \in Nat
        BY <1>5, <3>1, <3>3, QueuedCommand, AppendOf
      <4> QED
        BY <3>1, <3>3, <4>1
    <3> QED
      BY <1>5, <3>2, <3>3, QueuedCommand
  <2> QED
    BY <1>1, <1>2, <1>3, <2>1, <2>2 DEF Types, IOTypes, QueueTypes
<1>6. CASE ProcessOther(Head(batch))
  BY <1>1, <1>2, <1>3, <1>6 DEF ProcessOther, Types, IOTypes, QueueTypes
<1> QED
  BY <1>4, <1>5, <1>6, BatchIs

LEMMA EndBatchIs ==
    ASSUME Types, EndBatch
    PROVE  /\ pos \in Nat /\ pos >= 1 /\ pos <= Len(clients) /\ batch = <<>>
           /\ \E S : S \subseteq Accepted /\ Flush(S, {})
<1>1. Cardinality(Clients) \in Nat
  BY ServerAssumption, FS_CardinalityType
<1>2. pos \in 1..(Cardinality(Clients) + 1) /\ pos <= Len(clients)
  BY DEF EndBatch, Types, LoopTypes
<1>3. pos \in Nat /\ pos >= 1
  BY <1>1, <1>2
<1>4. PICK r : Flush(Writable(r, pos), {})
  BY DEF EndBatch
<1>5. Writable(r, pos) \subseteq Accepted
  BY <1>3, WritableIs DEF Types, IOTypes
<1> QED
  BY <1>2, <1>3, <1>4, <1>5 DEF EndBatch

LEMMA EndBatchKeepsTypes ==
    ASSUME Types, NEW g \in Nat, Broadcasted(g), EndBatch
    PROVE  IOTypes' /\ LoopTypes'
<1>1. pos \in Nat /\ pos >= 1 /\ pos <= Len(clients) /\ batch = <<>>
  BY EndBatchIs
<1>2. /\ iopc' = "serve" /\ pos' = pos + 1 /\ UNCHANGED <<clients, batch>>
  BY DEF EndBatch
<1>3. sendbuf' \in [Clients -> Seq(Buffered)] /\ seen' \in [Clients -> Nat]
  BY EndBatchIs, FlushIs DEF Types
<1>4. /\ Len(clients) \in Nat /\ Cardinality(Clients) \in Nat
      /\ Len(clients) <= Cardinality(Clients)
  BY ClientsFit DEF Types, IOTypes
<1>5. pos + 1 \in Nat /\ pos + 1 \in 1..(Cardinality(Clients) + 1)
  BY <1>1, <1>4
<1>6. LoopTypes'
  BY <1>1, <1>2, <1>5 DEF LoopTypes
<1> QED
  BY <1>2, <1>3, <1>6 DEF Types, IOTypes

\* The event that is consumed.
LEMMA ConsumedIs ==
    ASSUME Types, ConsumeEvent
    PROVE  /\ out_q \in Seq(Events) /\ out_q # <<>> /\ Head(out_q) = out_q[1]
           /\ Head(out_q) \in Events /\ out_q' = Tail(out_q) /\ Tail(out_q) \in Seq(Events)
           /\ \/ /\ Head(out_q).kind = "UPDATE"
                 /\ Broadcast([kind |-> "UPDATE", version |-> Head(out_q).version])
                 /\ [kind |-> "UPDATE", version |-> Head(out_q).version] \in Buffered
              \/ /\ Head(out_q).kind = "REJECT" /\ Head(out_q).client_idx \in Numbered
                 /\ SendReject(Head(out_q).client_idx, Rejection(Head(out_q), Head(out_q).reason))
                 /\ Rejection(Head(out_q), Head(out_q).reason) \in Buffered
           /\ unanswered' = unanswered \ {Head(out_q).n}
<1>1. out_q \in Seq(Events) /\ out_q # <<>> /\ out_q' = Tail(out_q)
  BY DEF ConsumeEvent, Types, QueueTypes
<1>2. Head(out_q) = out_q[1] /\ Head(out_q) \in Events /\ Tail(out_q) \in Seq(Events)
  BY <1>1, TailOf
<1> DEFINE e == Head(out_q)
<1>3. /\ e.kind \in {"UPDATE", "REJECT"} /\ e.from \in Clients /\ e.n \in Numbered
      /\ e.kind = "UPDATE" => e.version \in Nat
      /\ e.kind = "REJECT" => e.client_idx \in Numbered /\ e.reason \in Reasons
  BY <1>2, EventIs
<1>4. /\ IF e.kind = "UPDATE" THEN Broadcast([kind |-> "UPDATE", version |-> e.version])
                              ELSE SendReject(e.client_idx, Rejection(e, e.reason))
      /\ unanswered' = unanswered \ {e.n}
  BY DEF ConsumeEvent
<1>5. e.kind = "UPDATE" => [kind |-> "UPDATE", version |-> e.version] \in Buffered
  BY <1>3 DEF Buffered
<1>6. e.kind = "REJECT" => Rejection(e, e.reason) \in Buffered
  BY <1>3, RejectionIs
<1> HIDE DEF e
<1>7. \/ /\ e.kind = "UPDATE" /\ Broadcast([kind |-> "UPDATE", version |-> e.version])
         /\ [kind |-> "UPDATE", version |-> e.version] \in Buffered
      \/ /\ e.kind = "REJECT" /\ e.client_idx \in Numbered
         /\ SendReject(e.client_idx, Rejection(e, e.reason))
         /\ Rejection(e, e.reason) \in Buffered
  BY <1>3, <1>4, <1>5, <1>6
<1> QED
  BY <1>1, <1>2, <1>4, <1>7 DEF e

LEMMA ConsumeKeepsTypes ==
    ASSUME Types, ConsumeEvent
    PROVE  IOTypes' /\ LoopTypes' /\ QueueTypes'
<1>1. /\ iopc = "consume" /\ pos < EventsPerTick /\ pos' = pos + 1
      /\ UNCHANGED <<clients, seen, iopc, batch, in_q>>
  BY DEF ConsumeEvent
<1>2. sendbuf' \in [Clients -> Seq(Buffered)]
  BY ConsumedIs, SendRejectIs, BroadcastIs DEF Types
<1>3. LoopTypes'
  <2>1. pos \in 0..EventsPerTick /\ EventsPerTick \in Nat /\ batch = <<>>
    BY <1>1, ServerAssumption DEF Types, LoopTypes
  <2>2. pos + 1 \in 0..EventsPerTick /\ pos + 1 \in Nat
    BY <1>1, <2>1
  <2> QED
    BY <1>1, <2>1, <2>2 DEF LoopTypes
<1>4. out_q' \in Seq(Events) /\ Len(out_q') <= OutCapacity
  <2>1. Len(out_q) <= OutCapacity /\ OutCapacity \in Nat
    BY ServerAssumption DEF Types, QueueTypes
  <2>2. out_q' \in Seq(Events) /\ Len(out_q') = Len(out_q) - 1 /\ Len(out_q) \in Nat
    BY ConsumedIs, TailOf
  <2> QED
    BY <2>1, <2>2
<1> QED
  BY <1>1, <1>2, <1>3, <1>4 DEF Types, IOTypes, QueueTypes

\* The answer to the command in hand.
LEMMA WorkIs ==
    ASSUME Types, Work
    PROVE  /\ epc = "work" /\ epc' = "emit" /\ cmd \in Commands
           /\ event' \in Events /\ event'.n = cmd.n /\ event'.from = cmd.from
           /\ \/ event'.kind = "UPDATE" /\ event'.version = version + 1 /\ version' = version + 1
              \/ event'.kind = "REJECT" /\ event'.client_idx = cmd.client_idx /\ version' = version
           /\ UNCHANGED <<netVars, ioVars, in_q, out_q, unanswered>>
<1>1. epc = "work" /\ epc' = "emit" /\ cmd \in Commands /\ version \in Nat
      /\ UNCHANGED <<netVars, ioVars, in_q, out_q, unanswered>>
  BY DEF Work, Types, EngineTypes
<1>2. cmd.n \in Numbered /\ cmd.from \in Clients /\ cmd.client_idx \in Numbered
  BY <1>1, CommandIs
<1>3. \/ event' = Update(cmd) /\ version' = version + 1
      \/ event' = EngineReject(cmd, "ORDER_NOT_FOUND") /\ version' = version
      \/ event' = EngineReject(cmd, "INVALID_MODIFY") /\ version' = version
  BY DEF Work, ProcessNew, ProcessCancel, ProcessModify
<1>4. /\ Update(cmd) \in Events /\ Update(cmd).n = cmd.n /\ Update(cmd).from = cmd.from
      /\ Update(cmd).kind = "UPDATE" /\ Update(cmd).version = version + 1
  BY <1>1, <1>2 DEF Update, Events
<1>5. ASSUME NEW why \in Reasons
      PROVE  /\ EngineReject(cmd, why) \in Events /\ EngineReject(cmd, why).n = cmd.n
             /\ EngineReject(cmd, why).from = cmd.from
             /\ EngineReject(cmd, why).kind = "REJECT"
             /\ EngineReject(cmd, why).client_idx = cmd.client_idx
  BY <1>2 DEF EngineReject, Events
<1>6. "ORDER_NOT_FOUND" \in Reasons /\ "INVALID_MODIFY" \in Reasons
  BY DEF Reasons
<1> QED
  BY <1>1, <1>3, <1>4, <1>5, <1>6

LEMMA WorkKeepsBook ==
    ASSUME Types, Work
    PROVE  IsFiniteSet(book') /\ book' \subseteq Ids /\ Cardinality(book') <= PoolCapacity
<1>1. /\ IsFiniteSet(book) /\ book \subseteq Ids /\ Cardinality(book) <= PoolCapacity
      /\ PoolCapacity \in Nat /\ Cardinality(book) \in Nat
  BY ServerAssumption, FS_CardinalityType DEF Types, EngineTypes
<1>2. cmd.id \in Ids
  BY WorkIs, CommandIs
<1>3. CASE ProcessNew /\ ~Refused(cmd.id)
  <2> DEFINE full == book \cup {cmd.id}
  <2>1. PICK filled \in SUBSET full : book' = full \ filled
    BY <1>3 DEF ProcessNew
  <2>2. cmd.id \notin book /\ Cardinality(book) # PoolCapacity
    BY <1>3 DEF Refused
  <2>3. IsFiniteSet(full) /\ Cardinality(full) = Cardinality(book) + 1
    BY <1>1, <2>2, FS_AddElement
  <2>4. full \subseteq Ids
    BY <1>1, <1>2
  <2> HIDE DEF full
  <2>5. book' \in SUBSET full
    BY <2>1
  <2>6. IsFiniteSet(book') /\ Cardinality(book') <= Cardinality(full)
    BY <2>3, <2>5, FS_Subset
  <2>7. Cardinality(book') \in Nat
    BY <2>6, FS_CardinalityType
  <2>8. Cardinality(book') <= PoolCapacity
    BY <1>1, <2>2, <2>3, <2>6, <2>7
  <2> QED
    BY <2>4, <2>5, <2>6, <2>8
<1>4. CASE book' = book \ {cmd.id} \/ book' = book
  <2>1. book' \in SUBSET book
    BY <1>4
  <2>2. IsFiniteSet(book') /\ Cardinality(book') <= Cardinality(book)
    BY <1>1, <2>1, FS_Subset
  <2>3. Cardinality(book') \in Nat
    BY <2>2, FS_CardinalityType
  <2>4. Cardinality(book') <= PoolCapacity
    BY <1>1, <2>2, <2>3
  <2> QED
    BY <1>1, <2>1, <2>2, <2>4
<1>5. \/ ProcessNew /\ ~Refused(cmd.id)
      \/ book' = book \ {cmd.id} \/ book' = book
  BY DEF Work, ProcessNew, ProcessCancel, ProcessModify
<1> QED
  BY <1>3, <1>4, <1>5

LEMMA PoppedCommand ==
    ASSUME Types, PopCommand
    PROVE  /\ in_q \in Seq(Commands) /\ in_q # <<>> /\ Head(in_q) \in Commands
           /\ Head(in_q) = in_q[1] /\ cmd' = Head(in_q) /\ in_q' = Tail(in_q)
           /\ Tail(in_q) \in Seq(Commands) /\ epc = "idle" /\ epc' = "work"
           /\ UNCHANGED <<netVars, ioVars, out_q, event, book, version, unanswered>>
<1>1. in_q \in Seq(Commands) /\ in_q # <<>>
  BY DEF PopCommand, Types, QueueTypes
<1>2. Head(in_q) \in Commands /\ Head(in_q) = in_q[1] /\ Tail(in_q) \in Seq(Commands)
  BY <1>1, TailOf
<1> QED
  BY <1>1, <1>2 DEF PopCommand

LEMMA EngineKeepsTypes ==
    ASSUME Types, EngineStep
    PROVE  QueueTypes' /\ EngineTypes' /\ UNCHANGED <<netVars, ioVars, unanswered>>
<1>1. CASE PopCommand
  <2>1. in_q' \in Seq(Commands) /\ Len(in_q') = Len(in_q) - 1 /\ Len(in_q) \in Nat
    BY <1>1, PoppedCommand, TailOf
  <2>2. Len(in_q) <= InCapacity /\ InCapacity \in Nat
    BY ServerAssumption DEF Types, QueueTypes
  <2>3. Len(in_q') <= InCapacity
    BY <2>1, <2>2
  <2> QED
    BY <1>1, <2>1, <2>3, PoppedCommand DEF Types, QueueTypes, EngineTypes
<1>2. CASE Work
  <2>1. version' \in Nat
    BY <1>2, WorkIs DEF Types, EngineTypes
  <2> QED
    BY <1>2, <2>1, WorkIs, WorkKeepsBook DEF Types, QueueTypes, EngineTypes
<1>3. CASE Emit
  <2>1. /\ epc = "emit" /\ Len(out_q) < OutCapacity /\ out_q' = Append(out_q, event)
        /\ epc' = "idle" /\ UNCHANGED <<netVars, ioVars, in_q, book, version, unanswered>>
    BY <1>3 DEF Emit
  <2>2. event \in Events /\ out_q \in Seq(Events) /\ OutCapacity \in Nat
    BY <2>1, ServerAssumption DEF Types, QueueTypes, EngineTypes
  <2>3. out_q' \in Seq(Events) /\ Len(out_q') = Len(out_q) + 1 /\ Len(out_q) \in Nat
    BY <2>1, <2>2, AppendOf
  <2>4. Len(out_q') <= OutCapacity
    BY <2>1, <2>2, <2>3
  <2> QED
    BY <2>1, <2>3, <2>4 DEF Types, QueueTypes, EngineTypes
<1> QED
  BY <1>1, <1>2, <1>3 DEF EngineStep

LEMMA TypesKept ==
    ASSUME Types, NEW g \in Nat, Broadcasted(g), [Next]_vars
    PROVE  Types'
<1> USE DEF Types
<1>1. CASE ClientStep
  <2>1. UNCHANGED <<clients, sendbuf, seen, iopc, fds, pos, batch, in_q, out_q,
                    epc, cmd, event, book, version>>
    BY <1>1 DEF ClientStep, Connect, Send, Chat, Disconnect, ioVars, engineVars
  <2> QED
    BY <1>1, <2>1, ClientKeepsTypes DEF IOTypes, LoopTypes, QueueTypes, EngineTypes
<1>2. CASE Poll
  <2>1. UNCHANGED <<in_q, out_q, epc, cmd, event, book, version>>
    BY <1>2 DEF Poll, engineVars
  <2> QED
    BY <1>2, <2>1, PollKeepsTypes DEF QueueTypes, EngineTypes
<1>3. CASE Serve
  <2>1. UNCHANGED <<in_q, out_q, epc, cmd, event, book, version>>
    BY <1>3 DEF Serve, engineVars
  <2> QED
    BY <1>3, <2>1, ServeKeepsTypes DEF QueueTypes, EngineTypes
<1>4. CASE EndServe \/ EndConsume
  <2>1. /\ UNCHANGED <<conn, recv, sent, clients, sendbuf, seen, batch, in_q, out_q,
                       epc, cmd, event, book, version>>
        /\ pos' = 0 /\ iopc # "batch" /\ iopc' \in {"consume", "poll"}
    BY <1>4 DEF EndServe, EndConsume, netVars, engineVars
  <2>2. 0 \in 0..EventsPerTick
    BY ServerAssumption
  <2> QED
    BY <2>1, <2>2 DEF NetTypes, IOTypes, LoopTypes, QueueTypes, EngineTypes
<1>5. CASE ProcessMessage
  <2>1. UNCHANGED <<conn, recv, sent, epc, cmd, event, book, version>>
    BY <1>5 DEF ProcessMessage, netVars, engineVars
  <2> QED
    BY <1>5, <2>1, ProcessKeepsTypes DEF NetTypes, EngineTypes
<1>6. CASE EndBatch
  <2>1. UNCHANGED <<conn, recv, sent, in_q, out_q, epc, cmd, event, book, version>>
    BY <1>6 DEF EndBatch, netVars, engineVars
  <2> QED
    BY <1>6, <2>1, EndBatchKeepsTypes DEF NetTypes, QueueTypes, EngineTypes
<1>7. CASE ConsumeEvent
  <2>1. UNCHANGED <<conn, recv, sent, epc, cmd, event, book, version>>
    BY <1>7 DEF ConsumeEvent, netVars, engineVars
  <2> QED
    BY <1>7, <2>1, ConsumeKeepsTypes DEF NetTypes, EngineTypes
<1>8. CASE EngineStep
  <2>1. UNCHANGED <<conn, recv, sent, clients, sendbuf, seen, iopc, pos, batch>>
    BY <1>8, EngineKeepsTypes DEF netVars, ioVars
  <2> QED
    BY <1>8, <2>1, EngineKeepsTypes DEF NetTypes, IOTypes, LoopTypes
<1>9. CASE UNCHANGED vars
  BY <1>9 DEF vars, NetTypes, IOTypes, LoopTypes, QueueTypes, EngineTypes
<1> QED
  BY <1>1, <1>2, <1>3, <1>4, <1>5, <1>6, <1>7, <1>8, <1>9 DEF Next, IOStep, PollTimeout

-----------------------------------------------------------------------------
(***************************************************************************)
(* Nothing vanishes.                                                       *)
(***************************************************************************)
InHand == CASE epc = "work" -> <<cmd>> [] epc = "emit" -> <<event>> [] OTHER -> <<>>

LEMMA EngineHolds == EngineTypes => InEngine = InHand
<1> SUFFICES ASSUME EngineTypes PROVE InEngine = InHand
  OBVIOUS
<1>1. \A x : <<x>> \o <<>> = <<x>> /\ <<>> \o <<x>> = <<x>> /\ <<>> \o <<>> = <<>>
  OBVIOUS
<1> QED
  BY <1>1 DEF InEngine, InHand, EngineTypes

LEMMA EngineHoldsNext == (EngineTypes => InEngine = InHand)'
BY EngineHolds, PTL

LEMMA NumbersIs ==
    /\ \A S : \A s \in Seq(S), x \in S : Numbers(Append(s, x)) = Numbers(s) \cup {x.n}
    /\ \A S : \A s \in Seq(S) : s # <<>> => Numbers(s) = {Head(s).n} \cup Numbers(Tail(s))
    /\ \A x : Numbers(<<x>>) = {x.n}
    /\ Numbers(<<>>) = {}
<1>1. ASSUME NEW S, NEW s \in Seq(S), NEW x \in S
      PROVE  Numbers(Append(s, x)) = Numbers(s) \cup {x.n}
  <2> DEFINE a == Append(s, x)
             n == Len(s)
  <2>1. /\ n \in Nat /\ Len(a) = n + 1 /\ a[n + 1] = x /\ \A i \in 1..n : a[i] = s[i]
        /\ \A i : i \in 1..(n + 1) <=> i \in 1..n \/ i = n + 1
    BY AppendOf
  <2> HIDE DEF a
  <2> QED
    BY <2>1 DEF Numbers, a
<1>2. ASSUME NEW S, NEW s \in Seq(S), s # <<>>
      PROVE  Numbers(s) = {Head(s).n} \cup Numbers(Tail(s))
  <2> DEFINE t == Tail(s)
             n == Len(s)
  <2>1. /\ n \in Nat /\ n >= 1 /\ Len(t) = n - 1 /\ Head(s) = s[1]
        /\ \A i \in 1..(n - 1) : t[i] = s[i + 1] /\ i + 1 \in 1..n
        /\ \A i \in 1..n : i = 1 \/ i - 1 \in 1..(n - 1)
    BY <1>2, TailOf
  <2> HIDE DEF t, n
  <2>2. 1 \in 1..n /\ \A i \in 1..n : i # 1 => s[i] = t[i - 1] /\ i - 1 \in 1..(n - 1)
    <3>1. \A i \in 1..n : (i - 1) + 1 = i
      BY <2>1
    <3> QED
      BY <2>1, <3>1
  <2>3. \A y : y \in Numbers(s) <=> \E i \in 1..n : y = s[i].n
    BY DEF Numbers, n
  <2>4. \A y : y \in Numbers(t) <=> \E i \in 1..(n - 1) : y = t[i].n
    BY <2>1 DEF Numbers
  <2>5. ASSUME NEW y \in Numbers(s) PROVE y = Head(s).n \/ y \in Numbers(t)
    <3>1. PICK i \in 1..n : y = s[i].n
      BY <2>3
    <3>2. i # 1 => i - 1 \in 1..(n - 1) /\ y = t[i - 1].n
      BY <2>2, <3>1
    <3> QED
      BY <2>1, <2>4, <3>1, <3>2
  <2>6. ASSUME NEW y \in Numbers(t) PROVE y \in Numbers(s)
    BY <2>1, <2>3, <2>4
  <2>7. Head(s).n \in Numbers(s)
    BY <2>1, <2>2, <2>3
  <2> QED
    BY <2>5, <2>6, <2>7 DEF t
<1>3. ASSUME NEW x PROVE Numbers(<<x>>) = {x.n}
  <2>1. \A i : i \in 1..Len(<<x>>) <=> i = 1
    OBVIOUS
  <2> QED
    BY <2>1 DEF Numbers
<1>4. Numbers(<<>>) = {}
  BY DEF Numbers
<1> QED
  BY <1>1, <1>2, <1>3, <1>4

LEMMA NothingVanishesKept ==
    ASSUME Types, Types', NothingVanishes, [Next]_vars
    PROVE  NothingVanishes'
<1>1. InEngine = InHand /\ InEngine' = InHand' /\ in_q \in Seq(Commands) /\ out_q \in Seq(Events)
  BY EngineHolds, EngineHoldsNext DEF Types, QueueTypes
<1>2. unanswered \subseteq Numbers(in_q) \cup Numbers(InHand) \cup Numbers(out_q)
  BY <1>1 DEF NothingVanishes
<1> SUFFICES unanswered' \subseteq Numbers(in_q') \cup Numbers(InHand') \cup Numbers(out_q')
  BY <1>1 DEF NothingVanishes, Numbers
<1>3. CASE UNCHANGED <<in_q, out_q, epc, cmd, event, unanswered>>
  BY <1>2, <1>3 DEF InHand, Numbers
<1>4. CASE ProcessMessage
  <2>1. InHand' = InHand /\ out_q' = out_q
    BY <1>4 DEF ProcessMessage, engineVars, InHand
  <2>2. CASE in_q' = in_q /\ unanswered' = unanswered
    BY <1>2, <2>1, <2>2
  <2>3. CASE ProcessCommand(Head(batch)) /\ in_q' = Append(in_q, Queued(Head(batch)))
             /\ unanswered' = unanswered \cup {Head(batch).n}
    <3>1. Numbers(in_q') = Numbers(in_q) \cup {Head(batch).n}
      BY <1>1, <1>4, <2>3, QueuedCommand, NumbersIs
    <3> QED
      BY <1>2, <2>1, <2>3, <3>1
  <2>4. ProcessReject(Head(batch)) \/ ProcessOther(Head(batch)) =>
           in_q' = in_q /\ unanswered' = unanswered
    BY <1>4, RejectedMessage DEF ProcessOther
  <2> QED
    BY <1>4, <2>2, <2>3, <2>4, QueuedCommand, BatchIs
<1>5. CASE ConsumeEvent
  <2>1. InHand' = InHand /\ in_q' = in_q
    BY <1>5 DEF ConsumeEvent, engineVars, InHand
  <2>2. /\ out_q # <<>> /\ out_q' = Tail(out_q) /\ unanswered' = unanswered \ {Head(out_q).n}
    BY <1>5, ConsumedIs
  <2>3. Numbers(out_q) = {Head(out_q).n} \cup Numbers(out_q')
    BY <1>1, <2>2, NumbersIs
  <2> QED
    BY <1>2, <2>1, <2>2, <2>3
<1>6. CASE PopCommand
  <2>1. /\ in_q # <<>> /\ in_q' = Tail(in_q) /\ cmd' = Head(in_q) /\ epc = "idle" /\ epc' = "work"
        /\ out_q' = out_q /\ unanswered' = unanswered
    BY <1>6, PoppedCommand
  <2>2. InHand = <<>> /\ InHand' = <<Head(in_q)>>
    BY <2>1 DEF InHand
  <2>3. Numbers(InHand) = {} /\ Numbers(InHand') = {Head(in_q).n}
        /\ Numbers(in_q) = {Head(in_q).n} \cup Numbers(in_q')
    BY <1>1, <2>1, <2>2, NumbersIs
  <2> QED
    BY <1>2, <2>1, <2>3
<1>7. CASE Work
  <2>1. /\ epc = "work" /\ epc' = "emit" /\ event'.n = cmd.n
        /\ UNCHANGED <<in_q, out_q, unanswered>>
    BY <1>7, WorkIs
  <2>2. InHand = <<cmd>> /\ InHand' = <<event'>>
    BY <2>1 DEF InHand
  <2>3. Numbers(InHand) = {cmd.n} /\ Numbers(InHand') = {event'.n}
    BY <2>2, NumbersIs
  <2> QED
    BY <1>2, <2>1, <2>3
<1>8. CASE Emit
  <2>1. /\ epc = "emit" /\ epc' = "idle" /\ out_q' = Append(out_q, event)
        /\ UNCHANGED <<in_q, unanswered>>
    BY <1>8 DEF Emit
  <2>2. InHand = <<event>> /\ event \in Events
    BY <2>1 DEF InHand, Types, EngineTypes
  <2>3. Numbers(InHand) = {event.n} /\ Numbers(out_q') = Numbers(out_q) \cup {event.n}
    BY <1>1, <2>1, <2>2, NumbersIs
  <2> QED
    BY <1>2, <2>1, <2>3
<1>9. CASE ClientStep
  BY <1>3, <1>9 DEF ClientStep, Connect, Send, Chat, Disconnect, engineVars
<1>10. CASE Poll \/ Serve \/ EndServe \/ EndBatch \/ EndConsume
  BY <1>3, <1>10 DEF Poll, Serve, EndServe, EndBatch, EndConsume, engineVars
<1>11. CASE UNCHANGED vars
  BY <1>3, <1>11 DEF vars
<1> QED
  BY <1>4, <1>5, <1>6, <1>7, <1>8, <1>9, <1>10, <1>11 DEF Next, IOStep, EngineStep, PollTimeout

-----------------------------------------------------------------------------
(***************************************************************************)
(* A REJECT finds its sender.                                              *)
(***************************************************************************)
LEMMA SendersKept ==
    ASSUME Types, Senders, [Next]_vars
    PROVE  Senders'
<1>1. recv \in [Clients -> Seq(Messages)] /\ batch \in Seq(Messages)
  BY DEF Types, NetTypes, IOTypes
<1>2. \A c \in Clients : \A i \in 1..Len(recv[c]) : recv[c][i].from = c
  BY DEF Senders
<1>3. CASE ClientStep
  <2>1. UNCHANGED <<clients, iopc, pos, batch>>
    BY <1>3 DEF ClientStep, Connect, Send, Chat, Disconnect, ioVars
  <2>2. PICK c \in Clients : \/ Connect(c) \/ Disconnect(c, "closed") \/ Disconnect(c, "reset")
                             \/ \E k \in Kinds \ {"OTHER"}, id \in Ids : Send(c, k, id)
                             \/ Chat(c)
    BY <1>3 DEF ClientStep
  <2>3. CASE recv' = recv
    BY <2>1, <2>3 DEF Senders
  <2>4. ASSUME NEW k \in Kinds \ {"OTHER"}, NEW id \in Ids, Send(c, k, id)
        PROVE  \A d \in Clients : \A i \in 1..Len(recv'[d]) : recv'[d][i].from = d
    <3> DEFINE m == [kind |-> k, id |-> id, from |-> c, n |-> sent + 1]
    <3>1. recv' = [recv EXCEPT ![c] = Append(recv[c], m)]
      BY <2>4 DEF Send
    <3>2. m \in Messages
      <4>1. sent + 1 \in Numbered /\ k \in MessageKinds \ {"OTHER"}
        BY ServerAssumption DEF Types, NetTypes, Numbered
      <4> QED
        BY <4>1 DEF Messages
    <3>3. m.from = c
      OBVIOUS
    <3> HIDE DEF m
    <3>4. \A i \in 1..Len(Append(recv[c], m)) : Append(recv[c], m)[i].from = c
      <4>1. /\ Len(Append(recv[c], m)) = Len(recv[c]) + 1
            /\ \A i \in 1..Len(recv[c]) : Append(recv[c], m)[i] = recv[c][i]
            /\ Append(recv[c], m)[Len(recv[c]) + 1] = m
            /\ \A i : i \in 1..(Len(recv[c]) + 1) <=> i \in 1..Len(recv[c]) \/ i = Len(recv[c]) + 1
        BY <1>1, <3>2, AppendOf
      <4> QED
        BY <1>2, <3>3, <4>1
    <3>5. recv'[c] = Append(recv[c], m) /\ \A d \in Clients : d # c => recv'[d] = recv[d]
      BY <1>1, <3>1
    <3> QED
      BY <1>2, <3>4, <3>5
  <2>5. ASSUME Chat(c)
        PROVE  \A d \in Clients : \A i \in 1..Len(recv'[d]) : recv'[d][i].from = d
    <3> DEFINE m == [kind |-> "OTHER", from |-> c, n |-> 0]
    <3>1. recv' = [recv EXCEPT ![c] = <<m>>]
      BY <2>5 DEF Chat
    <3>2. recv'[c] = <<m>> /\ \A d \in Clients : d # c => recv'[d] = recv[d]
      BY <1>1, <3>1
    <3>3. \A i \in 1..Len(<<m>>) : <<m>>[i].from = c
      OBVIOUS
    <3> HIDE DEF m
    <3> QED
      BY <1>2, <3>2, <3>3
  <2>6. CASE Connect(c) \/ Disconnect(c, "closed") \/ Disconnect(c, "reset")
    BY <2>3, <2>6 DEF Connect, Disconnect
  <2> QED
    BY <2>1, <2>2, <2>4, <2>5, <2>6 DEF Senders
<1>4. CASE Poll
  BY <1>2, <1>4 DEF Poll, Senders
<1>5. CASE Serve
  <2>1. pos \in 1..Len(clients) /\ clients[pos] \in Clients
    BY <1>5, ServeIs
  <2>2. PICK r : ServeHangup(r) \/ ServeEmptyRead(r) \/ ServeRead(r) \/ ServeWrite(r)
    BY <1>5, ServeIs
  <2>3. CASE ServeHangup(r) \/ ServeEmptyRead(r)
    <3>1. RemoveClient(pos) /\ iopc' = "serve"
      BY <1>5, <2>3 DEF ServeHangup, ServeEmptyRead, Serve
    <3>2. \A c \in Clients : recv'[c] = <<>> \/ recv'[c] = recv[c]
      BY <2>1, <3>1, RemoveKeepsTypes
    <3>3. Len(<<>>) = 0
      OBVIOUS
    <3> QED
      BY <1>2, <3>1, <3>2, <3>3 DEF Senders
  <2>4. CASE ServeRead(r)
    <3>1. /\ batch' = recv[clients[pos]] /\ recv' = [recv EXCEPT ![clients[pos]] = <<>>]
          /\ clients' = clients /\ pos' = pos
      BY <2>4 DEF ServeRead
    <3>2. \A c \in Clients : recv'[c] = <<>> \/ recv'[c] = recv[c]
      BY <1>1, <3>1
    <3>3. Len(<<>>) = 0
      OBVIOUS
    <3> QED
      BY <1>2, <2>1, <3>1, <3>2, <3>3 DEF Senders
  <2>5. CASE ServeWrite(r)
    BY <1>2, <1>5, <2>5 DEF ServeWrite, Serve, Senders
  <2> QED
    BY <2>2, <2>3, <2>4, <2>5
<1>6. CASE ProcessMessage
  <2>1. /\ batch # <<>> /\ batch' = Tail(batch) /\ iopc = "batch" /\ pos' = pos
        /\ clients' = clients /\ recv' = recv
    BY <1>6, BatchIs DEF ProcessMessage, netVars
  <2>2. Len(batch') = Len(batch) - 1
        /\ \A i \in 1..(Len(batch) - 1) : batch'[i] = batch[i + 1] /\ i + 1 \in 1..Len(batch)
    BY <1>1, <2>1, TailOf
  <2>3. \A i \in 1..Len(batch') : batch'[i].from = clients[pos]
    BY <2>1, <2>2 DEF Senders
  <2> QED
    BY <1>2, <2>1, <2>3 DEF Senders
<1>7. CASE EndServe \/ EndBatch \/ ConsumeEvent \/ EndConsume
  BY <1>2, <1>7 DEF EndServe, EndBatch, ConsumeEvent, EndConsume, netVars, Senders
<1>8. CASE EngineStep
  <2>1. UNCHANGED <<recv, clients, iopc, pos, batch>>
    BY <1>8, EngineKeepsTypes DEF netVars, ioVars
  <2> QED
    BY <2>1 DEF Senders
<1>9. CASE UNCHANGED vars
  BY <1>9 DEF vars, Senders
<1> QED
  BY <1>3, <1>4, <1>5, <1>6, <1>7, <1>8, <1>9 DEF Next, IOStep, PollTimeout

\* The message being processed comes from the client being served.
LEMMA BatchSender ==
    ASSUME Types, Senders, ProcessMessage
    PROVE  Head(batch).from = clients[pos]
<1>1. batch \in Seq(Messages) /\ batch # <<>>
  BY BatchIs DEF Types, IOTypes
<1>2. Head(batch) = batch[1] /\ Len(batch) \in Nat /\ Len(batch) >= 1
  BY <1>1, TailOf
<1>3. 1 \in 1..Len(batch)
  BY <1>2
<1> QED
  BY <1>2, <1>3 DEF Senders, ProcessMessage

\* Who has been removed stays removed.
LEMMA RemovedForEver ==
    ASSUME Types, [Next]_vars, NEW c \in Clients, conn[c] = "removed"
    PROVE  conn'[c] = "removed"
<1>1. conn \in [Clients -> {"none", "pending", "open", "closed", "reset", "removed"}]
  BY DEF Types, NetTypes
<1>2. CASE ClientStep
  BY <1>1, <1>2 DEF ClientStep, Connect, Send, Chat, Disconnect
<1>3. CASE Poll
  BY <1>1, <1>3 DEF Poll
<1>4. CASE Serve
  <2>1. PICK r : ServeHangup(r) \/ ServeEmptyRead(r) \/ ServeRead(r) \/ ServeWrite(r)
    BY <1>4, ServeIs
  <2>2. CASE RemoveClient(pos)
    BY <1>1, <1>4, <2>2, ServeIs, RemoveKeepsTypes
  <2> QED
    BY <2>1, <2>2 DEF ServeHangup, ServeEmptyRead, ServeRead, ServeWrite
<1>5. CASE EndServe \/ ProcessMessage \/ EndBatch \/ ConsumeEvent \/ EndConsume
  BY <1>5 DEF EndServe, ProcessMessage, EndBatch, ConsumeEvent, EndConsume, netVars
<1>6. CASE EngineStep
  BY <1>6, EngineKeepsTypes DEF netVars
<1>7. CASE UNCHANGED vars
  BY <1>7 DEF vars
<1> QED
  BY <1>2, <1>3, <1>4, <1>5, <1>6, <1>7 DEF Next, IOStep, PollTimeout

\* Until a client is removed, everybody keeps his position.
LEMMA PositionsKept ==
    ASSUME Types, [Next]_vars, NobodyRemoved'
    PROVE  /\ NobodyRemoved
           /\ \A i \in 1..Len(clients) : i \in 1..Len(clients') /\ clients'[i] = clients[i]
<1>1. NobodyRemoved
  BY RemovedForEver DEF NobodyRemoved
<1>2. clients \in Seq(Clients)
  BY DEF Types, IOTypes
<1>3. CASE UNCHANGED clients
  BY <1>1, <1>3
<1>4. CASE Poll
  <2>1. CASE \E c \in Backlog : clients' = Append(clients, c)
    <3>1. PICK c \in Clients : clients' = Append(clients, c)
      BY <2>1 DEF Backlog
    <3> QED
      BY <1>1, <1>2, <3>1, AppendOf
  <2> QED
    BY <1>3, <1>4, <2>1 DEF Poll
<1>5. CASE Serve
  <2>1. PICK r : ServeHangup(r) \/ ServeEmptyRead(r) \/ ServeRead(r) \/ ServeWrite(r)
    BY <1>5, ServeIs
  <2>2. ~RemoveClient(pos)
    BY <1>5, ServeIs, RemoveKeepsTypes DEF NobodyRemoved
  <2> QED
    BY <1>3, <2>1, <2>2 DEF ServeHangup, ServeEmptyRead, ServeRead, ServeWrite
<1>6. CASE ClientStep \/ EndServe \/ ProcessMessage \/ EndBatch \/ ConsumeEvent \/ EndConsume
  BY <1>3, <1>6 DEF ClientStep, Connect, Send, Chat, Disconnect, ioVars,
     EndServe, ProcessMessage, EndBatch, ConsumeEvent, EndConsume
<1>7. CASE EngineStep
  BY <1>3, <1>7, EngineKeepsTypes DEF ioVars
<1>8. CASE UNCHANGED vars
  BY <1>3, <1>8 DEF vars
<1> QED
  BY <1>4, <1>5, <1>6, <1>7, <1>8 DEF Next, IOStep, PollTimeout

LEMMA RoutedKept ==
    ASSUME Types, Senders, AllRouted, [Next]_vars
    PROVE  AllRouted'
<1> DEFINE Now(m) == m.client_idx \in 1..Len(clients) /\ clients[m.client_idx] = m.from
           Then(m) == m.client_idx \in 1..Len(clients') /\ clients'[m.client_idx] = m.from
<1> SUFFICES ASSUME NobodyRemoved'
             PROVE  /\ \A i \in 1..Len(in_q') : Then(in_q'[i])
                    /\ epc' = "work" => Then(cmd')
                    /\ epc' = "emit" /\ event'.kind = "REJECT" => Then(event')
                    /\ \A i \in 1..Len(out_q') : out_q'[i].kind = "REJECT" => Then(out_q'[i])
  BY DEF AllRouted, Routed
<1>1. /\ \A i \in 1..Len(in_q) : Now(in_q[i])
      /\ epc = "work" => Now(cmd)
      /\ epc = "emit" /\ event.kind = "REJECT" => Now(event)
      /\ \A i \in 1..Len(out_q) : out_q[i].kind = "REJECT" => Now(out_q[i])
  BY PositionsKept DEF AllRouted, Routed
<1>2. \A m : Now(m) => Then(m)
  BY PositionsKept
<1>3. in_q \in Seq(Commands) /\ out_q \in Seq(Events)
  BY DEF Types, QueueTypes
<1> HIDE DEF Then
<1>4. CASE UNCHANGED <<in_q, out_q, epc, cmd, event>>
  BY <1>1, <1>2, <1>4
<1>5. CASE ProcessMessage
  <2>1. UNCHANGED <<out_q, epc, cmd, event>>
    BY <1>5 DEF ProcessMessage, engineVars
  <2>2. CASE in_q' = in_q
    BY <1>1, <1>2, <2>1, <2>2
  <2>3. CASE ProcessCommand(Head(batch)) /\ in_q' = Append(in_q, Queued(Head(batch)))
    <3> DEFINE m == Queued(Head(batch))
    <3>1. m \in Commands /\ m.client_idx = pos /\ m.from = Head(batch).from
      BY <1>5, <2>3, QueuedCommand
    <3>2. pos \in 1..Len(clients) /\ Head(batch).from = clients[pos]
      BY <1>5, BatchIs, BatchSender
    <3>3. Then(m)
      BY <1>2, <3>1, <3>2
    <3> HIDE DEF m
    <3>4. in_q' = Append(in_q, m)
      BY <2>3 DEF m
    <3>5. /\ Len(in_q') = Len(in_q) + 1 /\ \A i \in 1..Len(in_q) : in_q'[i] = in_q[i]
          /\ in_q'[Len(in_q) + 1] = m
          /\ \A i : i \in 1..(Len(in_q) + 1) <=> i \in 1..Len(in_q) \/ i = Len(in_q) + 1
      BY <1>3, <3>1, <3>4, AppendOf
    <3> QED
      BY <1>1, <1>2, <2>1, <3>3, <3>5
  <2>4. ProcessReject(Head(batch)) \/ ProcessOther(Head(batch)) => in_q' = in_q
    BY <1>5, RejectedMessage DEF ProcessOther
  <2> QED
    BY <1>5, <2>2, <2>3, <2>4, QueuedCommand, BatchIs
<1>6. CASE ConsumeEvent
  <2>1. UNCHANGED <<in_q, epc, cmd, event>>
    BY <1>6 DEF ConsumeEvent, engineVars
  <2>2. out_q # <<>> /\ out_q' = Tail(out_q)
    BY <1>6, ConsumedIs
  <2>3. Len(out_q') = Len(out_q) - 1
        /\ \A i \in 1..(Len(out_q) - 1) : out_q'[i] = out_q[i + 1] /\ i + 1 \in 1..Len(out_q)
    BY <1>3, <2>2, TailOf
  <2> QED
    BY <1>1, <1>2, <2>1, <2>3
<1>7. CASE PopCommand
  <2>1. /\ in_q # <<>> /\ in_q' = Tail(in_q) /\ cmd' = in_q[1] /\ epc' = "work"
        /\ UNCHANGED <<out_q, event>>
    BY <1>7, PoppedCommand
  <2>2. /\ Len(in_q') = Len(in_q) - 1 /\ Len(in_q) \in Nat /\ Len(in_q) >= 1
        /\ \A i \in 1..(Len(in_q) - 1) : in_q'[i] = in_q[i + 1] /\ i + 1 \in 1..Len(in_q)
    BY <1>3, <2>1, TailOf
  <2>3. 1 \in 1..Len(in_q)
    BY <2>2
  <2> QED
    BY <1>1, <1>2, <2>1, <2>2, <2>3
<1>8. CASE Work
  <2>1. /\ epc = "work" /\ epc' = "emit" /\ event'.from = cmd.from
        /\ event'.kind = "REJECT" => event'.client_idx = cmd.client_idx
        /\ UNCHANGED <<in_q, out_q>>
    BY <1>8, WorkIs
  <2>2. event'.kind = "REJECT" => Now(event')
    BY <1>1, <2>1
  <2> QED
    BY <1>1, <1>2, <2>1, <2>2
<1>9. CASE Emit
  <2>1. /\ epc = "emit" /\ epc' = "idle" /\ out_q' = Append(out_q, event) /\ in_q' = in_q
    BY <1>9 DEF Emit
  <2>2. event \in Events
    BY <2>1 DEF Types, EngineTypes
  <2>3. /\ Len(out_q') = Len(out_q) + 1 /\ \A i \in 1..Len(out_q) : out_q'[i] = out_q[i]
        /\ out_q'[Len(out_q) + 1] = event
        /\ \A i : i \in 1..(Len(out_q) + 1) <=> i \in 1..Len(out_q) \/ i = Len(out_q) + 1
    BY <1>3, <2>1, <2>2, AppendOf
  <2> QED
    BY <1>1, <1>2, <2>1, <2>3
<1>10. CASE ClientStep
  BY <1>4, <1>10 DEF ClientStep, Connect, Send, Chat, Disconnect, engineVars
<1>11. CASE Poll \/ Serve \/ EndServe \/ EndBatch \/ EndConsume
  BY <1>4, <1>11 DEF Poll, Serve, EndServe, EndBatch, EndConsume, engineVars
<1>12. CASE UNCHANGED vars
  BY <1>4, <1>12 DEF vars
<1> QED
  BY <1>5, <1>6, <1>7, <1>8, <1>9, <1>10, <1>11, <1>12 DEF Next, IOStep, EngineStep, PollTimeout

\* The REJECTs of s are answers to c.
Own(s, c) == \A i \in 1..Len(s) : s[i].kind = "REJECT" => s[i].from = c

LEMMA OwnAppend ==
    ASSUME NEW S, NEW s \in Seq(S), NEW x \in S, NEW c, Own(s, c),
           x.kind = "REJECT" => x.from = c
    PROVE  Own(Append(s, x), c)
<1>1. /\ Len(Append(s, x)) = Len(s) + 1
      /\ \A i \in 1..Len(s) : Append(s, x)[i] = s[i]
      /\ Append(s, x)[Len(s) + 1] = x
      /\ \A i : i \in 1..(Len(s) + 1) <=> i \in 1..Len(s) \/ i = Len(s) + 1
  BY AppendOf
<1> QED
  BY <1>1 DEF Own

\* A buffer that is flushed is empty, and the others are left alone.
LEMMA FlushedOrKept ==
    ASSUME NEW S, NEW gone, Flush(S, gone), NEW c \in Clients
    PROVE  sendbuf'[c] = <<>> \/ sendbuf'[c] = sendbuf[c]
BY DEF Flush

LEMMA RejectReachesSenderKept ==
    ASSUME Types, Senders, AllRouted, RejectReachesSender, [Next]_vars
    PROVE  RejectReachesSender'
<1> SUFFICES ASSUME NobodyRemoved', NEW c \in Clients PROVE Own(sendbuf'[c], c)
  BY DEF RejectReachesSender, NobodyRemoved, Own
<1>1. Own(sendbuf[c], c)
  BY PositionsKept DEF RejectReachesSender, NobodyRemoved, Own
<1>2. sendbuf \in [Clients -> Seq(Buffered)] /\ Own(<<>>, c) /\ IOTypes
  BY DEF Types, IOTypes, Own
<1>3. CASE UNCHANGED sendbuf
  BY <1>1, <1>3
<1>4. CASE \E S, gone : Flush(S, gone)
  BY <1>1, <1>2, <1>4, FlushedOrKept
<1>5. CASE ProcessMessage
  <2>1. CASE ProcessReject(Head(batch))
    <3>1. PICK why \in Reasons : /\ SendReject(pos, Rejection(Head(batch), why))
                                 /\ Rejection(Head(batch), why) \in Buffered
      BY <1>5, <2>1, RejectedMessage
    <3> DEFINE x == Rejection(Head(batch), why)
    <3>2. x.from = clients[pos] /\ pos \in Numbered
      BY <1>5, BatchIs, BatchSender DEF Rejection
    <3> HIDE DEF x
    <3>3. \/ sendbuf'[c] = sendbuf[c]
          \/ c = clients[pos] /\ sendbuf'[c] = Append(sendbuf[c], x)
      BY <1>2, <3>1, <3>2, SendRejectIs DEF x
    <3> QED
      BY <1>1, <1>2, <3>1, <3>2, <3>3, OwnAppend DEF x
  <2>2. ProcessCommand(Head(batch)) \/ ProcessOther(Head(batch)) => sendbuf' = sendbuf
    BY DEF ProcessCommand, ProcessOther
  <2> QED
    BY <1>3, <1>5, <2>1, <2>2, BatchIs
<1>6. CASE ConsumeEvent
  <2> DEFINE e == Head(out_q)
  <2>1. CASE e.kind = "UPDATE"
    <3> DEFINE x == [kind |-> "UPDATE", version |-> e.version]
    <3>1. x \in Buffered /\ Broadcast(x) /\ x.kind # "REJECT"
      BY <1>6, <2>1, ConsumedIs
    <3> HIDE DEF x
    <3>2. sendbuf'[c] = sendbuf[c] \/ sendbuf'[c] = Append(sendbuf[c], x)
      BY <1>2, <3>1, BroadcastIs
    <3> QED
      BY <1>1, <1>2, <3>1, <3>2, OwnAppend
  <2>2. CASE e.kind # "UPDATE"
    <3> DEFINE x == Rejection(e, e.reason)
    <3>1. /\ e.kind = "REJECT" /\ e.client_idx \in Numbered /\ x \in Buffered
          /\ SendReject(e.client_idx, x)
      BY <1>6, <2>2, ConsumedIs
    <3>2. x.from = e.from
      BY DEF Rejection
    <3>3. e.client_idx \in 1..Len(clients) /\ clients[e.client_idx] = e.from
      <4>1. out_q \in Seq(Events) /\ out_q # <<>>
        BY <1>6, ConsumedIs
      <4>2. e = out_q[1] /\ Len(out_q) \in Nat /\ Len(out_q) >= 1
        BY <4>1, TailOf
      <4>3. 1 \in 1..Len(out_q)
        BY <4>2
      <4> QED
        BY <3>1, <4>2, <4>3, PositionsKept DEF AllRouted, Routed
    <3> HIDE DEF x, e
    <3>4. \/ sendbuf'[c] = sendbuf[c]
          \/ c = clients[e.client_idx] /\ sendbuf'[c] = Append(sendbuf[c], x)
      BY <1>2, <3>1, SendRejectIs
    <3> QED
      BY <1>1, <1>2, <3>1, <3>2, <3>3, <3>4, OwnAppend
  <2> QED
    BY <2>1, <2>2
<1>7. CASE Serve
  <2>1. PICK r : ServeHangup(r) \/ ServeEmptyRead(r) \/ ServeRead(r) \/ ServeWrite(r)
    BY <1>7, ServeIs
  <2> QED
    BY <1>3, <1>4, <2>1 DEF ServeHangup, ServeEmptyRead, ServeRead, ServeWrite
<1>8. CASE EndBatch
  BY <1>4, <1>8 DEF EndBatch
<1>9. CASE ClientStep \/ Poll \/ EndServe \/ EndConsume
  BY <1>3, <1>9 DEF ClientStep, Connect, Send, Chat, Disconnect, ioVars, Poll, EndServe, EndConsume
<1>10. CASE EngineStep
  BY <1>3, <1>10, EngineKeepsTypes DEF ioVars
<1>11. CASE UNCHANGED vars
  BY <1>3, <1>11 DEF vars
<1> QED
  BY <1>5, <1>6, <1>7, <1>8, <1>9, <1>10, <1>11 DEF Next, IOStep, PollTimeout

-----------------------------------------------------------------------------
(***************************************************************************)
(* Commands keep their order.                                              *)
(***************************************************************************)

\* What a command can do in its stages: enter the last one, be dropped from one, or
\* move from one to the next.
LEMMA StagesMove ==
    ASSUME NEW o, NEW e, NEW q, NEW b, NEW r, NEW top \in Nat, Ordered(o, e, q, b, r, top)
    PROVE  /\ \A S : S \subseteq {top + 1} => Ordered(o, e, q, b, r \cup S, top + 1)
           /\ \A S : S \subseteq r => Ordered(o, e, q, b, S, top)
           /\ \A S : S \subseteq o => Ordered(S, e, q, b, r, top)
           /\ \A S : S \subseteq b => Ordered(o, e, q, S, r, top)
           /\ b = {} => Ordered(o, e, q, r, {}, top)
           /\ \A S, T : b = S \cup T /\ Before(S, T) => Ordered(o, e, q \cup S, T, r, top)
           /\ \A S, T : e = {} /\ q = S \cup T /\ Before(S, T) => Ordered(o, S, T, b, r, top)
           /\ Ordered(o \cup e, {}, q, b, r, top)
<1>1. ASSUME NEW S, S \subseteq {top + 1} PROVE Ordered(o, e, q, b, r \cup S, top + 1)
  <2>1. \A x \in 1..top : x < top + 1 /\ x \in 1..(top + 1)
    OBVIOUS
  <2>2. top + 1 \in 1..(top + 1)
    OBVIOUS
  <2> QED
    BY <1>1, <2>1, <2>2 DEF Ordered, Before
<1>2. ASSUME NEW S, S \subseteq r PROVE Ordered(o, e, q, b, S, top)
  BY <1>2 DEF Ordered, Before
<1>3. ASSUME NEW S, S \subseteq o PROVE Ordered(S, e, q, b, r, top)
  BY <1>3 DEF Ordered, Before
<1>4. ASSUME NEW S, S \subseteq b PROVE Ordered(o, e, q, S, r, top)
  BY <1>4 DEF Ordered, Before
<1>5. b = {} => Ordered(o, e, q, r, {}, top)
  BY DEF Ordered, Before
<1>6. ASSUME NEW S, NEW T, b = S \cup T, Before(S, T) PROVE Ordered(o, e, q \cup S, T, r, top)
  BY <1>6 DEF Ordered, Before
<1>7. ASSUME NEW S, NEW T, e = {}, q = S \cup T, Before(S, T)
      PROVE  Ordered(o, S, T, b, r, top)
  BY <1>7 DEF Ordered, Before
<1>8. Ordered(o \cup e, {}, q, b, r, top)
  BY DEF Ordered, Before
<1> QED
  BY <1>1, <1>2, <1>3, <1>4, <1>5, <1>6, <1>7, <1>8

LEMMA ClientKeepsStages ==
    ASSUME Types, ClientStep, NEW c \in Clients, Stages
    PROVE  /\ Sorted(recv'[c], c)
           /\ Ordered(Nums(out_q, c), Nums(InEngine, c), Nums(in_q, c), Nums(batch, c),
                      Nums(recv'[c], c), sent')
<1>1. recv \in [Clients -> Seq(Messages)] /\ sent \in Nat
  BY DEF Types, NetTypes
<1> DEFINE o == Nums(out_q, c)
           e == Nums(InEngine, c)
           q == Nums(in_q, c)
           b == Nums(batch, c)
           r == Nums(recv[c], c)
<1>2. Sorted(recv[c], c) /\ Ordered(o, e, q, b, r, sent)
  BY DEF Stages, InStages
<1> SUFFICES Sorted(recv'[c], c) /\ Ordered(o, e, q, b, Nums(recv'[c], c), sent')
  OBVIOUS
<1> HIDE DEF o, e, q, b
<1>3. PICK d \in Clients : \/ Connect(d) \/ Disconnect(d, "closed") \/ Disconnect(d, "reset")
                           \/ \E k \in Kinds \ {"OTHER"}, id \in Ids : Send(d, k, id)
                           \/ Chat(d)
  BY DEF ClientStep
<1>4. ASSUME NEW k \in Kinds \ {"OTHER"}, NEW id \in Ids, Send(d, k, id)
      PROVE  Sorted(recv'[c], c) /\ Ordered(o, e, q, b, Nums(recv'[c], c), sent')
  <2> DEFINE m == [kind |-> k, id |-> id, from |-> d, n |-> sent + 1]
  <2>1. recv' = [recv EXCEPT ![d] = Append(recv[d], m)] /\ sent' = sent + 1
    BY <1>4 DEF Send
  <2>2. m \in Messages
    <3>1. sent + 1 \in Numbered /\ k \in MessageKinds \ {"OTHER"}
      BY <1>1, ServerAssumption DEF Numbered
    <3> QED
      BY <3>1 DEF Messages
  <2>3. NumOf(m, c) \subseteq {sent + 1}
    BY DEF NumOf
  <2> HIDE DEF m
  <2>4. CASE d = c
    <3>1. recv'[c] = Append(recv[c], m)
      BY <1>1, <2>1, <2>4
    <3>2. Before(r, NumOf(m, c))
      <4>1. \A x \in 1..sent : x < sent + 1
        BY <1>1
      <4>2. r \subseteq 1..sent
        BY <1>2 DEF Ordered
      <4> HIDE DEF r
      <4> QED
        BY <2>3, <4>1, <4>2 DEF Before
    <3>3. Sorted(recv'[c], c) /\ Nums(recv'[c], c) = r \cup NumOf(m, c)
      BY <1>1, <1>2, <2>2, <3>1, <3>2, NumsOfAppend
    <3>4. Ordered(o, e, q, b, r \cup NumOf(m, c), sent + 1)
      <4> HIDE DEF r
      <4>1. \A S : S \subseteq {sent + 1} => Ordered(o, e, q, b, r \cup S, sent + 1)
        BY <1>1, <1>2, StagesMove
      <4> QED
        BY <2>3, <4>1
    <3> QED
      BY <2>1, <3>3, <3>4
  <2>5. CASE d # c
    <3>1. recv'[c] = recv[c]
      BY <1>1, <2>1, <2>5
    <3>2. Ordered(o, e, q, b, r \cup {}, sent + 1)
      <4> HIDE DEF r
      <4> QED
        BY <1>1, <1>2, StagesMove
    <3>3. r \cup {} = r
      OBVIOUS
    <3> QED
      BY <1>2, <2>1, <3>1, <3>2, <3>3
  <2> QED
    BY <2>4, <2>5
<1>5. CASE Chat(d)
  <2> DEFINE m == [kind |-> "OTHER", from |-> d, n |-> 0]
  <2>1. recv' = [recv EXCEPT ![d] = <<m>>] /\ sent' = sent /\ recv[d] = <<>>
    BY <1>5 DEF Chat
  <2>2. NumOf(m, c) = {}
    BY DEF NumOf
  <2> HIDE DEF m
  <2>3. CASE d = c
    <3>1. recv'[c] = <<m>> /\ r = {}
      BY <1>1, <2>1, <2>3, NumsOfEmpty
    <3>2. Sorted(recv'[c], c) /\ Nums(recv'[c], c) = r
      BY <2>2, <3>1, NumsOfOne
    <3> QED
      BY <1>2, <2>1, <3>2
  <2>4. CASE d # c
    BY <1>1, <1>2, <2>1, <2>4
  <2> QED
    BY <2>3, <2>4
<1>6. CASE Connect(d) \/ Disconnect(d, "closed") \/ Disconnect(d, "reset")
  BY <1>2, <1>6 DEF Connect, Disconnect
<1> QED
  BY <1>3, <1>4, <1>5, <1>6

\* A client that is served: removed, or its messages become the batch.
LEMMA ServeKeepsStages ==
    ASSUME Types, Senders, Serve, NEW c \in Clients, Stages
    PROVE  /\ Sorted(batch', c) /\ Sorted(recv'[c], c)
           /\ Ordered(Nums(out_q, c), Nums(InEngine, c), Nums(in_q, c), Nums(batch', c),
                      Nums(recv'[c], c), sent)
<1>1. recv \in [Clients -> Seq(Messages)] /\ sent \in Nat
  BY DEF Types, NetTypes
<1> DEFINE o == Nums(out_q, c)
           e == Nums(InEngine, c)
           q == Nums(in_q, c)
           b == Nums(batch, c)
           r == Nums(recv[c], c)
<1>2. Sorted(batch, c) /\ Sorted(recv[c], c) /\ Ordered(o, e, q, b, r, sent)
  BY DEF Stages, InStages
<1> DEFINE Kept == /\ Sorted(batch', c) /\ Sorted(recv'[c], c)
                   /\ Ordered(o, e, q, Nums(batch', c), Nums(recv'[c], c), sent)
<1> SUFFICES Kept
  OBVIOUS
<1> HIDE DEF o, e, q
<1>3. pos \in 1..Len(clients) /\ clients[pos] \in Clients /\ batch = <<>>
  BY ServeIs
<1>4. PICK x : ServeHangup(x) \/ ServeEmptyRead(x) \/ ServeRead(x) \/ ServeWrite(x)
  BY ServeIs
<1>5. b = {}
  BY <1>3, NumsOfEmpty
<1>6. CASE ServeHangup(x) \/ ServeEmptyRead(x)
  <2>1. RemoveClient(pos) /\ batch' = batch
    BY <1>6 DEF ServeHangup, ServeEmptyRead
  <2>2. recv'[c] = <<>> \/ recv'[c] = recv[c]
    BY <1>3, <2>1, RemoveKeepsTypes
  <2>3. Sorted(recv'[c], c) /\ (Nums(recv'[c], c) = {} \/ Nums(recv'[c], c) = r)
    BY <1>2, <2>2, NumsOfEmpty
  <2>4. Ordered(o, e, q, b, {}, sent)
    <3> HIDE DEF b, r
    <3>1. \A S : S \subseteq r => Ordered(o, e, q, b, S, sent)
      BY <1>1, <1>2, StagesMove
    <3> QED
      BY <3>1
  <2> QED
    BY <1>2, <2>1, <2>3, <2>4
<1>7. CASE ServeRead(x)
  <2>1. batch' = recv[clients[pos]] /\ recv' = [recv EXCEPT ![clients[pos]] = <<>>]
    BY <1>7 DEF ServeRead
  <2>2. CASE clients[pos] = c
    <3>1. batch' = recv[c] /\ recv'[c] = <<>>
      BY <1>1, <2>1, <2>2
    <3>2. Sorted(batch', c) /\ Sorted(recv'[c], c) /\ Nums(batch', c) = r /\ Nums(recv'[c], c) = {}
      BY <1>2, <3>1, NumsOfEmpty
    <3>3. Ordered(o, e, q, r, {}, sent)
      <4> HIDE DEF b, r
      <4> QED
        BY <1>1, <1>2, <1>5, StagesMove
    <3> QED
      BY <3>2, <3>3
  <2>3. CASE clients[pos] # c
    <3>1. recv'[c] = recv[c]
      BY <1>1, <2>1, <2>3
    <3>2. \A i \in 1..Len(batch') : batch'[i].from # c
      BY <1>3, <2>1, <2>3 DEF Senders
    <3>3. Sorted(batch', c) /\ Nums(batch', c) = {}
      BY <3>2 DEF Sorted, Nums
    <3> QED
      BY <1>2, <1>5, <3>1, <3>3
  <2> QED
    BY <2>2, <2>3
<1>8. CASE ServeWrite(x)
  BY <1>2, <1>8 DEF ServeWrite
<1> QED
  BY <1>4, <1>6, <1>7, <1>8

LEMMA ProcessKeepsStages ==
    ASSUME Types, ProcessMessage, NEW c \in Clients, Stages
    PROVE  /\ Sorted(in_q', c) /\ Sorted(batch', c)
           /\ Ordered(Nums(out_q, c), Nums(InEngine, c), Nums(in_q', c), Nums(batch', c),
                      Nums(recv[c], c), sent)
<1>1. batch \in Seq(Messages) /\ in_q \in Seq(Commands) /\ sent \in Nat
  BY DEF Types, NetTypes, IOTypes, QueueTypes
<1> DEFINE o == Nums(out_q, c)
           e == Nums(InEngine, c)
           q == Nums(in_q, c)
           b == Nums(batch, c)
           r == Nums(recv[c], c)
           h == NumOf(Head(batch), c)
           t == Nums(Tail(batch), c)
<1>2. Sorted(in_q, c) /\ Sorted(batch, c) /\ Ordered(o, e, q, b, r, sent)
  BY DEF Stages, InStages
<1> SUFFICES Sorted(in_q', c) /\ Sorted(batch', c) /\ Ordered(o, e, Nums(in_q', c), Nums(batch', c), r, sent)
  OBVIOUS
<1> HIDE DEF o, e, r
<1>3. batch # <<>> /\ batch' = Tail(batch)
  BY BatchIs
<1>4. Sorted(batch', c) /\ b = h \cup t /\ Before(h, t) /\ Nums(batch', c) = t
  BY <1>1, <1>2, <1>3, NumsOfTail
<1>5. Before(q, h) /\ Ordered(o, e, q, t, r, sent) /\ Ordered(o, e, q \cup h, t, r, sent)
  <2> HIDE DEF q, b, h, t
  <2>1. Ordered(o, e, q \cup h, t, r, sent)
    <3>1. \A S, T : b = S \cup T /\ Before(S, T) => Ordered(o, e, q \cup S, T, r, sent)
      BY <1>1, <1>2, StagesMove
    <3> QED
      BY <1>4, <3>1
  <2>2. Ordered(o, e, q, t, r, sent)
    <3>1. \A S : S \subseteq b => Ordered(o, e, q, S, r, sent)
      BY <1>1, <1>2, StagesMove
    <3> QED
      BY <1>4, <3>1
  <2>3. Before(q, h)
    BY <1>2, <1>4 DEF Ordered, Before
  <2> QED
    BY <2>1, <2>2, <2>3
<1>6. CASE in_q' = in_q
  BY <1>2, <1>4, <1>5, <1>6
<1>7. CASE ProcessCommand(Head(batch)) /\ in_q' = Append(in_q, Queued(Head(batch)))
  <2> DEFINE m == Queued(Head(batch))
  <2>1. m \in Commands /\ m.n = Head(batch).n /\ m.from = Head(batch).from
    BY <1>7, QueuedCommand
  <2>2. NumOf(m, c) = h
    BY <2>1 DEF NumOf
  <2>3. in_q' = Append(in_q, m)
    BY <1>7
  <2> HIDE DEF m, h
  <2>4. Nums(in_q', c) = q \cup h /\ Sorted(in_q', c)
    BY <1>1, <1>2, <1>5, <2>1, <2>2, <2>3, NumsOfAppend
  <2> QED
    BY <1>4, <1>5, <2>4
<1>8. ProcessReject(Head(batch)) \/ ProcessOther(Head(batch)) => in_q' = in_q
  BY RejectedMessage DEF ProcessOther
<1> QED
  BY <1>6, <1>7, <1>8, QueuedCommand, BatchIs

LEMMA ConsumeKeepsStages ==
    ASSUME Types, ConsumeEvent, NEW c \in Clients, Stages
    PROVE  /\ Sorted(out_q', c)
           /\ Ordered(Nums(out_q', c), Nums(InEngine, c), Nums(in_q, c), Nums(batch, c),
                      Nums(recv[c], c), sent)
<1>1. out_q \in Seq(Events) /\ sent \in Nat
  BY DEF Types, NetTypes, QueueTypes
<1> DEFINE o == Nums(out_q, c)
           e == Nums(InEngine, c)
           q == Nums(in_q, c)
           b == Nums(batch, c)
           r == Nums(recv[c], c)
<1>2. Sorted(out_q, c) /\ Ordered(o, e, q, b, r, sent)
  BY DEF Stages, InStages
<1>3. out_q # <<>> /\ out_q' = Tail(out_q)
  BY ConsumedIs
<1>4. Sorted(out_q', c) /\ Nums(out_q', c) \subseteq o
  BY <1>1, <1>2, <1>3, NumsOfTail
<1>5. \A S : S \subseteq o => Ordered(S, e, q, b, r, sent)
  <2> HIDE DEF o, e, q, b, r
  <2> QED
    BY <1>1, <1>2, StagesMove
<1> QED
  BY <1>4, <1>5

LEMMA EngineKeepsStages ==
    ASSUME Types, Types', EngineStep, NEW c \in Clients, Stages
    PROVE  /\ Sorted(out_q', c) /\ Sorted(in_q', c)
           /\ Ordered(Nums(out_q', c), Nums(InHand', c), Nums(in_q', c), Nums(batch, c),
                      Nums(recv[c], c), sent)
<1>1. in_q \in Seq(Commands) /\ out_q \in Seq(Events) /\ sent \in Nat /\ InEngine = InHand
  BY EngineHolds DEF Types, NetTypes, QueueTypes
<1> DEFINE o == Nums(out_q, c)
           e == Nums(InHand, c)
           q == Nums(in_q, c)
           b == Nums(batch, c)
           r == Nums(recv[c], c)
<1>2. Sorted(out_q, c) /\ Sorted(in_q, c) /\ Ordered(o, e, q, b, r, sent)
  BY <1>1 DEF Stages, InStages
<1> SUFFICES /\ Sorted(out_q', c) /\ Sorted(in_q', c)
             /\ Ordered(Nums(out_q', c), Nums(InHand', c), Nums(in_q', c), b, r, sent)
  OBVIOUS
<1> HIDE DEF b, r
<1>3. CASE PopCommand
  <2> DEFINE h == NumOf(Head(in_q), c)
             t == Nums(Tail(in_q), c)
  <2>1. /\ in_q # <<>> /\ in_q' = Tail(in_q) /\ cmd' = Head(in_q) /\ epc = "idle" /\ epc' = "work"
        /\ out_q' = out_q
    BY <1>3, PoppedCommand
  <2>2. InHand = <<>> /\ InHand' = <<Head(in_q)>>
    BY <2>1 DEF InHand
  <2>3. e = {} /\ Nums(InHand', c) = h
    BY <2>2, NumsOfEmpty, NumsOfOne
  <2>4. Sorted(in_q', c) /\ q = h \cup t /\ Before(h, t) /\ Nums(in_q', c) = t
    BY <1>1, <1>2, <2>1, NumsOfTail
  <2>5. Ordered(o, h, t, b, r, sent)
    <3> HIDE DEF o, e, q, h, t
    <3>1. \A S, T : e = {} /\ q = S \cup T /\ Before(S, T) => Ordered(o, S, T, b, r, sent)
      BY <1>1, <1>2, StagesMove
    <3> QED
      BY <2>3, <2>4, <3>1
  <2> QED
    BY <1>2, <2>1, <2>3, <2>4, <2>5
<1>4. CASE Work
  <2>1. /\ epc = "work" /\ epc' = "emit" /\ event'.n = cmd.n /\ event'.from = cmd.from
        /\ UNCHANGED <<in_q, out_q>>
    BY <1>4, WorkIs
  <2>2. InHand = <<cmd>> /\ InHand' = <<event'>>
    BY <2>1 DEF InHand
  <2>3. e = NumOf(cmd, c) /\ Nums(InHand', c) = NumOf(event', c)
    BY <2>2, NumsOfOne
  <2>4. NumOf(event', c) = NumOf(cmd, c)
    BY <2>1 DEF NumOf
  <2> QED
    BY <1>2, <2>1, <2>3, <2>4
<1>5. CASE Emit
  <2>1. epc = "emit" /\ epc' = "idle" /\ out_q' = Append(out_q, event) /\ in_q' = in_q
    BY <1>5 DEF Emit
  <2>2. InHand = <<event>> /\ event \in Events /\ InHand' = <<>>
    BY <2>1 DEF InHand, Types, EngineTypes
  <2>3. e = NumOf(event, c) /\ Nums(InHand', c) = {}
    BY <2>2, NumsOfOne, NumsOfEmpty
  <2>4. Before(o, e) /\ Ordered(o \cup e, {}, q, b, r, sent)
    <3> HIDE DEF o, e, q
    <3>1. Before(o, e)
      BY <1>2 DEF Ordered
    <3>2. Ordered(o \cup e, {}, q, b, r, sent)
      BY <1>1, <1>2, StagesMove
    <3> QED
      BY <3>1, <3>2
  <2>5. Sorted(out_q', c) /\ Nums(out_q', c) = o \cup e
    BY <1>1, <1>2, <2>1, <2>2, <2>3, <2>4, NumsOfAppend
  <2> QED
    BY <1>2, <2>1, <2>3, <2>4, <2>5
<1> QED
  BY <1>3, <1>4, <1>5 DEF EngineStep

LEMMA StagesKept ==
    ASSUME Types, Types', Senders, Stages, [Next]_vars
    PROVE  Stages'
<1>1. InEngine = InHand /\ InEngine' = InHand'
  BY EngineHolds, EngineHoldsNext DEF Types
<1> SUFFICES ASSUME NEW c \in Clients PROVE InStages(c)'
  BY DEF Stages
<1> DEFINE Kept == /\ Sorted(out_q', c) /\ Sorted(in_q', c) /\ Sorted(batch', c)
                   /\ Sorted(recv'[c], c)
                   /\ Ordered(Nums(out_q', c), Nums(InHand', c), Nums(in_q', c),
                              Nums(batch', c), Nums(recv'[c], c), sent')
<1> SUFFICES Kept
  <2>1. Nums(InEngine', c) = Nums(InHand', c)
    BY <1>1
  <2> QED
    BY <2>1 DEF InStages, Ordered, Before, Nums, Sorted
<1>2. /\ Sorted(out_q, c) /\ Sorted(in_q, c) /\ Sorted(batch, c) /\ Sorted(recv[c], c)
      /\ Ordered(Nums(out_q, c), Nums(InHand, c), Nums(in_q, c), Nums(batch, c),
                 Nums(recv[c], c), sent)
  BY <1>1 DEF Stages, InStages
<1>3. CASE ClientStep
  <2>1. UNCHANGED <<batch, in_q, out_q, epc, cmd, event>>
    BY <1>3 DEF ClientStep, Connect, Send, Chat, Disconnect, ioVars, engineVars
  <2>2. InHand' = InHand
    BY <2>1 DEF InHand
  <2> QED
    BY <1>1, <1>2, <1>3, <2>1, <2>2, ClientKeepsStages
<1>4. CASE Serve
  <2>1. UNCHANGED <<in_q, out_q, epc, cmd, event, sent>>
    BY <1>4 DEF Serve, engineVars
  <2>2. InHand' = InHand
    BY <2>1 DEF InHand
  <2> QED
    BY <1>1, <1>2, <1>4, <2>1, <2>2, ServeKeepsStages
<1>5. CASE ProcessMessage
  <2>1. UNCHANGED <<recv, out_q, epc, cmd, event, sent>>
    BY <1>5 DEF ProcessMessage, netVars, engineVars
  <2>2. InHand' = InHand
    BY <2>1 DEF InHand
  <2> QED
    BY <1>1, <1>2, <1>5, <2>1, <2>2, ProcessKeepsStages
<1>6. CASE ConsumeEvent
  <2>1. UNCHANGED <<recv, in_q, batch, epc, cmd, event, sent>>
    BY <1>6 DEF ConsumeEvent, netVars, engineVars
  <2>2. InHand' = InHand
    BY <2>1 DEF InHand
  <2> QED
    BY <1>1, <1>2, <1>6, <2>1, <2>2, ConsumeKeepsStages
<1>7. CASE EngineStep
  <2>1. UNCHANGED <<recv, batch, sent>>
    BY <1>7, EngineKeepsTypes DEF netVars, ioVars
  <2> QED
    BY <1>2, <1>7, <2>1, EngineKeepsStages
<1>8. CASE UNCHANGED <<recv, batch, in_q, out_q, epc, cmd, event, sent>>
  <2>1. InHand' = InHand
    BY <1>8 DEF InHand
  <2> QED
    BY <1>2, <1>8, <2>1
<1>9. CASE Poll \/ EndServe \/ EndBatch \/ EndConsume \/ UNCHANGED vars
  BY <1>8, <1>9 DEF Poll, EndServe, EndBatch, EndConsume, netVars, engineVars, vars
<1> QED
  BY <1>3, <1>4, <1>5, <1>6, <1>7, <1>9 DEF Next, IOStep, PollTimeout

-----------------------------------------------------------------------------
(***************************************************************************)
(* Snapshots keep their order, and none is left out.                       *)
(***************************************************************************)
LEMMA CaughtUpStays ==
    ASSUME NEW g \in Nat, NEW x
    PROVE  /\ x = 0 \/ x = g => CaughtUp(<<>>, x, g)
           /\ \A s \in Seq(Buffered), y \in Buffered :
                 y.kind = "REJECT" /\ CaughtUp(s, x, g) => CaughtUp(Append(s, y), x, g)
           /\ \A s \in Seq(Buffered), y \in Buffered :
                 y.kind = "UPDATE" /\ y.version = g + 1 /\ CaughtUp(s, x, g)
                     => CaughtUp(Append(s, y), x, g + 1)
<1>1. x = 0 \/ x = g => CaughtUp(<<>>, x, g)
  <2>1. g \in 0..g /\ (g + 1)..g = {}
    OBVIOUS
  <2> QED
    BY <2>1, VersionsOfEmpty DEF CaughtUp
<1>2. ASSUME NEW s \in Seq(Buffered), NEW y \in Buffered, y.kind = "REJECT", CaughtUp(s, x, g)
      PROVE  CaughtUp(Append(s, y), x, g)
  <2>1. VersionOf(y) = {}
    BY <1>2 DEF VersionOf
  <2>2. Before(Versions(s), VersionOf(y))
    BY <2>1 DEF Before
  <2>3. Versions(Append(s, y)) = Versions(s) \cup VersionOf(y) /\ Ascending(Append(s, y))
    BY <1>2, <2>2, VersionsOfAppend DEF CaughtUp
  <2>4. Versions(Append(s, y)) = Versions(s)
    BY <2>1, <2>3
  <2> QED
    BY <1>2, <2>3, <2>4 DEF CaughtUp
<1>3. ASSUME NEW s \in Seq(Buffered), NEW y \in Buffered, y.kind = "UPDATE", y.version = g + 1,
             CaughtUp(s, x, g)
      PROVE  CaughtUp(Append(s, y), x, g + 1)
  <2>1. VersionOf(y) = {g + 1}
    BY <1>3 DEF VersionOf
  <2>2. PICK base \in 0..g : Versions(s) = (base + 1)..g /\ (x # 0 => x = base)
    BY <1>3 DEF CaughtUp
  <2>3. /\ \A i \in (base + 1)..g : i < g + 1
        /\ ((base + 1)..g) \cup {g + 1} = (base + 1)..(g + 1)
        /\ base \in 0..(g + 1)
    OBVIOUS
  <2>4. Before(Versions(s), VersionOf(y))
    BY <2>1, <2>2, <2>3 DEF Before
  <2>5. Versions(Append(s, y)) = Versions(s) \cup VersionOf(y) /\ Ascending(Append(s, y))
    BY <1>3, <2>4, VersionsOfAppend DEF CaughtUp
  <2>6. Versions(Append(s, y)) = (base + 1)..(g + 1)
    BY <2>1, <2>2, <2>3, <2>5
  <2> QED
    BY <2>2, <2>3, <2>5, <2>6 DEF CaughtUp
<1> QED
  BY <1>1, <1>2, <1>3

\* The oldest snapshot on its way is the next to be broadcast.
LEMMA OldestIsNext ==
    ASSUME NEW g \in Nat, NEW v \in Nat, NEW y, NEW T, NEW H,
           {y} \cup T \cup H = (g + 1)..v, Before({y}, T), Before({y}, H)
    PROVE  y = g + 1 /\ y <= v /\ T \cup H = (y + 1)..v
<1>1. y \in (g + 1)..v
  OBVIOUS
<1>2. y \in Int /\ g + 1 <= y /\ y <= v /\ g + 1 \in (g + 1)..v
  BY <1>1
<1>3. \A z \in T \cup H : y < z
  BY DEF Before
<1>4. g + 1 \in {y} \cup T \cup H
  BY <1>2
<1>5. y = g + 1
  BY <1>2, <1>3, <1>4
<1>6. ASSUME NEW z \in T \cup H PROVE z \in (y + 1)..v
  <2>1. z \in (g + 1)..v /\ y < z
    BY <1>3
  <2> QED
    BY <1>2, <2>1
<1>7. ASSUME NEW z \in (y + 1)..v PROVE z \in T \cup H
  <2>1. z \in (g + 1)..v /\ z # y
    BY <1>2
  <2> QED
    BY <2>1
<1> QED
  BY <1>2, <1>5, <1>6, <1>7

\* What an engine step does to the snapshots on their way.
LEMMA EngineKeepsOrder ==
    ASSUME Types, NEW g \in 0..version, EngineStep, OnTheWay(out_q, InHand, g, version)
    PROVE  g \in 0..version' /\ version <= version' /\ OnTheWay(out_q', InHand', g, version')
<1>1. out_q \in Seq(Events) /\ version \in Nat
  BY DEF Types, QueueTypes, EngineTypes
<1>2. /\ Versions(out_q) \cup Versions(InHand) = (g + 1)..version
      /\ Ascending(out_q) /\ Before(Versions(out_q), Versions(InHand))
  BY DEF OnTheWay
<1>3. CASE PopCommand
  <2>1. epc = "idle" /\ epc' = "work" /\ cmd' \in Commands /\ UNCHANGED <<out_q, version>>
    BY <1>3, PoppedCommand
  <2>2. InHand = <<>> /\ InHand' = <<cmd'>>
    BY <2>1 DEF InHand
  <2>3. VersionOf(cmd') = {}
    BY <2>1, CommandIs DEF VersionOf
  <2>4. Versions(InHand) = {} /\ Versions(InHand') = {}
    BY <2>2, <2>3, VersionsOfEmpty, VersionsOfOne
  <2> QED
    BY <1>1, <1>2, <2>1, <2>4 DEF OnTheWay
<1>4. CASE Work
  <2>1. /\ epc = "work" /\ epc' = "emit" /\ cmd \in Commands /\ out_q' = out_q
        /\ \/ event'.kind = "UPDATE" /\ event'.version = version + 1 /\ version' = version + 1
           \/ event'.kind = "REJECT" /\ version' = version
    BY <1>4, WorkIs
  <2>2. InHand = <<cmd>> /\ InHand' = <<event'>>
    BY <2>1 DEF InHand
  <2>3. VersionOf(cmd) = {}
    BY <2>1, CommandIs DEF VersionOf
  <2>4. Versions(InHand) = {} /\ Versions(InHand') = VersionOf(event')
    BY <2>2, <2>3, VersionsOfOne
  <2>5. CASE event'.kind = "UPDATE"
    <3>1. version' = version + 1 /\ VersionOf(event') = {version + 1}
      BY <2>1, <2>5 DEF VersionOf
    <3>2. /\ \A i \in (g + 1)..version : i < version + 1
          /\ ((g + 1)..version) \cup {version + 1} = (g + 1)..(version + 1)
          /\ g \in 0..(version + 1) /\ version <= version + 1
      BY <1>1
    <3> QED
      BY <1>2, <2>1, <2>4, <3>1, <3>2 DEF OnTheWay, Before
  <2>6. CASE event'.kind = "REJECT"
    <3>1. version' = version /\ VersionOf(event') = {}
      BY <2>1, <2>6 DEF VersionOf
    <3> QED
      BY <1>1, <1>2, <2>1, <2>4, <3>1 DEF OnTheWay
  <2> QED
    BY <2>1, <2>5, <2>6
<1>5. CASE Emit
  <2>1. /\ epc = "emit" /\ epc' = "idle" /\ out_q' = Append(out_q, event) /\ version' = version
        /\ event \in Events
    BY <1>5 DEF Emit, Types, EngineTypes
  <2>2. InHand = <<event>> /\ InHand' = <<>>
    BY <2>1 DEF InHand
  <2>3. Versions(InHand) = VersionOf(event) /\ Versions(InHand') = {}
    BY <2>2, VersionsOfOne, VersionsOfEmpty
  <2>4. Versions(out_q') = Versions(out_q) \cup VersionOf(event) /\ Ascending(out_q')
    BY <1>1, <1>2, <2>1, <2>3, VersionsOfAppend
  <2> QED
    BY <1>1, <1>2, <2>1, <2>3, <2>4 DEF OnTheWay, Before
<1> QED
  BY <1>3, <1>4, <1>5 DEF EngineStep

\* A step that consumes an event broadcasts a snapshot, or leaves them alone.
LEMMA ConsumeKeepsOrder ==
    ASSUME Types, NEW g \in 0..version, ConsumeEvent, Broadcasted(g)
    PROVE  \E k \in 0..version : /\ OnTheWay(out_q', InEngine, k, version)
                                 /\ \A c \in Accepted : CaughtUp(sendbuf'[c], seen[c], k)
<1>1. out_q \in Seq(Events) /\ version \in Nat /\ sendbuf \in [Clients -> Seq(Buffered)] /\ IOTypes
      /\ Accepted \subseteq Clients /\ g \in Nat
  BY AcceptedIs DEF Types, QueueTypes, EngineTypes, IOTypes
<1> DEFINE e == Head(out_q)
           h == Versions(InEngine)
<1>2. out_q # <<>> /\ out_q' = Tail(out_q) /\ e \in Events
  BY ConsumedIs
<1>3. /\ Versions(out_q) \cup h = (g + 1)..version
      /\ Ascending(out_q) /\ Before(Versions(out_q), h)
      /\ \A c \in Accepted : CaughtUp(sendbuf[c], seen[c], g)
  BY DEF Broadcasted, OnTheWay
<1>4. Versions(out_q) = VersionOf(e) \cup Versions(out_q') /\ Ascending(out_q')
      /\ Before(VersionOf(e), Versions(out_q'))
  BY <1>1, <1>2, <1>3, VersionsOfTail
<1>5. Before(Versions(out_q'), h) /\ Before(VersionOf(e), h)
  BY <1>3, <1>4 DEF Before
<1>6. CASE e.kind = "UPDATE"
  <2> DEFINE x == [kind |-> "UPDATE", version |-> e.version]
  <2>1. Broadcast(x) /\ x \in Buffered /\ x.kind = "UPDATE" /\ x.version = e.version
    BY <1>6, ConsumedIs
  <2>2. VersionOf(e) = {e.version}
    BY <1>6 DEF VersionOf
  <2> HIDE DEF x, e, h
  <2>3. /\ e.version = g + 1 /\ e.version <= version
        /\ Versions(out_q') \cup h = (e.version + 1)..version
    <3>1. {e.version} \cup Versions(out_q') \cup h = (g + 1)..version
      BY <1>3, <1>4, <2>2
    <3>2. Before({e.version}, Versions(out_q')) /\ Before({e.version}, h)
      BY <1>4, <1>5, <2>2
    <3> DEFINE T == Versions(out_q')
               y == e.version
    <3> HIDE DEF T, y
    <3>3. g \in Nat /\ version \in Nat /\ {y} \cup T \cup h = (g + 1)..version
          /\ Before({y}, T) /\ Before({y}, h)
      BY <1>1, <3>1, <3>2 DEF T, y
    <3>4. y = g + 1 /\ y <= version /\ T \cup h = (y + 1)..version
      <4> DEFINE v == version
      <4>1. v \in Nat /\ {y} \cup T \cup h = (g + 1)..v
        BY <3>3
      <4> HIDE DEF v
      <4>2. y = g + 1 /\ y <= v /\ T \cup h = (y + 1)..v
        BY <3>3, <4>1, OldestIsNext
      <4> QED
        BY <4>2 DEF v
    <3> QED
      BY <3>4 DEF T, y
  <2>4. \A c \in Accepted : CaughtUp(sendbuf'[c], seen[c], g + 1)
    <3> SUFFICES ASSUME NEW c \in Accepted PROVE CaughtUp(sendbuf'[c], seen[c], g + 1)
      OBVIOUS
    <3>1. sendbuf'[c] = Append(sendbuf[c], x)
      BY <1>1, <2>1, BroadcastIs
    <3>2. sendbuf[c] \in Seq(Buffered) /\ CaughtUp(sendbuf[c], seen[c], g)
      BY <1>1, <1>3
    <3>3. \A s \in Seq(Buffered), y \in Buffered :
             y.kind = "UPDATE" /\ y.version = g + 1 /\ CaughtUp(s, seen[c], g)
                 => CaughtUp(Append(s, y), seen[c], g + 1)
      BY <1>1, CaughtUpStays
    <3> QED
      BY <2>1, <2>3, <3>1, <3>2, <3>3
  <2>5. g + 1 \in 0..version /\ OnTheWay(out_q', InEngine, g + 1, version)
    BY <1>1, <1>4, <1>5, <2>3 DEF OnTheWay, h
  <2> QED
    BY <2>4, <2>5
<1>7. CASE e.kind # "UPDATE"
  <2> DEFINE x == Rejection(e, e.reason)
  <2>1. /\ e.client_idx \in Numbered /\ x \in Buffered /\ SendReject(e.client_idx, x)
    BY <1>7, ConsumedIs
  <2>2. x.kind = "REJECT"
    BY DEF Rejection
  <2>3. VersionOf(e) = {}
    BY <1>7 DEF VersionOf
  <2> HIDE DEF x, e, h
  <2>4. \A c \in Accepted : CaughtUp(sendbuf'[c], seen[c], g)
    <3> SUFFICES ASSUME NEW c \in Accepted PROVE CaughtUp(sendbuf'[c], seen[c], g)
      OBVIOUS
    <3>1. sendbuf'[c] = sendbuf[c] \/ sendbuf'[c] = Append(sendbuf[c], x)
      BY <1>1, <2>1, SendRejectIs
    <3>2. sendbuf[c] \in Seq(Buffered) /\ CaughtUp(sendbuf[c], seen[c], g)
      BY <1>1, <1>3
    <3>3. \A s \in Seq(Buffered), y \in Buffered :
             y.kind = "REJECT" /\ CaughtUp(s, seen[c], g) => CaughtUp(Append(s, y), seen[c], g)
      BY <1>1, CaughtUpStays
    <3> QED
      BY <2>1, <2>2, <3>1, <3>2, <3>3
  <2>5. OnTheWay(out_q', InEngine, g, version)
    BY <1>3, <1>4, <1>5, <2>3 DEF OnTheWay, h
  <2> QED
    BY <2>4, <2>5
<1> QED
  BY <1>6, <1>7

\* A REJECT in a send buffer changes no snapshot.
LEMMA ProcessKeepsOrder ==
    ASSUME Types, NEW g \in Nat, ProcessMessage, Broadcasted(g), NEW c \in Accepted
    PROVE  CaughtUp(sendbuf'[c], seen[c], g)
<1>1. sendbuf[c] \in Seq(Buffered) /\ CaughtUp(sendbuf[c], seen[c], g) /\ IOTypes /\ c \in Clients
  BY AcceptedIs DEF Types, IOTypes, Broadcasted
<1>2. CASE ProcessReject(Head(batch))
  <2>1. PICK why \in Reasons : /\ SendReject(pos, Rejection(Head(batch), why))
                               /\ Rejection(Head(batch), why) \in Buffered
    BY <1>2, RejectedMessage
  <2> DEFINE x == Rejection(Head(batch), why)
  <2>2. x.kind = "REJECT" /\ pos \in Numbered
    BY BatchIs DEF Rejection
  <2>3. SendReject(pos, x) /\ x \in Buffered
    BY <2>1
  <2> HIDE DEF x
  <2>4. sendbuf'[c] = sendbuf[c] \/ sendbuf'[c] = Append(sendbuf[c], x)
    BY <1>1, <2>2, <2>3, SendRejectIs
  <2>5. \A s \in Seq(Buffered), y \in Buffered :
           y.kind = "REJECT" /\ CaughtUp(s, seen[c], g) => CaughtUp(Append(s, y), seen[c], g)
    BY CaughtUpStays
  <2> QED
    BY <1>1, <2>2, <2>3, <2>4, <2>5
<1>3. ProcessCommand(Head(batch)) \/ ProcessOther(Head(batch)) => sendbuf' = sendbuf
  BY DEF ProcessCommand, ProcessOther
<1> QED
  BY <1>1, <1>2, <1>3, BatchIs

\* A flush hands over everything up to the last broadcast.
LEMMA FlushKeepsOrder ==
    ASSUME Types, NEW g \in 0..version, Broadcasted(g), Fresh, NEW S, S \subseteq Accepted,
           NEW gone, Flush(S, gone)
    PROVE  /\ \A c \in Accepted \ gone : CaughtUp(sendbuf'[c], seen'[c], g)
           /\ \A c \in Clients \ (Accepted \cup gone) :
                 sendbuf'[c] = sendbuf[c] /\ seen'[c] = seen[c]
           /\ \A c \in Clients : seen'[c] <= version
<1>1. IOTypes /\ g \in Nat /\ version \in Nat /\ Accepted \subseteq Clients /\ g <= version
  BY AcceptedIs DEF Types, IOTypes, EngineTypes
<1>2. /\ \A c \in Clients : c \in S \cup gone => sendbuf'[c] = <<>>
      /\ \A c \in Clients : c \notin S \cup gone => sendbuf'[c] = sendbuf[c]
      /\ \A c \in Clients : c \notin S => seen'[c] = seen[c]
      /\ \A c \in S : seen'[c] = seen[c] \/ seen'[c] = g
      /\ \A c \in S : seen'[c] # 0 => seen'[c] = g
  <2>1. IOTypes /\ g \in Nat
    BY <1>1
  <2>2. \A c \in Clients : c \in S \cup gone => sendbuf'[c] = <<>>
    BY <2>1, FlushIs
  <2>3. \A c \in Clients : c \notin S \cup gone => sendbuf'[c] = sendbuf[c]
    BY DEF Flush
  <2>4. \A c \in Clients : c \notin S => seen'[c] = seen[c]
    BY <2>1, FlushIs
  <2>5. \A c \in S : seen'[c] = seen[c] \/ seen'[c] = g
    BY <2>1, FlushIs
  <2>6. \A c \in S : seen'[c] # 0 => seen'[c] = g
    BY <2>1, FlushIs
  <2> QED
    BY <2>2, <2>3, <2>4, <2>5, <2>6
<1>3. ASSUME NEW c \in Accepted \ gone PROVE CaughtUp(sendbuf'[c], seen'[c], g)
  <2>1. CASE c \in S
    <3>1. sendbuf'[c] = <<>> /\ (seen'[c] = 0 \/ seen'[c] = g)
      BY <1>1, <1>2, <2>1
    <3>2. seen'[c] = 0 \/ seen'[c] = g => CaughtUp(<<>>, seen'[c], g)
      BY <1>1, CaughtUpStays
    <3> QED
      BY <3>1, <3>2
  <2>2. CASE c \notin S
    BY <1>1, <1>2, <2>2 DEF Broadcasted
  <2> QED
    BY <2>1, <2>2
<1>4. \A c \in Clients : seen'[c] <= version
  <2>1. \A c \in Clients : seen[c] <= version
    BY DEF Fresh
  <2>2. \A c \in Clients : seen'[c] = seen[c] \/ seen'[c] = g
    BY <1>2
  <2> QED
    BY <1>1, <2>1, <2>2
<1> QED
  BY <1>2, <1>3, <1>4

\* A client that is accepted has got nothing, and has nothing to get yet.
LEMMA PollAccepts ==
    ASSUME Types, Poll
    PROVE  \/ Accepted' = Accepted
           \/ \E c \in Clients \ Accepted : conn[c] # "removed" /\ Accepted' = Accepted \cup {c}
<1>1. clients \in Seq(Clients)
  BY DEF Types, IOTypes
<1>2. CASE clients' = clients
  BY <1>2 DEF Accepted
<1>3. CASE \E c \in Backlog : clients' = Append(clients, c)
  <2>1. PICK c \in Backlog : clients' = Append(clients, c)
    BY <1>3
  <2>2. c \in Clients \ Accepted /\ conn[c] # "removed"
    BY DEF Backlog
  <2> DEFINE n == Len(clients)
             a == Append(clients, c)
  <2>3. /\ a \in Seq(Clients) /\ Len(a) = n + 1 /\ n \in Nat /\ a[n + 1] = c
        /\ \A i \in 1..n : a[i] = clients[i]
        /\ \A i : i \in 1..(n + 1) <=> i \in 1..n \/ i = n + 1
    BY <1>1, <2>2, AppendOf
  <2> HIDE DEF a
  <2>4. DOMAIN a = 1..(n + 1) /\ DOMAIN clients = 1..n
    BY <1>1, <2>3, LenProperties
  <2>5. ToSet(a) = ToSet(clients) \cup {c}
    BY <2>3, <2>4 DEF ToSet
  <2>6. Accepted' = Accepted \cup {c}
    BY <2>1, <2>5 DEF Accepted, a
  <2> QED
    BY <2>2, <2>6
<1> QED
  BY <1>2, <1>3 DEF Poll

LEMMA SnapshotsKept ==
    ASSUME Types, Types', Snapshots, Fresh, [Next]_vars
    PROVE  Snapshots' /\ Fresh'
<1>1. PICK g \in 0..version : Broadcasted(g)
  BY DEF Snapshots
<1>2. /\ version \in Nat /\ g \in Nat /\ InEngine = InHand /\ InEngine' = InHand'
      /\ Accepted \subseteq Clients /\ seen \in [Clients -> Nat]
  BY EngineHolds, EngineHoldsNext, AcceptedIs DEF Types, EngineTypes, IOTypes
<1>3. ASSUME NEW k \in 0..version', OnTheWay(out_q', InHand', k, version'),
             \A c \in Accepted' : CaughtUp(sendbuf'[c], seen'[c], k)
      PROVE  Snapshots'
  <2>1. Broadcasted(k)'
    <3>1. OnTheWay(out_q, InEngine, k, version)'
      <4> HIDE DEF InHand, InEngine
      <4> QED
        BY <1>2, <1>3 DEF OnTheWay, Versions, Ascending, Before
    <3>2. ASSUME NEW c \in Accepted' PROVE CaughtUp(sendbuf[c], seen[c], k)'
      <4>1. CaughtUp(sendbuf'[c], seen'[c], k)
        BY <1>3, <3>2
      <4> QED
        BY <4>1 DEF CaughtUp, Versions, Ascending
    <3> QED
      BY <3>1, <3>2 DEF Broadcasted
  <2> QED
    BY <2>1 DEF Snapshots
<1>4. ASSUME \A c \in Clients \ Accepted' : conn'[c] # "removed" => sendbuf'[c] = <<>> /\ seen'[c] = 0,
             \A c \in Clients : seen'[c] <= version'
      PROVE  Fresh'
  BY <1>4 DEF Fresh
<1>5. OnTheWay(out_q, InHand, g, version) /\ \A c \in Accepted : CaughtUp(sendbuf[c], seen[c], g)
  BY <1>1, <1>2 DEF Broadcasted
<1>6. /\ \A c \in Clients \ Accepted : conn[c] # "removed" => sendbuf[c] = <<>> /\ seen[c] = 0
      /\ \A c \in Clients : seen[c] <= version
      /\ \A c \in Clients : conn'[c] # "removed" => conn[c] # "removed"
  BY RemovedForEver DEF Fresh
<1>7. CASE EngineStep
  <2>1. UNCHANGED <<conn, clients, sendbuf, seen>>
    BY <1>7, EngineKeepsTypes DEF netVars, ioVars
  <2>2. Accepted' = Accepted
    BY <2>1 DEF Accepted
  <2>3. g \in 0..version' /\ version <= version' /\ OnTheWay(out_q', InHand', g, version')
    BY <1>5, <1>7, EngineKeepsOrder
  <2>4. Snapshots'
    BY <1>3, <1>5, <2>1, <2>2, <2>3
  <2>5. \A c \in Clients : seen'[c] <= version'
    <3>1. version' \in Nat
      BY DEF Types, EngineTypes
    <3> QED
      BY <1>2, <1>6, <2>1, <2>3, <3>1
  <2> QED
    BY <1>4, <1>6, <2>1, <2>2, <2>4, <2>5
<1>8. CASE ConsumeEvent
  <2>1. UNCHANGED <<conn, clients, seen, epc, cmd, event, version>>
    BY <1>8 DEF ConsumeEvent, netVars, engineVars
  <2>2. Accepted' = Accepted /\ InHand' = InHand
    BY <2>1 DEF Accepted, InHand
  <2>3. PICK k \in 0..version : /\ OnTheWay(out_q', InHand, k, version)
                                /\ \A c \in Accepted : CaughtUp(sendbuf'[c], seen[c], k)
    BY <1>1, <1>2, <1>8, ConsumeKeepsOrder
  <2>4. Snapshots'
    BY <1>3, <2>1, <2>2, <2>3
  <2>5. \A c \in Clients \ Accepted : sendbuf'[c] = sendbuf[c]
    BY <1>8, ConsumedIs, BroadcastIs, SendRejectIs DEF Types
  <2> QED
    BY <1>4, <1>6, <2>1, <2>2, <2>4, <2>5
<1>9. CASE ProcessMessage
  <2>1. UNCHANGED <<conn, clients, seen, out_q, epc, cmd, event, version>>
    BY <1>9 DEF ProcessMessage, netVars, engineVars
  <2>2. Accepted' = Accepted /\ InHand' = InHand
    BY <2>1 DEF Accepted, InHand
  <2>3. \A c \in Accepted : CaughtUp(sendbuf'[c], seen[c], g)
    BY <1>1, <1>2, <1>9, ProcessKeepsOrder
  <2>4. Snapshots'
    BY <1>3, <1>5, <2>1, <2>2, <2>3
  <2>5. \A c \in Clients \ Accepted : sendbuf'[c] = sendbuf[c]
    <3>1. ProcessReject(Head(batch)) => \A c \in Clients \ Accepted : sendbuf'[c] = sendbuf[c]
      BY <1>9, RejectedMessage, BatchIs, SendRejectIs DEF Types
    <3>2. ProcessCommand(Head(batch)) \/ ProcessOther(Head(batch)) => sendbuf' = sendbuf
      BY DEF ProcessCommand, ProcessOther
    <3> QED
      BY <1>9, <3>1, <3>2, BatchIs
  <2> QED
    BY <1>4, <1>6, <2>1, <2>2, <2>4, <2>5
<1>10. ASSUME UNCHANGED <<conn, clients, out_q, epc, cmd, event, version>>,
              NEW S, S \subseteq Accepted, Flush(S, {})
       PROVE  Snapshots' /\ Fresh'
  <2>1. Accepted' = Accepted /\ InHand' = InHand
    BY <1>10 DEF Accepted, InHand
  <2>2. /\ \A c \in Accepted : CaughtUp(sendbuf'[c], seen'[c], g)
        /\ \A c \in Clients \ Accepted : sendbuf'[c] = sendbuf[c] /\ seen'[c] = seen[c]
        /\ \A c \in Clients : seen'[c] <= version
    <3>1. Accepted \ {} = Accepted /\ Accepted \cup {} = Accepted
      OBVIOUS
    <3> QED
      BY <1>1, <1>10, <3>1, FlushKeepsOrder
  <2>3. Snapshots'
    BY <1>3, <1>5, <1>10, <2>1, <2>2
  <2> QED
    BY <1>4, <1>6, <1>10, <2>1, <2>2, <2>3
<1>11. CASE EndBatch
  BY <1>10, <1>11, EndBatchIs DEF EndBatch, netVars, engineVars
<1>12. ASSUME UNCHANGED <<clients, sendbuf, seen, out_q, epc, cmd, event, version>>
       PROVE  Snapshots' /\ Fresh'
  <2>1. Accepted' = Accepted /\ InHand' = InHand
    BY <1>12 DEF Accepted, InHand
  <2>2. Snapshots'
    BY <1>3, <1>5, <1>12, <2>1
  <2> QED
    BY <1>4, <1>6, <1>12, <2>1, <2>2
<1>13. CASE Serve
  <2>1. /\ pos \in 1..Len(clients) /\ clients[pos] \in Clients
        /\ UNCHANGED <<out_q, epc, cmd, event, version>> /\ clients \in Seq(Clients)
        /\ pos \in Nat /\ pos >= 1 /\ pos + 1 \in Nat /\ pos + 1 >= 1
    <3>1. pos \in 1..Len(clients) /\ clients[pos] \in Clients
      BY <1>13, ServeIs
    <3>2. UNCHANGED <<out_q, epc, cmd, event, version>>
      BY <1>13 DEF Serve, engineVars
    <3>3. clients \in Seq(Clients) /\ Len(clients) \in Nat
      BY AcceptedIs DEF Types, IOTypes
    <3>4. pos \in Nat /\ pos >= 1 /\ pos + 1 \in Nat /\ pos + 1 >= 1
      BY <3>1, <3>3
    <3> QED
      BY <3>1, <3>2, <3>3, <3>4
  <2>2. PICK r : ServeHangup(r) \/ ServeEmptyRead(r) \/ ServeRead(r) \/ ServeWrite(r)
    BY <1>13, ServeIs
  <2>3. CASE ServeHangup(r) \/ ServeEmptyRead(r)
    <3> DEFINE d == clients[pos]
    <3>1. RemoveClient(pos)
      BY <2>3 DEF ServeHangup, ServeEmptyRead
    <3>2. PICK S : S \subseteq Accepted /\ Flush(S, {d})
      BY <2>1, <2>3, WritableIs DEF ServeHangup, ServeEmptyRead
    <3>3. Accepted' = Accepted \ {d} /\ conn'[d] = "removed"
      BY <2>1, <3>1, RemoveKeepsTypes
    <3> HIDE DEF d
    <3>4. /\ \A c \in Accepted \ {d} : CaughtUp(sendbuf'[c], seen'[c], g)
          /\ \A c \in Clients \ (Accepted \cup {d}) : sendbuf'[c] = sendbuf[c] /\ seen'[c] = seen[c]
          /\ \A c \in Clients : seen'[c] <= version
      BY <1>1, <3>2, FlushKeepsOrder
    <3>5. InHand' = InHand
      BY <2>1 DEF InHand
    <3>6. Snapshots'
      BY <1>3, <1>5, <2>1, <3>3, <3>4, <3>5
    <3>7. \A c \in Clients \ Accepted' : conn'[c] # "removed" => c \in Clients \ (Accepted \cup {d})
      BY <3>3
    <3> QED
      BY <1>4, <1>6, <2>1, <3>4, <3>6, <3>7
  <2>4. CASE ServeRead(r)
    BY <1>12, <2>1, <2>4 DEF ServeRead
  <2>5. CASE ServeWrite(r)
    <3>1. Flush(Writable(r, pos), {}) /\ UNCHANGED <<conn, clients>>
      BY <2>5 DEF ServeWrite
    <3>2. Writable(r, pos) \subseteq Accepted
      BY <2>1, WritableIs
    <3> QED
      BY <1>10, <2>1, <3>1, <3>2
  <2> QED
    BY <2>2, <2>3, <2>4, <2>5
<1>14. CASE Poll
  <2>1. UNCHANGED <<sendbuf, seen, out_q, epc, cmd, event, version>>
    BY <1>14 DEF Poll, engineVars
  <2>2. Accepted \subseteq Accepted'
        /\ \A c \in Accepted' : c \in Accepted \/ (sendbuf[c] = <<>> /\ seen[c] = 0)
    BY <1>6, <1>14, PollAccepts
  <2>3. InHand' = InHand
    BY <2>1 DEF InHand
  <2>4. CaughtUp(<<>>, 0, g)
    BY <1>2, CaughtUpStays
  <2>5. Snapshots'
    BY <1>3, <1>5, <2>1, <2>2, <2>3, <2>4
  <2> QED
    BY <1>4, <1>6, <2>1, <2>2, <2>5
<1>15. CASE ClientStep \/ EndServe \/ EndConsume \/ UNCHANGED vars
  BY <1>12, <1>15 DEF ClientStep, Connect, Send, Chat, Disconnect, ioVars, engineVars, netVars,
     EndServe, EndConsume, vars
<1> QED
  BY <1>7, <1>8, <1>9, <1>11, <1>13, <1>14, <1>15 DEF Next, IOStep, PollTimeout

-----------------------------------------------------------------------------
(***************************************************************************)
(* The theorems.                                                           *)
(***************************************************************************)
LEMMA InitEstablishesInv == Init => Inv
<1> SUFFICES ASSUME Init PROVE Inv
  OBVIOUS
<1> USE DEF Init
<1>1. Types
  <2>1. <<>> \in Seq(Messages) /\ <<>> \in Seq(Buffered) /\ <<>> \in Seq(Clients)
        /\ <<>> \in Seq(Commands) /\ <<>> \in Seq(Events) /\ Len(<<>>) = 0
    BY EmptySeq
  <2>2. NetTypes
    BY <2>1 DEF NetTypes
  <2>3. IOTypes
    BY <2>1 DEF IOTypes, IsInjective
  <2>4. LoopTypes
    BY DEF LoopTypes
  <2>5. QueueTypes
    BY <2>1, ServerAssumption DEF QueueTypes
  <2>6. EngineTypes
    BY FS_EmptySet, ServerAssumption DEF EngineTypes
  <2> QED
    BY <2>2, <2>3, <2>4, <2>5, <2>6 DEF Types
<1>2. NothingVanishes /\ Senders /\ AllRouted /\ RejectReachesSender
  BY DEF NothingVanishes, Senders, AllRouted, RejectReachesSender
<1>3. InEngine = <<>>
  BY <1>1, EngineHolds DEF Types, InHand
<1>4. Stages
  BY <1>3, NumsOfEmpty DEF Stages, InStages, Ordered, Before
<1>5. Accepted = {}
  BY DEF Accepted, ToSet
<1>6. Snapshots
  <2>1. OnTheWay(out_q, InEngine, 0, version)
    BY <1>3, VersionsOfEmpty DEF OnTheWay, Before
  <2>2. Broadcasted(0)
    BY <1>5, <2>1 DEF Broadcasted
  <2> QED
    BY <2>2 DEF Snapshots
<1>7. Fresh
  BY DEF Fresh
<1> QED
  BY <1>1, <1>2, <1>4, <1>6, <1>7 DEF Inv

LEMMA NextPreservesInv == Inv /\ [Next]_vars => Inv'
<1> SUFFICES ASSUME Types, NothingVanishes, Senders, AllRouted, RejectReachesSender, Stages,
                    Snapshots, Fresh, [Next]_vars
             PROVE  Inv'
  BY DEF Inv
<1>1. PICK g \in 0..version : Broadcasted(g)
  BY DEF Snapshots
<1>2. g \in Nat
  OBVIOUS
<1>3. Types'
  BY <1>1, <1>2, TypesKept
<1> QED
  BY <1>3, NothingVanishesKept, SendersKept, RoutedKept, RejectReachesSenderKept, StagesKept,
     SnapshotsKept DEF Inv

LEMMA Invariance == Spec => []Inv
BY InitEstablishesInv, NextPreservesInv, PTL DEF Spec

\* However many clients come and go, the two threads keep their state in shape: no
\* socket is in clients_ twice, the queues stay within their capacities, the book
\* within the pool, and the loop indices of poll within their loops even when
\* remove_client shortens the vector under them.
THEOREM ServerTypeCorrect == Spec => []TypeOK
<1>1. Inv => TypeOK
  <2> SUFFICES ASSUME Types, Fresh PROVE TypeOK
    BY DEF Inv
  <2>1. seen \in [Clients -> 0..version]
    <3>1. seen \in [Clients -> Nat] /\ version \in Nat /\ \A c \in Clients : seen[c] <= version
      BY DEF Types, IOTypes, EngineTypes, Fresh
    <3>2. \A c \in Clients : seen[c] \in 0..version
      BY <3>1
    <3> QED
      BY <3>1, <3>2
  <2>2. /\ conn \in [Clients -> {"none", "pending", "open", "closed", "reset", "removed"}]
        /\ clients \in Seq(Clients) /\ IsInjective(clients)
    BY DEF Types, NetTypes, IOTypes
  <2>3. /\ iopc \in {"poll", "serve", "batch", "consume"}
        /\ iopc \in {"serve", "batch"} => pos \in 1..(Cardinality(Clients) + 1)
        /\ iopc = "consume" => pos \in 0..EventsPerTick
        /\ iopc = "batch" => pos <= Len(clients)
    BY DEF Types, LoopTypes
  <2>4. /\ Len(in_q) <= InCapacity /\ Len(out_q) <= OutCapacity
        /\ epc \in {"idle", "work", "emit"}
        /\ book \subseteq Ids /\ Cardinality(book) <= PoolCapacity
    BY DEF Types, QueueTypes, EngineTypes
  <2> QED
    BY <2>1, <2>2, <2>3, <2>4 DEF TypeOK
<1> QED
  BY <1>1, Invariance, PTL

\* No command that found room in in_queue_ is lost before its answer is handed to a
\* send buffer, for any capacities: a full out_queue_ only makes the engine wait.
THEOREM NoCommandVanishes == Spec => []NothingVanishes
<1>1. Inv => NothingVanishes
  BY DEF Inv
<1> QED
  BY <1>1, Invariance, PTL

\* Until remove_client erases somebody, the position recorded in a command two
\* queues earlier is still its sender's when the REJECT is written.
THEOREM RejectsAreRouted == Spec => []RejectReachesSender
<1>1. Inv => RejectReachesSender
  BY DEF Inv
<1> QED
  BY <1>1, Invariance, PTL

\* The commands of a client pass the connection, the read buffer, in_queue_, the
\* engine thread and out_queue_ in the order in which they were sent.
THEOREM CommandsKeepOrder == Spec => []CommandsInOrder
<1>1. Inv => CommandsInOrder
  <2> SUFFICES ASSUME Types, Stages, NEW c \in Clients
               PROVE  Sorted(out_q \o InEngine \o in_q \o batch \o recv[c], c)
    BY DEF Inv, CommandsInOrder
  <2>1. /\ out_q \in Seq(Events) /\ in_q \in Seq(Commands) /\ batch \in Seq(Messages)
        /\ recv[c] \in Seq(Messages) /\ InEngine = InHand
    BY EngineHolds DEF Types, QueueTypes, IOTypes, NetTypes
  <2> DEFINE X == Events \cup Commands
             o == Nums(out_q, c)
             e == Nums(InEngine, c)
             q == Nums(in_q, c)
             b == Nums(batch, c)
             r == Nums(recv[c], c)
  <2>2. InEngine \in Seq(X) /\ Sorted(InEngine, c)
    <3>1. /\ epc = "work" => InHand = <<cmd>> /\ cmd \in X
          /\ epc = "emit" => InHand = <<event>> /\ event \in X
          /\ epc = "idle" => InHand = <<>>
          /\ epc \in {"idle", "work", "emit"}
      BY DEF InHand, Types, EngineTypes
    <3>2. \A x \in X : <<x>> \in Seq(X)
      OBVIOUS
    <3>3. <<>> \in Seq(X)
      BY EmptySeq
    <3>4. \A x : Sorted(<<x>>, c)
      BY NumsOfOne
    <3>5. Sorted(<<>>, c)
      BY NumsOfEmpty
    <3> HIDE DEF X
    <3> QED
      BY <2>1, <3>1, <3>2, <3>3, <3>4, <3>5
  <2>3. /\ Sorted(out_q, c) /\ Sorted(in_q, c) /\ Sorted(batch, c) /\ Sorted(recv[c], c)
        /\ Ordered(o, e, q, b, r, sent)
    BY DEF Stages, InStages
  <2> HIDE DEF X, o, e, q, b, r
  <2>4. /\ Before(o, e) /\ Before(o \cup e, q) /\ Before((o \cup e) \cup q, b)
        /\ Before(((o \cup e) \cup q) \cup b, r)
    BY <2>3 DEF Ordered, Before
  <2> DEFINE s1 == out_q \o InEngine
             s2 == s1 \o in_q
             s3 == s2 \o batch
  <2> DEFINE S1 == Events \cup X
             S2 == S1 \cup Commands
             S3 == S2 \cup Messages
  <2>5. s1 \in Seq(S1) /\ Nums(s1, c) = o \cup e /\ Sorted(s1, c)
    <3>1. s1 \in Seq(S1)
      BY <2>1, <2>2, ConcatOf
    <3> QED
      BY <2>1, <2>2, <2>3, <2>4, <3>1, NumsOfConcat DEF o, e
  <2> HIDE DEF s1, S1
  <2>6. s2 \in Seq(S2) /\ Nums(s2, c) = (o \cup e) \cup q /\ Sorted(s2, c)
    <3>1. s2 \in Seq(S2)
      BY <2>1, <2>5, ConcatOf
    <3>2. Before(Nums(s1, c), Nums(in_q, c))
      BY <2>4, <2>5 DEF q
    <3>3. s1 \in Seq(S1) /\ in_q \in Seq(Commands) /\ Sorted(s1, c) /\ Sorted(in_q, c)
      BY <2>1, <2>3, <2>5
    <3>4. Nums(s2, c) = Nums(s1, c) \cup Nums(in_q, c)
      BY <3>3, NumsOfConcat
    <3>5. Sorted(s2, c)
      BY <3>2, <3>3, NumsOfConcat
    <3> QED
      BY <2>5, <3>1, <3>4, <3>5 DEF q
  <2> HIDE DEF s2, S2
  <2>7. s3 \in Seq(S3) /\ Nums(s3, c) = ((o \cup e) \cup q) \cup b /\ Sorted(s3, c)
    <3>1. s3 \in Seq(S3)
      BY <2>1, <2>6, ConcatOf
    <3>2. Before(Nums(s2, c), Nums(batch, c))
      BY <2>4, <2>6 DEF b
    <3>3. s2 \in Seq(S2) /\ batch \in Seq(Messages) /\ Sorted(s2, c) /\ Sorted(batch, c)
      BY <2>1, <2>3, <2>6
    <3>4. Nums(s3, c) = Nums(s2, c) \cup Nums(batch, c)
      BY <3>3, NumsOfConcat
    <3>5. Sorted(s3, c)
      BY <3>2, <3>3, NumsOfConcat
    <3> QED
      BY <2>6, <3>1, <3>4, <3>5 DEF b
  <2> HIDE DEF s3, S3
  <2>8. Sorted(s3 \o recv[c], c)
    BY <2>1, <2>3, <2>4, <2>7, NumsOfConcat DEF r
  <2> QED
    BY <2>8 DEF s1, s2, s3
<1> QED
  BY <1>1, Invariance, PTL

\* A client that has got one book snapshot finds every later one in its send buffer,
\* in out_queue_ or in the engine thread's hands, in order and without a gap.
THEOREM SnapshotsKeepOrder == Spec => []UpdatesInOrder
<1>1. Inv => UpdatesInOrder
  <2> SUFFICES ASSUME Types, Snapshots, NEW c \in Accepted
               PROVE  LET way == sendbuf[c] \o out_q \o InEngine IN
                      /\ Ascending(way)
                      /\ \E base \in 0..version : /\ Versions(way) = (base + 1)..version
                                                  /\ seen[c] # 0 => seen[c] = base
    BY DEF Inv, UpdatesInOrder
  <2>1. PICK g \in 0..version : Broadcasted(g)
    BY DEF Snapshots
  <2>2. /\ out_q \in Seq(Events) /\ sendbuf[c] \in Seq(Buffered) /\ InEngine = InHand
        /\ version \in Nat /\ g \in Nat
    BY EngineHolds, AcceptedIs DEF Types, QueueTypes, IOTypes, EngineTypes
  <2> DEFINE X == Events \cup Commands
             s == Versions(sendbuf[c])
             o == Versions(out_q)
             h == Versions(InEngine)
  <2>3. InEngine \in Seq(X) /\ Ascending(InEngine)
    <3>1. /\ epc = "work" => InHand = <<cmd>> /\ cmd \in X
          /\ epc = "emit" => InHand = <<event>> /\ event \in X
          /\ epc = "idle" => InHand = <<>>
          /\ epc \in {"idle", "work", "emit"}
      BY DEF InHand, Types, EngineTypes
    <3>2. \A x \in X : <<x>> \in Seq(X)
      OBVIOUS
    <3>3. <<>> \in Seq(X)
      BY EmptySeq
    <3>4. \A x : Ascending(<<x>>)
      BY VersionsOfOne
    <3>5. Ascending(<<>>)
      BY VersionsOfEmpty
    <3> HIDE DEF X
    <3> QED
      BY <2>2, <3>1, <3>2, <3>3, <3>4, <3>5
  <2>4. o \cup h = (g + 1)..version /\ Ascending(out_q) /\ Before(o, h) /\ Ascending(sendbuf[c])
    BY <2>1 DEF Broadcasted, OnTheWay, CaughtUp
  <2>5. PICK base \in 0..g : s = (base + 1)..g /\ (seen[c] # 0 => seen[c] = base)
    BY <2>1 DEF Broadcasted, CaughtUp
  <2> HIDE DEF X, s, o, h
  <2>6. \A x \in (base + 1)..g, y \in (g + 1)..version : x < y
    BY <2>2
  <2>7. Before(s, o) /\ Before(s \cup o, h)
    BY <2>4, <2>5, <2>6 DEF Before
  <2>8. s \cup o \cup h = (base + 1)..version /\ base \in 0..version
    <3>1. ((base + 1)..g) \cup ((g + 1)..version) = (base + 1)..version /\ base \in 0..version
      BY <2>2
    <3> QED
      BY <2>4, <2>5, <3>1
  <2> DEFINE s1 == sendbuf[c] \o out_q
  <2>9. s1 \in Seq(Buffered \cup Events) /\ Versions(s1) = s \cup o /\ Ascending(s1)
    <3>1. s1 \in Seq(Buffered \cup Events)
      BY <2>2, ConcatOf
    <3> QED
      BY <2>2, <2>4, <2>7, <3>1, VersionsOfConcat DEF s, o
  <2> HIDE DEF s1
  <2>10. Versions(s1 \o InEngine) = s \cup o \cup h /\ Ascending(s1 \o InEngine)
    <3>1. s1 \in Seq(Buffered \cup Events) /\ InEngine \in Seq(X)
      BY <2>3, <2>9
    <3>2. Before(Versions(s1), Versions(InEngine)) /\ Ascending(s1) /\ Ascending(InEngine)
      BY <2>3, <2>7, <2>9 DEF h
    <3>3. Versions(s1 \o InEngine) = Versions(s1) \cup Versions(InEngine)
      BY <3>1, VersionsOfConcat
    <3>4. Ascending(s1 \o InEngine)
      BY <3>1, <3>2, VersionsOfConcat
    <3> QED
      BY <2>9, <3>3, <3>4 DEF h
  <2> QED
    BY <2>5, <2>8, <2>10 DEF s1
<1> QED
  BY <1>1, Invariance, PTL
=============================================================================
