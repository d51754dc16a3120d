----------------------------- MODULE Wire_proofs -----------------------------
(***************************************************************************)
(* Proofs about Wire, for any length of a header and of the payloads, any  *)
(* room in the sockets and any number of messages: what arrives is what    *)
(* was sent, however the bytes are cut on their way, and recv_buffer does  *)
(* not fill up.                                                            *)
(*                                                                         *)
(* The bytes under way in a direction, from the front of the buffer of the *)
(* reader to the end of that of the writer, are the frames of the messages *)
(* that have not been cut out yet, one after the other.  Up to a torn      *)
(* frame, that is: what follows one is not constrained.                    *)
(***************************************************************************)
EXTENDS Wire, SequenceTheorems, WellFoundedInduction, TLAPS

-----------------------------------------------------------------------------
(* Messages, bytes and frames. *)

Msg == [kind : UpKinds \cup DownKinds, n : Nat]
Byte == [m : Msg, i : Nat]
Cuttings == Msg \cup {Garbage}

Size(m) == Header + Payload[m.kind]

LEMMA PayloadFacts ==
    /\ MaxPayload \in Nat /\ Header \in Nat /\ Header >= 1
    /\ BufferSize \in Nat /\ BufferSize >= Header + MaxPayload
    /\ \A k \in UpKinds \cup DownKinds : Payload[k] \in Nat /\ Payload[k] <= MaxPayload
<1> DEFINE S == {Payload[k] : k \in DOMAIN Payload}
<1>1. PICK k \in DOMAIN Payload : \A j \in DOMAIN Payload : Payload[j] <= Payload[k]
  BY WireAssumption
<1>2. \A j \in DOMAIN Payload : Payload[j] \in Nat
  BY WireAssumption
<1>3. Payload[k] \in S /\ \A x \in S : Payload[k] >= x /\ x \in Nat
  BY <1>1, <1>2
<1>4. \A j \in DOMAIN Payload : Payload[j] \in S
  OBVIOUS
<1> HIDE DEF S
<1>5. \E x \in S : \A y \in S : x >= y
  BY <1>3
<1>6. Max(S) \in S /\ \A y \in S : Max(S) >= y
  BY <1>5 DEF Max
<1>7. MaxPayload = Max(S)
  BY DEF MaxPayload, S
<1>8. MaxPayload \in Nat /\ \A j \in DOMAIN Payload : Payload[j] \in Nat /\ Payload[j] <= MaxPayload
  BY <1>2, <1>3, <1>4, <1>6, <1>7
<1>9. UpKinds \cup DownKinds \subseteq DOMAIN Payload
  BY WireAssumption
<1>10. /\ Header \in Nat /\ Header >= 1 /\ BufferSize \in Nat
       /\ BufferSize >= Header + MaxPayload
  BY WireAssumption
<1> QED
  BY <1>8, <1>9, <1>10

LEMMA FrameFacts ==
    ASSUME NEW m \in Msg
    PROVE  /\ Payload[m.kind] \in Nat /\ Payload[m.kind] <= MaxPayload
           /\ Size(m) \in Nat /\ Size(m) >= 1 /\ Size(m) >= Header
           /\ Frame(m) \in Seq(Byte) /\ Len(Frame(m)) = Size(m)
           /\ \A i \in 1..Size(m) : Frame(m)[i] = [m |-> m, i |-> i]
<1>1. m.kind \in UpKinds \cup DownKinds
  BY DEF Msg
<1>2. Payload[m.kind] \in Nat /\ Payload[m.kind] <= MaxPayload
  BY <1>1, PayloadFacts
<1>3. Size(m) \in Nat /\ Size(m) >= 1 /\ Size(m) >= Header
  BY <1>2, PayloadFacts DEF Size
<1>4. Frame(m) = [i \in 1..Size(m) |-> [m |-> m, i |-> i]]
  BY DEF Frame, Size
<1>5. \A i \in 1..Size(m) : [m |-> m, i |-> i] \in Byte
  BY DEF Byte
<1>6. Frame(m) \in Seq(Byte) /\ Len(Frame(m)) = Size(m)
  BY <1>3, <1>4, <1>5
<1> QED
  BY <1>2, <1>3, <1>4, <1>6

-----------------------------------------------------------------------------
(***************************************************************************)
(* The loop over a buffer is a recursion over positions: at one of W it    *)
(* cuts msg[p] and goes on at nxt[p], further on.  There is a function     *)
(* that does that, built from the end of the buffer to its front.          *)
(***************************************************************************)
LEMMA LeastNumber ==
    ASSUME NEW T \in SUBSET Nat, NEW m \in T
    PROVE  \E n \in T : \A k \in T : ~ k < n
<1>1. \E n \in T : \A k \in T : ~ (<<k, n>> \in OpToRel(<, Nat))
  BY WFMin, NatLessThanWellFounded
<1> QED
  BY <1>1 DEF OpToRel

CutAt(f, p, W, nxt, msg) ==
    IF p \notin W THEN [msgs |-> <<>>, pos |-> p]
    ELSE [msgs |-> <<msg[p]>> \o f[nxt[p]].msgs, pos |-> f[nxt[p]].pos]

Forward(W, nxt, N) == \A p \in W : nxt[p] \in (p + 1)..N

CutsFrom(f, k, N, W, nxt, msg) ==
    /\ f \in [k..N -> [msgs : Seq(Cuttings), pos : 0..N]]
    /\ \A p \in k..N : f[p] = CutAt(f, p, W, nxt, msg)

LEMMA CutsGrow ==
    ASSUME NEW N \in Nat, NEW W \in SUBSET (0..N), NEW nxt, NEW msg \in [0..N -> Cuttings],
           Forward(W, nxt, N), NEW k \in 1..N, NEW f, CutsFrom(f, k, N, W, nxt, msg)
    PROVE  \E h : CutsFrom(h, k - 1, N, W, nxt, msg)
<1> DEFINE q == k - 1
           R == [msgs : Seq(Cuttings), pos : 0..N]
           new == CutAt(f, q, W, nxt, msg)
           h == [p \in q..N |-> IF p = q THEN new ELSE f[p]]
<1>1. /\ q \in 0..N /\ q \in q..N /\ q \notin k..N
      /\ \A p \in q..N : p # q => p \in k..N
      /\ \A p \in k..N : p \in q..N /\ p # q
  OBVIOUS
<1>2. f \in [k..N -> R] /\ \A p \in k..N : f[p] = CutAt(f, p, W, nxt, msg)
  BY DEF CutsFrom
<1>3. \A p \in W : p \in q..N => nxt[p] \in k..N
  <2> SUFFICES ASSUME NEW p \in W, p \in q..N PROVE nxt[p] \in k..N
    OBVIOUS
  <2>1. nxt[p] \in (p + 1)..N
    BY DEF Forward
  <2> QED
    BY <2>1
<1>4. new \in R
  <2>1. CASE q \notin W
    <3>1. new = [msgs |-> <<>>, pos |-> q]
      BY <2>1 DEF CutAt
    <3>2. <<>> \in Seq(Cuttings)
      OBVIOUS
    <3> HIDE DEF new, q
    <3> QED
      BY <1>1, <3>1, <3>2
  <2>2. CASE q \in W
    <3> DEFINE r == f[nxt[q]]
    <3>1. r \in R
      BY <1>1, <1>2, <1>3, <2>2
    <3>2. new = [msgs |-> <<msg[q]>> \o r.msgs, pos |-> r.pos]
      BY <2>2 DEF CutAt
    <3>3. msg[q] \in Cuttings /\ r.msgs \in Seq(Cuttings) /\ r.pos \in 0..N
      BY <1>1, <3>1
    <3> HIDE DEF r, q
    <3>4. <<msg[q]>> \o r.msgs \in Seq(Cuttings)
      BY <3>3
    <3> QED
      BY <3>2, <3>3, <3>4
  <2> QED
    BY <2>1, <2>2
<1> HIDE DEF new, R, q
<1>5. h \in [q..N -> R]
  BY <1>1, <1>2, <1>4
<1>6. h[q] = new /\ \A p \in k..N : h[p] = f[p]
  BY <1>1
<1> HIDE DEF h
<1>7. ASSUME NEW p \in q..N PROVE h[p] = CutAt(h, p, W, nxt, msg)
  <2>1. CutAt(h, p, W, nxt, msg) = CutAt(f, p, W, nxt, msg)
    <3>1. p \in W => h[nxt[p]] = f[nxt[p]]
      BY <1>3, <1>6
    <3> QED
      BY <3>1 DEF CutAt
  <2>2. CASE p = q
    BY <1>6, <2>1, <2>2 DEF new
  <2>3. CASE p # q
    BY <1>1, <1>2, <1>6, <2>1, <2>3
  <2> QED
    BY <2>2, <2>3
<1>8. CutsFrom(h, q, N, W, nxt, msg)
  BY <1>5, <1>7 DEF CutsFrom, R
<1> QED
  BY <1>8 DEF q

LEMMA CutsExist ==
    ASSUME NEW N \in Nat, NEW W \in SUBSET (0..N), NEW nxt, NEW msg \in [0..N -> Cuttings],
           Forward(W, nxt, N)
    PROVE  \E f : CutsFrom(f, 0, N, W, nxt, msg)
<1> DEFINE T == {i \in 0..N : ~ \E f : CutsFrom(f, N - i, N, W, nxt, msg)}
<1>1. \A i \in 0..N : i \notin T
  <2> SUFFICES ASSUME NEW l \in T PROVE FALSE
    OBVIOUS
  <2>1. PICK i \in T : \A j \in T : ~ j < i
    <3>1. T \in SUBSET Nat
      OBVIOUS
    <3> HIDE DEF T
    <3> QED
      BY <3>1, LeastNumber
  <2>2. i # 0
    <3>1. N \notin W
      BY DEF Forward
    <3> DEFINE f == [p \in N..N |-> [msgs |-> <<>>, pos |-> p]]
    <3>2. <<>> \in Seq(Cuttings) /\ N - 0 = N /\ \A p \in N..N : p = N /\ p \in 0..N
      OBVIOUS
    <3>3. f \in [N..N -> [msgs : Seq(Cuttings), pos : 0..N]]
      BY <3>2
    <3>4. \A p \in N..N : f[p] = CutAt(f, p, W, nxt, msg)
      BY <3>1, <3>2 DEF CutAt
    <3> HIDE DEF f
    <3>5. CutsFrom(f, N - 0, N, W, nxt, msg)
      BY <3>2, <3>3, <3>4 DEF CutsFrom
    <3> QED
      BY <2>1, <3>5
  <2>3. i \in 1..N /\ i - 1 \in 0..N /\ i - 1 \notin T
    BY <2>1, <2>2
  <2> DEFINE k == N - (i - 1)
  <2>4. k \in 1..N /\ k - 1 = N - i
    BY <2>3
  <2>5. PICK f : CutsFrom(f, k, N, W, nxt, msg)
    BY <2>3
  <2> HIDE DEF k
  <2>6. \E h : CutsFrom(h, k - 1, N, W, nxt, msg)
    BY <2>4, <2>5, CutsGrow
  <2> QED
    BY <2>1, <2>4, <2>6
<1>2. N \in 0..N /\ N - N = 0
  OBVIOUS
<1> QED
  BY <1>1, <1>2

-----------------------------------------------------------------------------
(* Parse *)

LEMMA LengthFacts ==
    ASSUME NEW buf \in Seq(Byte), NEW g \in Nat, NEW p \in Nat, p + 1 <= Len(buf)
    PROVE  /\ buf[p + 1].m \in Msg /\ LengthAt(buf, p, g) \in Nat
           /\ SizeAt(buf, p, g) \in Nat /\ SizeAt(buf, p, g) >= 1
           /\ MessageAt(buf, p, g) \in Cuttings
<1> DEFINE m == buf[p + 1].m
<1>1. p + 1 \in 1..Len(buf)
  OBVIOUS
<1>2. m \in Msg
  <2>1. buf[p + 1] \in Byte
    BY <1>1
  <2> QED
    BY <2>1 DEF Byte
<1>3. LengthAt(buf, p, g) \in Nat
  <2>1. LengthAt(buf, p, g) = Payload[m.kind] \/ LengthAt(buf, p, g) = g
    BY DEF LengthAt
  <2>2. Payload[m.kind] \in Nat
    <3> HIDE DEF m
    <3> QED
      BY <1>2, FrameFacts
  <2> QED
    BY <2>1, <2>2
<1>4. SizeAt(buf, p, g) \in Nat /\ SizeAt(buf, p, g) >= 1
  BY <1>3, PayloadFacts DEF SizeAt
<1>5. MessageAt(buf, p, g) \in Cuttings
  BY <1>2 DEF MessageAt, Cuttings
<1> QED
  BY <1>2, <1>3, <1>4, <1>5

LEMMA ThereFacts ==
    ASSUME NEW buf \in Seq(Byte), NEW g \in Nat, NEW p \in Nat, FrameIsThere(buf, p, g)
    PROVE  /\ SizeAt(buf, p, g) \in Nat /\ SizeAt(buf, p, g) >= 1
           /\ p + SizeAt(buf, p, g) <= Len(buf) /\ p + SizeAt(buf, p, g) >= p + 1
           /\ MessageAt(buf, p, g) \in Cuttings
<1>1. p + Header <= Len(buf) /\ p + SizeAt(buf, p, g) <= Len(buf)
  BY DEF FrameIsThere
<1>2. Len(buf) \in Nat
  OBVIOUS
<1>3. p + 1 <= Len(buf)
  BY <1>1, <1>2, PayloadFacts
<1>4. SizeAt(buf, p, g) \in Nat /\ SizeAt(buf, p, g) >= 1 /\ MessageAt(buf, p, g) \in Cuttings
  BY <1>3, LengthFacts
<1> QED
  BY <1>1, <1>4

\* What the loop does from position p on.
Loop(f, buf, g) ==
    \A p \in 0..Len(buf) :
        /\ f[p].msgs \in Seq(Cuttings) /\ f[p].pos \in Nat
        /\ ~ FrameIsThere(buf, p, g) => f[p].msgs = <<>> /\ f[p].pos = p
        /\ FrameIsThere(buf, p, g) =>
              /\ p + SizeAt(buf, p, g) \in (p + 1)..Len(buf)
              /\ MessageAt(buf, p, g) \in Cuttings
              /\ f[p].msgs = <<MessageAt(buf, p, g)>> \o f[p + SizeAt(buf, p, g)].msgs
              /\ f[p].pos = f[p + SizeAt(buf, p, g)].pos

LEMMA ParseLoops ==
    ASSUME NEW buf \in Seq(Byte), NEW g \in Nat
    PROVE  \E f : Loop(f, buf, g) /\ Parse(buf, g) = f[0]
<1> DEFINE L == Len(buf)
           N == L + Header + MaxPayload + 1
           there(p) == FrameIsThere(buf, p, g)
           next(p) == p + SizeAt(buf, p, g)
           cut(p) == MessageAt(buf, p, g)
           eqn(f) == f = [p \in 0..N |->
                             IF ~ there(p) THEN [msgs |-> <<>>, pos |-> p]
                             ELSE LET rest == f[next(p)] IN
                                  [msgs |-> <<cut(p)>> \o rest.msgs, pos |-> rest.pos]]
           iter == CHOOSE f : eqn(f)
           W == {p \in 0..N : there(p)}
           nxt == [p \in 0..N |-> next(p)]
           msg == [p \in 0..N |-> IF there(p) THEN cut(p) ELSE Garbage]
<1>1. Parse(buf, g) = iter[0]
  BY DEF Parse
<1>2. L \in Nat /\ N \in Nat /\ L <= N
  BY PayloadFacts
<1>3. \A p \in 0..N : there(p) => next(p) \in (p + 1)..L /\ next(p) \in (p + 1)..N /\ cut(p) \in Cuttings
  <2> SUFFICES ASSUME NEW p \in 0..N, there(p)
               PROVE  next(p) \in (p + 1)..L /\ next(p) \in (p + 1)..N /\ cut(p) \in Cuttings
    OBVIOUS
  <2>1. p \in Nat
    OBVIOUS
  <2>2. /\ SizeAt(buf, p, g) \in Nat /\ p + SizeAt(buf, p, g) <= Len(buf)
        /\ p + SizeAt(buf, p, g) >= p + 1 /\ cut(p) \in Cuttings
    BY <2>1, ThereFacts
  <2> QED
    BY <1>2, <2>1, <2>2
<1> HIDE DEF there, next, cut, N, L
<1>4. W \in SUBSET (0..N) /\ Forward(W, nxt, N) /\ msg \in [0..N -> Cuttings]
  <2>1. Forward(W, nxt, N)
    BY <1>3 DEF Forward
  <2>2. Garbage \in Cuttings
    BY DEF Cuttings
  <2> QED
    BY <1>3, <2>1, <2>2
<1>5. PICK h : CutsFrom(h, 0, N, W, nxt, msg)
  <2> HIDE DEF W, nxt, msg
  <2> QED
    BY <1>2, <1>4, CutsExist
<1>6. eqn(h)
  <2>1. /\ h \in [0..N -> [msgs : Seq(Cuttings), pos : 0..N]]
        /\ \A p \in 0..N : h[p] = CutAt(h, p, W, nxt, msg)
    BY <1>5 DEF CutsFrom
  <2>2. ASSUME NEW p \in 0..N
        PROVE  CutAt(h, p, W, nxt, msg) =
                  IF ~ there(p) THEN [msgs |-> <<>>, pos |-> p]
                  ELSE [msgs |-> <<cut(p)>> \o h[next(p)].msgs, pos |-> h[next(p)].pos]
    BY DEF CutAt
  <2> HIDE DEF W, nxt, msg
  <2> QED
    BY <2>1, <2>2
<1>7. eqn(iter)
  <2> HIDE DEF eqn
  <2> QED
    BY <1>6
<1>8. \A p \in 0..N : iter[p] = IF ~ there(p) THEN [msgs |-> <<>>, pos |-> p]
                                ELSE [msgs |-> <<cut(p)>> \o iter[next(p)].msgs, pos |-> iter[next(p)].pos]
  <2> HIDE DEF iter
  <2> QED
    BY <1>7
<1> HIDE DEF iter
<1> DEFINE good(p) == iter[p].msgs \in Seq(Cuttings) /\ iter[p].pos \in Nat
           T == {i \in 0..N : ~ good(N - i)}
<1>9. \A p \in 0..N : good(p)
  <2>1. \A i \in 0..N : i \notin T
    <3> SUFFICES ASSUME NEW l \in T PROVE FALSE
      OBVIOUS
    <3> HIDE DEF good
    <3>1. PICK i \in T : \A j \in T : ~ j < i
      <4>1. T \in SUBSET Nat
        BY <1>2
      <4> HIDE DEF T
      <4> QED
        BY <4>1, LeastNumber
    <3> DEFINE p == N - i
    <3>2. i \in 0..N /\ p \in 0..N /\ ~ good(p)
      BY <1>2, <3>1
    <3>3. CASE ~ there(p)
      <4>1. iter[p] = [msgs |-> <<>>, pos |-> p]
        BY <1>8, <3>2, <3>3
      <4>2. <<>> \in Seq(Cuttings) /\ p \in Nat
        BY <3>2
      <4> HIDE DEF p
      <4>3. good(p)
        BY <4>1, <4>2 DEF good
      <4> QED
        BY <3>2, <4>3
    <3>4. CASE there(p)
      <4> DEFINE q == next(p)
                 j == N - q
      <4>1. q \in (p + 1)..N /\ cut(p) \in Cuttings
        BY <1>3, <3>2, <3>4
      <4>2. iter[p] = [msgs |-> <<cut(p)>> \o iter[q].msgs, pos |-> iter[q].pos]
        BY <1>8, <3>2, <3>4
      <4> HIDE DEF q
      <4>3. j \in 0..N /\ j < i /\ N - j = q
        BY <1>2, <3>2, <4>1
      <4> HIDE DEF j
      <4>4. good(q)
        BY <3>1, <4>3
      <4> HIDE DEF p
      <4>5. <<cut(p)>> \o iter[q].msgs \in Seq(Cuttings)
        BY <4>1, <4>4 DEF good
      <4>6. good(p)
        BY <4>2, <4>4, <4>5 DEF good
      <4> QED
        BY <3>2, <4>6
    <3> QED
      BY <3>3, <3>4
  <2> HIDE DEF good
  <2> SUFFICES ASSUME NEW p \in 0..N PROVE good(p)
    OBVIOUS
  <2>2. N - p \in 0..N /\ N - (N - p) = p
    BY <1>2
  <2> QED
    BY <2>1, <2>2
<1>10. Loop(iter, buf, g)
  <2> SUFFICES ASSUME NEW p \in 0..L
               PROVE  /\ iter[p].msgs \in Seq(Cuttings) /\ iter[p].pos \in Nat
                      /\ ~ there(p) => iter[p].msgs = <<>> /\ iter[p].pos = p
                      /\ there(p) => /\ next(p) \in (p + 1)..L /\ cut(p) \in Cuttings
                                     /\ iter[p].msgs = <<cut(p)>> \o iter[next(p)].msgs
                                     /\ iter[p].pos = iter[next(p)].pos
    BY DEF Loop, there, next, cut, L
  <2>1. p \in 0..N
    BY <1>2
  <2>2. ASSUME ~ there(p) PROVE iter[p].msgs = <<>> /\ iter[p].pos = p
    <3>1. iter[p] = [msgs |-> <<>>, pos |-> p]
      BY <1>8, <2>1, <2>2
    <3> QED
      BY <3>1
  <2>3. ASSUME there(p)
        PROVE  iter[p].msgs = <<cut(p)>> \o iter[next(p)].msgs /\ iter[p].pos = iter[next(p)].pos
    <3> DEFINE x == <<cut(p)>> \o iter[next(p)].msgs
               y == iter[next(p)].pos
    <3>1. iter[p] = [msgs |-> x, pos |-> y]
      BY <1>8, <2>1, <2>3
    <3> HIDE DEF x, y
    <3>2. iter[p].msgs = x /\ iter[p].pos = y
      BY <3>1
    <3> QED
      BY <3>2 DEF x, y
  <2>4. iter[p].msgs \in Seq(Cuttings) /\ iter[p].pos \in Nat
    BY <1>9, <2>1
  <2>5. there(p) => next(p) \in (p + 1)..L /\ cut(p) \in Cuttings
    BY <1>3, <2>1
  <2> HIDE DEF good
  <2> QED
    BY <2>2, <2>3, <2>4, <2>5
<1> QED
  BY <1>1, <1>10

\* The loop ends at a position of the buffer where no whole frame is.
LEMMA ParseEnds ==
    ASSUME NEW buf \in Seq(Byte), NEW g \in Nat
    PROVE  /\ Parse(buf, g).msgs \in Seq(Cuttings)
           /\ Parse(buf, g).pos \in 0..Len(buf)
           /\ ~ FrameIsThere(buf, Parse(buf, g).pos, g)
<1>1. PICK f : Loop(f, buf, g) /\ Parse(buf, g) = f[0]
  BY ParseLoops
<1> DEFINE N == Len(buf)
           there(p) == FrameIsThere(buf, p, g)
           next(p) == p + SizeAt(buf, p, g)
           good(p) == f[p].pos \in 0..N /\ ~ there(f[p].pos)
           T == {i \in 0..N : ~ good(N - i)}
<1>2. N \in Nat
  OBVIOUS
<1>3. \A p \in 0..N : /\ f[p].msgs \in Seq(Cuttings)
                      /\ ~ there(p) => f[p].pos = p
                      /\ there(p) => next(p) \in (p + 1)..N /\ f[p].pos = f[next(p)].pos
  BY <1>1 DEF Loop
<1> HIDE DEF N, there, next, good
<1>4. \A i \in 0..N : i \notin T
  <2> SUFFICES ASSUME NEW l \in T PROVE FALSE
    OBVIOUS
  <2>1. PICK i \in T : \A j \in T : ~ j < i
    <3>1. T \in SUBSET Nat
      BY <1>2
    <3> HIDE DEF T
    <3> QED
      BY <3>1, LeastNumber
  <2> DEFINE p == N - i
             j == N - next(p)
  <2>2. p \in 0..N /\ i \in 0..N /\ ~ good(p)
    BY <1>2, <2>1
  <2>3. CASE ~ there(p)
    <3>1. f[p].pos = p
      BY <1>3, <2>2, <2>3
    <3> HIDE DEF p
    <3> QED
      BY <2>2, <2>3, <3>1 DEF good
  <2>4. CASE there(p)
    <3>1. next(p) \in (p + 1)..N /\ f[p].pos = f[next(p)].pos
      BY <1>3, <2>2, <2>4
    <3>2. j \in 0..N /\ j < i /\ N - j = next(p)
      BY <1>2, <2>2, <3>1
    <3> HIDE DEF j, p
    <3>3. good(next(p))
      BY <2>1, <3>2
    <3> QED
      BY <2>2, <3>1, <3>3 DEF good
  <2> QED
    BY <2>3, <2>4
<1>5. N \in 0..N /\ N - N = 0 /\ 0 \in 0..N
  BY <1>2
<1>6. good(0)
  BY <1>4, <1>5
<1> QED
  BY <1>1, <1>3, <1>5, <1>6 DEF good, N, there

-----------------------------------------------------------------------------
(***************************************************************************)
(* A frame in a buffer, the end of which may not be there yet.             *)
(***************************************************************************)
HoldsFrame(buf, p, m) ==
    \A i \in 1..Size(m) : p + i <= Len(buf) => buf[p + i] = [m |-> m, i |-> i]

LEMMA HeadOfFrame ==
    ASSUME NEW buf \in Seq(Byte), NEW g \in Nat, NEW p \in Nat, NEW m \in Msg,
           HoldsFrame(buf, p, m), p + Header <= Len(buf)
    PROVE  /\ buf[p + 1].m = m /\ LengthAt(buf, p, g) = Payload[m.kind]
           /\ SizeAt(buf, p, g) = Size(m) /\ ~ Oversized(buf, p, g)
<1>1. /\ Header \in Nat /\ Header >= 1 /\ Size(m) \in Nat /\ Size(m) >= Header
      /\ Payload[m.kind] \in Nat /\ Payload[m.kind] <= MaxPayload /\ MaxPayload \in Nat
      /\ Len(buf) \in Nat
  BY FrameFacts, PayloadFacts
<1>2. \A i \in 1..Header : i \in 1..Size(m) /\ p + i <= Len(buf) /\ p + i \in 1..Len(buf)
  BY <1>1
<1>3. \A i \in 1..Header : buf[p + i] = [m |-> m, i |-> i] /\ Frame(m)[i] = [m |-> m, i |-> i]
  BY <1>2, FrameFacts DEF HoldsFrame
<1>4. buf[p + 1].m = m
  <2>1. 1 \in 1..Header
    BY <1>1
  <2>2. buf[p + 1] = [m |-> m, i |-> 1]
    BY <1>3, <2>1
  <2> QED
    BY <2>2
<1>5. SubSeq(buf, p + 1, p + Header) = SubSeq(Frame(m), 1, Header)
  <2> DEFINE a == p + 1
             z == p + Header
             s == SubSeq(buf, a, z)
             t == SubSeq(Frame(m), 1, Header)
             F == Frame(m)
  <2>1. a \in Int /\ z \in Int /\ a <= z /\ z - a + 1 = Header
    BY <1>1
  <2>a. \A i \in a..z : i \in 1..Len(buf)
    <3> DEFINE n == Len(buf)
    <3>1. n \in Nat /\ p + Header <= n
      BY <1>1
    <3> HIDE DEF n
    <3>2. \A i \in a..z : i \in 1..n
      BY <1>1, <3>1
    <3> QED
      BY <3>2 DEF n
  <2>b. \A i \in 1..Header : a + i - 1 = p + i
    BY <1>1
  <2>2. s \in Seq(Byte) /\ Len(s) = Header /\ \A i \in 1..Header : s[i] = buf[a + i - 1]
    <3>1. \A i \in a..z : buf[i] \in Byte
      BY <2>a, ElementOfSeq
    <3> HIDE DEF a, z
    <3> QED
      BY <2>1, <3>1, SubSeqProperties
  <2>3. t \in Seq(Byte) /\ Len(t) = Header /\ \A i \in 1..Header : t[i] = F[i]
    <3>1. F \in Seq(Byte) /\ Len(F) = Size(m)
      BY FrameFacts
    <3> HIDE DEF F
    <3>2. \A i \in 1..Header : F[i] \in Byte
      BY <1>2, <3>1, ElementOfSeq
    <3>3. \A i \in 1..Header : 1 + i - 1 = i
      OBVIOUS
    <3> QED
      BY <1>1, <3>2, <3>3, SubSeqProperties DEF F
  <2>4. ASSUME NEW i \in 1..Header PROVE s[i] = t[i]
    <3> HIDE DEF s, t
    <3>1. s[i] = buf[p + i]
      BY <2>2, <2>b
    <3>2. t[i] = Frame(m)[i]
      BY <2>3
    <3> QED
      BY <1>3, <3>1, <3>2
  <2> HIDE DEF s, t
  <2>5. s = t
    BY <2>2, <2>3, <2>4, SeqEqual
  <2> QED
    BY <2>5 DEF s, t
<1>6. LengthAt(buf, p, g) = Payload[m.kind]
  BY <1>4, <1>5 DEF LengthAt
<1>7. SizeAt(buf, p, g) = Size(m)
  BY <1>6 DEF SizeAt, Size
<1>8. ~ Oversized(buf, p, g)
  BY <1>1, <1>6 DEF Oversized
<1> QED
  BY <1>4, <1>6, <1>7, <1>8

LEMMA WholeFrame ==
    ASSUME NEW buf \in Seq(Byte), NEW g \in Nat, NEW p \in Nat, NEW m \in Msg,
           HoldsFrame(buf, p, m), p + Size(m) <= Len(buf)
    PROVE  /\ FrameIsThere(buf, p, g) /\ MessageAt(buf, p, g) = m
           /\ SizeAt(buf, p, g) = Size(m)
<1>1. /\ Header \in Nat /\ Size(m) \in Nat /\ Size(m) >= Header /\ Size(m) >= 1
      /\ Len(buf) \in Nat
  BY FrameFacts, PayloadFacts
<1>2. p + Header <= Len(buf)
  BY <1>1
<1>3. /\ buf[p + 1].m = m /\ SizeAt(buf, p, g) = Size(m) /\ ~ Oversized(buf, p, g)
  BY <1>2, HeadOfFrame
<1>4. FrameIsThere(buf, p, g)
  BY <1>2, <1>3 DEF FrameIsThere
<1> DEFINE k == Size(m)
           a == p + 1
           z == p + k
           s == SubSeq(buf, a, z)
           F == Frame(m)
<1>5. /\ a \in Int /\ z \in Int /\ a <= z /\ z - a + 1 = k
      /\ \A i \in a..z : i \in 1..Len(buf)
      /\ \A i \in 1..k : a + i - 1 = p + i /\ p + i <= Len(buf)
  BY <1>1
<1>6. s \in Seq(Byte) /\ Len(s) = k /\ \A i \in 1..k : s[i] = buf[a + i - 1]
  <2>1. \A i \in a..z : buf[i] \in Byte
    BY <1>5, ElementOfSeq
  <2> HIDE DEF a, z, k
  <2> QED
    BY <1>5, <2>1, SubSeqProperties
<1>7. F \in Seq(Byte) /\ Len(F) = k /\ \A i \in 1..k : F[i] = [m |-> m, i |-> i]
  BY FrameFacts
<1>8. \A i \in 1..k : buf[p + i] = [m |-> m, i |-> i]
  BY <1>5 DEF HoldsFrame
<1>9. s = F
  <2>1. ASSUME NEW i \in 1..k PROVE s[i] = F[i]
    <3> HIDE DEF s, F, k, a, z
    <3>1. s[i] = buf[a + i - 1] /\ a + i - 1 = p + i
      BY <1>5, <1>6
    <3>2. s[i] = buf[p + i]
      BY <3>1
    <3>3. buf[p + i] = [m |-> m, i |-> i] /\ F[i] = [m |-> m, i |-> i]
      BY <1>7, <1>8
    <3> QED
      BY <3>2, <3>3
  <2> HIDE DEF s, F, k
  <2> QED
    BY <1>6, <1>7, <2>1, SeqEqual
<1>10. MessageAt(buf, p, g) = m
  BY <1>3, <1>9 DEF MessageAt
<1> QED
  BY <1>3, <1>4, <1>10

LEMMA PartOfFrame ==
    ASSUME NEW buf \in Seq(Byte), NEW g \in Nat, NEW p \in Nat, NEW m \in Msg,
           HoldsFrame(buf, p, m), p + Size(m) > Len(buf)
    PROVE  ~ FrameIsThere(buf, p, g) /\ ~ Oversized(buf, p, g)
<1>1. Header \in Nat /\ Size(m) \in Nat /\ Len(buf) \in Nat
  BY FrameFacts, PayloadFacts
<1>2. CASE p + Header <= Len(buf)
  <2>1. SizeAt(buf, p, g) = Size(m) /\ ~ Oversized(buf, p, g)
    BY <1>2, HeadOfFrame
  <2> QED
    BY <1>1, <2>1 DEF FrameIsThere
<1>3. CASE ~ (p + Header <= Len(buf))
  BY <1>3 DEF FrameIsThere, Oversized
<1> QED
  BY <1>2, <1>3

-----------------------------------------------------------------------------
(***************************************************************************)
(* Bytes that begin with the frames of msgs[lo + 1] to msgs[hi]: e[j] is   *)
(* the position behind that of msgs[j].                                    *)
(***************************************************************************)
Frames(msgs, lo, hi, e, b) ==
    /\ \A j \in lo..hi : e[j] \in Nat
    /\ e[lo] = 0
    /\ \A j \in lo..(hi - 1) :
          e[j + 1] = e[j] + Size(msgs[j + 1]) /\ HoldsFrame(b, e[j], msgs[j + 1])
    /\ e[hi] <= Len(b)

\* The same without the positions, and when nothing is behind the last frame.
Stream(msgs, lo, hi, b) == \E e : Frames(msgs, lo, hi, e, b)
Exact(msgs, lo, hi, b) == \E e : Frames(msgs, lo, hi, e, b) /\ e[hi] = Len(b)

LEMMA SizeOfNext ==
    ASSUME NEW msgs \in Seq(Msg), NEW lo \in Nat, NEW hi \in Nat, hi <= Len(msgs),
           NEW j \in lo..(hi - 1)
    PROVE  msgs[j + 1] \in Msg /\ Size(msgs[j + 1]) \in Nat /\ Size(msgs[j + 1]) >= 1
<1>1. j + 1 \in 1..Len(msgs)
  OBVIOUS
<1> DEFINE m == msgs[j + 1]
<1>2. m \in Msg
  BY <1>1, ElementOfSeq
<1> HIDE DEF m
<1>3. Size(m) \in Nat /\ Size(m) >= 1
  BY <1>2, FrameFacts
<1> QED
  BY <1>2, <1>3 DEF m

LEMMA EdgesGrow ==
    ASSUME NEW msgs \in Seq(Msg), NEW lo \in Nat, NEW hi \in Nat, hi <= Len(msgs),
           NEW e, NEW b, Frames(msgs, lo, hi, e, b), NEW J \in lo..hi, NEW k \in J..hi
    PROVE  e[k] >= e[J]
<1> DEFINE T == {i \in 0..(hi - J) : ~ (e[J + i] >= e[J])}
<1> SUFFICES ASSUME ~ (e[k] >= e[J]) PROVE FALSE
  OBVIOUS
<1>1. \A j \in lo..hi : e[j] \in Nat
  BY DEF Frames
<1>2. \A j \in lo..(hi - 1) : e[j + 1] = e[j] + Size(msgs[j + 1])
  BY DEF Frames
<1>3. k - J \in T
  <2>1. k - J \in 0..(hi - J) /\ J + (k - J) = k
    OBVIOUS
  <2> QED
    BY <2>1
<1>4. PICK i \in T : \A l \in T : ~ l < i
  <2>1. T \in SUBSET Nat
    OBVIOUS
  <2> HIDE DEF T
  <2> QED
    BY <1>3, <2>1, LeastNumber
<1>5. i \in 0..(hi - J) /\ ~ (e[J + i] >= e[J])
  BY <1>4
<1>6. i # 0
  <2>1. J + 0 = J /\ e[J] \in Nat
    BY <1>1
  <2> QED
    BY <1>5, <2>1
<1> DEFINE l == i - 1
           q == J + l
<1>7. l \in 0..(hi - J) /\ l < i /\ q \in lo..(hi - 1) /\ q \in lo..hi /\ q + 1 = J + i
  BY <1>5, <1>6
<1>8. e[q] >= e[J]
  BY <1>4, <1>7
<1> HIDE DEF q, l
<1> DEFINE s == Size(msgs[q + 1])
<1>9. s \in Nat /\ e[q] \in Nat /\ e[J] \in Nat /\ e[J + i] = e[q] + s
  BY <1>1, <1>2, <1>7, SizeOfNext
<1> HIDE DEF s
<1> QED
  BY <1>5, <1>8, <1>9

\* The last frame that is whole in a part of the bytes.
LEMMA LastWhole ==
    ASSUME NEW lo \in Nat, NEW hi \in Nat, lo <= hi, NEW e, e[lo] = 0, NEW n \in Nat,
           \A j \in lo..hi : e[j] \in Nat
    PROVE  \E J \in lo..hi : /\ \A j \in lo..J : e[j] <= n
                             /\ J < hi => e[J + 1] > n
<1> DEFINE T == {i \in 0..(hi - lo) : e[lo + i] > n}
<1>1. CASE T = {}
  <2>1. \A j \in lo..hi : e[j] <= n
    <3> SUFFICES ASSUME NEW j \in lo..hi PROVE e[j] <= n
      OBVIOUS
    <3>1. j - lo \in 0..(hi - lo) /\ lo + (j - lo) = j /\ e[j] \in Nat
      OBVIOUS
    <3>2. ~ (e[j] > n)
      BY <1>1, <3>1
    <3> QED
      BY <3>1, <3>2
  <2>2. hi \in lo..hi /\ ~ (hi < hi)
    OBVIOUS
  <2> QED
    BY <2>1, <2>2
<1>2. CASE T # {}
  <2>1. PICK l : l \in T
    BY <1>2
  <2>2. PICK i \in T : \A k \in T : ~ k < i
    <3>1. T \in SUBSET Nat
      OBVIOUS
    <3> HIDE DEF T
    <3> QED
      BY <2>1, <3>1, LeastNumber
  <2>3. i \in 0..(hi - lo) /\ e[lo + i] > n
    BY <2>2
  <2>4. i # 0
    BY <2>3
  <2> DEFINE J == lo + i - 1
  <2>5. J \in lo..hi /\ J < hi /\ J + 1 = lo + i
    BY <2>3, <2>4
  <2>6. ASSUME NEW j \in lo..J PROVE e[j] <= n
    <3>1. /\ j - lo \in 0..(hi - lo) /\ lo + (j - lo) = j /\ e[j] \in Nat
          /\ j - lo < i /\ j - lo \in Nat
      BY <2>3, <2>4
    <3>2. ~ (e[j] > n)
      BY <2>2, <3>1
    <3> QED
      BY <3>1, <3>2
  <2> HIDE DEF J
  <2> QED
    BY <2>3, <2>5, <2>6
<1> QED
  BY <1>1, <1>2

\* One more message is cut.
OneMore(msgs, lo, j, rest) ==
    /\ SubSeq(msgs, lo + 1, j) \in Seq(Cuttings)
    /\ SubSeq(msgs, lo + 1, j) \o (<<msgs[j + 1]>> \o rest) = SubSeq(msgs, lo + 1, j + 1) \o rest

LEMMA OneMoreMessage ==
    ASSUME NEW msgs \in Seq(Cuttings), NEW lo \in Nat, NEW j \in Nat, lo <= j, j < Len(msgs),
           NEW rest \in Seq(Cuttings)
    PROVE  OneMore(msgs, lo, j, rest)
<1> DEFINE a == lo + 1
           k == j + 1
           front == SubSeq(msgs, a, j)
           one == <<msgs[k]>>
<1>1. a \in 1..Len(msgs) /\ k \in a..Len(msgs) /\ k - 1 = j /\ a \in Int /\ j \in Int
  OBVIOUS
<1>2. msgs[k] \in Cuttings /\ \A i \in a..j : msgs[i] \in Cuttings
  BY <1>1, ElementOfSeq
<1> HIDE DEF a, k
<1>3. front \in Seq(Cuttings)
  BY <1>1, <1>2, SubSeqProperties
<1>4. SubSeq(msgs, a, k) = front \o one
  BY <1>1, SubSeqRecursiveSecond
<1>5. one \in Seq(Cuttings)
  BY <1>2
<1> HIDE DEF front, one
<1>6. (front \o one) \o rest = front \o (one \o rest)
  BY <1>3, <1>5, ConcatAssociative
<1> QED
  BY <1>3, <1>4, <1>6 DEF OneMore, front, one, a, k

\* The front of such bytes, with the frames up to that of msgs[J] whole.
FrontFrames(msgs, lo, hi, e, buf, J) ==
    /\ e[lo] = 0 /\ \A j \in lo..hi : e[j] \in Nat
    /\ \A j \in lo..(hi - 1) :
          e[j + 1] = e[j] + Size(msgs[j + 1]) /\ HoldsFrame(buf, e[j], msgs[j + 1])
    /\ \A j \in lo..J : e[j] <= Len(buf)

CutTo(f, msgs, lo, J, p) ==
    f[0].msgs = SubSeq(msgs, lo + 1, J) \o f[p].msgs /\ f[0].pos = f[p].pos

\* The loop over the front of such bytes cuts the frames that are whole, and what it
\* makes of the bytes behind the last of them.
LEMMA LoopCuts ==
    ASSUME NEW msgs \in Seq(Msg), NEW lo \in Nat, NEW hi \in Nat, lo <= hi, hi <= Len(msgs),
           NEW buf \in Seq(Byte), NEW g \in Nat, NEW f, Loop(f, buf, g), NEW e,
           NEW J \in lo..hi, FrontFrames(msgs, lo, hi, e, buf, J)
    PROVE  CutTo(f, msgs, lo, J, e[J])
<1> DEFINE part(j) == SubSeq(msgs, lo + 1, j)
           good(j) == f[0].msgs = part(j) \o f[e[j]].msgs /\ f[0].pos = f[e[j]].pos
           T == {i \in 0..(J - lo) : ~ good(lo + i)}
<1>1. msgs \in Seq(Cuttings)
  BY SeqMonotonic DEF Cuttings
<1>2. good(lo)
  <2>1. part(lo) = <<>>
    BY SubSeqEmpty
  <2>a. 0 \in 0..Len(buf)
    OBVIOUS
  <2>2. f[0].msgs \in Seq(Cuttings)
    BY <2>a DEF Loop
  <2>3. <<>> \o f[0].msgs = f[0].msgs
    BY <2>2, ConcatEmptySeq
  <2>4. e[lo] = 0
    BY DEF FrontFrames
  <2> HIDE DEF part
  <2> QED
    BY <2>1, <2>3, <2>4
<1>3. ASSUME NEW j \in lo..J, j < J, good(j)
      PROVE  good(j + 1)
  <2> DEFINE p == e[j]
             q == e[j + 1]
             m == msgs[j + 1]
  <2>1. /\ j \in lo..(hi - 1) /\ j + 1 \in lo..hi /\ j + 1 \in lo..J /\ j \in lo..hi
        /\ j \in Nat /\ j < Len(msgs) /\ lo <= j
    <3> DEFINE n == Len(msgs)
    <3>1. n \in Nat /\ hi <= n
      OBVIOUS
    <3> HIDE DEF n
    <3>2. J \in Int /\ j \in Int /\ lo <= j /\ j < J /\ J <= hi
      BY <1>3
    <3>3. j < n
      BY <3>1, <3>2
    <3> QED
      BY <3>2, <3>3 DEF n
  <2>2. p \in Nat /\ q \in Nat /\ q <= Len(buf) /\ p <= Len(buf) /\ HoldsFrame(buf, p, m) /\ q = p + Size(m)
    BY <2>1 DEF FrontFrames
  <2>3. m \in Msg /\ Size(m) \in Nat
    BY <2>1, SizeOfNext
  <2> HIDE DEF p, q, m
  <2>4. FrameIsThere(buf, p, g) /\ MessageAt(buf, p, g) = m /\ p + SizeAt(buf, p, g) = q
    BY <2>2, <2>3, WholeFrame
  <2>5. p \in 0..Len(buf) /\ q \in 0..Len(buf)
    BY <2>2
  <2>6. f[p].msgs = <<m>> \o f[q].msgs /\ f[p].pos = f[q].pos /\ f[q].msgs \in Seq(Cuttings)
    BY <2>4, <2>5 DEF Loop
  <2> DEFINE rest == f[q].msgs
  <2>7. part(j) \o (<<m>> \o rest) = part(j + 1) \o rest
    <3> HIDE DEF rest
    <3>1. rest \in Seq(Cuttings)
      BY <2>6 DEF rest
    <3>2. lo <= j /\ j < Len(msgs) /\ j \in Nat
      BY <2>1
    <3>3. OneMore(msgs, lo, j, rest)
      BY <1>1, <3>1, <3>2, OneMoreMessage
    <3> QED
      BY <3>3 DEF m, OneMore
  <2> HIDE DEF part
  <2>8. f[0].msgs = part(j) \o f[p].msgs /\ f[0].pos = f[p].pos
    BY <1>3 DEF p
  <2>9. f[0].msgs = part(j + 1) \o f[q].msgs /\ f[0].pos = f[q].pos
    BY <2>6, <2>7, <2>8
  <2> QED
    BY <2>9 DEF q
<1> HIDE DEF good
<1>4. \A i \in 0..(J - lo) : i \notin T
  <2> SUFFICES ASSUME NEW l \in T PROVE FALSE
    OBVIOUS
  <2>1. PICK i \in T : \A k \in T : ~ k < i
    <3>1. T \in SUBSET Nat
      OBVIOUS
    <3> HIDE DEF T
    <3> QED
      BY <3>1, LeastNumber
  <2>2. i \in 0..(J - lo) /\ ~ good(lo + i)
    BY <2>1
  <2>3. i # 0
    <3>1. lo + 0 = lo
      OBVIOUS
    <3> QED
      BY <1>2, <2>2, <3>1
  <2> DEFINE j == lo + (i - 1)
  <2>4. /\ i - 1 \in 0..(J - lo) /\ i - 1 < i /\ j \in lo..J /\ j < J /\ j + 1 = lo + i
    BY <2>2, <2>3
  <2>5. good(j)
    BY <2>1, <2>4
  <2> HIDE DEF j
  <2> QED
    BY <1>3, <2>2, <2>4, <2>5
<1>5. J - lo \in 0..(J - lo) /\ lo + (J - lo) = J
  OBVIOUS
<1>6. good(J)
  BY <1>4, <1>5
<1> QED
  BY <1>6 DEF good, CutTo

-----------------------------------------------------------------------------
(* Bytes are taken from the front of a stream, and put at its end. *)

Shifted(z, b, d) == Len(z) = Len(b) - d /\ \A i \in 1..Len(z) : z[i] = b[d + i]

LEMMA FrameMoves ==
    ASSUME NEW b \in Seq(Byte), NEW z \in Seq(Byte), NEW d \in Nat, Shifted(z, b, d),
           NEW p \in Nat, p >= d, NEW m \in Msg, HoldsFrame(b, p, m)
    PROVE  HoldsFrame(z, p - d, m)
<1> SUFFICES ASSUME NEW i \in 1..Size(m), (p - d) + i <= Len(z)
             PROVE  z[(p - d) + i] = [m |-> m, i |-> i]
  BY DEF HoldsFrame
<1> DEFINE k == (p - d) + i
<1>1. Size(m) \in Nat /\ Len(z) \in Nat /\ Len(b) \in Nat /\ Len(z) = Len(b) - d
  BY FrameFacts DEF Shifted
<1>2. k \in 1..Len(z) /\ d + k = p + i /\ p + i <= Len(b)
  BY <1>1
<1>3. z[k] = b[d + k]
  BY <1>2 DEF Shifted
<1>4. b[p + i] = [m |-> m, i |-> i]
  BY <1>2 DEF HoldsFrame
<1> QED
  BY <1>2, <1>3, <1>4

LEMMA FramesMove ==
    ASSUME NEW msgs \in Seq(Msg), NEW lo \in Nat, NEW hi \in Nat, hi <= Len(msgs),
           NEW b \in Seq(Byte), NEW e, Frames(msgs, lo, hi, e, b),
           NEW J \in lo..hi, NEW z \in Seq(Byte), Shifted(z, b, e[J])
    PROVE  /\ Stream(msgs, J, hi, z)
           /\ e[hi] = Len(b) => Exact(msgs, J, hi, z)
<1> DEFINE d == e[J]
           c == [j \in J..hi |-> e[j] - d]
<1>1. \A j \in lo..hi : e[j] \in Nat
  BY DEF Frames
<1>2. \A j \in lo..(hi - 1) :
          e[j + 1] = e[j] + Size(msgs[j + 1]) /\ HoldsFrame(b, e[j], msgs[j + 1])
  BY DEF Frames
<1>3. d \in Nat /\ e[hi] \in Nat /\ e[hi] <= Len(b)
  BY <1>1 DEF Frames
<1>4. \A j \in J..hi : e[j] >= d /\ e[j] \in Nat
  BY <1>1, EdgesGrow
<1>5. Len(z) = Len(b) - d /\ Len(b) \in Nat
  BY DEF Shifted
<1> HIDE DEF d
<1>6. \A j \in J..hi : c[j] \in Nat /\ c[j] = e[j] - d
  BY <1>3, <1>4
<1>7. c[J] = 0
  <2>1. J \in J..hi
    OBVIOUS
  <2> QED
    BY <1>3, <1>6, <2>1 DEF d
<1>8. c[hi] = e[hi] - d
  <2>1. hi \in J..hi
    OBVIOUS
  <2> QED
    BY <1>6, <2>1
<1> HIDE DEF c
<1>9. ASSUME NEW j \in J..(hi - 1)
      PROVE  c[j + 1] = c[j] + Size(msgs[j + 1]) /\ HoldsFrame(z, c[j], msgs[j + 1])
  <2> DEFINE m == msgs[j + 1]
             p == e[j]
             q == e[j + 1]
             s == Size(m)
  <2>1. j \in lo..(hi - 1) /\ j \in J..hi /\ j + 1 \in J..hi
    OBVIOUS
  <2>2. m \in Msg /\ s \in Nat
    BY <2>1, SizeOfNext
  <2>3. q = p + s /\ HoldsFrame(b, p, m)
    BY <1>2, <2>1
  <2>4. p \in Nat /\ p >= d /\ q \in Nat /\ c[j] = p - d /\ c[j + 1] = q - d
    BY <1>4, <1>6, <2>1
  <2> HIDE DEF m, p, q, s
  <2>5. c[j + 1] = c[j] + s
    BY <1>3, <2>2, <2>3, <2>4
  <2>6. Shifted(z, b, d)
    BY DEF d
  <2>7. HoldsFrame(z, p - d, m)
    BY <1>3, <2>2, <2>3, <2>4, <2>6, FrameMoves
  <2>8. HoldsFrame(z, c[j], m)
    BY <2>4, <2>7
  <2> QED
    BY <2>5, <2>8 DEF m, s
<1>10. c[hi] <= Len(z)
  BY <1>3, <1>5, <1>8
<1>11. Frames(msgs, J, hi, c, z)
  BY <1>6, <1>7, <1>9, <1>10 DEF Frames
<1>12. e[hi] = Len(b) => c[hi] = Len(z)
  BY <1>3, <1>5, <1>8
<1> QED
  BY <1>11, <1>12 DEF Stream, Exact

\* The frames stay where they are when something is put behind them.
LEMMA FrameStays ==
    ASSUME NEW b \in Seq(Byte), NEW y \in Seq(Byte), NEW p \in Nat, NEW m \in Msg,
           HoldsFrame(b, p, m), p + Size(m) <= Len(b)
    PROVE  HoldsFrame(b \o y, p, m)
<1> SUFFICES ASSUME NEW i \in 1..Size(m)
             PROVE  (b \o y)[p + i] = [m |-> m, i |-> i]
  BY DEF HoldsFrame
<1> DEFINE k == p + i
<1>1. Size(m) \in Nat /\ Len(b) \in Nat /\ Len(y) \in Nat
  BY FrameFacts
<1>2. k \in 1..(Len(b) + Len(y)) /\ k <= Len(b)
  BY <1>1
<1>3. b[k] = [m |-> m, i |-> i]
  BY <1>2 DEF HoldsFrame
<1> HIDE DEF k
<1>4. (b \o y)[k] = b[k]
  BY <1>2, ConcatProperties
<1> QED
  BY <1>3, <1>4 DEF k

\* What is in a part of the bytes is what is in the bytes.
LEMMA FrameOfPart ==
    ASSUME NEW b \in Seq(Byte), NEW y \in Seq(Byte), NEW p \in Nat, NEW m \in Msg,
           HoldsFrame(b \o y, p, m)
    PROVE  HoldsFrame(b, p, m)
<1> SUFFICES ASSUME NEW i \in 1..Size(m), p + i <= Len(b)
             PROVE  b[p + i] = [m |-> m, i |-> i]
  BY DEF HoldsFrame
<1> DEFINE k == p + i
           c == b \o y
<1>1. Size(m) \in Nat /\ Len(b) \in Nat /\ Len(y) \in Nat
  BY FrameFacts
<1>2. k \in 1..(Len(b) + Len(y)) /\ k <= Len(b)
  BY <1>1
<1>3. Len(c) = Len(b) + Len(y)
  BY ConcatProperties
<1> HIDE DEF c
<1>4. c[p + i] = [m |-> m, i |-> i]
  BY <1>1, <1>2, <1>3 DEF HoldsFrame, c
<1> HIDE DEF k
<1>5. c[k] = b[k]
  BY <1>2, ConcatProperties DEF c
<1> QED
  BY <1>4, <1>5 DEF k

\* Messages up to hi that are the same in another sequence.
Agree(ms, msgs, lo, hi) == \A j \in lo..(hi - 1) : ms[j + 1] = msgs[j + 1]

LEMMA FramesStay ==
    ASSUME NEW msgs \in Seq(Msg), NEW ms, NEW lo \in Nat, NEW hi \in Nat, hi <= Len(msgs),
           Agree(ms, msgs, lo, hi), lo <= hi,
           NEW b \in Seq(Byte), NEW e, Frames(msgs, lo, hi, e, b), NEW y \in Seq(Byte)
    PROVE  Frames(ms, lo, hi, e, b \o y)
<1> DEFINE c == b \o y
<1>1. \A j \in lo..hi : e[j] \in Nat
  BY DEF Frames
<1>2. e[lo] = 0 /\ e[hi] <= Len(b)
  BY DEF Frames
<1>3. ASSUME NEW j \in lo..(hi - 1)
      PROVE  e[j + 1] = e[j] + Size(ms[j + 1]) /\ HoldsFrame(c, e[j], ms[j + 1])
  <2> DEFINE m == msgs[j + 1]
  <2>1. j \in lo..hi /\ j + 1 \in lo..hi /\ hi \in (j + 1)..hi
    OBVIOUS
  <2>2. m \in Msg /\ Size(m) \in Nat
    BY SizeOfNext
  <2>3. e[j + 1] = e[j] + Size(m) /\ HoldsFrame(b, e[j], m)
    BY DEF Frames
  <2>4. e[hi] >= e[j + 1]
    BY <2>1, EdgesGrow
  <2>5. e[j] \in Nat /\ e[j + 1] \in Nat /\ e[hi] \in Nat /\ Len(b) \in Nat
    BY <1>1, <2>1
  <2>6. ms[j + 1] = m
    BY DEF Agree
  <2> HIDE DEF m
  <2> DEFINE p == e[j]
  <2>7. p + Size(m) <= Len(b)
    BY <1>2, <2>3, <2>4, <2>5
  <2>8. HoldsFrame(c, p, m)
    <3> HIDE DEF p
    <3>1. p \in Nat /\ HoldsFrame(b, p, m)
      BY <2>3, <2>5 DEF p
    <3> QED
      BY <2>2, <2>7, <3>1, FrameStays
  <2> QED
    BY <2>3, <2>6, <2>8
<1>4. e[hi] <= Len(c)
  <2>1. Len(c) = Len(b) + Len(y) /\ Len(b) \in Nat /\ Len(y) \in Nat
    BY ConcatProperties
  <2>2. e[hi] \in Nat
    BY <1>1
  <2> HIDE DEF c
  <2> QED
    BY <1>2, <2>1, <2>2
<1> HIDE DEF c
<1>5. Frames(ms, lo, hi, e, c)
  BY <1>1, <1>2, <1>3, <1>4 DEF Frames
<1> QED
  BY <1>5 DEF c

LEMMA StreamStays ==
    ASSUME NEW msgs \in Seq(Msg), NEW ms, NEW lo \in Nat, NEW hi \in Nat, hi <= Len(msgs),
           Agree(ms, msgs, lo, hi), lo <= hi,
           NEW b \in Seq(Byte), Stream(msgs, lo, hi, b), NEW y \in Seq(Byte)
    PROVE  Stream(ms, lo, hi, b \o y)
<1>1. PICK e : Frames(msgs, lo, hi, e, b)
  BY DEF Stream
<1>2. Frames(ms, lo, hi, e, b \o y)
  BY <1>1, FramesStay
<1> QED
  BY <1>2 DEF Stream

\* A whole frame at the end.
LEMMA ExactGrows ==
    ASSUME NEW msgs \in Seq(Msg), NEW lo \in Nat, lo <= Len(msgs), NEW b \in Seq(Byte),
           Exact(msgs, lo, Len(msgs), b), NEW m \in Msg
    PROVE  Exact(Append(msgs, m), lo, Len(msgs) + 1, b \o Frame(m))
<1> DEFINE hi == Len(msgs)
           ms == Append(msgs, m)
           F == Frame(m)
           s == Size(m)
           z == b \o F
<1>1. PICK e : Frames(msgs, lo, hi, e, b) /\ e[hi] = Len(b)
  BY DEF Exact
<1>2. hi \in Nat /\ lo <= hi /\ hi <= Len(msgs)
  OBVIOUS
<1>3. ms[hi + 1] = m /\ \A j \in lo..(hi - 1) : ms[j + 1] = msgs[j + 1]
  <2>1. \A j \in lo..(hi - 1) : j + 1 \in 1..hi
    OBVIOUS
  <2>2. \A k \in 1..hi : ms[k] = msgs[k]
    OBVIOUS
  <2> HIDE DEF ms
  <2>3. \A j \in lo..(hi - 1) : ms[j + 1] = msgs[j + 1]
    BY <2>1, <2>2
  <2> QED
    BY <2>3 DEF ms
<1>4. F \in Seq(Byte) /\ Len(F) = s /\ s \in Nat /\ \A i \in 1..s : F[i] = [m |-> m, i |-> i]
  BY FrameFacts
<1> HIDE DEF hi, ms, F, s
<1>5. Agree(ms, msgs, lo, hi)
  BY <1>3 DEF Agree
<1>6. z \in Seq(Byte) /\ Len(z) = Len(b) + s /\ Len(b) \in Nat
  <2>1. F \in Seq(Byte) /\ Len(F) = s
    BY <1>4
  <2>2. z \in Seq(Byte) /\ Len(z) = Len(b) + Len(F)
    BY <2>1, ConcatProperties
  <2> QED
    BY <2>1, <2>2
<1>7. Frames(ms, lo, hi, e, z)
  BY <1>1, <1>2, <1>4, <1>5, FramesStay
<1>8. HoldsFrame(z, Len(b), m)
  <2> SUFFICES ASSUME NEW i \in 1..s PROVE z[Len(b) + i] = [m |-> m, i |-> i]
    BY DEF HoldsFrame, s
  <2> DEFINE k == Len(b) + i
  <2>1. k \in 1..(Len(b) + s) /\ ~ (k <= Len(b)) /\ k - Len(b) = i
    BY <1>4, <1>6
  <2>2. z[k] = F[k - Len(b)]
    <3> HIDE DEF k
    <3> QED
      BY <1>4, <2>1, ConcatProperties
  <2> QED
    BY <1>4, <2>1, <2>2
<1> HIDE DEF z
<1> DEFINE h == hi + 1
           c == [j \in lo..h |-> IF j = h THEN Len(b) + s ELSE e[j]]
<1>9. /\ \A j \in lo..hi : e[j] \in Nat
      /\ e[lo] = 0
      /\ \A j \in lo..(hi - 1) : e[j + 1] = e[j] + Size(ms[j + 1]) /\ HoldsFrame(z, e[j], ms[j + 1])
  BY <1>7 DEF Frames
<1>10. h \in lo..h /\ h - 1 = hi /\ \A j \in lo..hi : j # h /\ j \in lo..h
  BY <1>2
<1>11. c[h] = Len(b) + s /\ \A j \in lo..hi : c[j] = e[j]
  BY <1>10
<1> HIDE DEF c
<1>12. \A j \in lo..h : c[j] \in Nat
  <2> SUFFICES ASSUME NEW j \in lo..h PROVE c[j] \in Nat
    OBVIOUS
  <2>1. j = h \/ j \in lo..hi
    BY <1>2
  <2>2. Len(b) + s \in Nat
    BY <1>4, <1>6
  <2> QED
    BY <1>9, <1>11, <2>1, <2>2
<1>13. c[lo] = 0
  <2>1. lo \in lo..hi
    BY <1>2
  <2> QED
    BY <1>9, <1>11, <2>1
<1>14. ASSUME NEW j \in lo..(h - 1)
       PROVE  c[j + 1] = c[j] + Size(ms[j + 1]) /\ HoldsFrame(z, c[j], ms[j + 1])
  <2>1. CASE j = hi
    <3>1. j \in lo..hi /\ j + 1 = h
      BY <1>2, <2>1
    <3>2. c[j] = Len(b) /\ c[j + 1] = Len(b) + s /\ ms[j + 1] = m
      BY <1>1, <1>3, <1>11, <2>1, <3>1
    <3> QED
      BY <1>8, <3>2 DEF s
  <2>2. CASE j # hi
    <3>1. j \in lo..hi /\ j + 1 \in lo..hi /\ j \in lo..(hi - 1)
      BY <1>2, <2>2
    <3>2. c[j] = e[j] /\ c[j + 1] = e[j + 1]
      BY <1>11, <3>1
    <3> QED
      BY <1>9, <3>1, <3>2
  <2> QED
    BY <2>1, <2>2
<1>15. c[h] = Len(z) /\ c[h] <= Len(z)
  BY <1>4, <1>6, <1>11
<1>16. Frames(ms, lo, h, c, z)
  BY <1>12, <1>13, <1>14, <1>15 DEF Frames
<1>17. Exact(ms, lo, h, z)
  BY <1>15, <1>16 DEF Exact
<1> QED
  BY <1>17 DEF ms, h, hi, z, F

LEMMA NothingLeft ==
    ASSUME NEW msgs, NEW hi \in Nat, NEW b \in Seq(Byte)
    PROVE  Stream(msgs, hi, hi, b) /\ (Len(b) = 0 => Exact(msgs, hi, hi, b))
<1> DEFINE e == [j \in hi..hi |-> 0]
<1>1. e[hi] = 0 /\ \A j \in hi..hi : e[j] = 0
  OBVIOUS
<1>2. Len(b) \in Nat /\ hi..(hi - 1) = {}
  OBVIOUS
<1> HIDE DEF e
<1>3. e[hi] <= Len(b)
  BY <1>1, <1>2
<1>4. Frames(msgs, hi, hi, e, b)
  BY <1>1, <1>2, <1>3 DEF Frames
<1> QED
  BY <1>1, <1>4 DEF Stream, Exact

-----------------------------------------------------------------------------
(***************************************************************************)
(* A side has buf and z is on its way.  From a stream of the messages      *)
(* behind lo the loop cuts those up to J, whole and in order, and leaves a *)
(* stream of those behind J.  Only when there are none may it cut x as     *)
(* well, from bytes that are not of the stream.                            *)
(***************************************************************************)
Cuts(msgs, lo, hi, buf, z, g, J, x) ==
    /\ J \in lo..hi /\ x \in Seq(Cuttings)
    /\ Parse(buf, g).msgs = SubSeq(msgs, lo + 1, J) \o x
    /\ J < hi => x = <<>>
    /\ Stream(msgs, J, hi, Rest(buf, Parse(buf, g).pos) \o z)
    /\ Exact(msgs, lo, hi, buf \o z) =>
          /\ x = <<>> /\ ~ Oversized(buf, Parse(buf, g).pos, g)
          /\ Exact(msgs, J, hi, Rest(buf, Parse(buf, g).pos) \o z)

LEMMA CutSeq ==
    ASSUME NEW S, NEW u \in Seq(S), NEW n \in 0..Len(u)
    PROVE  /\ SubSeq(u, 1, n) \in Seq(S) /\ Len(SubSeq(u, 1, n)) = n
           /\ Rest(u, n) \in Seq(S) /\ Len(Rest(u, n)) = Len(u) - n
           /\ \A i \in 1..(Len(u) - n) : Rest(u, n)[i] = u[n + i]
           /\ SubSeq(u, 1, n) \o Rest(u, n) = u
<1> DEFINE L == Len(u)
           k == n + 1
<1>1. L \in Nat /\ n \in Int /\ n \in Nat /\ n <= L /\ k \in Int /\ L - k + 1 = L - n
  OBVIOUS
<1>2. \A i \in 1..L : u[i] \in S
  BY ElementOfSeq
<1> HIDE DEF L
<1>3. (\A i \in 1..n : i \in 1..L) /\ (\A i \in k..L : i \in 1..L)
  BY <1>1
<1>4. SubSeq(u, 1, n) \in Seq(S) /\ Len(SubSeq(u, 1, n)) = n
  <2>1. \A i \in 1..n : u[i] \in S
    BY <1>2, <1>3
  <2>2. SubSeq(u, 1, n) \in Seq(S) /\ Len(SubSeq(u, 1, n)) = IF 1 <= n THEN n - 1 + 1 ELSE 0
    BY <1>1, <2>1, SubSeqProperties
  <2> QED
    BY <1>1, <2>2
<1>5. /\ Rest(u, n) \in Seq(S) /\ Len(Rest(u, n)) = L - n
      /\ \A i \in 1..(L - n) : Rest(u, n)[i] = u[n + i]
  <2> DEFINE r == SubSeq(u, k, L)
  <2>1. Rest(u, n) = r
    BY DEF Rest, L
  <2>2. \A i \in k..L : u[i] \in S
    BY <1>2, <1>3
  <2> HIDE DEF k
  <2>3. /\ r \in Seq(S) /\ Len(r) = IF k <= L THEN L - k + 1 ELSE 0
        /\ \A i \in 1..(L - k + 1) : r[i] = u[k + i - 1]
    BY <1>1, <2>2, SubSeqProperties
  <2> HIDE DEF r
  <2>4. Len(r) = L - n
    BY <1>1, <2>3 DEF k
  <2>5. \A i \in 1..(L - n) : k + i - 1 = n + i
    BY <1>1 DEF k
  <2> QED
    BY <1>1, <2>1, <2>3, <2>4, <2>5
<1>6. SubSeq(u, 1, n) \o Rest(u, n) = u
  <2>1. 1 \in 1..(L + 1) /\ n \in (1 - 1)..L /\ L \in n..L
    BY <1>1
  <2>2. SubSeq(u, 1, n) \o SubSeq(u, n + 1, L) = SubSeq(u, 1, L)
    BY <2>1, ConcatAdjacentSubSeq DEF L
  <2>3. SubSeq(u, 1, L) = u
    BY SubSeqFull DEF L
  <2> QED
    BY <2>2, <2>3 DEF Rest, L
<1> QED
  BY <1>4, <1>5, <1>6 DEF L

Joins(a, r, z) == (a \o r) \o z = a \o (r \o z)

LEMMA BytesJoin ==
    ASSUME NEW a \in Seq(Byte), NEW r \in Seq(Byte), NEW z \in Seq(Byte)
    PROVE  Joins(a, r, z)
BY ConcatAssociative DEF Joins

LEMMA RestShifts ==
    ASSUME NEW buf \in Seq(Byte), NEW z \in Seq(Byte), NEW d \in 0..Len(buf)
    PROVE  Rest(buf, d) \o z \in Seq(Byte) /\ Shifted(Rest(buf, d) \o z, buf \o z, d)
<1> DEFINE a == SubSeq(buf, 1, d)
           r == Rest(buf, d)
           w == r \o z
           b == buf \o z
<1>1. a \in Seq(Byte) /\ Len(a) = d /\ r \in Seq(Byte) /\ a \o r = buf
  BY CutSeq
<1> HIDE DEF a, r
<1>2. w \in Seq(Byte) /\ Len(w) \in Nat
  BY <1>1, ConcatProperties
<1>3. b = a \o w
  <2>1. Joins(a, r, z)
    BY <1>1, BytesJoin
  <2> QED
    BY <1>1, <2>1 DEF Joins
<1> HIDE DEF w, b
<1>4. Len(b) = d + Len(w)
  BY <1>1, <1>2, <1>3, ConcatProperties
<1>5. ASSUME NEW i \in 1..Len(w) PROVE w[i] = b[d + i]
  <2> DEFINE k == d + i
  <2>1. k \in 1..(d + Len(w)) /\ ~ (k <= d) /\ k - d = i
    BY <1>2
  <2> HIDE DEF k
  <2>2. b[k] = w[k - d]
    BY <1>1, <1>2, <1>3, <2>1, ConcatProperties
  <2> QED
    BY <2>1, <2>2 DEF k
<1>6. Len(w) = Len(b) - d
  BY <1>2, <1>4
<1>7. Shifted(w, b, d)
  BY <1>5, <1>6 DEF Shifted
<1> QED
  BY <1>2, <1>7 DEF w, b, r

LEMMA ParseCuts ==
    ASSUME NEW msgs \in Seq(Msg), NEW lo \in Nat, NEW hi \in Nat, lo <= hi, hi <= Len(msgs),
           NEW buf \in Seq(Byte), NEW z \in Seq(Byte), NEW g \in Nat,
           Stream(msgs, lo, hi, buf \o z)
    PROVE  \E J, x : Cuts(msgs, lo, hi, buf, z, g, J, x)
<1> DEFINE b == buf \o z
           n == Len(buf)
<1>1. PICK e : Frames(msgs, lo, hi, e, b) /\ (Exact(msgs, lo, hi, b) => e[hi] = Len(b))
  BY DEF Stream, Exact
<1>2. PICK f : Loop(f, buf, g) /\ Parse(buf, g) = f[0]
  BY ParseLoops
<1>3. b \in Seq(Byte) /\ Len(b) \in Nat /\ n \in Nat /\ n <= Len(b)
  BY ConcatProperties
<1> HIDE DEF b
<1>4. e[lo] = 0 /\ (\A j \in lo..hi : e[j] \in Nat) /\ e[hi] <= Len(b)
  BY <1>1 DEF Frames
<1>5. ASSUME NEW j \in lo..(hi - 1)
      PROVE  /\ e[j + 1] = e[j] + Size(msgs[j + 1]) /\ HoldsFrame(buf, e[j], msgs[j + 1])
             /\ msgs[j + 1] \in Msg
  <2> DEFINE m == msgs[j + 1]
             p == e[j]
  <2>1. e[j + 1] = p + Size(m) /\ HoldsFrame(b, p, m)
    BY <1>1 DEF Frames
  <2>2. m \in Msg
    BY SizeOfNext
  <2>3. p \in Nat
    BY <1>4
  <2> HIDE DEF m, p
  <2>4. HoldsFrame(buf, p, m)
    BY <2>1, <2>2, <2>3, FrameOfPart DEF b
  <2> QED
    BY <2>1, <2>2, <2>4 DEF m, p
<1>6. PICK J \in lo..hi : (\A j \in lo..J : e[j] <= n) /\ (J < hi => e[J + 1] > n)
  BY <1>3, <1>4, LastWhole
<1> DEFINE d == e[J]
           x == f[d].msgs
           pos == Parse(buf, g).pos
<1>7. f[0].msgs = SubSeq(msgs, lo + 1, J) \o x /\ f[0].pos = f[d].pos
  <2>1. FrontFrames(msgs, lo, hi, e, buf, J)
    BY <1>4, <1>5, <1>6 DEF FrontFrames
  <2>2. CutTo(f, msgs, lo, J, d)
    BY <1>2, <2>1, LoopCuts
  <2> HIDE DEF d
  <2> QED
    BY <2>2 DEF CutTo
<1>8. d \in Nat /\ d <= n /\ d \in 0..n
  BY <1>3, <1>4, <1>6
<1>9. ASSUME J < hi PROVE ~ FrameIsThere(buf, d, g) /\ ~ Oversized(buf, d, g)
  <2> DEFINE m == msgs[J + 1]
  <2>1. J \in lo..(hi - 1)
    BY <1>9
  <2>2. m \in Msg /\ HoldsFrame(buf, d, m) /\ d + Size(m) > n
    BY <1>5, <1>6, <1>9, <2>1
  <2> HIDE DEF m, d
  <2> QED
    BY <1>8, <2>2, PartOfFrame
<1>10. ASSUME J = hi, Exact(msgs, lo, hi, b)
       PROVE  ~ FrameIsThere(buf, d, g) /\ ~ Oversized(buf, d, g)
  <2>1. d = Len(b)
    BY <1>1, <1>10
  <2> HIDE DEF d
  <2>2. ~ (d + Header <= n)
    BY <1>3, <1>8, <2>1, PayloadFacts
  <2> QED
    BY <2>2 DEF FrameIsThere, Oversized
<1>11. x \in Seq(Cuttings) /\ (~ FrameIsThere(buf, d, g) => x = <<>> /\ f[d].pos = d)
  <2> HIDE DEF d
  <2> QED
    BY <1>2, <1>8 DEF Loop
<1>12. pos = f[d].pos /\ Parse(buf, g).msgs = SubSeq(msgs, lo + 1, J) \o x
  BY <1>2, <1>7
<1> HIDE DEF x, pos
<1> DEFINE w == Rest(buf, pos) \o z
<1>13. ASSUME pos = d
       PROVE  Stream(msgs, J, hi, w) /\ (Exact(msgs, lo, hi, b) => Exact(msgs, J, hi, w))
  <2>1. w \in Seq(Byte) /\ Shifted(w, b, d)
    <3> HIDE DEF d
    <3> QED
      BY <1>8, <1>13, RestShifts DEF b
  <2> HIDE DEF w
  <2>2. Stream(msgs, J, hi, w) /\ (e[hi] = Len(b) => Exact(msgs, J, hi, w))
    BY <1>1, <1>3, <2>1, FramesMove
  <2> QED
    BY <1>1, <2>2
<1>14. ASSUME J = hi PROVE Stream(msgs, J, hi, w)
  <2>1. pos \in 0..n
    BY ParseEnds DEF pos
  <2>2. w \in Seq(Byte)
    BY <2>1, RestShifts
  <2> HIDE DEF w
  <2> QED
    BY <1>14, <2>2, NothingLeft
<1>15. J < hi \/ J = hi
  OBVIOUS
<1> HIDE DEF w, n
<1>16. J < hi => x = <<>> /\ pos = d
  BY <1>9, <1>11, <1>12
<1>17. Stream(msgs, J, hi, w)
  BY <1>13, <1>14, <1>15, <1>16
<1>18. ASSUME Exact(msgs, lo, hi, b)
       PROVE  x = <<>> /\ ~ Oversized(buf, pos, g) /\ Exact(msgs, J, hi, w)
  <2>1. ~ FrameIsThere(buf, d, g) /\ ~ Oversized(buf, d, g)
    BY <1>9, <1>10, <1>15, <1>18
  <2>2. x = <<>> /\ pos = d
    BY <1>11, <1>12, <2>1
  <2>3. Exact(msgs, J, hi, w)
    BY <1>13, <1>18, <2>2
  <2> QED
    BY <2>1, <2>2, <2>3
<1>19. Cuts(msgs, lo, hi, buf, z, g, J, x)
  BY <1>6, <1>11, <1>12, <1>16, <1>17, <1>18 DEF Cuts, w, b, pos
<1> QED
  BY <1>19

-----------------------------------------------------------------------------
(***************************************************************************)
(* One direction of a connection: the messages written, the place of the   *)
(* first that was written in part, the messages cut out, and the bytes     *)
(* between.  What was cut out is what was written up to the torn message,  *)
(* and the bytes are a stream of the rest.                                 *)
(***************************************************************************)
Whole(msgs, t) == IF t = 0 THEN Len(msgs) ELSE t - 1

InStep(msgs, t, got, b) ==
    /\ t = 0 => Len(got) <= Len(msgs) /\ Exact(msgs, Len(got), Len(msgs), b)
    /\ Len(got) <= Whole(msgs, t) => Stream(msgs, Len(got), Whole(msgs, t), b)
    /\ \A i \in 1..Len(got) : i <= Whole(msgs, t) => got[i] = msgs[i]

LEMMA WholeFacts ==
    ASSUME NEW msgs \in Seq(Msg), NEW t \in 0..Len(msgs)
    PROVE  Whole(msgs, t) \in Nat /\ Whole(msgs, t) <= Len(msgs)
<1>1. Len(msgs) \in Nat
  OBVIOUS
<1> QED
  BY <1>1 DEF Whole

LEMMA AppendFacts ==
    ASSUME NEW msgs \in Seq(Msg), NEW m \in Msg
    PROVE  /\ Append(msgs, m) \in Seq(Msg) /\ Len(Append(msgs, m)) = Len(msgs) + 1
           /\ \A i \in 1..Len(msgs) : Append(msgs, m)[i] = msgs[i]
           /\ Append(msgs, m)[Len(msgs) + 1] = m
OBVIOUS

\* Behind a torn message, or with a part of one, the stream stays what it is.
LEMMA InStepPart ==
    ASSUME NEW msgs \in Seq(Msg), NEW t \in 0..Len(msgs), NEW got \in Seq(Cuttings),
           NEW b \in Seq(Byte), InStep(msgs, t, got, b), NEW m \in Msg, NEW y \in Seq(Byte)
    PROVE  InStep(Append(msgs, m), IF t = 0 THEN Len(msgs) + 1 ELSE t, got, b \o y)
<1> DEFINE ms == Append(msgs, m)
           u == IF t = 0 THEN Len(msgs) + 1 ELSE t
           W == Whole(msgs, t)
           l == Len(got)
           c == b \o y
<1>1. W \in Nat /\ W <= Len(msgs) /\ Len(msgs) \in Nat /\ l \in Nat
  BY WholeFacts
<1>2. u # 0 /\ Whole(ms, u) = W
  BY <1>1 DEF Whole
<1>3. \A i \in 1..Len(msgs) : ms[i] = msgs[i]
  BY AppendFacts
<1> HIDE DEF ms, u, W
<1>4. ASSUME l <= W PROVE Stream(ms, l, W, c)
  <2>1. Stream(msgs, l, W, b)
    BY <1>4 DEF InStep, W
  <2>2. \A j \in l..(W - 1) : j + 1 \in 1..Len(msgs)
    BY <1>1
  <2>3. Agree(ms, msgs, l, W)
    BY <1>3, <2>2 DEF Agree
  <2> HIDE DEF l
  <2> QED
    BY <1>1, <1>4, <2>1, <2>3, StreamStays
<1>5. ASSUME NEW i \in 1..l, i <= W PROVE got[i] = ms[i]
  <2>1. got[i] = msgs[i]
    BY <1>5 DEF InStep, W
  <2>2. i \in 1..Len(msgs)
    BY <1>1, <1>5
  <2> QED
    BY <1>3, <2>1, <2>2
<1> HIDE DEF c, l
<1>6. InStep(ms, u, got, c)
  BY <1>2, <1>4, <1>5 DEF InStep, l
<1> QED
  BY <1>6 DEF ms, u, c

\* A whole frame is put at the end.
LEMMA InStepSend ==
    ASSUME NEW msgs \in Seq(Msg), NEW t \in 0..Len(msgs), NEW got \in Seq(Cuttings),
           NEW b \in Seq(Byte), InStep(msgs, t, got, b), NEW m \in Msg
    PROVE  InStep(Append(msgs, m), t, got, b \o Frame(m))
<1> DEFINE ms == Append(msgs, m)
           c == b \o Frame(m)
           l == Len(got)
           k == Len(msgs) + 1
<1>1. CASE t # 0
  <2>1. Frame(m) \in Seq(Byte)
    BY FrameFacts
  <2> DEFINE F == Frame(m)
             u == IF t = 0 THEN Len(msgs) + 1 ELSE t
  <2>2. u = t
    BY <1>1
  <2>3. InStep(ms, u, got, b \o F)
    <3> HIDE DEF F
    <3> QED
      BY <2>1, InStepPart DEF F
  <2> HIDE DEF u, ms
  <2> QED
    BY <2>2, <2>3 DEF ms
<1>2. CASE t = 0
  <2>1. l <= Len(msgs) /\ Exact(msgs, l, Len(msgs), b)
    BY <1>2 DEF InStep
  <2>2. Len(msgs) \in Nat /\ l \in Nat /\ k \in Nat
    OBVIOUS
  <2>3. Exact(ms, l, k, c)
    <3> HIDE DEF l
    <3> QED
      BY <2>1, <2>2, ExactGrows
  <2>4. Stream(ms, l, k, c)
    BY <2>3 DEF Exact, Stream
  <2>5. Len(ms) = k /\ Whole(ms, t) = k /\ Whole(msgs, t) = Len(msgs)
    BY <1>2, AppendFacts DEF Whole
  <2>6. ASSUME NEW i \in 1..l PROVE got[i] = ms[i]
    <3>1. i \in 1..Len(msgs) /\ i <= Len(msgs)
      BY <2>1, <2>2
    <3>2. got[i] = msgs[i]
      BY <2>5, <3>1 DEF InStep
    <3> QED
      BY <3>1, <3>2, AppendFacts
  <2>7. l <= Len(ms)
    BY <2>1, <2>2, <2>5
  <2> HIDE DEF ms, c, k, l
  <2>8. InStep(ms, t, got, c)
    BY <2>3, <2>4, <2>5, <2>6, <2>7 DEF InStep, l
  <2> QED
    BY <2>8 DEF ms, c
<1> QED
  BY <1>1, <1>2

\* The loop runs over what has been read.
LEMMA InStepRead ==
    ASSUME NEW msgs \in Seq(Msg), NEW t \in 0..Len(msgs), NEW got \in Seq(Cuttings),
           NEW buf \in Seq(Byte), NEW z \in Seq(Byte), NEW g \in Nat,
           InStep(msgs, t, got, buf \o z)
    PROVE  /\ InStep(msgs, t, got \o Parse(buf, g).msgs, Rest(buf, Parse(buf, g).pos) \o z)
           /\ t = 0 => ~ Oversized(buf, Parse(buf, g).pos, g)
<1> DEFINE done == Parse(buf, g)
           d == done.msgs
           new == got \o d
           w == Rest(buf, done.pos) \o z
           W == Whole(msgs, t)
           l == Len(got)
<1>1. W \in Nat /\ W <= Len(msgs) /\ Len(msgs) \in Nat /\ l \in Nat
  BY WholeFacts
<1>2. d \in Seq(Cuttings) /\ Len(d) \in Nat
  BY ParseEnds
<1>3. /\ new \in Seq(Cuttings) /\ Len(new) = l + Len(d)
      /\ \A i \in 1..(l + Len(d)) : new[i] = IF i <= l THEN got[i] ELSE d[i - l]
  <2> HIDE DEF d
  <2> QED
    BY <1>2, ConcatProperties
<1> HIDE DEF new
<1>4. \A i \in 1..l : i <= W => got[i] = msgs[i]
  BY DEF InStep
<1>5. CASE l > W
  <2>1. t # 0
    BY <1>1, <1>5 DEF InStep, Whole
  <2>2. ~ (Len(new) <= W)
    BY <1>1, <1>2, <1>3, <1>5
  <2>3. ASSUME NEW i \in 1..Len(new), i <= W PROVE new[i] = msgs[i]
    <3>1. i \in 1..l /\ i <= l /\ i \in 1..(l + Len(d))
      BY <1>1, <1>2, <1>5, <2>3, <1>3
    <3>2. new[i] = got[i]
      BY <1>3, <3>1
    <3> QED
      BY <1>4, <2>3, <3>1, <3>2
  <2> HIDE DEF w, W
  <2>4. InStep(msgs, t, new, w)
    BY <2>1, <2>2, <2>3 DEF InStep, W
  <2> QED
    BY <2>1, <2>4 DEF new, w
<1>6. CASE l <= W
  <2>1. Stream(msgs, l, W, buf \o z)
    BY <1>6 DEF InStep
  <2>2. PICK J, x : Cuts(msgs, l, W, buf, z, g, J, x)
    <3> HIDE DEF l, W
    <3> QED
      BY <1>1, <1>6, <2>1, ParseCuts
  <2> DEFINE y == SubSeq(msgs, l + 1, J)
  <2>3. J \in l..W /\ x \in Seq(Cuttings) /\ d = y \o x /\ (J < W => x = <<>>) /\ Stream(msgs, J, W, w)
    BY <2>2 DEF Cuts
  <2>4. Exact(msgs, l, W, buf \o z) =>
           x = <<>> /\ ~ Oversized(buf, done.pos, g) /\ Exact(msgs, J, W, w)
    BY <2>2 DEF Cuts
  <2>5. /\ y \in Seq(Cuttings) /\ Len(y) = J - l
        /\ \A i \in 1..(J - l) : y[i] = msgs[l + i]
    <3> DEFINE a == l + 1
    <3>1. /\ a \in Int /\ J \in Int /\ J - a + 1 = J - l /\ (\A i \in a..J : i \in 1..Len(msgs))
          /\ \A i \in 1..(J - l) : a + i - 1 = l + i
      BY <1>1, <2>3
    <3>2. \A i \in a..J : msgs[i] \in Cuttings
      BY <3>1, ElementOfSeq DEF Cuttings
    <3> HIDE DEF a
    <3> DEFINE v == SubSeq(msgs, a, J)
    <3>3. /\ v \in Seq(Cuttings) /\ Len(v) = IF a <= J THEN J - a + 1 ELSE 0
          /\ \A i \in 1..(J - a + 1) : v[i] = msgs[a + i - 1]
      BY <3>1, <3>2, SubSeqProperties
    <3> HIDE DEF v
    <3>4. Len(v) = J - l
      BY <1>1, <2>3, <3>3 DEF a
    <3>5. v = y
      BY DEF v, a
    <3> HIDE DEF y, l
    <3> QED
      BY <3>1, <3>3, <3>4, <3>5
  <2> HIDE DEF y, d, w, done
  <2>6. /\ Len(x) \in Nat /\ Len(d) = (J - l) + Len(x)
        /\ \A i \in 1..((J - l) + Len(x)) : d[i] = IF i <= J - l THEN y[i] ELSE x[i - (J - l)]
    <3> DEFINE k == J - l
    <3>1. y \in Seq(Cuttings) /\ x \in Seq(Cuttings) /\ Len(y) = k /\ d = y \o x
      BY <2>3, <2>5
    <3> HIDE DEF k
    <3>2. /\ Len(d) = Len(y) + Len(x)
          /\ \A i \in 1..(Len(y) + Len(x)) : d[i] = IF i <= Len(y) THEN y[i] ELSE x[i - Len(y)]
      BY <3>1, ConcatProperties
    <3>3. Len(x) \in Nat
      BY <3>1
    <3> QED
      BY <3>1, <3>2, <3>3 DEF k
  <2>7. Len(new) = J + Len(x)
    BY <1>1, <1>3, <2>3, <2>6
  <2>8. x = <<>> => Len(x) = 0
    OBVIOUS
  <2>9. Len(new) <= W => Len(new) = J
    BY <1>1, <2>3, <2>6, <2>7, <2>8
  <2>10. ASSUME NEW i \in 1..Len(new), i <= W PROVE new[i] = msgs[i]
    <3>1. i <= J
      BY <1>1, <2>3, <2>6, <2>7, <2>8, <2>10
    <3>2. CASE i <= l
      <4>1. i \in 1..l /\ i \in 1..(l + Len(d))
        BY <1>1, <1>3, <3>2
      <4> QED
        BY <1>3, <1>4, <2>10, <3>2, <4>1
    <3>3. CASE ~ (i <= l)
      <4> DEFINE k == i - l
      <4>1. /\ i \in 1..(l + Len(d)) /\ k \in 1..(J - l) /\ k <= J - l
            /\ k \in 1..((J - l) + Len(x)) /\ l + k = i
        BY <1>1, <1>3, <2>3, <2>6, <3>1, <3>3
      <4>2. new[i] = d[k]
        BY <1>3, <3>3, <4>1
      <4> HIDE DEF k, l
      <4>3. d[k] = y[k]
        BY <2>6, <4>1
      <4>4. y[k] = msgs[i]
        BY <2>5, <4>1
      <4> QED
        BY <4>2, <4>3, <4>4
    <3> QED
      BY <3>2, <3>3
  <2>11. ASSUME t = 0
         PROVE  /\ Len(new) <= Len(msgs) /\ Exact(msgs, Len(new), Len(msgs), w)
                /\ ~ Oversized(buf, done.pos, g)
    <3>1. W = Len(msgs) /\ Exact(msgs, l, W, buf \o z)
      BY <2>11 DEF InStep, Whole
    <3>2. x = <<>> /\ ~ Oversized(buf, done.pos, g) /\ Exact(msgs, J, W, w)
      BY <2>4, <3>1
    <3> HIDE DEF W, l
    <3>3. Len(new) = J
      BY <2>3, <2>7, <2>8, <3>2, <1>1
    <3> QED
      BY <1>1, <2>3, <3>1, <3>2, <3>3
  <2> HIDE DEF W
  <2>12. Len(new) <= W => Stream(msgs, Len(new), W, w)
    BY <2>3, <2>9
  <2>13. InStep(msgs, t, new, w)
    BY <2>10, <2>11, <2>12 DEF InStep, W
  <2> QED
    BY <2>11, <2>13 DEF new, w, d, done
<1>7. l > W \/ l <= W
  BY <1>1
<1> QED
  BY <1>5, <1>6, <1>7

-----------------------------------------------------------------------------
(***************************************************************************)
(* What Channel sees of a direction: the messages that were written before *)
(* a torn one, and those of them that were cut out.                        *)
(***************************************************************************)
Lesser(a, b) == IF a <= b THEN a ELSE b

LEMMA MinOfTwo ==
    ASSUME NEW a \in Int, NEW b \in Int
    PROVE  Min({a, b}) = Lesser(a, b)
<1>1. Lesser(a, b) \in {a, b} /\ \A y \in {a, b} : Lesser(a, b) <= y
  BY DEF Lesser
<1>2. \A x \in {a, b} : (\A y \in {a, b} : x <= y) => x = Lesser(a, b)
  BY DEF Lesser
<1> QED
  BY <1>1, <1>2 DEF Min

Sents(msgs, t) == SubSeq(msgs, 1, Whole(msgs, t))
Firsts(msgs, t, got) == SubSeq(got, 1, Min({Len(got), Whole(msgs, t)}))

\* What is cut out, of what was sent.
LEMMA FirstsAreSent ==
    ASSUME NEW msgs \in Seq(Msg), NEW t \in 0..Len(msgs), NEW got \in Seq(Cuttings), NEW b,
           InStep(msgs, t, got, b)
    PROVE  /\ Firsts(msgs, t, got) = SubSeq(msgs, 1, Lesser(Len(got), Whole(msgs, t)))
           /\ Len(Firsts(msgs, t, got)) = Lesser(Len(got), Whole(msgs, t))
<1> DEFINE W == Whole(msgs, t)
           l == Len(got)
           k == Lesser(l, W)
           f == SubSeq(got, 1, k)
           s == SubSeq(msgs, 1, k)
<1>1. W \in Nat /\ W <= Len(msgs) /\ Len(msgs) \in Nat /\ l \in Nat
  BY WholeFacts
<1>2. \A i \in 1..l : i <= W => got[i] = msgs[i]
  BY DEF InStep
<1> HIDE DEF W
<1>3. k \in Nat /\ k <= l /\ k <= W
  BY <1>1 DEF Lesser
<1>4. Firsts(msgs, t, got) = f
  <2>1. Min({l, W}) = k
    BY <1>1, MinOfTwo
  <2> HIDE DEF k
  <2> QED
    BY <2>1 DEF Firsts, W
<1> HIDE DEF k, l
<1>5. \A i \in 1..k : /\ i \in 1..Len(got) /\ i \in 1..Len(msgs) /\ i <= W
                      /\ got[i] = msgs[i] /\ 1 + i - 1 = i
  <2> SUFFICES ASSUME NEW i \in 1..k
               PROVE  /\ i \in 1..Len(got) /\ i \in 1..Len(msgs) /\ i <= W
                      /\ got[i] = msgs[i] /\ 1 + i - 1 = i
    OBVIOUS
  <2> DEFINE n == Len(msgs)
  <2>1. n \in Nat /\ W <= n
    BY <1>1
  <2> HIDE DEF n
  <2>2. i \in 1..l /\ i \in 1..n /\ i <= W /\ 1 + i - 1 = i
    BY <1>1, <1>3, <2>1
  <2> QED
    BY <1>2, <2>2 DEF l, n
<1>6. \A i \in 1..k : got[i] \in Cuttings /\ msgs[i] \in Cuttings
  <2>1. \A i \in 1..k : got[i] \in Cuttings
    BY <1>5, ElementOfSeq
  <2> QED
    BY <1>5, <2>1
<1>7. f \in Seq(Cuttings) /\ Len(f) = k /\ \A i \in 1..k : f[i] = got[i]
  <2>1. /\ f \in Seq(Cuttings) /\ Len(f) = IF 1 <= k THEN k - 1 + 1 ELSE 0
        /\ \A i \in 1..(k - 1 + 1) : f[i] = got[1 + i - 1]
    BY <1>3, <1>6, SubSeqProperties
  <2> HIDE DEF f
  <2>2. k - 1 + 1 = k /\ Len(f) = k
    BY <1>3, <2>1
  <2> QED
    BY <1>5, <2>1, <2>2
<1>8. s \in Seq(Cuttings) /\ Len(s) = k /\ \A i \in 1..k : s[i] = msgs[i]
  <2>1. /\ s \in Seq(Cuttings) /\ Len(s) = IF 1 <= k THEN k - 1 + 1 ELSE 0
        /\ \A i \in 1..(k - 1 + 1) : s[i] = msgs[1 + i - 1]
    BY <1>3, <1>6, SubSeqProperties
  <2> HIDE DEF s
  <2>2. k - 1 + 1 = k /\ Len(s) = k
    BY <1>3, <2>1
  <2> QED
    BY <1>5, <2>1, <2>2
<1> HIDE DEF f, s
<1>9. \A i \in 1..k : f[i] = s[i]
  BY <1>5, <1>7, <1>8
<1>10. f = s
  BY <1>7, <1>8, <1>9, SeqEqual
<1> QED
  BY <1>4, <1>7, <1>10 DEF s, k, l, W

\* A read hands on the next messages, or none.
Delivers(s, got, new) ==
    new = got \/ \E n \in 1..(Len(s) - Len(got)) : new = SubSeq(s, 1, Len(got) + n)

LEMMA ReadDelivers ==
    ASSUME NEW msgs \in Seq(Msg), NEW t \in 0..Len(msgs), NEW got \in Seq(Cuttings), NEW b,
           InStep(msgs, t, got, b), NEW d \in Seq(Cuttings), NEW c,
           InStep(msgs, t, got \o d, c)
    PROVE  Delivers(Sents(msgs, t), Firsts(msgs, t, got), Firsts(msgs, t, got \o d))
<1> DEFINE W == Whole(msgs, t)
           new == got \o d
           k == Lesser(Len(got), W)
           j == Lesser(Len(new), W)
           s == SubSeq(msgs, 1, W)
           f == Firsts(msgs, t, got)
           h == Firsts(msgs, t, new)
<1>1. W \in Nat /\ W <= Len(msgs) /\ Len(msgs) \in Nat /\ Len(got) \in Nat /\ Len(d) \in Nat
  BY WholeFacts
<1>2. new \in Seq(Cuttings) /\ Len(new) = Len(got) + Len(d)
  BY ConcatProperties
<1> HIDE DEF W, new
<1>3. k \in Nat /\ j \in Nat /\ k <= j /\ j <= W
  BY <1>1, <1>2 DEF Lesser
<1>4. f = SubSeq(msgs, 1, k) /\ Len(f) = k /\ h = SubSeq(msgs, 1, j)
  BY <1>2, FirstsAreSent DEF W, new
<1>5. s = Sents(msgs, t)
  BY DEF Sents, W
<1>6. s \in Seq(Msg) /\ Len(s) = W
  <2>1. W \in 0..Len(msgs)
    BY <1>1
  <2> QED
    BY <2>1, CutSeq
<1>7. ASSUME j > 0 PROVE SubSeq(s, 1, j) = SubSeq(msgs, 1, j)
  <2>1. /\ 1 \in 1..Len(msgs) /\ W \in 1..Len(msgs) /\ 1 \in 1..(W - 1 + 1) /\ j \in 1..(W - 1 + 1)
        /\ 1 + 1 - 1 = 1 /\ 1 + j - 1 = j
    BY <1>1, <1>3, <1>7
  <2> HIDE DEF j
  <2> QED
    BY <2>1, SubSeqOfSubSeq
<1> HIDE DEF f, h, s, k, j
<1>8. CASE k = j
  BY <1>4, <1>8 DEF Delivers, f, h, new
<1>9. CASE k # j
  <2> DEFINE n == j - k
  <2>1. n \in 1..(W - k) /\ k + n = j /\ j > 0
    BY <1>1, <1>3, <1>9
  <2> HIDE DEF n
  <2>2. h = SubSeq(s, 1, k + n)
    BY <1>4, <1>7, <2>1
  <2>3. n \in 1..(Len(s) - Len(f)) /\ h = SubSeq(s, 1, Len(f) + n)
    BY <1>4, <1>6, <2>1, <2>2
  <2>4. Delivers(s, f, h)
    BY <2>3 DEF Delivers
  <2> QED
    BY <1>5, <2>4 DEF f, h, new
<1> QED
  BY <1>8, <1>9

\* A message that is written whole is one more, if none was torn.
LEMMA SendAppends ==
    ASSUME NEW msgs \in Seq(Msg), NEW got \in Seq(Cuttings), NEW b,
           InStep(msgs, 0, got, b), NEW m \in Msg
    PROVE  /\ Sents(Append(msgs, m), 0) = Append(Sents(msgs, 0), m)
           /\ Firsts(Append(msgs, m), 0, got) = Firsts(msgs, 0, got)
<1> DEFINE ms == Append(msgs, m)
<1>1. Whole(msgs, 0) = Len(msgs) /\ Whole(ms, 0) = Len(msgs) + 1 /\ Len(ms) = Len(msgs) + 1 /\ ms \in Seq(Msg)
  BY AppendFacts DEF Whole
<1>2. Len(got) <= Len(msgs) /\ Len(got) \in Nat /\ Len(msgs) \in Nat
  BY DEF InStep
<1> HIDE DEF ms
<1>3. Sents(msgs, 0) = msgs /\ Sents(ms, 0) = ms
  <2>1. SubSeq(msgs, 1, Len(msgs)) = msgs
    BY SubSeqFull
  <2>2. SubSeq(ms, 1, Len(ms)) = ms
    BY <1>1, SubSeqFull
  <2> QED
    BY <1>1, <2>1, <2>2 DEF Sents
<1>4. Min({Len(got), Len(msgs)}) = Len(got) /\ Min({Len(got), Len(msgs) + 1}) = Len(got)
  <2> DEFINE l == Len(got)
             n == Len(msgs)
             k == n + 1
  <2>1. l \in Int /\ n \in Int /\ k \in Int /\ l <= n /\ l <= k
    BY <1>2
  <2> HIDE DEF l, n, k
  <2>2. Min({l, n}) = l /\ Min({l, k}) = l
    BY <2>1, MinOfTwo DEF Lesser
  <2> QED
    BY <2>2 DEF l, n, k
<1> QED
  BY <1>1, <1>3, <1>4 DEF Firsts, ms

\* A message that is written in part, or behind such a one, changes nothing.
LEMMA PartIsNotSeen ==
    ASSUME NEW msgs \in Seq(Msg), NEW t \in 0..Len(msgs), NEW got, NEW m \in Msg, NEW u,
           u = IF t = 0 THEN Len(msgs) + 1 ELSE t
    PROVE  /\ Sents(Append(msgs, m), u) = Sents(msgs, t)
           /\ Firsts(Append(msgs, m), u, got) = Firsts(msgs, t, got)
<1> DEFINE ms == Append(msgs, m)
           W == Whole(msgs, t)
           s == SubSeq(msgs, 1, W)
           r == SubSeq(ms, 1, W)
<1>1. W \in Nat /\ W <= Len(msgs) /\ Len(msgs) \in Nat
  BY WholeFacts
<1>2. Whole(ms, u) = W
  BY <1>1 DEF Whole
<1>3. ms \in Seq(Msg) /\ Len(ms) = Len(msgs) + 1 /\ \A i \in 1..Len(msgs) : ms[i] = msgs[i]
  BY AppendFacts
<1> HIDE DEF ms, W
<1>4. s \in Seq(Msg) /\ Len(s) = W /\ r \in Seq(Msg) /\ Len(r) = W
  <2>1. W \in 0..Len(msgs) /\ W \in 0..Len(ms)
    BY <1>1, <1>3
  <2> QED
    BY <1>3, <2>1, CutSeq
<1>5. \A i \in 1..W : s[i] = msgs[i] /\ r[i] = ms[i]
  <2>1. (\A i \in 1..W : i \in 1..Len(msgs) /\ i \in 1..Len(ms)) /\ W - 1 + 1 = W
        /\ \A i \in 1..W : 1 + i - 1 = i
    BY <1>1, <1>3
  <2>2. \A i \in 1..W : msgs[i] \in Msg /\ ms[i] \in Msg
    BY <1>3, <2>1, ElementOfSeq
  <2>3. \A i \in 1..(W - 1 + 1) : s[i] = msgs[1 + i - 1]
    BY <1>1, <2>2, SubSeqProperties
  <2>4. \A i \in 1..(W - 1 + 1) : r[i] = ms[1 + i - 1]
    BY <1>1, <2>2, SubSeqProperties
  <2> HIDE DEF s, r
  <2> QED
    BY <2>1, <2>3, <2>4
<1> HIDE DEF s, r
<1>6. \A i \in 1..W : s[i] = r[i]
  <2>1. \A i \in 1..W : i \in 1..Len(msgs)
    BY <1>1
  <2> QED
    BY <1>3, <1>5, <2>1
<1>7. s = r
  BY <1>4, <1>6, SeqEqual
<1> QED
  BY <1>2, <1>7 DEF Sents, Firsts, s, r, W, ms

-----------------------------------------------------------------------------
(***************************************************************************)
(* The invariant.                                                          *)
(***************************************************************************)
Types ==
    /\ sent \in Seq(Msg) /\ torn \in 0..Len(sent) /\ tries \in Nat
    /\ up \in Seq(Byte) /\ rbuf \in Seq(Byte) /\ handled \in Seq(Cuttings) /\ alive \in BOOLEAN
    /\ replies \in Seq(Msg) /\ sbuf \in Seq(Byte) /\ down \in Seq(Byte)
    /\ cbuf \in Seq(Byte) /\ polled \in Seq(Cuttings) /\ closed \in BOOLEAN

Upward == InStep(sent, torn, handled, rbuf \o up)
Downward == InStep(replies, 0, polled, (cbuf \o down) \o sbuf)

\* What is kept of a read is less than a frame.
Room == alive => Len(rbuf) < BufferSize

Inv == Types /\ Upward /\ Downward /\ Room

LEMMA InitInv == Init => Inv
<1> SUFFICES ASSUME Init PROVE Inv
  OBVIOUS
<1>1. \A S : <<>> \in Seq(S) /\ <<>> \o <<>> = <<>>
  BY ConcatEmptySeq
<1>2. Len(<<>>) = 0
  OBVIOUS
<1>3. Types
  <2>1. <<>> \in Seq(Msg) /\ <<>> \in Seq(Byte) /\ <<>> \in Seq(Cuttings)
    BY <1>1
  <2>2. 0 \in 0..Len(<<>>) /\ 0 \in Nat
    BY <1>2
  <2> QED
    BY <2>1, <2>2 DEF Init, Types
<1>4. InStep(<<>>, 0, <<>>, <<>>)
  <2>1. <<>> \in Seq(Byte) /\ <<>> \in Seq(Msg)
    BY <1>1
  <2>2. Stream(<<>>, 0, 0, <<>>) /\ Exact(<<>>, 0, 0, <<>>)
    BY <1>2, <2>1, NothingLeft
  <2>3. Whole(<<>>, 0) = 0
    BY <1>2 DEF Whole
  <2> QED
    BY <1>2, <2>2, <2>3 DEF InStep
<1>5. Upward /\ Downward
  BY <1>1, <1>4 DEF Init, Upward, Downward
<1>6. Room
  BY <1>2, PayloadFacts DEF Init, Room
<1> QED
  BY <1>3, <1>5, <1>6 DEF Inv

\* What sendall writes of a frame.
PartOf(F, r, y) == y = SubSeq(F, 1, Min({r, Len(F)}))

LEMMA BytesSent ==
    ASSUME NEW F \in Seq(Byte), NEW r \in Int, NEW y, PartOf(F, r, y)
    PROVE  y \in Seq(Byte) /\ Len(y) \in Nat /\ (y = F \/ Len(y) < Len(F))
<1> DEFINE n == Len(F)
           k == Lesser(r, n)
<1>1. n \in Nat
  OBVIOUS
<1>2. y = SubSeq(F, 1, k)
  <2>1. Min({r, n}) = k
    BY <1>1, MinOfTwo
  <2> HIDE DEF k
  <2> QED
    BY <2>1 DEF PartOf
<1>3. k \in Int /\ k <= n
  BY <1>1 DEF Lesser
<1> HIDE DEF k
<1>4. \A i \in 1..k : F[i] \in Byte
  <2>1. \A i \in 1..k : i \in 1..n
    BY <1>1, <1>3
  <2> QED
    BY <2>1, ElementOfSeq
<1>5. y \in Seq(Byte) /\ Len(y) = IF 1 <= k THEN k - 1 + 1 ELSE 0
  <2> DEFINE v == SubSeq(F, 1, k)
  <2>1. v \in Seq(Byte) /\ Len(v) = IF 1 <= k THEN k - 1 + 1 ELSE 0
    BY <1>3, <1>4, SubSeqProperties
  <2> HIDE DEF v
  <2>2. y = v
    BY <1>2 DEF v
  <2> QED
    BY <2>1, <2>2
<1>6. CASE k = n
  <2>1. SubSeq(F, 1, n) = F
    BY SubSeqFull
  <2>2. y = F
    BY <1>2, <1>6, <2>1
  <2> QED
    BY <2>2
<1>7. CASE k # n
  <2>1. CASE n = 0
    <3>1. y = <<>> /\ F = <<>>
      BY <1>2, <1>3, <1>7, <2>1, SubSeqEmpty
    <3> QED
      BY <3>1
  <2>2. CASE n # 0
    <3> HIDE DEF n
    <3>1. Len(y) < n
      BY <1>1, <1>3, <1>5, <1>7, <2>2
    <3> QED
      BY <1>5, <3>1 DEF n
  <2> QED
    BY <2>1, <2>2
<1> QED
  BY <1>6, <1>7

\* ClientSend sends nothing, a frame or a part of it.
SendsNothing == UNCHANGED <<sent, torn, up>>
SendsFrame(m) == sent' = Append(sent, m) /\ torn' = torn /\ up' = up \o Frame(m)
SendsPart(m, y) ==
    /\ sent' = Append(sent, m) /\ up' = up \o y
    /\ torn' = IF torn = 0 THEN Len(sent) + 1 ELSE torn

LEMMA SendIs ==
    ASSUME Types, NEW k \in UpKinds, ClientSend(k)
    PROVE  /\ tries' \in Nat /\ UNCHANGED <<serverVars, downVars, clientVars, closed>>
           /\ \/ SendsNothing
              \/ \E m \in Msg : /\ m \in [kind : UpKinds, n : 1..MaxSends]
                                /\ SendsFrame(m) \/ \E y \in Seq(Byte) : SendsPart(m, y)
<1> DEFINE m == Message(k, tries + 1)
           F == Frame(m)
           r == UpRoom - Len(up)
           y == SubSeq(F, 1, Min({r, Len(F)}))
<1>1. tries \in Nat /\ tries < MaxSends /\ MaxSends \in Nat /\ UpRoom \in Nat /\ Len(up) \in Nat
  BY WireAssumption DEF Types, ClientSend
<1>2. /\ up' = up \o y /\ sent' = IF y = <<>> THEN sent ELSE Append(sent, m)
      /\ torn' = IF torn = 0 /\ y # <<>> /\ Len(y) < Len(F) THEN Len(sent) + 1 ELSE torn
  BY DEF ClientSend
<1>3. tries + 1 \in 1..MaxSends /\ tries + 1 \in Nat
  BY <1>1
<1>4. m \in Msg /\ m \in [kind : UpKinds, n : 1..MaxSends]
  BY <1>3 DEF Message, Msg
<1> HIDE DEF m
<1>5. F \in Seq(Byte)
  BY <1>4, FrameFacts
<1>6. r \in Int
  BY <1>1
<1> HIDE DEF F, r
<1>7. y \in Seq(Byte) /\ Len(y) \in Nat /\ (y = F \/ Len(y) < Len(F))
  <2>1. PartOf(F, r, y)
    BY DEF PartOf
  <2> HIDE DEF y
  <2> QED
    BY <1>5, <1>6, <2>1, BytesSent
<1>8. tries' \in Nat /\ UNCHANGED <<serverVars, downVars, clientVars, closed>>
  BY <1>3 DEF ClientSend
<1> HIDE DEF y
<1>9. CASE y = <<>>
  <2>1. up \o <<>> = up
    BY ConcatEmptySeq DEF Types
  <2>2. SendsNothing
    BY <1>2, <1>9, <2>1 DEF SendsNothing
  <2> QED
    BY <1>8, <2>2
<1>10. CASE y # <<>> /\ y = F
  <2>1. ~ (Len(y) < Len(F))
    BY <1>7, <1>10
  <2>2. SendsFrame(m)
    BY <1>2, <1>10, <2>1 DEF SendsFrame, F
  <2> QED
    BY <1>4, <1>8, <2>2
<1>11. CASE y # <<>> /\ y # F
  <2>1. SendsPart(m, y)
    BY <1>2, <1>7, <1>11 DEF SendsPart
  <2> QED
    BY <1>4, <1>7, <1>8, <2>1
<1> QED
  BY <1>9, <1>10, <1>11

LEMMA ClientSendInv ==
    ASSUME Inv, NEW k \in UpKinds, ClientSend(k)
    PROVE  Inv'
<1>1. Types /\ Upward /\ Downward /\ Room
  BY DEF Inv
<1>2. /\ tries' \in Nat
      /\ UNCHANGED <<rbuf, handled, alive, replies, sbuf, down, cbuf, polled, closed>>
  BY <1>1, SendIs DEF serverVars, downVars, clientVars
<1>3. Downward'
  BY <1>1, <1>2 DEF Downward
<1>4. rbuf \o up \in Seq(Byte) /\ torn \in 0..Len(sent) /\ Len(sent) \in Nat
  BY <1>1, ConcatProperties DEF Types
<1>5. ASSUME NEW y \in Seq(Byte), up' = up \o y
      PROVE  up' \in Seq(Byte) /\ rbuf' \o up' = (rbuf \o up) \o y
  <2>1. Joins(rbuf, up, y)
    BY <1>1, BytesJoin DEF Types
  <2>2. up \o y \in Seq(Byte)
    BY <1>1, ConcatProperties DEF Types
  <2> QED
    BY <1>2, <1>5, <2>1, <2>2 DEF Joins
<1>6. CASE SendsNothing
  <2>1. Types' /\ Upward' /\ Room'
    BY <1>1, <1>2, <1>6 DEF SendsNothing, Types, Upward, Room
  <2> QED
    BY <1>3, <2>1 DEF Inv
<1>7. ASSUME NEW m \in Msg, SendsFrame(m) PROVE Inv'
  <2>1. Frame(m) \in Seq(Byte)
    BY FrameFacts
  <2>2. sent' = Append(sent, m) /\ torn' = torn /\ up' = up \o Frame(m)
    BY <1>7 DEF SendsFrame
  <2>3. up' \in Seq(Byte) /\ rbuf' \o up' = (rbuf \o up) \o Frame(m)
    BY <1>5, <2>1, <2>2
  <2>4. sent' \in Seq(Msg) /\ Len(sent') = Len(sent) + 1
    BY <1>1, <2>2, AppendFacts DEF Types
  <2>5. torn' \in 0..Len(sent')
    BY <1>4, <2>2, <2>4
  <2>6. InStep(Append(sent, m), torn, handled, (rbuf \o up) \o Frame(m))
    BY <1>1, <1>4, InStepSend DEF Types, Upward
  <2>7. Upward'
    BY <1>2, <2>2, <2>3, <2>6 DEF Upward
  <2>8. Types' /\ Room'
    BY <1>1, <1>2, <2>2, <2>3, <2>4, <2>5 DEF Types, Room
  <2> QED
    BY <1>3, <2>7, <2>8 DEF Inv
<1>8. ASSUME NEW m \in Msg, NEW y \in Seq(Byte), SendsPart(m, y) PROVE Inv'
  <2>1. sent' = Append(sent, m) /\ up' = up \o y /\ torn' = IF torn = 0 THEN Len(sent) + 1 ELSE torn
    BY <1>8 DEF SendsPart
  <2>2. up' \in Seq(Byte) /\ rbuf' \o up' = (rbuf \o up) \o y
    BY <1>5, <2>1
  <2>3. sent' \in Seq(Msg) /\ Len(sent') = Len(sent) + 1
    BY <1>1, <2>1, AppendFacts DEF Types
  <2>4. torn' \in 0..Len(sent') /\ torn' # 0
    BY <1>4, <2>1, <2>3
  <2>5. InStep(Append(sent, m), IF torn = 0 THEN Len(sent) + 1 ELSE torn, handled, (rbuf \o up) \o y)
    BY <1>1, <1>4, InStepPart DEF Types, Upward
  <2>6. Upward'
    BY <1>2, <2>1, <2>2, <2>5 DEF Upward
  <2>7. Types' /\ Room'
    BY <1>1, <1>2, <2>2, <2>3, <2>4 DEF Types, Room
  <2> QED
    BY <1>3, <2>6, <2>7 DEF Inv
<1> QED
  BY <1>1, <1>6, <1>7, <1>8, SendIs

\* What is kept of a read is less than a frame, unless its header announces too much.
LEMMA RestHasRoom ==
    ASSUME NEW buf \in Seq(Byte), NEW g \in Nat, NEW p \in 0..Len(buf),
           ~ FrameIsThere(buf, p, g), ~ Oversized(buf, p, g)
    PROVE  Len(Rest(buf, p)) < BufferSize
<1> DEFINE n == Len(buf)
           a == LengthAt(buf, p, g)
<1>1. n \in Nat /\ p \in Nat /\ p <= n /\ Len(Rest(buf, p)) = n - p
  BY CutSeq
<1>2. /\ Header \in Nat /\ Header >= 1 /\ MaxPayload \in Nat
      /\ BufferSize \in Nat /\ BufferSize >= Header + MaxPayload
  BY PayloadFacts
<1>3. CASE p + Header <= n
  <2>1. p + 1 <= n
    BY <1>1, <1>2, <1>3
  <2>2. a \in Nat
    BY <1>1, <2>1, LengthFacts
  <2>3. ~ (a > MaxPayload) /\ ~ (p + (Header + a) <= n)
    BY <1>3 DEF FrameIsThere, Oversized, SizeAt
  <2> HIDE DEF a, n
  <2> QED
    BY <1>1, <1>2, <2>2, <2>3
<1>4. CASE ~ (p + Header <= n)
  <2> HIDE DEF n
  <2> QED
    BY <1>1, <1>2, <1>4
<1> QED
  BY <1>3, <1>4

\* Reading from one end of what is between two sides moves it to the other buffer.
ReadFrom(a, u, n) == (a \o SubSeq(u, 1, n)) \o Rest(u, n) = a \o u

LEMMA ReadKeepsBytes ==
    ASSUME NEW a \in Seq(Byte), NEW u \in Seq(Byte), NEW n \in 0..Len(u)
    PROVE  /\ a \o SubSeq(u, 1, n) \in Seq(Byte) /\ Rest(u, n) \in Seq(Byte)
           /\ ReadFrom(a, u, n)
<1> DEFINE y == SubSeq(u, 1, n)
           r == Rest(u, n)
<1>1. y \in Seq(Byte) /\ r \in Seq(Byte) /\ y \o r = u
  BY CutSeq
<1> HIDE DEF y, r
<1>2. Joins(a, y, r) /\ a \o y \in Seq(Byte)
  BY <1>1, BytesJoin, ConcatProperties
<1>3. (a \o y) \o r = a \o u
  BY <1>1, <1>2 DEF Joins
<1> QED
  BY <1>1, <1>2, <1>3 DEF ReadFrom, y, r

\* One read of the server.
Reads(buf, z, g) ==
    /\ rbuf \o up = buf \o z /\ up' = z
    /\ handled' = handled \o Parse(buf, g).msgs
    /\ rbuf' = Rest(buf, Parse(buf, g).pos)
    /\ alive' = ~ Oversized(buf, Parse(buf, g).pos, g)

LEMMA ServerReadIs ==
    ASSUME Types, ServerRead
    PROVE  \E buf \in Seq(Byte), z \in Seq(Byte), g \in Nat : Reads(buf, z, g)
<1>1. PICK n \in 1..Len(up), g \in 0..(MaxPayload + 1) :
         LET buf == rbuf \o SubSeq(up, 1, n)
             done == Parse(buf, g) IN
         /\ up' = Rest(up, n)
         /\ handled' = handled \o done.msgs
         /\ rbuf' = Compacted(buf, done.pos)
         /\ alive' = ~Oversized(buf, done.pos, g)
  BY DEF ServerRead
<1> DEFINE buf == rbuf \o SubSeq(up, 1, n)
           z == Rest(up, n)
<1>2. g \in Nat
  BY PayloadFacts
<1>3. rbuf \in Seq(Byte) /\ up \in Seq(Byte) /\ n \in 0..Len(up)
  BY DEF Types
<1>4. buf \in Seq(Byte) /\ z \in Seq(Byte) /\ ReadFrom(rbuf, up, n)
  BY <1>3, ReadKeepsBytes
<1>5. rbuf \o up = buf \o z
  BY <1>4 DEF ReadFrom
<1>6. /\ up' = z /\ handled' = handled \o Parse(buf, g).msgs
      /\ rbuf' = Rest(buf, Parse(buf, g).pos)
      /\ alive' = ~ Oversized(buf, Parse(buf, g).pos, g)
  BY <1>1 DEF Compacted
<1> HIDE DEF buf, z
<1>7. Reads(buf, z, g)
  BY <1>5, <1>6 DEF Reads
<1> QED
  BY <1>2, <1>4, <1>7

LEMMA ServerReadInv ==
    ASSUME Inv, ServerRead
    PROVE  Inv' /\ (torn = 0 => alive')
<1>1. Types /\ Upward /\ Downward /\ Room
  BY DEF Inv
<1>2. PICK buf \in Seq(Byte), z \in Seq(Byte), g \in Nat : Reads(buf, z, g)
  BY <1>1, ServerReadIs
<1>3. UNCHANGED <<sent, torn, tries, replies, sbuf, down, cbuf, polled, closed>>
  BY DEF ServerRead, downVars, clientVars
<1> DEFINE done == Parse(buf, g)
           p == done.pos
<1>4. /\ rbuf \o up = buf \o z /\ up' = z /\ handled' = handled \o done.msgs
      /\ rbuf' = Rest(buf, p) /\ alive' = ~ Oversized(buf, p, g)
  BY <1>2 DEF Reads
<1>5. done.msgs \in Seq(Cuttings) /\ p \in 0..Len(buf) /\ ~ FrameIsThere(buf, p, g)
  BY ParseEnds
<1>6. /\ sent \in Seq(Msg) /\ torn \in 0..Len(sent) /\ handled \in Seq(Cuttings)
      /\ InStep(sent, torn, handled, buf \o z)
  BY <1>1, <1>4 DEF Types, Upward
<1>7. /\ InStep(sent, torn, handled \o done.msgs, Rest(buf, p) \o z)
      /\ torn = 0 => ~ Oversized(buf, p, g)
  BY <1>6, InStepRead
<1> HIDE DEF done, p
<1>8. Upward'
  BY <1>3, <1>4, <1>7 DEF Upward
<1>9. Downward'
  BY <1>1, <1>3 DEF Downward
<1>10. Rest(buf, p) \in Seq(Byte)
  BY <1>5, CutSeq
<1>11. handled \o done.msgs \in Seq(Cuttings)
  BY <1>5, <1>6, ConcatProperties
<1>12. alive' \in BOOLEAN
  BY <1>4
<1>13. Types'
  BY <1>1, <1>3, <1>4, <1>10, <1>11, <1>12 DEF Types
<1>14. alive' => Len(rbuf') < BufferSize
  BY <1>4, <1>5, RestHasRoom
<1>15. Room'
  BY <1>14 DEF Room
<1>16. torn = 0 => alive'
  BY <1>4, <1>7
<1> QED
  BY <1>8, <1>9, <1>13, <1>15, <1>16 DEF Inv

LEMMA ServerRemovesInv ==
    ASSUME Inv, ServerSeesEnd \/ RemovedForAnother
    PROVE  Inv'
<1>1. Types /\ Upward /\ Downward
  BY DEF Inv
<1>2. /\ alive' = FALSE
      /\ UNCHANGED <<sent, torn, tries, up, rbuf, handled, replies, sbuf, down, cbuf, polled, closed>>
  BY DEF ServerSeesEnd, RemovedForAnother, upVars, downVars, clientVars
<1>3. Types' /\ Upward' /\ Downward'
  BY <1>1, <1>2 DEF Types, Upward, Downward
<1>4. Room'
  BY <1>2 DEF Room
<1> QED
  BY <1>3, <1>4 DEF Inv

LEMMA ServerReplyInv ==
    ASSUME Inv, NEW k \in DownKinds, ServerReply(k)
    PROVE  /\ Inv'
           /\ \E m \in Msg : m \in [kind : DownKinds, n : 1..MaxReplies] /\ replies' = Append(replies, m)
<1>1. Types /\ Upward /\ Downward /\ Room
  BY DEF Inv
<1> DEFINE m == Message(k, Len(replies) + 1)
           F == Frame(m)
           a == cbuf \o down
<1>2. replies' = Append(replies, m) /\ sbuf' = sbuf \o F /\ Len(replies) < MaxReplies
  BY DEF ServerReply
<1>3. UNCHANGED <<sent, torn, tries, up, rbuf, handled, alive, down, cbuf, polled, closed>>
  BY DEF ServerReply, upVars, serverVars, clientVars
<1>4. m \in Msg /\ m \in [kind : DownKinds, n : 1..MaxReplies]
  <2>1. Len(replies) \in Nat /\ MaxReplies \in Nat
    BY <1>1, WireAssumption DEF Types
  <2>2. Len(replies) + 1 \in 1..MaxReplies /\ Len(replies) + 1 \in Nat
    BY <1>2, <2>1
  <2> QED
    BY <2>2 DEF Message, Msg
<1> HIDE DEF m
<1>5. F \in Seq(Byte)
  BY <1>4, FrameFacts
<1>6. a \in Seq(Byte) /\ sbuf \in Seq(Byte)
  BY <1>1, ConcatProperties DEF Types
<1>7. InStep(Append(replies, m), 0, polled, (a \o sbuf) \o F)
  <2>1. a \o sbuf \in Seq(Byte)
    BY <1>6, ConcatProperties
  <2>2. /\ replies \in Seq(Msg) /\ polled \in Seq(Cuttings) /\ 0 \in 0..Len(replies)
        /\ InStep(replies, 0, polled, a \o sbuf)
    BY <1>1 DEF Types, Downward
  <2> HIDE DEF a
  <2> QED
    BY <1>4, <2>1, <2>2, InStepSend
<1> HIDE DEF F, a
<1>8. Joins(a, sbuf, F) /\ sbuf \o F \in Seq(Byte)
  BY <1>5, <1>6, BytesJoin, ConcatProperties
<1>9. (cbuf' \o down') \o sbuf' = (a \o sbuf) \o F
  BY <1>2, <1>3, <1>8 DEF Joins, a
<1>10. Downward'
  BY <1>2, <1>3, <1>7, <1>9 DEF Downward
<1>11. Append(replies, m) \in Seq(Msg)
  BY <1>1, <1>4, AppendFacts DEF Types
<1>12. Types'
  BY <1>1, <1>2, <1>3, <1>8, <1>11 DEF Types
<1>13. Upward' /\ Room'
  BY <1>1, <1>3 DEF Upward, Room
<1> QED
  BY <1>2, <1>4, <1>10, <1>12, <1>13 DEF Inv

LEMMA ServerWriteInv ==
    ASSUME Inv, ServerWrite
    PROVE  Inv'
<1>1. Types /\ Upward /\ Downward /\ Room
  BY DEF Inv
<1>2. PICK n \in 1..Len(sbuf) : down' = down \o SubSeq(sbuf, 1, n) /\ sbuf' = Rest(sbuf, n)
  BY DEF ServerWrite, SendBufferAfter
<1>3. UNCHANGED <<sent, torn, tries, up, rbuf, handled, alive, replies, cbuf, polled, closed>>
  BY DEF ServerWrite, upVars, serverVars, clientVars
<1> DEFINE y == SubSeq(sbuf, 1, n)
           r == Rest(sbuf, n)
           a == cbuf \o down
<1>4. cbuf \in Seq(Byte) /\ down \in Seq(Byte) /\ sbuf \in Seq(Byte) /\ n \in 0..Len(sbuf)
  BY <1>1 DEF Types
<1>5. a \in Seq(Byte) /\ down \o y \in Seq(Byte) /\ r \in Seq(Byte) /\ y \in Seq(Byte)
  BY <1>4, ConcatProperties, CutSeq
<1>6. ReadFrom(a, sbuf, n)
  <2> HIDE DEF a
  <2> QED
    BY <1>4, <1>5, ReadKeepsBytes
<1>7. (a \o y) \o r = a \o sbuf
  BY <1>6 DEF ReadFrom
<1>8. Joins(cbuf, down, y)
  <2> HIDE DEF y
  <2> QED
    BY <1>4, <1>5, BytesJoin
<1> HIDE DEF y, r
<1>9. (cbuf' \o down') \o sbuf' = (cbuf \o down) \o sbuf
  BY <1>2, <1>3, <1>7, <1>8 DEF Joins, y, r
<1>10. Downward'
  BY <1>1, <1>3, <1>9 DEF Downward
<1>11. Types'
  BY <1>1, <1>2, <1>3, <1>5 DEF Types, y, r
<1>12. Upward' /\ Room'
  BY <1>1, <1>3 DEF Upward, Room
<1> QED
  BY <1>10, <1>11, <1>12 DEF Inv

\* One poll of the client.
Polls(buf, z) ==
    /\ (cbuf \o down) \o sbuf = buf \o (z \o sbuf) /\ down' = z
    /\ polled' = polled \o Parse(buf, 0).msgs
    /\ cbuf' = Rest(buf, Parse(buf, 0).pos)

LEMMA ClientPollIs ==
    ASSUME Types, ClientPoll
    PROVE  \E buf \in Seq(Byte), z \in Seq(Byte) : Polls(buf, z)
<1>1. PICK n \in 1..Len(down) :
         LET buf == cbuf \o SubSeq(down, 1, n)
             done == Parse(buf, 0) IN
         /\ down' = Rest(down, n)
         /\ polled' = polled \o done.msgs
         /\ cbuf' = Rest(buf, done.pos)
  BY DEF ClientPoll
<1> DEFINE buf == cbuf \o SubSeq(down, 1, n)
           z == Rest(down, n)
<1>2. cbuf \in Seq(Byte) /\ down \in Seq(Byte) /\ sbuf \in Seq(Byte) /\ n \in 0..Len(down)
  BY DEF Types
<1>3. buf \in Seq(Byte) /\ z \in Seq(Byte) /\ ReadFrom(cbuf, down, n)
  BY <1>2, ReadKeepsBytes
<1>4. cbuf \o down = buf \o z
  BY <1>3 DEF ReadFrom
<1>5. down' = z /\ polled' = polled \o Parse(buf, 0).msgs /\ cbuf' = Rest(buf, Parse(buf, 0).pos)
  BY <1>1
<1> HIDE DEF buf, z
<1>6. Joins(buf, z, sbuf)
  BY <1>2, <1>3, BytesJoin
<1>7. Polls(buf, z)
  BY <1>4, <1>5, <1>6 DEF Polls, Joins
<1> QED
  BY <1>3, <1>7

LEMMA ClientPollInv ==
    ASSUME Inv, ClientPoll
    PROVE  Inv' /\ \E d \in Seq(Cuttings) : polled' = polled \o d
<1>1. Types /\ Upward /\ Downward /\ Room
  BY DEF Inv
<1>2. PICK buf \in Seq(Byte), z \in Seq(Byte) : Polls(buf, z)
  BY <1>1, ClientPollIs
<1>3. UNCHANGED <<sent, torn, tries, up, rbuf, handled, alive, replies, sbuf, closed>>
  BY DEF ClientPoll, upVars, serverVars
<1> DEFINE done == Parse(buf, 0)
           p == done.pos
           w == z \o sbuf
           r == Rest(buf, p)
<1>4. /\ (cbuf \o down) \o sbuf = buf \o w /\ down' = z /\ polled' = polled \o done.msgs
      /\ cbuf' = r
  BY <1>2 DEF Polls
<1>5. done.msgs \in Seq(Cuttings) /\ p \in 0..Len(buf)
  BY ParseEnds
<1>6. /\ replies \in Seq(Msg) /\ 0 \in 0..Len(replies) /\ polled \in Seq(Cuttings)
      /\ InStep(replies, 0, polled, buf \o w) /\ sbuf \in Seq(Byte)
  BY <1>1, <1>4 DEF Types, Downward
<1>7. w \in Seq(Byte)
  BY <1>6, ConcatProperties
<1> HIDE DEF w
<1>8. InStep(replies, 0, polled \o done.msgs, r \o w)
  BY <1>6, <1>7, InStepRead
<1> HIDE DEF done, p
<1>9. r \in Seq(Byte)
  BY <1>5, CutSeq
<1> HIDE DEF r
<1>10. Joins(r, z, sbuf)
  BY <1>6, <1>9, BytesJoin
<1>11. Downward'
  BY <1>3, <1>4, <1>8, <1>10 DEF Downward, Joins, w
<1>12. polled \o done.msgs \in Seq(Cuttings)
  BY <1>5, <1>6, ConcatProperties
<1>13. Types'
  BY <1>1, <1>3, <1>4, <1>9, <1>12 DEF Types
<1>14. Upward' /\ Room'
  BY <1>1, <1>3 DEF Upward, Room
<1> QED
  BY <1>4, <1>5, <1>11, <1>13, <1>14 DEF Inv

LEMMA ClientDisconnectInv ==
    ASSUME Inv, ClientDisconnect
    PROVE  Inv'
<1>1. /\ closed' = TRUE
      /\ UNCHANGED <<sent, torn, tries, up, rbuf, handled, alive, replies, sbuf, down, cbuf, polled>>
  BY DEF ClientDisconnect, upVars, serverVars, downVars, clientVars
<1> QED
  BY <1>1 DEF Inv, Types, Upward, Downward, Room

LEMMA StepInv == Inv /\ [Next]_vars => Inv'
<1> SUFFICES ASSUME Inv, [Next]_vars PROVE Inv'
  OBVIOUS
<1>1. CASE UNCHANGED vars
  BY <1>1 DEF Inv, Types, Upward, Downward, Room, vars, upVars, serverVars, downVars, clientVars
<1>2. ASSUME NEW k \in UpKinds, ClientSend(k) PROVE Inv'
  BY <1>2, ClientSendInv
<1>3. ASSUME NEW k \in DownKinds, ServerReply(k) PROVE Inv'
  BY <1>3, ServerReplyInv
<1>4. CASE ServerRead
  BY <1>4, ServerReadInv
<1>5. CASE ServerSeesEnd \/ RemovedForAnother
  BY <1>5, ServerRemovesInv
<1>6. CASE ServerWrite
  BY <1>6, ServerWriteInv
<1>7. CASE ClientPoll
  BY <1>7, ClientPollInv
<1>8. CASE ClientDisconnect
  BY <1>8, ClientDisconnectInv
<1> QED
  BY <1>1, <1>2, <1>3, <1>4, <1>5, <1>6, <1>7, <1>8 DEF Next

LEMMA SpecInv == Spec => []Inv
BY InitInv, StepInv, PTL DEF Spec

-----------------------------------------------------------------------------
(* Theorems. *)

\* handle_client_read never meets a recv_buffer without room, whatever the client has
\* torn, and as long as it has torn nothing process_message is called with nothing
\* but its messages.
THEOREM ServerKeepsReading == Spec => []ReadsGoOn
<1>1. Inv => ReadsGoOn
  BY DEF Inv, Upward, Room, InStep, ReadsGoOn
<1> QED
  BY <1>1, SpecInv, PTL

\* handle_client_read disconnects a client for an oversized message only behind a frame
\* of which sendall has sent a part: no cut of whole frames is misread as one.
THEOREM WholeFramesAreAccepted == Spec => OnlyTornFramesAreRefused
<1>1. Inv /\ [Next]_vars => [up' # up /\ alive /\ ~alive' => torn # 0]_vars
  <2> SUFFICES ASSUME Inv, [Next]_vars, up' # up, alive, ~alive'
               PROVE  torn # 0
    OBVIOUS
  <2>1. ServerRead \/ (alive' = alive) \/ (up' = up)
    BY DEF Next, vars, ClientSend, ServerReply, ServerSeesEnd, RemovedForAnother, ServerWrite,
           ClientPoll, ClientDisconnect, upVars, serverVars
  <2>2. ServerRead
    BY <2>1
  <2> QED
    BY <2>2, ServerReadInv
<1> QED
  BY <1>1, SpecInv, PTL DEF Spec, OnlyTornFramesAreRefused

\* Channel sees nothing of an empty history.
LEMMA NothingSeen ==
    Len(<<>>) = 0 /\ SubSeq(<<>>, 1, 0) = <<>> /\ Min({0, 0}) = 0
<1>1. Min({0, 0}) = 0
  BY MinOfTwo DEF Lesser
<1>2. SubSeq(<<>>, 1, 0) = <<>>
  BY SubSeqEmpty
<1> QED
  BY <1>1, <1>2

\* Of the downward direction, where nothing is torn, Channel sees everything.
LEMMA DownwardSees ==
    ASSUME NEW msgs \in Seq(Msg), NEW got \in Seq(Cuttings), NEW b, InStep(msgs, 0, got, b)
    PROVE  Sents(msgs, 0) = msgs /\ Firsts(msgs, 0, got) = got
<1> DEFINE l == Len(got)
           n == Len(msgs)
<1>1. l <= n /\ l \in Int /\ n \in Int
  BY DEF InStep
<1>2. SubSeq(msgs, 1, n) = msgs
  BY SubSeqFull
<1>3. SubSeq(got, 1, l) = got
  BY SubSeqFull
<1>4. Whole(msgs, 0) = n
  BY DEF Whole
<1> HIDE DEF l, n
<1>5. Min({l, n}) = l
  BY <1>1, MinOfTwo DEF Lesser
<1> QED
  BY <1>2, <1>3, <1>4, <1>5 DEF Sents, Firsts, l

\* TcpClient.poll returns the messages that send_reject and broadcast have serialized,
\* whole, in order and once each, however send and recv cut the bytes: the downward
\* direction is a Channel.
THEOREM ClientGetsReplies == Spec => RepliesArriveIntact
<1>1. Init => Down!Init
  BY DEF Init, Down!Init
<1>2. Inv /\ Inv' /\ [Next]_vars => [Down!Next]_<<replies, polled>>
  <2> SUFFICES ASSUME Inv, Inv', [Next]_vars
               PROVE  Down!Next \/ UNCHANGED <<replies, polled>>
    OBVIOUS
  <2>1. ASSUME NEW k \in DownKinds, ServerReply(k) PROVE Down!Next
    <3>1. PICK m \in [kind : DownKinds, n : 1..MaxReplies] : replies' = Append(replies, m)
      BY <2>1, ServerReplyInv
    <3>2. polled' = polled
      BY <2>1 DEF ServerReply, clientVars
    <3> QED
      BY <3>1, <3>2 DEF Down!Next, Down!Send
  <2>2. CASE ClientPoll
    <3>1. PICK d \in Seq(Cuttings) : polled' = polled \o d
      BY <2>2, ClientPollInv
    <3>2. replies' = replies
      BY <2>2 DEF ClientPoll
    <3> DEFINE b == (cbuf \o down) \o sbuf
               c == (cbuf' \o down') \o sbuf'
               new == polled \o d
    <3>3. /\ replies \in Seq(Msg) /\ polled \in Seq(Cuttings) /\ 0 \in 0..Len(replies)
          /\ InStep(replies, 0, polled, b)
      BY DEF Inv, Types, Downward
    <3>4. InStep(replies, 0, new, c)
      BY <3>1, <3>2 DEF Inv, Downward
    <3>5. new \in Seq(Cuttings)
      BY <3>1, <3>2 DEF Inv, Types
    <3> HIDE DEF b, c
    <3>6. Delivers(Sents(replies, 0), Firsts(replies, 0, polled), Firsts(replies, 0, new))
      BY <3>3, <3>4, ReadDelivers
    <3> HIDE DEF new
    <3>7. /\ Sents(replies, 0) = replies /\ Firsts(replies, 0, polled) = polled
          /\ Firsts(replies, 0, new) = new
      BY <3>3, <3>4, <3>5, DownwardSees
    <3>8. Delivers(replies, polled, new)
      BY <3>6, <3>7
    <3>9. polled' = new
      BY <3>1 DEF new
    <3> QED
      BY <3>2, <3>8, <3>9 DEF Delivers, Down!Next, Down!Deliver
  <2>3. CASE UNCHANGED <<replies, polled>>
    BY <2>3
  <2> QED
    BY <2>1, <2>2, <2>3
       DEF Next, vars, ClientSend, ServerRead, ServerSeesEnd, RemovedForAnother, ServerWrite, ClientDisconnect,
           downVars, clientVars
<1> QED
  BY <1>1, <1>2, SpecInv, PTL DEF Spec, RepliesArriveIntact, Down!Spec

\* process_message is called with the messages of send_new_order and send_cancel,
\* whole, in order and once each, up to the first of which sendall has sent a part:
\* however recv cuts the bytes, the upward direction is a Channel.
THEOREM ServerGetsOrders == Spec => OrdersArriveIntact
<1> DEFINE s == SubSeq(sent, 1, Intact)
<1>1. Init => Up!Init
  <2> SUFFICES ASSUME Init PROVE Up!Init
    OBVIOUS
  <2>1. sent = <<>> /\ handled = <<>> /\ torn = 0
    BY DEF Init
  <2>2. Intact = 0
    BY <2>1, NothingSeen DEF Intact
  <2>3. SubSeq(sent, 1, Intact) = <<>> /\ FirstHandled = <<>>
    BY <2>1, <2>2, NothingSeen DEF FirstHandled
  <2> QED
    BY <2>3 DEF Up!Init
<1>2. s = Sents(sent, torn) /\ FirstHandled = Firsts(sent, torn, handled)
  BY DEF Sents, Firsts, Whole, Intact, FirstHandled
<1>3. s' = Sents(sent', torn') /\ FirstHandled' = Firsts(sent', torn', handled')
  BY DEF Sents, Firsts, Whole, Intact, FirstHandled
<1>4. Inv /\ Inv' /\ [Next]_vars => [Up!Next]_<<SubSeq(sent, 1, Intact), FirstHandled>>
  <2> SUFFICES ASSUME Inv, Inv', [Next]_vars
               PROVE  Up!Next \/ UNCHANGED <<s, FirstHandled>>
    OBVIOUS
  <2> HIDE DEF s
  <2>1. /\ sent \in Seq(Msg) /\ torn \in 0..Len(sent) /\ handled \in Seq(Cuttings)
        /\ InStep(sent, torn, handled, rbuf \o up)
    BY DEF Inv, Types, Upward
  <2>2. ASSUME UNCHANGED <<sent, torn, handled>> PROVE UNCHANGED <<s, FirstHandled>>
    BY <1>2, <1>3, <2>2
  <2>3. ASSUME NEW k \in UpKinds, ClientSend(k)
        PROVE  Up!Next \/ UNCHANGED <<s, FirstHandled>>
    <3>1. /\ handled' = handled
          /\ \/ SendsNothing
             \/ \E m \in Msg : /\ m \in [kind : UpKinds, n : 1..MaxSends]
                               /\ SendsFrame(m) \/ \E y \in Seq(Byte) : SendsPart(m, y)
      BY <2>3, SendIs DEF Inv, serverVars
    <3>2. CASE SendsNothing
      BY <2>2, <3>1, <3>2 DEF SendsNothing
    <3>3. ASSUME NEW m \in Msg, NEW u, u = IF torn = 0 THEN Len(sent) + 1 ELSE torn,
                 sent' = Append(sent, m), torn' = u
          PROVE  UNCHANGED <<s, FirstHandled>>
      <4>1. /\ Sents(Append(sent, m), u) = Sents(sent, torn)
            /\ Firsts(Append(sent, m), u, handled) = Firsts(sent, torn, handled)
        BY <2>1, <3>3, PartIsNotSeen
      <4> QED
        BY <1>2, <1>3, <3>1, <3>3, <4>1
    <3>4. ASSUME NEW m \in Msg, NEW y, SendsPart(m, y) PROVE UNCHANGED <<s, FirstHandled>>
      BY <3>3, <3>4 DEF SendsPart
    <3>5. ASSUME NEW m \in Msg, m \in [kind : UpKinds, n : 1..MaxSends], SendsFrame(m)
          PROVE  Up!Next \/ UNCHANGED <<s, FirstHandled>>
      <4>1. sent' = Append(sent, m) /\ torn' = torn
        BY <3>5 DEF SendsFrame
      <4>2. CASE torn # 0
        <5>1. torn' = IF torn = 0 THEN Len(sent) + 1 ELSE torn
          BY <4>1, <4>2
        <5> QED
          BY <3>3, <4>1, <5>1
      <4>3. CASE torn = 0
        <5>1. /\ Sents(Append(sent, m), 0) = Append(Sents(sent, 0), m)
              /\ Firsts(Append(sent, m), 0, handled) = Firsts(sent, 0, handled)
          BY <2>1, <4>3, SendAppends
        <5>2. s' = Append(s, m) /\ FirstHandled' = FirstHandled
          BY <1>2, <1>3, <3>1, <4>1, <4>3, <5>1
        <5> QED
          BY <3>5, <5>2 DEF Up!Next, Up!Send, s
      <4> QED
        BY <4>2, <4>3
    <3> QED
      BY <3>1, <3>2, <3>4, <3>5
  <2>4. ASSUME ServerRead PROVE Up!Next \/ UNCHANGED <<s, FirstHandled>>
    <3>1. PICK buf \in Seq(Byte), z \in Seq(Byte), g \in Nat : Reads(buf, z, g)
      BY <2>4, ServerReadIs DEF Inv
    <3> DEFINE d == Parse(buf, g).msgs
               new == handled \o d
    <3>2. d \in Seq(Cuttings) /\ handled' = new
      BY <3>1, ParseEnds DEF Reads
    <3>3. sent' = sent /\ torn' = torn
      BY <2>4 DEF ServerRead
    <3>4. InStep(sent, torn, new, rbuf' \o up')
      BY <3>2, <3>3 DEF Inv, Upward
    <3> HIDE DEF d
    <3>5. Delivers(Sents(sent, torn), Firsts(sent, torn, handled), Firsts(sent, torn, new))
      BY <2>1, <3>2, <3>4, ReadDelivers
    <3>6. Delivers(s, FirstHandled, FirstHandled') /\ s' = s
      BY <1>2, <1>3, <3>2, <3>3, <3>5
    <3> QED
      BY <3>6 DEF Delivers, Up!Next, Up!Deliver, s
  <2>5. CASE UNCHANGED <<sent, torn, handled>>
    BY <2>2, <2>5
  <2> QED
    BY <2>3, <2>4, <2>5
       DEF Next, vars, ServerSeesEnd, RemovedForAnother, ServerReply, ServerWrite, ClientPoll, ClientDisconnect,
           upVars, serverVars
<1> QED
  BY <1>1, <1>4, SpecInv, PTL DEF Spec, OrdersArriveIntact, Up!Spec
=============================================================================
