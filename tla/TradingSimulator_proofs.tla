---------------------- MODULE TradingSimulator_proofs -----------------------
(***************************************************************************)
(* Proofs about TradingSimulator, for any roster of agents, any number of  *)
(* steps, levels and ids, any limit and any bound on the failures: no      *)
(* agent forgets an order of its own, the quotes of the market maker do    *)
(* not accumulate, snapshots are applied in order, and orders have ids of  *)
(* their own until a block of ids is used up.                              *)
(*                                                                         *)
(* The invariants are about places in c2s, because what an order is worth  *)
(* to its agent depends on what is behind it there: a cancel behind a NEW  *)
(* will find the order, a cancel ahead of it will not.                     *)
(***************************************************************************)
EXTENDS TradingSimulator, SequenceTheorems, FiniteSetTheorems, FunctionTheorems,
        WellFoundedInduction, TLAPS

Orders == [id: Nat, side: Side, type: {"LIMIT", "MARKET"}, agent: Agents \cup {"WHALE"}]
Messages == {New(o) : o \in Orders} \cup {Cancel(n) : n \in Nat}
Replies == [kind: {"UPDATE"}, version: Nat, usable: BOOLEAN] \cup [kind: {"REJECT"}]

AgentTypes ==
    /\ next_id \in [Agents -> Nat \ {0}]
    /\ active \in [Agents -> SUBSET Orders] /\ \A a \in Agents : IsFiniteSet(active[a])
    /\ inventory = [a \in Agents |-> 0]
    /\ pending \in Seq(Orders) /\ \A k \in DOMAIN pending : pending[k].agent = "HUMAN"
    /\ to_cancel \in SUBSET Nat /\ IsFiniteSet(to_cancel)

NetTypes ==
    /\ connected \in BOOLEAN
    /\ c2s \in Seq(Messages)
    /\ book \in SUBSET Orders
    /\ lost \in SUBSET Nat /\ IsFiniteSet(lost)
    /\ ~connected => c2s = <<>> /\ book = {}

ReplyTypes ==
    /\ last \in [version: Nat, usable: BOOLEAN]
    /\ s2c \in Seq(Replies)
    /\ version \in Nat
    /\ incoming \in Seq(Clicks)

\* Types, an inventory that stays 0 because no FILL is sent, and no traffic
\* without a connection.
Types == AgentTypes /\ NetTypes /\ ReplyTypes

-----------------------------------------------------------------------------
(* Messages, ids and the places in a sequence. *)

\* What the two kinds of messages of TcpClient carry.
LEMMA MessageIs ==
    ASSUME NEW m \in Messages
    PROVE  /\ m.kind \in {"NEW", "CANCEL"} /\ m.id \in Nat
           /\ m.kind = "NEW" => m.order \in Orders /\ m = New(m.order)
           /\ m.kind = "CANCEL" => m = Cancel(m.id)
<1>1. CASE \E o \in Orders : m = New(o)
  BY <1>1 DEF New, Orders
<1>2. CASE \E n \in Nat : m = Cancel(n)
  BY <1>2 DEF Cancel
<1> QED BY <1>1, <1>2 DEF Messages

\* The blocks of ids are numbers.
LEMMA OffsetIsNat == \A a \in Agents : Offset(a) \in Nat
<1> SUFFICES ASSUME NEW a \in Agents PROVE Offset(a) \in Nat
  OBVIOUS
<1>1. a \in {"MM", "NOISE", "INFORMED", "MOMENTUM", "ARB", "HUMAN"}
  BY OrderAssumption DEF Agents
<1>2. IdBlock \in Nat
  BY SimulatorAssumption
<1> QED BY <1>1, <1>2 DEF Offset

\* With an empty batch of fills on_fill is not called.
LEMMA NoFills ==
    ASSUME NEW s, Places(s, "FILL") = {}
    PROVE  AfterFills(s) = [inventory |-> inventory, active |-> active]
<1> DEFINE base == [inventory |-> inventory, active |-> active]
           iter == CHOOSE g : g = [t \in SUBSET {} |-> IF t = {} THEN base
                                     ELSE LET x == Max(t) IN OnFill(s[x], g[t \ {x}])]
<1>1. AfterFills(s) = iter[{}]
  BY DEF AfterFills, MapThenFoldSet
<1>2. \E g : g = [t \in SUBSET {} |-> IF t = {} THEN base
                     ELSE LET x == Max(t) IN OnFill(s[x], g[t \ {x}])]
  <2> DEFINE h == [t \in SUBSET {} |-> base]
  <2>1. h = [t \in SUBSET {} |-> IF t = {} THEN base
                ELSE LET x == Max(t) IN OnFill(s[x], h[t \ {x}])]
    OBVIOUS
  <2> QED BY <2>1
<1>3. iter = [t \in SUBSET {} |-> IF t = {} THEN base
                ELSE LET x == Max(t) IN OnFill(s[x], iter[t \ {x}])]
  BY <1>2
<1> QED BY <1>1, <1>3

-----------------------------------------------------------------------------
(***************************************************************************)
(* Sending.  Whatever fails, what is appended to c2s has the cancels before *)
(* the orders, the orders in the order of the list and none of them twice,  *)
(* and a cancel that is not there is in lost.                               *)
(***************************************************************************)
Batch(t, g, S, orders) ==
    /\ t \in Seq(Messages)
    /\ \A x \in S : x \in lost' \/ \E j \in Places(t, "CANCEL") : t[j].id = x
    /\ \A i \in Places(t, "NEW") : g[i] \in DOMAIN orders /\ t[i] = New(orders[g[i]])
    /\ \A i, j \in Places(t, "NEW") : i < j => g[i] < g[j]
    /\ \A i \in Places(t, "NEW"), j \in Places(t, "CANCEL") : j < i

Sends(S, orders) ==
    /\ lost \subseteq lost' /\ lost' \in SUBSET Nat /\ IsFiniteSet(lost')
    /\ ~connected => UNCHANGED <<c2s, lost>>
    /\ connected => \E t, g : c2s' = c2s \o t /\ Batch(t, g, S, orders)

\* The values of a function on a finite set are finitely many.
LEMMA FiniteImage ==
    ASSUME NEW X, IsFiniteSet(X), NEW h
    PROVE  IsFiniteSet({h[i] : i \in X})
<1> DEFINE T == {h[i] : i \in X}
           f == [i \in X |-> h[i]]
<1>1. f \in Surjection(X, T)
  BY DEF Surjection
<1> HIDE DEF T, f
<1>2. IsFiniteSet(T)
  BY <1>1, FS_Surjection
<1> QED BY <1>2 DEF T

\* A function on 1..n is a sequence of length n.
LEMMA LenIs ==
    ASSUME NEW S, NEW n \in Nat, NEW s \in [1..n -> S]
    PROVE  s \in Seq(S) /\ Len(s) = n /\ DOMAIN s = 1..n
<1>1. s \in Seq(S)
  OBVIOUS
<1>2. DOMAIN s = 1..Len(s) /\ Len(s) \in Nat
  BY <1>1, LenProperties
<1>3. n \in 1..n <=> n \in 1..Len(s)
  BY <1>2
<1>4. Len(s) \in 1..n <=> Len(s) \in 1..Len(s)
  BY <1>2
<1>5. n <= Len(s)
  BY <1>2, <1>3
<1>6. Len(s) <= n
  BY <1>2, <1>4
<1> QED BY <1>1, <1>2, <1>5, <1>6

\* The messages of one list, by their places.
LEMMA Appended ==
    ASSUME NEW c \in Nat, NEW ids \in [1..c -> Nat], NEW orders \in Seq(Orders)
    PROVE  LET s == Each(Cancel, ids) \o Each(New, orders) IN
           /\ s \in Seq(Messages)
           /\ DOMAIN s = 1..(c + Len(orders))
           /\ \A i \in DOMAIN s : s[i] = IF i <= c THEN Cancel(ids[i])
                                                  ELSE New(orders[i - c])
<1> DEFINE A == [i \in 1..c |-> Cancel(ids[i])]
           B == [i \in 1..Len(orders) |-> New(orders[i])]
<1>1. Len(orders) \in Nat /\ DOMAIN orders = 1..Len(orders)
      /\ \A i \in 1..Len(orders) : orders[i] \in Orders
  BY LenProperties, ElementOfSeq
<1>2. A \in [1..c -> Messages]
  BY DEF Messages
<1>3. B \in [1..Len(orders) -> Messages]
  BY <1>1 DEF Messages
<1>4. A \in Seq(Messages) /\ Len(A) = c
  <2> HIDE DEF A
  <2> QED BY <1>2, LenIs
<1>5. B \in Seq(Messages) /\ Len(B) = Len(orders)
  <2> HIDE DEF B
  <2> QED BY <1>1, <1>3, LenIs
<1>6. Each(Cancel, ids) = A /\ Each(New, orders) = B
  BY <1>1 DEF Each
<1>7. \A i \in 1..c : A[i] = Cancel(ids[i])
  OBVIOUS
<1>8. \A i \in 1..Len(orders) : B[i] = New(orders[i])
  OBVIOUS
<1> HIDE DEF A, B
<1>9. /\ A \o B \in Seq(Messages)
      /\ Len(A \o B) = Len(A) + Len(B)
      /\ \A i \in 1..(Len(A) + Len(B)) :
            (A \o B)[i] = IF i <= Len(A) THEN A[i] ELSE B[i - Len(A)]
  BY <1>4, <1>5, ConcatProperties
<1>10. DOMAIN (A \o B) = 1..(c + Len(orders))
  BY <1>4, <1>5, <1>9, LenProperties
<1>11. ASSUME NEW i \in 1..(c + Len(orders))
       PROVE  (A \o B)[i] = IF i <= c THEN Cancel(ids[i]) ELSE New(orders[i - c])
  <2>1. CASE i <= c
    BY <1>1, <1>4, <1>5, <1>7, <1>9, <2>1
  <2>2. CASE i > c
    <3>1. i - c \in 1..Len(orders)
      BY <1>1, <2>2
    <3>2. i \in 1..(Len(A) + Len(B)) /\ ~ i <= Len(A)
      BY <1>1, <1>4, <1>5, <2>2
    <3>3. (A \o B)[i] = B[i - c]
      BY <1>4, <1>9, <3>2
    <3> QED BY <1>8, <2>2, <3>1, <3>3
  <2>3. i <= c \/ i > c
    BY <1>1
  <2> QED BY <2>1, <2>2, <2>3
<1> QED BY <1>6, <1>9, <1>10, <1>11

LEMMA SubmitIs ==
    ASSUME NetTypes, NEW S \in SUBSET Nat, IsFiniteSet(S), NEW ids \in Listings(S),
           NEW orders \in Seq(Orders), Submit(ids, orders)
    PROVE  Sends(S, orders)
<1> DEFINE c == Cardinality(S)
           s == Each(Cancel, ids) \o Each(New, orders)
<1>1. c \in Nat /\ ids \in [1..c -> Nat] /\ ToSet(ids) = S /\ Len(orders) \in Nat
  BY FS_CardinalityType, LenProperties DEF Listings
<1>2. /\ s \in Seq(Messages)
      /\ DOMAIN s = 1..(c + Len(orders))
      /\ \A i \in DOMAIN s : s[i] = IF i <= c THEN Cancel(ids[i]) ELSE New(orders[i - c])
  BY <1>1, Appended
<1>3. Send(s)
  BY DEF Submit
<1>4. \A i \in DOMAIN s : s[i] \in Messages
  BY <1>2, LenProperties, ElementOfSeq
<1>5. DOMAIN orders = 1..Len(orders)
  BY LenProperties
<1> HIDE DEF s
<1>6. CASE ~connected
  BY <1>3, <1>6 DEF Send, Sends, NetTypes, netVars
<1>7. CASE connected
  <2>1. PICK bad \in SUBSET DOMAIN s :
            /\ \E sent \in Listings(DOMAIN s \ bad) : c2s' = c2s \o Each(LAMBDA i : s[i], sent)
            /\ lost' = lost \cup {s[i].id : i \in bad \cap Places(s, "CANCEL")}
    BY <1>3, <1>7 DEF Send
  <2>2. PICK sent \in Listings(DOMAIN s \ bad) : c2s' = c2s \o Each(LAMBDA i : s[i], sent)
    BY <2>1
  <2> DEFINE n == Cardinality(DOMAIN s \ bad)
             t == [k \in 1..n |-> s[sent[k]]]
             g == [k \in 1..n |-> sent[k] - c]
  <2>3. IsFiniteSet(DOMAIN s) /\ n \in Nat
    <3>1. IsFiniteSet(DOMAIN s)
      BY <1>1, <1>2, FS_Interval
    <3>2. IsFiniteSet(DOMAIN s \ bad)
      BY <3>1, FS_Subset
    <3> QED BY <3>1, <3>2, FS_CardinalityType
  <2>4. /\ sent \in [1..n -> DOMAIN s \ bad]
        /\ \A i \in DOMAIN s \ bad : \E k \in 1..n : sent[k] = i
        /\ \A i, j \in 1..n : i < j => sent[i] < sent[j]
    <3>1. /\ sent \in [1..n -> DOMAIN s \ bad] /\ ToSet(sent) = DOMAIN s \ bad
          /\ \A i, j \in DOMAIN sent : i < j => sent[i] < sent[j]
      BY DEF Listings
    <3> HIDE DEF n
    <3> QED BY <3>1 DEF ToSet
  <2>5. c2s' = c2s \o t
    <3>1. DOMAIN sent = 1..n
      BY <2>4
    <3> QED BY <2>2, <3>1 DEF Each
  <2>6. t \in Seq(Messages) /\ DOMAIN t = 1..n
    <3> HIDE DEF n
    <3>1. t \in [1..n -> Messages]
      BY <1>4, <2>4
    <3> QED BY <2>3, <3>1
  <2>7. /\ \A k \in 1..n : t[k] = s[sent[k]] /\ g[k] = sent[k] - c
        /\ \A k \in 1..n : sent[k] \in 1..(c + Len(orders))
    <3> HIDE DEF n, c
    <3> QED BY <1>2, <2>4
  <2> HIDE DEF n, t, g, c
  <2>8. \A k \in Places(t, "CANCEL") : k \in 1..n /\ sent[k] <= c
    <3> SUFFICES ASSUME NEW k \in Places(t, "CANCEL"), ~ sent[k] <= c PROVE FALSE
      BY <2>6 DEF Places
    <3>1. k \in 1..n /\ t[k].kind = "CANCEL"
      BY <2>6 DEF Places
    <3>2. t[k] = New(orders[sent[k] - c])
      BY <1>1, <1>2, <2>7, <3>1
    <3> QED BY <3>1, <3>2 DEF New
  <2>9. \A k \in Places(t, "NEW") : /\ k \in 1..n /\ sent[k] > c
                                    /\ g[k] \in 1..Len(orders) /\ t[k] = New(orders[g[k]])
    <3> SUFFICES ASSUME NEW k \in Places(t, "NEW")
                 PROVE  /\ k \in 1..n /\ sent[k] > c
                        /\ g[k] \in 1..Len(orders) /\ t[k] = New(orders[g[k]])
      OBVIOUS
    <3>1. k \in 1..n /\ t[k].kind = "NEW"
      BY <2>6 DEF Places
    <3>2. sent[k] \in 1..(c + Len(orders)) /\ t[k] = s[sent[k]] /\ g[k] = sent[k] - c
      BY <2>7, <3>1
    <3>3. sent[k] > c
      <4> SUFFICES ASSUME sent[k] <= c PROVE FALSE
        BY <1>1, <3>2
      <4>1. t[k] = Cancel(ids[sent[k]])
        BY <1>2, <3>2
      <4> QED BY <3>1, <4>1 DEF Cancel
    <3> QED BY <1>1, <1>2, <3>1, <3>2, <3>3
  <2>10. ASSUME NEW x \in S
         PROVE  x \in lost' \/ \E j \in Places(t, "CANCEL") : t[j].id = x
    <3>1. PICK i \in 1..c : ids[i] = x
      BY <1>1 DEF ToSet
    <3>2. i \in DOMAIN s /\ s[i] = Cancel(x)
      <4>1. i \in 1..(c + Len(orders)) /\ i <= c
        BY <1>1
      <4>2. i \in DOMAIN s
        BY <1>2, <4>1
      <4>3. s[i] = Cancel(ids[i])
        BY <1>2, <4>1, <4>2
      <4> QED
        BY <3>1, <4>2, <4>3
    <3>3. CASE i \in bad
      BY <2>1, <3>2, <3>3 DEF Places, Cancel
    <3>4. CASE i \notin bad
      <4>1. PICK k \in 1..n : sent[k] = i
        BY <2>4, <3>2, <3>4
      <4>2. t[k] = Cancel(x)
        BY <2>7, <3>2, <4>1
      <4> QED BY <2>6, <4>2 DEF Places, Cancel
    <3> QED BY <3>3, <3>4
  <2>11. ASSUME NEW i \in Places(t, "NEW"), NEW j \in Places(t, "NEW"), i < j
         PROVE  g[i] < g[j]
    <3>1. i \in 1..n /\ j \in 1..n
      BY <2>9
    <3>2. sent[i] \in Int /\ sent[j] \in Int /\ sent[i] < sent[j]
      BY <1>1, <2>4, <2>7, <2>11, <3>1
    <3> QED BY <1>1, <2>7, <3>1, <3>2
  <2>12. ASSUME NEW i \in Places(t, "NEW"), NEW j \in Places(t, "CANCEL")
         PROVE  j < i
    <3>1. i \in 1..n /\ j \in 1..n /\ sent[j] <= c /\ sent[i] > c
      BY <2>8, <2>9
    <3>2. sent[i] \in Int /\ sent[j] \in Int
      BY <1>1, <2>7, <3>1
    <3>3. i # j /\ ~ i < j
      BY <1>1, <2>4, <3>1, <3>2
    <3> QED BY <2>3, <3>1, <3>3
  <2>13. Batch(t, g, S, orders)
    BY <1>5, <2>6, <2>9, <2>10, <2>11, <2>12 DEF Batch
  <2>14. /\ lost \subseteq lost' /\ lost' \in SUBSET Nat /\ IsFiniteSet(lost')
    <3> DEFINE D == {s[i].id : i \in bad \cap Places(s, "CANCEL")}
    <3>1. D \subseteq Nat
      BY <1>4, MessageIs DEF Places
    <3>2. IsFiniteSet(bad \cap Places(s, "CANCEL"))
      <4>1. bad \cap Places(s, "CANCEL") \in SUBSET DOMAIN s
        OBVIOUS
      <4> QED BY <2>3, <4>1, FS_Subset
    <3>3. IsFiniteSet(D)
      <4> DEFINE X == bad \cap Places(s, "CANCEL")
                 h == [i \in X |-> s[i].id]
      <4>1. IsFiniteSet({h[i] : i \in X})
        <5> HIDE DEF h, X
        <5> QED BY <3>2, FiniteImage DEF X
      <4> QED BY <4>1
    <3> HIDE DEF D
    <3>4. IsFiniteSet(lost \cup D)
      BY <3>3, FS_Union DEF NetTypes
    <3> QED BY <2>1, <3>1, <3>4 DEF NetTypes, D
  <2> QED BY <1>7, <2>5, <2>13, <2>14 DEF Sends
<1> QED BY <1>6, <1>7

-----------------------------------------------------------------------------
(***************************************************************************)
(* The steps, by what they do to agents, connection and book.              *)
(***************************************************************************)
\* One list, with the cancels of S and the orders, is sent; a is the agent.
Sending(S, orders) ==
    /\ S \in SUBSET Nat /\ orders \in Seq(Orders)
    /\ Sends(S, orders)
    /\ UNCHANGED <<connected, book>>

\* The actions that send.  The last conjuncts say what becomes of the agents.
MakerSends ==
    /\ "MM" \in Agents
    /\ Sending(IdsOf(active["MM"]), Quotes)
    /\ Track("MM", {}, Quotes)
    /\ UNCHANGED <<inventory, pending, to_cancel>>

TraderSends ==
    \E a \in Agents \ {"MM", "HUMAN"}, s \in Side, ty \in {"LIMIT", "MARKET"} :
        LET o == AgentOrder(a, 0, s, ty) IN
        /\ Sending({}, <<o>>)
        /\ Track(a, active[a], <<o>>)
        /\ UNCHANGED <<inventory, pending, to_cancel>>

HumanSends ==
    /\ Sending(to_cancel, pending)
    /\ active' = [active EXCEPT !["HUMAN"] = @ \cup ToSet(pending)]
    /\ pending' = <<>> /\ to_cancel' = {}
    /\ UNCHANGED <<next_id, inventory>>

NothingSent ==
    \E orders \in {<<>>, <<WhaleOrder>>} :
        Sending({}, orders) /\ UNCHANGED <<next_id, active, inventory, pending, to_cancel>>

\* The actions that do not send.
HumanQueues ==
    /\ \E s \in Side, ty \in {"LIMIT", "MARKET"} :
          pending' = Append(pending, AgentOrder("HUMAN", 0, s, ty))
    /\ next_id' = [next_id EXCEPT !["HUMAN"] = @ + 1]
    /\ UNCHANGED <<active, inventory, to_cancel, connected, c2s, book, lost>>

HumanForgets ==
    /\ HumanCancelAll
    /\ UNCHANGED <<connected, c2s, book>>

EngineAdds(o) ==
    /\ book' \subseteq book \cup {o}
    /\ o \in book' \ book => o.id \notin IdsOf(book)

EngineTakes ==
    /\ c2s # <<>> /\ c2s' = Tail(c2s)
    /\ \/ /\ Head(c2s).kind = "NEW" /\ EngineAdds(Head(c2s).order) /\ lost' = lost
       \/ /\ Head(c2s).kind = "CANCEL" /\ lost' = lost
          /\ book' = {o \in book : o.id # Head(c2s).id}
       \/ /\ Head(c2s).kind = "CANCEL" /\ lost' = lost \cup {Head(c2s).id}
          /\ book' = book
    /\ UNCHANGED <<next_id, active, inventory, pending, to_cancel, connected>>

Idle ==
    UNCHANGED <<next_id, active, inventory, pending, to_cancel, connected, c2s, book, lost>>

Step == \/ MakerSends \/ TraderSends \/ HumanSends \/ NothingSent
        \/ HumanQueues \/ HumanForgets \/ EngineTakes \/ Idle

\* The list of nothing.
LEMMA EmptyList == <<>> \in Listings({}) /\ <<>> \in Seq(Orders) /\ IsFiniteSet({})
<1>1. IsFiniteSet({}) /\ Cardinality({}) = 0
  BY FS_EmptySet
<1>2. <<>> \in [1..0 -> {}] /\ ToSet(<<>>) = {}
  BY DEF ToSet
<1> QED BY <1>1, <1>2 DEF Listings

\* What next_order_id and _process_incoming_ws_messages make are orders.
LEMMA OrderIs ==
    /\ \A a \in Agents, k \in Nat, s \in Side, ty \in {"LIMIT", "MARKET"} :
          AgentTypes => AgentOrder(a, k, s, ty) \in Orders
    /\ WhaleOrder \in Orders
<1>1. ASSUME NEW a \in Agents, NEW k \in Nat, NEW s \in Side, NEW ty \in {"LIMIT", "MARKET"},
             AgentTypes
      PROVE  AgentOrder(a, k, s, ty) \in Orders
  <2>1. Offset(a) \in Nat /\ next_id[a] \in Nat
    BY <1>1, OffsetIsNat DEF AgentTypes
  <2> QED BY <2>1 DEF AgentOrder, Orders
<1>2. WhaleOrder \in Orders
  BY SimulatorAssumption DEF WhaleOrder, WhaleId, Orders, Side
<1> QED BY <1>1, <1>2

\* While the inventory is 0 the market maker quotes both sides.
LEMMA QuotesAre ==
    ASSUME AgentTypes, "MM" \in Agents
    PROVE  /\ Quotes \in Seq(Orders) /\ Len(Quotes) = 2 * Levels /\ Levels \in Nat
           /\ DOMAIN Quotes = 1..(2 * Levels)
           /\ \A k \in 1..(2 * Levels) : /\ Quotes[k].agent = "MM"
                                         /\ Quotes[k].id = Offset("MM") + next_id["MM"] + k - 1
<1>1. Levels \in Nat /\ MaxInventory \in Nat \ {0}
  BY SimulatorAssumption
<1>2. inventory["MM"] = 0
  BY DEF AgentTypes
<1>3. QuoteSides = <<"BID">> \o <<"ASK">>
  BY <1>1, <1>2 DEF QuoteSides
<1>4. <<"BID">> \in Seq(Side) /\ <<"ASK">> \in Seq(Side)
      /\ Len(<<"BID">>) = 1 /\ Len(<<"ASK">>) = 1
  BY DEF Side
<1>5. Len(QuoteSides) = 2 /\ QuoteSides[1] \in Side /\ QuoteSides[2] \in Side
  <2> DEFINE u == <<"BID">>
             v == <<"ASK">>
  <2> HIDE DEF u, v
  <2>1. u \o v \in Seq(Side) /\ Len(u \o v) = Len(u) + Len(v)
    BY <1>4, ConcatProperties DEF u, v
  <2>2. Len(u \o v) = 2
    BY <1>4, <2>1 DEF u, v
  <2>3. (u \o v)[1] \in Side /\ (u \o v)[2] \in Side
    BY <2>1, <2>2, ElementOfSeq
  <2> QED BY <1>3, <2>2, <2>3 DEF u, v
<1> DEFINE n == 2 * Levels
<1>6. n \in Nat /\ Levels * Len(QuoteSides) = n
  BY <1>1, <1>5
<1>7. Quotes = [k \in 1..n |-> AgentOrder("MM", k - 1, QuoteSides[1 + ((k - 1) % 2)], "LIMIT")]
  BY <1>5, <1>6 DEF Quotes
<1>8. ASSUME NEW k \in 1..n
      PROVE  /\ AgentOrder("MM", k - 1, QuoteSides[1 + ((k - 1) % 2)], "LIMIT") \in Orders
             /\ Quotes[k].agent = "MM"
             /\ Quotes[k].id = Offset("MM") + next_id["MM"] + k - 1
  <2>1. (k - 1) % 2 \in {0, 1} /\ k - 1 \in Nat
    BY <1>6
  <2>2. QuoteSides[1 + ((k - 1) % 2)] \in Side
    BY <1>5, <2>1
  <2>3. Offset("MM") \in Nat /\ next_id["MM"] \in Nat
    BY OffsetIsNat DEF AgentTypes
  <2> QED BY <1>6, <1>7, <2>1, <2>2, <2>3, OrderIs DEF AgentOrder
<1>9. Quotes \in [1..n -> Orders]
  BY <1>7, <1>8
<1>10. Quotes \in Seq(Orders) /\ Len(Quotes) = n /\ DOMAIN Quotes = 1..n
  <2> HIDE DEF n
  <2> QED BY <1>6, <1>9, LenIs
<1> QED BY <1>1, <1>8, <1>10

\* A trader's orders are pairs of a side and a type.
LEMMA TraderOrdersAre ==
    ASSUME NEW a \in Roster, a # "MM", NEW x \in TraderOrders(a)
    PROVE  x[1] \in Side /\ x[2] \in {"LIMIT", "MARKET"}
<1>1. a \in {"NOISE", "INFORMED", "MOMENTUM", "ARB"}
  BY OrderAssumption
<1>2. TraderOrders(a) \in {NoiseOrders, InformedOrders, MomentumOrders, ArbOrders}
  BY <1>1 DEF TraderOrders
<1>3. \A T \in {NoiseOrders, InformedOrders, MomentumOrders, ArbOrders} :
         T \subseteq Side \X {"LIMIT", "MARKET"}
  BY DEF NoiseOrders, InformedOrders, MomentumOrders, ArbOrders
<1> QED BY <1>2, <1>3

LEMMA ActiveIds ==
    ASSUME AgentTypes, NEW a \in Agents
    PROVE  IdsOf(active[a]) \in SUBSET Nat /\ IsFiniteSet(IdsOf(active[a]))
<1> DEFINE X == active[a]
           h == [o \in X |-> o.id]
<1>1. X \subseteq Orders /\ IsFiniteSet(X)
  BY DEF AgentTypes
<1>2. IdsOf(X) = {h[o] : o \in X}
  BY DEF IdsOf
<1>3. IsFiniteSet({h[o] : o \in X})
  <2> HIDE DEF h, X
  <2> QED BY <1>1, FiniteImage
<1> QED BY <1>1, <1>2, <1>3 DEF IdsOf, Orders

LEMMA SubmitSends ==
    ASSUME NetTypes, NEW S \in SUBSET Nat, IsFiniteSet(S), NEW orders \in Seq(Orders),
           \E ids \in Listings(S) : Submit(ids, orders), UNCHANGED <<connected, book>>
    PROVE  Sending(S, orders)
BY SubmitIs DEF Sending

LEMMA EmptySends ==
    ASSUME NetTypes, NEW orders \in Seq(Orders), Submit(<<>>, orders),
           UNCHANGED <<connected, book>>
    PROVE  Sending({}, orders)
BY EmptyList, SubmitSends

LEMMA OneOrder ==
    ASSUME NEW o \in Orders
    PROVE  /\ <<o>> \in Seq(Orders) /\ Len(<<o>>) = 1 /\ DOMAIN <<o>> = {1} /\ <<o>>[1] = o
           /\ ToSet(<<o>>) = {o}
<1>1. DOMAIN <<o>> = {1} /\ <<o>>[1] = o /\ <<o>> \in Seq(Orders) /\ Len(<<o>>) = 1
  OBVIOUS
<1> QED BY <1>1 DEF ToSet

LEMMA AgentActionIs ==
    ASSUME Types, NEW a \in Roster, AgentAction(a)
    PROVE  MakerSends \/ TraderSends \/ NothingSent
<1> USE DEF Types
<1>1. a \in Agents /\ UNCHANGED <<connected, book>>
  BY DEF AgentAction, Agents, engineVars
<1>2. CASE a = "MM" /\ ~last.usable
  <2>1. Submit(<<>>, <<>>) /\ UNCHANGED agentVars
    BY <1>2 DEF AgentAction, MarketMakerAction
  <2>2. Sending({}, <<>>)
    BY <1>1, <2>1, EmptySends, EmptyList
  <2> QED BY <2>1, <2>2 DEF NothingSent, agentVars
<1>3. CASE a = "MM" /\ last.usable
  <2>1. /\ \E ids \in Listings(IdsOf(active["MM"])) : Submit(ids, Quotes)
        /\ Track("MM", {}, Quotes)
        /\ UNCHANGED <<inventory, pending, to_cancel, has_book>>
    BY <1>3 DEF AgentAction, MarketMakerAction
  <2>2. Sending(IdsOf(active["MM"]), Quotes)
    BY <1>1, <1>3, <2>1, ActiveIds, QuotesAre, SubmitSends
  <2> QED BY <1>1, <1>3, <2>1, <2>2 DEF MakerSends
<1>4. CASE a # "MM"
  <2>1. TraderAction(a)
    BY <1>4 DEF AgentAction
  <2>2. UNCHANGED <<inventory, pending, to_cancel>>
    BY <2>1 DEF TraderAction
  <2>3. CASE Submit(<<>>, <<>>) /\ UNCHANGED <<next_id, active>>
    <3>1. Sending({}, <<>>)
      BY <1>1, <2>3, EmptySends, EmptyList
    <3> QED BY <2>2, <2>3, <3>1 DEF NothingSent
  <2>4. ASSUME NEW x \in TraderOrders(a), Submit(<<>>, <<AgentOrder(a, 0, x[1], x[2])>>),
               Track(a, active[a], <<AgentOrder(a, 0, x[1], x[2])>>)
        PROVE  TraderSends
    <3>1. x[1] \in Side /\ x[2] \in {"LIMIT", "MARKET"}
      BY <1>4, TraderOrdersAre
    <3>2. AgentOrder(a, 0, x[1], x[2]) \in Orders
      BY <1>1, <3>1, OrderIs
    <3>3. Sending({}, <<AgentOrder(a, 0, x[1], x[2])>>)
      BY <1>1, <2>4, <3>2, OneOrder, EmptySends
    <3>4. a \in Agents \ {"MM", "HUMAN"}
      BY <1>1, <1>4, OrderAssumption
    <3> QED BY <2>2, <2>4, <3>1, <3>3, <3>4 DEF TraderSends
  <2> QED BY <2>1, <2>3, <2>4 DEF TraderAction
<1> QED BY <1>2, <1>3, <1>4

LEMMA ClickIs ==
    ASSUME Types, ProcessClick
    PROVE  NothingSent \/ HumanQueues \/ HumanForgets \/ Idle
<1> USE DEF Types
<1>1. UNCHANGED <<connected, book>> /\ Head(incoming).side \in Side
  <2>1. incoming # <<>> /\ incoming \in Seq(Clicks)
    BY DEF ProcessClick, ReplyTypes
  <2>2. Head(incoming) \in Clicks
    BY <2>1, HeadTailProperties
  <2> QED BY <2>2 DEF ProcessClick, Clicks, Side, simVars, engineVars
<1>2. ASSUME NEW s \in Side, NEW ty \in {"LIMIT", "MARKET"}, HumanOrder(s, ty)
      PROVE  HumanQueues
  BY <1>1, <1>2 DEF HumanOrder, HumanQueues, netVars
<1>3. ASSUME WhaleBuy PROVE NothingSent
  <2>1. WhaleOrder \in Orders
    BY OrderIs
  <2>2. Each(Cancel, <<>>) \o Each(New, <<WhaleOrder>>) = <<New(WhaleOrder)>>
    <3>1. Each(Cancel, <<>>) = <<>>
      BY DEF Each
    <3>2. Each(New, <<WhaleOrder>>) = <<New(WhaleOrder)>>
      BY DEF Each
    <3> DEFINE u == <<New(WhaleOrder)>>
    <3>3. u \in Seq(Messages)
      BY <2>1 DEF Messages
    <3> HIDE DEF u
    <3>4. <<>> \o u = u
      BY <3>3, ConcatEmptySeq
    <3> QED BY <3>1, <3>2, <3>4 DEF u
  <2>3. Submit(<<>>, <<WhaleOrder>>) /\ UNCHANGED agentVars
    BY <1>3, <2>2 DEF WhaleBuy, Submit
  <2>4. Sending({}, <<WhaleOrder>>)
    BY <1>1, <2>1, <2>3, OneOrder, EmptySends
  <2> QED BY <2>3, <2>4 DEF NothingSent, agentVars
<1>4. ASSUME HumanCancelAll PROVE HumanForgets
  BY <1>1, <1>4 DEF HumanCancelAll, HumanForgets, netVars
<1>5. ASSUME UNCHANGED <<agentVars, netVars>> PROVE Idle
  BY <1>1, <1>5 DEF Idle, agentVars, netVars
<1> QED BY <1>1, <1>2, <1>3, <1>4, <1>5 DEF ProcessClick, HumanLimit

LEMMA HumanActionIs ==
    ASSUME Types, HumanAction
    PROVE  HumanSends
<1>1. Sending(to_cancel, pending)
  BY SubmitSends DEF HumanAction, HumanSubmits, engineVars, Types, AgentTypes
<1> QED BY <1>1 DEF HumanAction, HumanSubmits, HumanSends

LEMMA ReceiveIs ==
    ASSUME Types, Receive
    PROVE  /\ Idle
           /\ \E n \in 0..Len(s2c) : /\ s2c' = SubSeq(s2c, n + 1, Len(s2c))
                                     /\ last' = NewestOf(SubSeq(s2c, 1, n))
           /\ UNCHANGED <<version, incoming>>
<1>1. s2c \in Seq(Replies) /\ Len(s2c) \in Nat /\ RecvMax \in Nat
  BY SimulatorAssumption, LenProperties DEF Types, ReplyTypes
<1>2. PICK n \in 0..(IF Len(s2c) < RecvMax THEN Len(s2c) ELSE RecvMax) :
          /\ s2c' = SubSeq(s2c, n + 1, Len(s2c))
          /\ last' = NewestOf(SubSeq(s2c, 1, n))
          /\ inventory' = AfterFills(SubSeq(s2c, 1, n)).inventory
          /\ active' = AfterFills(SubSeq(s2c, 1, n)).active
  BY DEF Receive
<1>3. n \in 0..Len(s2c)
  BY <1>1
<1>4. Places(SubSeq(s2c, 1, n), "FILL") = {}
  <2> DEFINE got == SubSeq(s2c, 1, n)
  <2>1. \A i \in 1..n : s2c[i] \in Replies
    BY <1>1, <1>3, ElementOfSeq
  <2>2. got \in Seq(Replies)
    BY <1>3, <2>1, SubSeqProperties
  <2> HIDE DEF got
  <2>3. \A i \in DOMAIN got : got[i] \in Replies
    BY <2>2, LenProperties, ElementOfSeq
  <2>4. \A m \in Replies : m.kind # "FILL"
    BY DEF Replies
  <2> QED BY <2>3, <2>4 DEF Places, got
<1>5. AfterFills(SubSeq(s2c, 1, n)) = [inventory |-> inventory, active |-> active]
  BY <1>4, NoFills
<1>6. inventory' = inventory /\ active' = active
  BY <1>2, <1>5
<1> QED BY <1>2, <1>3, <1>6 DEF Receive, Idle, engineVars, netVars, uiVars

LEMMA EngineIs ==
    ASSUME EngineStep
    PROVE  EngineTakes
<1>1. /\ UNCHANGED <<next_id, active, inventory, pending, to_cancel, connected, lost>>
      /\ c2s # <<>> /\ c2s' = Tail(c2s)
  BY DEF EngineStep, simVars, agentVars
<1>2. ASSUME NEW o, EngineNew(o) PROVE EngineAdds(o)
  <2>1. CASE EngineRefuses(o)
    BY <2>1 DEF EngineRefuses, EngineAdds
  <2>2. CASE ~Has(o.id) /\ EngineRests(o)
    BY <2>2 DEF EngineRests, EngineAdds, Has
  <2>3. CASE ~Has(o.id) /\ EngineTrades(o)
    <3>1. PICK makers \in SUBSET Against(o), stays \in SUBSET {x \in {o} : x.type = "MARKET"} :
             book' = (book \ (makers \cup Met(o))) \cup stays
      BY <2>3 DEF EngineTrades
    <3> QED BY <2>3, <3>1 DEF EngineAdds, Has
  <2> QED BY <1>2, <2>1, <2>2, <2>3 DEF EngineNew
<1>3. ASSUME NEW id, EngineCancel(id) PROVE book' = {o \in book : o.id # id}
  BY <1>3 DEF EngineCancel
<1> QED BY <1>1, <1>2, <1>3 DEF EngineStep, EngineTakes

LEMMA DropIs ==
    ASSUME Types, ServerDrops
    PROVE  EngineTakes
<1>1. /\ UNCHANGED <<next_id, active, inventory, pending, to_cancel, connected, book>>
      /\ c2s # <<>> /\ c2s' = Tail(c2s)
      /\ lost' = lost \cup {m.id : m \in {x \in {Head(c2s)} : x.kind = "CANCEL"}}
  BY DEF ServerDrops, simVars, agentVars, engineVars
<1>2. Head(c2s) \in Messages
  BY <1>1, HeadTailProperties DEF Types, NetTypes
<1>3. CASE Head(c2s).kind = "NEW"
  <2>1. lost' = lost
    BY <1>1, <1>3
  <2>2. EngineAdds(Head(c2s).order)
    BY <1>1 DEF EngineAdds
  <2> QED BY <1>1, <1>3, <2>1, <2>2 DEF EngineTakes
<1>4. CASE Head(c2s).kind = "CANCEL"
  <2>1. lost' = lost \cup {Head(c2s).id}
    BY <1>1, <1>4
  <2> QED BY <1>1, <1>4, <2>1 DEF EngineTakes
<1> QED BY <1>2, <1>3, <1>4, MessageIs

LEMMA StepIs ==
    ASSUME Types, [Next]_vars
    PROVE  Step
<1>1. CASE ProcessClick
  BY <1>1, ClickIs DEF Step
<1>2. CASE MidpriceMove
  BY <1>2 DEF MidpriceMove, Step, Idle, agentVars, engineVars, netVars
<1>3. CASE HumanAction
  BY <1>3, HumanActionIs DEF Step
<1>4. CASE Receive
  BY <1>4, ReceiveIs DEF Step
<1>5. CASE \E a \in Roster : AgentAction(a)
  BY <1>5, AgentActionIs DEF Step
<1>6. CASE EngineStep
  BY <1>6, EngineIs DEF Step
<1>7. CASE Click
  BY <1>7 DEF Click, Step, Idle, simVars, agentVars, engineVars, netVars
<1>8. CASE Stop
  BY <1>8 DEF Stop, Step, Idle, agentVars, engineVars, netVars
<1>9. CASE UNCHANGED vars
  BY <1>9 DEF vars, Step, Idle, simVars, agentVars, engineVars, netVars
<1>10. CASE ServerDrops
  BY <1>10, DropIs DEF Step
<1> QED BY <1>1, <1>2, <1>3, <1>4, <1>5, <1>6, <1>7, <1>8, <1>9, <1>10 DEF Next, SimStep

-----------------------------------------------------------------------------
(* Types. *)

LEMMA InitTypes == Init => Types
<1> SUFFICES ASSUME Init PROVE Types
  OBVIOUS
<1>1. IsFiniteSet({})
  BY FS_EmptySet
<1>2. AgentTypes
  BY <1>1 DEF Init, AgentTypes
<1>3. NetTypes
  BY <1>1 DEF Init, NetTypes
<1>4. ReplyTypes
  BY DEF Init, ReplyTypes
<1> QED BY <1>2, <1>3, <1>4 DEF Types

\* The orders of a list are finitely many.
LEMMA FiniteList ==
    ASSUME NEW s \in Seq(Orders)
    PROVE  ToSet(s) \in SUBSET Orders /\ IsFiniteSet(ToSet(s))
<1>1. Len(s) \in Nat /\ DOMAIN s = 1..Len(s) /\ \A i \in 1..Len(s) : s[i] \in Orders
  BY LenProperties, ElementOfSeq
<1>2. IsFiniteSet(DOMAIN s)
  BY <1>1, FS_Interval
<1>3. IsFiniteSet({s[i] : i \in DOMAIN s})
  BY <1>2, FiniteImage
<1> QED BY <1>1, <1>3 DEF ToSet

LEMMA AgentTypesStep == Types /\ Step => AgentTypes'
<1> SUFFICES ASSUME Types, Step PROVE AgentTypes'
  OBVIOUS
<1> USE DEF Types
<1>1. CASE UNCHANGED <<next_id, active, inventory, pending, to_cancel>>
  BY <1>1 DEF AgentTypes
<1>2. ASSUME NEW a \in Agents, NEW kept \in SUBSET active[a], NEW s \in Seq(Orders),
             Track(a, kept, s), UNCHANGED <<inventory, pending, to_cancel>>
      PROVE  AgentTypes'
  <2>1. ToSet(s) \in SUBSET Orders /\ IsFiniteSet(ToSet(s)) /\ Len(s) \in Nat
    BY FiniteList, LenProperties
  <2>2. kept \in SUBSET Orders /\ IsFiniteSet(kept)
    BY FS_Subset DEF AgentTypes
  <2>3. IsFiniteSet(kept \cup ToSet(s))
    BY <2>1, <2>2, FS_Union
  <2>4. active' \in [Agents -> SUBSET Orders] /\ \A b \in Agents : IsFiniteSet(active'[b])
    BY <1>2, <2>1, <2>2, <2>3 DEF AgentTypes, Track
  <2>5. next_id' \in [Agents -> Nat \ {0}]
    BY <1>2, <2>1 DEF AgentTypes, Track
  <2> QED BY <1>2, <2>4, <2>5 DEF AgentTypes
<1>3. CASE MakerSends
  <2>1. {} \in SUBSET active["MM"]
    OBVIOUS
  <2>2. "MM" \in Agents /\ Quotes \in Seq(Orders) /\ Track("MM", {}, Quotes)
        /\ UNCHANGED <<inventory, pending, to_cancel>>
    BY <1>3 DEF MakerSends, Sending
  <2> QED BY <1>2, <2>1, <2>2
<1>4. CASE TraderSends
  <2>1. PICK a \in Agents \ {"MM", "HUMAN"}, s \in Side, ty \in {"LIMIT", "MARKET"} :
             /\ Sending({}, <<AgentOrder(a, 0, s, ty)>>)
             /\ Track(a, active[a], <<AgentOrder(a, 0, s, ty)>>)
             /\ UNCHANGED <<inventory, pending, to_cancel>>
    BY <1>4 DEF TraderSends
  <2>2. active[a] \in SUBSET active[a] /\ <<AgentOrder(a, 0, s, ty)>> \in Seq(Orders)
    BY <2>1 DEF Sending
  <2> QED BY <1>2, <2>1, <2>2
<1>5. CASE HumanSends
  <2>1. "HUMAN" \in Agents
    BY DEF Agents
  <2>2. ToSet(pending) \in SUBSET Orders /\ IsFiniteSet(ToSet(pending))
    BY FiniteList DEF AgentTypes
  <2>3. IsFiniteSet(active["HUMAN"] \cup ToSet(pending))
    BY <2>1, <2>2, FS_Union DEF AgentTypes
  <2>4. active' \in [Agents -> SUBSET Orders] /\ \A b \in Agents : IsFiniteSet(active'[b])
    BY <1>5, <2>1, <2>2, <2>3 DEF AgentTypes, HumanSends
  <2>5. IsFiniteSet({})
    BY FS_EmptySet
  <2>6. pending' \in Seq(Orders) /\ \A k \in DOMAIN pending' : pending'[k].agent = "HUMAN"
    BY <1>5 DEF HumanSends
  <2>7. to_cancel' \in SUBSET Nat /\ IsFiniteSet(to_cancel')
    BY <1>5, <2>5 DEF HumanSends
  <2>8. next_id' = next_id /\ inventory' = inventory
    BY <1>5 DEF HumanSends
  <2> QED BY <2>4, <2>6, <2>7, <2>8 DEF AgentTypes
<1>6. CASE HumanQueues
  <2>1. "HUMAN" \in Agents
    BY DEF Agents
  <2>2. PICK o \in Orders : pending' = Append(pending, o) /\ o.agent = "HUMAN"
    <3>1. PICK s \in Side, ty \in {"LIMIT", "MARKET"} :
              pending' = Append(pending, AgentOrder("HUMAN", 0, s, ty))
      BY <1>6 DEF HumanQueues
    <3>2. AgentOrder("HUMAN", 0, s, ty) \in Orders
      BY <2>1, OrderIs
    <3>3. AgentOrder("HUMAN", 0, s, ty).agent = "HUMAN"
      BY DEF AgentOrder
    <3> QED BY <3>1, <3>2, <3>3
  <2>3. /\ pending' \in Seq(Orders) /\ Len(pending') = Len(pending) + 1
        /\ \A k \in 1..Len(pending) : pending'[k] = pending[k]
        /\ pending'[Len(pending) + 1] = o
    BY <2>2, AppendProperties DEF AgentTypes
  <2>4. DOMAIN pending' = 1..(Len(pending) + 1) /\ Len(pending) \in Nat
        /\ DOMAIN pending = 1..Len(pending)
    BY <2>3, LenProperties DEF AgentTypes
  <2>5. ASSUME NEW k \in DOMAIN pending' PROVE pending'[k].agent = "HUMAN"
    <3>1. CASE k = Len(pending) + 1
      BY <2>2, <2>3, <3>1
    <3>2. CASE k # Len(pending) + 1
      <4>1. k \in 1..Len(pending)
        BY <2>4, <3>2
      <4> QED BY <2>3, <2>4, <4>1 DEF AgentTypes
    <3> QED BY <3>1, <3>2
  <2>6. next_id' \in [Agents -> Nat \ {0}]
    BY <1>6, <2>1 DEF AgentTypes, HumanQueues
  <2> QED BY <1>6, <2>3, <2>5, <2>6 DEF AgentTypes, HumanQueues
<1>7. CASE HumanForgets
  <2>1. "HUMAN" \in Agents
    BY DEF Agents
  <2>2. IdsOf(active["HUMAN"]) \in SUBSET Nat /\ IsFiniteSet(IdsOf(active["HUMAN"]))
    BY <2>1, ActiveIds
  <2>3. IsFiniteSet(to_cancel \cup IdsOf(active["HUMAN"]))
    BY <2>2, FS_Union DEF AgentTypes
  <2>4. IsFiniteSet({})
    BY FS_EmptySet
  <2>5. active' \in [Agents -> SUBSET Orders] /\ \A b \in Agents : IsFiniteSet(active'[b])
    BY <1>7, <2>1, <2>4 DEF AgentTypes, HumanForgets, HumanCancelAll
  <2> QED BY <1>7, <2>2, <2>3, <2>5 DEF AgentTypes, HumanForgets, HumanCancelAll
<1> QED BY <1>1, <1>3, <1>4, <1>5, <1>6, <1>7
        DEF Step, NothingSent, EngineTakes, Idle

LEMMA SendingTypes ==
    ASSUME NetTypes, NEW S, NEW orders, Sending(S, orders)
    PROVE  NetTypes'
<1>1. CASE ~connected
  BY <1>1 DEF NetTypes, Sending, Sends
<1>2. CASE connected
  <2>1. PICK t, g : c2s' = c2s \o t /\ t \in Seq(Messages)
    BY <1>2 DEF Sending, Sends, Batch
  <2>2. c2s' \in Seq(Messages)
    BY <2>1, ConcatProperties DEF NetTypes
  <2> QED BY <1>2, <2>2 DEF NetTypes, Sending, Sends
<1> QED BY <1>1, <1>2

LEMMA NetTypesStep == Types /\ Step => NetTypes'
<1> SUFFICES ASSUME Types, Step PROVE NetTypes'
  OBVIOUS
<1> USE DEF Types
<1>1. CASE MakerSends
  BY <1>1, SendingTypes DEF MakerSends
<1>2. CASE TraderSends
  BY <1>2, SendingTypes DEF TraderSends
<1>3. CASE HumanSends
  BY <1>3, SendingTypes DEF HumanSends
<1>4. CASE NothingSent
  BY <1>4, SendingTypes DEF NothingSent
<1>5. CASE HumanQueues \/ HumanForgets \/ Idle
  BY <1>5 DEF HumanQueues, HumanForgets, HumanCancelAll, Idle, NetTypes, netVars
<1>6. CASE EngineTakes
  <2>1. c2s # <<>> /\ c2s' = Tail(c2s) /\ connected' = connected
    BY <1>6 DEF EngineTakes
  <2>2. Head(c2s) \in Messages /\ c2s' \in Seq(Messages)
    BY <2>1, HeadTailProperties DEF NetTypes
  <2>4. lost' \in SUBSET Nat /\ IsFiniteSet(lost')
    <3>1. CASE lost' = lost
      BY <3>1 DEF NetTypes
    <3>2. CASE Head(c2s).kind = "CANCEL" /\ lost' = lost \cup {Head(c2s).id}
      <4>1. Head(c2s).id \in Nat
        BY <2>2, <3>2, MessageIs
      <4>2. IsFiniteSet(lost \cup {Head(c2s).id})
        BY FS_AddElement DEF NetTypes
      <4> QED BY <3>2, <4>1, <4>2 DEF NetTypes
    <3> QED BY <1>6, <3>1, <3>2 DEF EngineTakes
  <2>3. book' \in SUBSET Orders
    <3>1. CASE Head(c2s).kind = "NEW" /\ EngineAdds(Head(c2s).order)
      BY <2>2, <3>1, MessageIs DEF NetTypes, EngineAdds
    <3>2. CASE book' = {o \in book : o.id # Head(c2s).id} \/ book' = book
      BY <3>2 DEF NetTypes
    <3> QED BY <1>6, <3>1, <3>2 DEF EngineTakes
  <2> QED BY <2>1, <2>2, <2>3, <2>4 DEF NetTypes
<1> QED BY <1>1, <1>2, <1>3, <1>4, <1>5, <1>6 DEF Step

-----------------------------------------------------------------------------
(***************************************************************************)
(* Snapshots.                                                              *)
(***************************************************************************)
Update(u) == [kind |-> "UPDATE", version |-> version + 1, usable |-> u]

\* What a step does to the replies: an answer is appended, or some are read.
Answered ==
    /\ UNCHANGED <<last, incoming>>
    /\ \/ \E u \in BOOLEAN : s2c' = Append(s2c, Update(u)) /\ version' = version + 1
       \/ s2c' = Append(s2c, [kind |-> "REJECT"]) /\ UNCHANGED version

Reads ==
    /\ \E n \in 0..Len(s2c) : /\ s2c' = SubSeq(s2c, n + 1, Len(s2c))
                              /\ last' = NewestOf(SubSeq(s2c, 1, n))
    /\ UNCHANGED <<version, incoming>>

Clicked ==
    /\ UNCHANGED <<last, s2c, version>>
    /\ \/ UNCHANGED incoming
       \/ \E m \in Clicks : incoming' = Append(incoming, m)
       \/ incoming # <<>> /\ incoming' = Tail(incoming)

LEMMA AnswerIs ==
    ASSUME NEW ok \in BOOLEAN, Answer(ok), UNCHANGED <<last, incoming>>
    PROVE  Answered
<1>1. \A b, d : Usable(b, d) \subseteq BOOLEAN
  BY DEF Usable
<1>2. CASE ok
  <2>1. PICK u \in Usable(book', done') :
           s2c' = Append(s2c, [kind |-> "UPDATE", version |-> version + 1, usable |-> u])
    BY <1>2 DEF Answer
  <2>2. u \in BOOLEAN
    BY <1>1
  <2> QED BY <1>2, <2>1, <2>2 DEF Answer, Answered, Update
<1>3. CASE ~ok
  BY <1>3 DEF Answer, Answered
<1> QED BY <1>2, <1>3

LEMMA RepliesAre ==
    ASSUME Types, [Next]_vars
    PROVE  Answered \/ Reads \/ Clicked
<1>1. CASE Receive
  BY <1>1, ReceiveIs DEF Reads
<1>2. CASE EngineStep
  <2>1. UNCHANGED <<last, incoming>>
    BY <1>2 DEF EngineStep, uiVars
  <2>2. ASSUME NEW o, EngineNew(o) PROVE \E ok \in BOOLEAN : Answer(ok)
    BY <2>2 DEF EngineNew, EngineRefuses, EngineRests, EngineTrades
  <2>3. ASSUME NEW id, EngineCancel(id) PROVE \E ok \in BOOLEAN : Answer(ok)
    <3>1. Answer(Has(id)) /\ Has(id) \in BOOLEAN
      BY <2>3 DEF EngineCancel, Has
    <3> QED BY <3>1
  <2> QED BY <1>2, <2>1, <2>2, <2>3, AnswerIs DEF EngineStep
<1>3. CASE Click
  BY <1>3 DEF Click, Clicked, engineVars
<1>4. CASE ProcessClick
  BY <1>4 DEF ProcessClick, Clicked, engineVars
<1>5. CASE MidpriceMove \/ HumanAction \/ Stop \/ UNCHANGED vars
  BY <1>5 DEF MidpriceMove, HumanAction, Stop, vars, Clicked, engineVars, uiVars
<1>6. CASE \E a \in Roster : AgentAction(a)
  BY <1>6 DEF AgentAction, Clicked, engineVars, uiVars
<1>7. CASE ServerDrops
  BY <1>7 DEF ServerDrops, Clicked, engineVars, uiVars
<1> QED BY <1>1, <1>2, <1>3, <1>4, <1>5, <1>6, <1>7 DEF Next, SimStep

\* A set of places has a last one.
LEMMA MaxIs ==
    ASSUME NEW n \in Nat, NEW T \in SUBSET (1..n), T # {}
    PROVE  Max(T) \in T /\ \A y \in T : y <= Max(T)
<1> DEFINE U == {n - i : i \in T}
<1>1. U \subseteq Nat /\ U # {}
  <2>1. ASSUME NEW x \in U PROVE x \in Nat
    <3>1. PICK i \in T : x = n - i
      OBVIOUS
    <3>2. i \in 1..n
      OBVIOUS
    <3> QED BY <3>1, <3>2
  <2>2. PICK i \in T : TRUE
    OBVIOUS
  <2>3. n - i \in U
    OBVIOUS
  <2> QED BY <2>1, <2>3
<1>2. \E x \in U : \A y \in U : ~ (<<y, x>> \in OpToRel(<, Nat))
  <2> HIDE DEF U
  <2> QED BY <1>1, WFMin, NatLessThanWellFounded
<1>3. PICK x \in U : \A y \in U : ~ y < x
  BY <1>1, <1>2 DEF OpToRel
<1>4. PICK i \in T : x = n - i
  OBVIOUS
<1>5. \A j \in T : i >= j
  <2> SUFFICES ASSUME NEW j \in T PROVE i >= j
    OBVIOUS
  <2>1. ~ (n - j < n - i)
    BY <1>3, <1>4
  <2>2. i \in Int /\ j \in Int /\ n \in Int
    OBVIOUS
  <2> HIDE DEF U
  <2> QED BY <2>1, <2>2
<1>6. Max(T) \in T /\ \A y \in T : Max(T) >= y
  BY <1>5 DEF Max
<1> QED BY <1>6

\* A batch that is read, and what is left.
LEMMA Parts ==
    ASSUME NEW s \in Seq(Replies), NEW n \in 0..Len(s)
    PROVE  LET got == SubSeq(s, 1, n)
               rest == SubSeq(s, n + 1, Len(s)) IN
           /\ rest \in Seq(Replies) /\ got \in Seq(Replies) /\ Len(s) \in Nat
           /\ DOMAIN s = 1..Len(s) /\ DOMAIN got = 1..n /\ DOMAIN rest = 1..(Len(s) - n)
           /\ \A i \in 1..n : got[i] = s[i]
           /\ \A i \in 1..(Len(s) - n) : rest[i] = s[n + i]
<1> DEFINE got == SubSeq(s, 1, n)
           rest == SubSeq(s, n + 1, Len(s))
<1>1. Len(s) \in Nat /\ DOMAIN s = 1..Len(s) /\ \A i \in 1..Len(s) : s[i] \in Replies
  BY LenProperties, ElementOfSeq
<1>2. /\ got \in Seq(Replies) /\ Len(got) = IF 1 <= n THEN n - 1 + 1 ELSE 0
      /\ \A i \in 1..(n - 1 + 1) : got[i] = s[1 + i - 1]
  <2>1. 1 \in Int /\ n \in Int /\ \A i \in 1..n : s[i] \in Replies
    BY <1>1
  <2> QED BY ONLY <2>1, SubSeqProperties
<1>3. /\ rest \in Seq(Replies)
      /\ Len(rest) = IF n + 1 <= Len(s) THEN Len(s) - (n + 1) + 1 ELSE 0
      /\ \A i \in 1..(Len(s) - (n + 1) + 1) : rest[i] = s[(n + 1) + i - 1]
  <2>1. n + 1 \in Int /\ Len(s) \in Int /\ \A i \in (n + 1)..Len(s) : s[i] \in Replies
    BY <1>1
  <2> QED BY ONLY <2>1, SubSeqProperties
<1> HIDE DEF got, rest
<1>4. Len(got) = n /\ Len(rest) = Len(s) - n
  <2>1. Len(got) = n
    BY <1>2
  <2>2. CASE n = Len(s)
    BY <1>1, <1>3, <2>1, <2>2
  <2>3. CASE n # Len(s)
    <3>1. n \in Int /\ Len(s) \in Int /\ n <= Len(s)
      BY <1>1
    <3>2. n + 1 <= Len(s)
      BY <2>3, <3>1
    <3> QED BY <1>3, <2>1, <3>1, <3>2
  <2> QED BY <2>2, <2>3
<1>5. DOMAIN got = 1..n /\ DOMAIN rest = 1..(Len(s) - n)
  BY <1>2, <1>3, <1>4, LenProperties
<1>6. \A i \in 1..n : got[i] = s[i]
  BY <1>2
<1>7. ASSUME NEW i \in 1..(Len(s) - n) PROVE rest[i] = s[n + i]
  <2>1. i \in 1..(Len(s) - (n + 1) + 1) /\ (n + 1) + i - 1 = n + i
    BY <1>1
  <2>2. rest[i] = s[(n + 1) + i - 1]
    BY <1>3, <2>1
  <2> QED BY <2>1, <2>2
<1> QED BY <1>1, <1>2, <1>3, <1>5, <1>6, <1>7 DEF got, rest

LEMMA ReplyTypesStep == Types /\ [Next]_vars => ReplyTypes'
<1> SUFFICES ASSUME Types, [Next]_vars PROVE ReplyTypes'
  OBVIOUS
<1>1. ReplyTypes
  BY DEF Types
<1>2. CASE Answered
  <2>1. [kind |-> "REJECT"] \in Replies /\ \A u \in BOOLEAN : Update(u) \in Replies
    BY <1>1 DEF Replies, Update, ReplyTypes
  <2>2. s2c' \in Seq(Replies)
    <3>1. \A m \in Replies : Append(s2c, m) \in Seq(Replies)
      BY <1>1, AppendProperties DEF ReplyTypes
    <3> QED BY <1>2, <2>1, <3>1 DEF Answered
  <2> QED BY <1>1, <1>2, <2>2 DEF Answered, ReplyTypes
<1>3. CASE Reads
  <2>1. PICK n \in 0..Len(s2c) : /\ s2c' = SubSeq(s2c, n + 1, Len(s2c))
                                 /\ last' = NewestOf(SubSeq(s2c, 1, n))
    BY <1>3 DEF Reads
  <2> DEFINE got == SubSeq(s2c, 1, n)
             P == Places(got, "UPDATE")
  <2>2. got \in Seq(Replies) /\ DOMAIN got = 1..n /\ s2c' \in Seq(Replies)
    BY <1>1, <2>1, Parts DEF ReplyTypes
  <2> HIDE DEF got
  <2>3. last' = IF P = {} THEN last ELSE Snapshot(got[Max(P)])
    BY <2>1 DEF NewestOf, got
  <2>4. CASE P = {}
    BY <1>1, <1>3, <2>2, <2>3, <2>4 DEF ReplyTypes, Reads
  <2>5. CASE P # {}
    <3>1. P \in SUBSET (1..n) /\ n \in Nat
      BY <1>1, <2>2, LenProperties DEF Places, ReplyTypes
    <3>2. Max(P) \in P
      <4> HIDE DEF P
      <4> QED BY <2>5, <3>1, MaxIs
    <3>3. got[Max(P)] \in Replies /\ got[Max(P)].kind = "UPDATE"
      BY <2>2, <3>2, LenProperties, ElementOfSeq DEF Places
    <3>4. Snapshot(got[Max(P)]) \in [version: Nat, usable: BOOLEAN]
      BY <3>3 DEF Replies, Snapshot
    <3> QED BY <1>1, <1>3, <2>2, <2>3, <2>5, <3>4 DEF ReplyTypes, Reads
  <2> QED BY <2>4, <2>5
<1>4. CASE Clicked
  <2>1. incoming' \in Seq(Clicks)
    <3>1. \A m \in Clicks : Append(incoming, m) \in Seq(Clicks)
      BY <1>1, AppendProperties DEF ReplyTypes
    <3>2. incoming # <<>> => Tail(incoming) \in Seq(Clicks)
      BY <1>1, HeadTailProperties DEF ReplyTypes
    <3> QED BY <1>1, <1>4, <3>1, <3>2 DEF Clicked, ReplyTypes
  <2> QED BY <1>1, <1>4, <2>1 DEF Clicked, ReplyTypes
<1> QED BY <1>2, <1>3, <1>4, RepliesAre

LEMMA TypesStep == Types /\ [Next]_vars => Types'
BY StepIs, AgentTypesStep, NetTypesStep, ReplyTypesStep DEF Types

\* The property, and that the snapshot the agents go by is not from the future.
Snapshots == SnapshotsInOrder /\ last.version <= version

LEMMA InitSnapshots == Init => Snapshots
<1> SUFFICES ASSUME Init PROVE Snapshots
  OBVIOUS
<1>1. Places(s2c, "UPDATE") = {} /\ last.version = 0 /\ version = 0
  BY DEF Init, Places
<1> QED BY <1>1 DEF Snapshots, SnapshotsInOrder

\* An answer comes last.
LEMMA SnapshotsAnswered == Types /\ Snapshots /\ Answered => Snapshots'
<1> SUFFICES ASSUME Types, Snapshots, Answered PROVE Snapshots'
  OBVIOUS
<1> DEFINE P == Places(s2c, "UPDATE")
           Q == Places(s2c', "UPDATE")
           l == Len(s2c)
<1>1. /\ s2c \in Seq(Replies) /\ version \in Nat /\ last.version \in Nat
      /\ last' = last /\ last.version <= version
  BY DEF Types, ReplyTypes, Answered, Snapshots
<1>2. /\ {s2c[i].version : i \in P} = (last.version + 1)..version
      /\ \A i, j \in P : i < j => s2c[i].version < s2c[j].version
  BY DEF Snapshots, SnapshotsInOrder
<1>3. PICK m \in Replies : /\ s2c' = Append(s2c, m)
                           /\ IF m.kind = "UPDATE"
                              THEN m.version = version + 1 /\ version' = version + 1
                              ELSE version' = version
  <2>1. \A u \in BOOLEAN : Update(u) \in Replies /\ Update(u).kind = "UPDATE"
                           /\ Update(u).version = version + 1
    BY <1>1 DEF Update, Replies
  <2>2. [kind |-> "REJECT"] \in Replies /\ [kind |-> "REJECT"].kind # "UPDATE"
    BY DEF Replies
  <2> QED BY <2>1, <2>2 DEF Answered
<1>4. /\ Len(s2c') = l + 1 /\ s2c' \in Seq(Replies) /\ l \in Nat
      /\ \A i \in 1..l : s2c'[i] = s2c[i]
      /\ s2c'[l + 1] = m
      /\ DOMAIN s2c = 1..l /\ DOMAIN s2c' = 1..(l + 1)
  BY <1>1, <1>3, AppendProperties, LenProperties
<1>5. P \subseteq 1..l /\ \A i \in P : s2c'[i] = s2c[i]
  BY <1>4 DEF Places
<1>6. \A i \in P : s2c[i].version \in (last.version + 1)..version
  BY <1>2
<1> HIDE DEF l
<1>7. CASE m.kind = "UPDATE"
  <2>1. Q = P \cup {l + 1}
    BY <1>4, <1>7 DEF Places
  <2> HIDE DEF P, Q
  <2>2. {s2c'[i].version : i \in Q} = {s2c[i].version : i \in P} \cup {version + 1}
    BY <1>3, <1>4, <1>5, <1>7, <2>1
  <2>3. {s2c'[i].version : i \in Q} = (last.version + 1)..(version + 1)
    <3>1. (last.version + 1)..(version + 1) = ((last.version + 1)..version) \cup {version + 1}
      BY <1>1
    <3> QED BY <1>2, <2>2, <3>1
  <2>4. ASSUME NEW i \in Q, NEW j \in Q, i < j PROVE s2c'[i].version < s2c'[j].version
    <3>1. i \in P
      BY <1>4, <1>5, <2>1, <2>4
    <3>2. CASE j \in P
      BY <1>2, <1>5, <2>4, <3>1, <3>2
    <3>3. CASE j = l + 1
      BY <1>1, <1>3, <1>4, <1>5, <1>6, <1>7, <3>1, <3>3
    <3> QED BY <2>1, <3>2, <3>3
  <2>5. version' = version + 1
    BY <1>3, <1>7
  <2>6. SnapshotsInOrder'
    BY <1>1, <2>3, <2>4, <2>5 DEF SnapshotsInOrder, Q
  <2> QED BY <1>1, <2>5, <2>6 DEF Snapshots
<1>8. CASE m.kind # "UPDATE"
  <2>1. Q = P
    BY <1>4, <1>8 DEF Places
  <2> HIDE DEF P, Q
  <2>2. {s2c'[i].version : i \in Q} = {s2c[i].version : i \in P}
    BY <1>5, <2>1
  <2>3. \A i, j \in Q : i < j => s2c'[i].version < s2c'[j].version
    BY <1>2, <1>5, <2>1
  <2>4. version' = version
    BY <1>3, <1>8
  <2>5. SnapshotsInOrder'
    BY <1>1, <1>2, <2>2, <2>3, <2>4 DEF SnapshotsInOrder, Q
  <2> QED BY <1>1, <2>4, <2>5 DEF Snapshots
<1> QED BY <1>7, <1>8

\* What is left is newer than the newest that was read.
LEMMA SnapshotsRead == Types /\ Snapshots /\ Reads => Snapshots'
<1> SUFFICES ASSUME Types, Snapshots, Reads PROVE Snapshots'
  OBVIOUS
<1>1. PICK n \in 0..Len(s2c) : /\ s2c' = SubSeq(s2c, n + 1, Len(s2c))
                               /\ last' = NewestOf(SubSeq(s2c, 1, n))
  BY DEF Reads
<1> DEFINE P == Places(s2c, "UPDATE")
           Q == Places(s2c', "UPDATE")
           got == SubSeq(s2c, 1, n)
           G == Places(got, "UPDATE")
           l == Len(s2c)
<1>2. /\ s2c \in Seq(Replies) /\ version \in Nat /\ last.version \in Nat
      /\ version' = version /\ last.version <= version
  BY DEF Types, ReplyTypes, Reads, Snapshots
<1>3. /\ {s2c[i].version : i \in P} = (last.version + 1)..version
      /\ \A i, j \in P : i < j => s2c[i].version < s2c[j].version
  BY DEF Snapshots, SnapshotsInOrder
<1>4. /\ l \in Nat /\ DOMAIN s2c = 1..l /\ DOMAIN got = 1..n /\ DOMAIN s2c' = 1..(l - n)
      /\ \A i \in 1..n : got[i] = s2c[i]
      /\ \A i \in 1..(l - n) : s2c'[i] = s2c[n + i]
  BY <1>1, <1>2, Parts
<1>5. n \in 0..l /\ n \in Nat
  BY <1>4
<1>6. last' = IF G = {} THEN last ELSE Snapshot(got[Max(G)])
  BY <1>1 DEF NewestOf
<1> HIDE DEF got, l
<1>7. P \subseteq 1..l /\ G \subseteq 1..n /\ Q \subseteq 1..(l - n)
  BY <1>4 DEF Places
<1>8. \A i \in 1..l : i \in G <=> i \in P /\ i <= n
  BY <1>4, <1>5 DEF Places
<1>9. \A i \in Q : n + i \in P /\ s2c'[i] = s2c[n + i]
  BY <1>4, <1>5 DEF Places
<1>10. ASSUME NEW i \in P, i > n PROVE i - n \in Q /\ s2c'[i - n] = s2c[i]
  <2>1. i - n \in 1..(l - n) /\ n + (i - n) = i
    BY <1>4, <1>5, <1>7, <1>10
  <2> QED BY <1>4, <2>1 DEF Places
<1> HIDE DEF P, Q, G
<1>11. \A i \in P : s2c[i].version \in (last.version + 1)..version
  BY <1>3
<1>12. \A i, j \in Q : i < j => s2c'[i].version < s2c'[j].version
  <2> SUFFICES ASSUME NEW i \in Q, NEW j \in Q, i < j PROVE s2c'[i].version < s2c'[j].version
    OBVIOUS
  <2>1. n + i \in P /\ n + j \in P /\ n + i < n + j
    BY <1>4, <1>5, <1>7, <1>9
  <2>2. s2c[n + i].version < s2c[n + j].version
    BY <1>3, <2>1
  <2> QED BY <1>9, <2>2
<1> DEFINE v == last'.version
<1>13. /\ v \in last.version..version
       /\ \A i \in P : i > n <=> s2c[i].version > v
  <2>1. CASE G = {}
    <3>1. v = last.version
      BY <1>6, <2>1
    <3>2. \A i \in P : i > n
      BY <1>4, <1>5, <1>7, <1>8, <2>1
    <3> QED BY <1>2, <1>11, <3>1, <3>2
  <2>2. CASE G # {}
    <3>1. Max(G) \in G /\ \A y \in G : y <= Max(G)
      BY <1>5, <1>7, <2>2, MaxIs
    <3> DEFINE g == Max(G)
    <3> HIDE DEF g
    <3>2. g \in 1..n /\ g \in 1..l /\ g \in P
      <4>1. g \in 1..n
        BY <1>7, <3>1 DEF g
      <4>2. g \in 1..l
        BY <1>4, <1>5, <4>1
      <4> QED BY <1>8, <3>1, <4>1, <4>2 DEF g
    <3>3. v = s2c[g].version
      BY <1>4, <1>6, <2>2, <3>2 DEF Snapshot, g
    <3>4. v \in (last.version + 1)..version
      BY <1>11, <3>2, <3>3
    <3>5. ASSUME NEW i \in P PROVE i > n <=> s2c[i].version > v
      <4>1. i \in 1..l /\ i \in Int /\ g \in Int /\ s2c[i].version \in Int /\ v \in Int
        BY <1>2, <1>4, <1>7, <1>11, <3>2, <3>4
      <4>2. CASE i > n
        BY <1>3, <1>5, <3>2, <3>3, <4>1, <4>2
      <4>3. CASE i <= n
        <5>1. i <= g
          BY <1>8, <3>1, <4>1, <4>3 DEF g
        <5>2. i = g \/ i < g
          BY <4>1, <5>1
        <5>3. s2c[i].version <= v
          BY <1>3, <3>2, <3>3, <4>1, <5>2
        <5> QED BY <1>5, <4>1, <4>3, <5>3
      <4> QED BY <1>5, <4>1, <4>2, <4>3
    <3>6. v \in last.version..version
      BY <1>2, <3>4
    <3> QED BY <3>5, <3>6
  <2> QED BY <2>1, <2>2
<1> HIDE DEF v
<1>14. ASSUME NEW i \in Q PROVE s2c'[i].version \in (v + 1)..version
  <2>1. n + i \in P /\ n + i > n /\ s2c'[i] = s2c[n + i]
    <3>1. i \in 1..(l - n)
      BY <1>7
    <3>2. n + i > n
      BY <1>4, <1>5, <3>1
    <3> QED BY <1>9, <3>2
  <2>2. s2c[n + i].version > v /\ s2c[n + i].version \in (last.version + 1)..version
    BY <1>11, <1>13, <2>1
  <2> QED BY <1>2, <1>13, <2>1, <2>2
<1>15. ASSUME NEW w \in (v + 1)..version PROVE \E i \in Q : s2c'[i].version = w
  <2>1. w \in (last.version + 1)..version /\ w > v
    BY <1>2, <1>13
  <2>2. PICK i \in P : s2c[i].version = w
    BY <1>3, <2>1
  <2>3. i > n
    BY <1>13, <2>1, <2>2
  <2> QED BY <1>10, <2>2, <2>3
<1>16. {s2c'[i].version : i \in Q} = (v + 1)..version
  BY <1>14, <1>15
<1>17. SnapshotsInOrder'
  BY <1>2, <1>12, <1>16 DEF SnapshotsInOrder, Q, v
<1>18. v <= version
  BY <1>2, <1>13
<1> QED BY <1>2, <1>17, <1>18 DEF Snapshots, v

LEMMA SnapshotsStep == Types /\ Snapshots /\ [Next]_vars => Snapshots'
<1> SUFFICES ASSUME Types, Snapshots, [Next]_vars PROVE Snapshots'
  OBVIOUS
<1>1. CASE Clicked
  BY <1>1 DEF Clicked, Snapshots, SnapshotsInOrder, Places
<1> QED BY <1>1, RepliesAre, SnapshotsAnswered, SnapshotsRead

\* Whatever poll reads in one go and whenever it does, last_book_update is the
\* newest snapshot of those that have been read, and its successors are in the
\* connection one by one (SnapshotsInOrder).
THEOREM AgentsSeeNewest == Spec => []SnapshotsInOrder
<1>1. Init => Types /\ Snapshots
  BY InitTypes, InitSnapshots
<1>2. Types /\ Snapshots /\ [Next]_vars => (Types /\ Snapshots)'
  BY TypesStep, SnapshotsStep
<1>3. Snapshots => SnapshotsInOrder
  BY DEF Snapshots
<1> QED BY <1>1, <1>2, <1>3, PTL DEF Spec

-----------------------------------------------------------------------------
(***************************************************************************)
(* No order is forgotten.  An order that is not with its agent has a cancel *)
(* behind it in the connection.                                            *)
(***************************************************************************)
Kept(o) == \/ o \in active[o.agent]
           \/ o.agent = "HUMAN" /\ o.id \in to_cancel
           \/ o.id \in lost

CancelAfter(i, id) == \E j \in Places(c2s, "CANCEL") : i < j /\ c2s[j].id = id

Tracked ==
    /\ \A o \in book : o.agent \in Agents => Kept(o) \/ CancelAfter(0, o.id)
    /\ \A i \in Places(c2s, "NEW") :
          c2s[i].order.agent \in Agents =>
              Kept(c2s[i].order) \/ CancelAfter(i, c2s[i].order.id)

\* Places in a connection, when messages are added and when one is taken.
LEMMA Joined ==
    ASSUME NEW s \in Seq(Messages), NEW t \in Seq(Messages), NEW k
    PROVE  /\ Len(s) \in Nat
           /\ \A i \in Places(s, k) : /\ i \in 1..Len(s)
                                      /\ i \in Places(s \o t, k) /\ (s \o t)[i] = s[i]
           /\ \A i \in Places(t, k) : /\ i \in Nat \ {0}
                                      /\ Len(s) + i \in Places(s \o t, k)
                                      /\ (s \o t)[Len(s) + i] = t[i]
           /\ \A i \in Places(s \o t, k) :
                 \/ i \in Places(s, k)
                 \/ /\ i \in Nat /\ i > Len(s) /\ i - Len(s) \in Places(t, k)
                    /\ (s \o t)[i] = t[i - Len(s)]
<1> DEFINE l == Len(s)
           n == Len(t)
           u == s \o t
<1>1. l \in Nat /\ n \in Nat /\ DOMAIN s = 1..l /\ DOMAIN t = 1..n
  BY LenProperties
<1>2. /\ u \in Seq(Messages) /\ Len(u) = l + n
      /\ \A i \in 1..(l + n) : u[i] = IF i <= l THEN s[i] ELSE t[i - l]
  BY ConcatProperties
<1>3. DOMAIN u = 1..(l + n)
  BY <1>2, LenProperties
<1> HIDE DEF l, n, u
<1>4. ASSUME NEW i \in Places(s, k)
      PROVE  i \in 1..l /\ i \in Places(u, k) /\ u[i] = s[i]
  <2>1. i \in 1..l /\ s[i].kind = k
    BY <1>1 DEF Places
  <2>2. i \in 1..(l + n) /\ i <= l
    BY <1>1, <2>1
  <2> QED BY <1>2, <1>3, <2>1, <2>2 DEF Places
<1>5. ASSUME NEW i \in Places(t, k)
      PROVE  i \in Nat \ {0} /\ l + i \in Places(u, k) /\ u[l + i] = t[i]
  <2>1. i \in 1..n /\ t[i].kind = k
    BY <1>1 DEF Places
  <2>2. l + i \in 1..(l + n) /\ ~(l + i <= l) /\ (l + i) - l = i /\ i \in Nat \ {0}
    BY <1>1, <2>1
  <2>3. u[l + i] = t[i]
    BY <1>2, <2>2
  <2> QED BY <1>3, <2>1, <2>2, <2>3 DEF Places
<1>6. ASSUME NEW i \in Places(u, k)
      PROVE  \/ i \in Places(s, k)
             \/ i \in Nat /\ i > l /\ i - l \in Places(t, k) /\ u[i] = t[i - l]
  <2>1. i \in 1..(l + n) /\ u[i].kind = k
    BY <1>3 DEF Places
  <2>2. CASE i <= l
    <3>1. i \in 1..l /\ u[i] = s[i]
      BY <1>1, <1>2, <2>1, <2>2
    <3> QED BY <1>1, <2>1, <3>1 DEF Places
  <2>3. CASE ~ i <= l
    <3>1. i - l \in 1..n /\ i > l /\ i \in Nat
      BY <1>1, <2>1, <2>3
    <3>2. u[i] = t[i - l]
      BY <1>2, <2>1, <2>3
    <3> QED BY <1>1, <2>1, <3>1, <3>2 DEF Places
  <2> QED BY <2>2, <2>3
<1> QED BY <1>1, <1>4, <1>5, <1>6 DEF l, u

Shifted(s, u) ==
    u \in Seq(Messages) /\ Len(u) = Len(s) - 1 /\ \A i \in 1..Len(u) : u[i] = s[i + 1]

LEMMA TailIsShifted ==
    ASSUME NEW s \in Seq(Messages), s # <<>>
    PROVE  Shifted(s, Tail(s))
BY HeadTailProperties DEF Shifted

LEMMA Taken ==
    ASSUME NEW s \in Seq(Messages), s # <<>>, NEW u, Shifted(s, u), NEW k
    PROVE  /\ Head(s) = s[1] /\ Head(s) \in Messages /\ (Head(s).kind = k => 1 \in Places(s, k))
           /\ \A i \in Places(u, k) :
                 i \in Nat /\ i > 0 /\ i + 1 \in Places(s, k) /\ u[i] = s[i + 1]
           /\ \A i \in Places(s, k) :
                 /\ i \in Nat /\ i > 0 /\ (i = 1 => Head(s).kind = k)
                 /\ i # 1 => i - 1 \in Places(u, k) /\ u[i - 1] = s[i]
<1> DEFINE l == Len(s)
<1>1. l \in Nat \ {0} /\ DOMAIN s = 1..l
  BY LenProperties, EmptySeq
<1>2. /\ Head(s) \in Messages /\ u \in Seq(Messages) /\ Len(u) = l - 1
      /\ \A i \in 1..Len(u) : u[i] = s[i + 1]
  BY HeadTailProperties DEF Shifted
<1>3. Head(s) = s[1]
  OBVIOUS
<1>4. DOMAIN u = 1..(l - 1)
  BY <1>2, LenProperties
<1> HIDE DEF l
<1>5. ASSUME NEW i \in Places(u, k)
      PROVE  i \in Nat /\ i > 0 /\ i + 1 \in Places(s, k) /\ u[i] = s[i + 1]
  <2>1. i \in 1..(l - 1) /\ u[i].kind = k
    BY <1>4 DEF Places
  <2>2. i + 1 \in 1..l /\ u[i] = s[i + 1] /\ i \in Nat /\ i > 0
    BY <1>1, <1>2, <2>1
  <2> QED BY <1>1, <2>1, <2>2 DEF Places
<1>6. ASSUME NEW i \in Places(s, k)
      PROVE  /\ i \in Nat /\ i > 0 /\ (i = 1 => Head(s).kind = k)
             /\ i # 1 => i - 1 \in Places(u, k) /\ u[i - 1] = s[i]
  <2>1. i \in 1..l /\ s[i].kind = k
    BY <1>1 DEF Places
  <2>2. CASE i = 1
    BY <1>3, <2>1, <2>2
  <2>3. CASE i # 1
    <3>1. i - 1 \in 1..(l - 1) /\ (i - 1) + 1 = i /\ i \in Nat /\ i > 0
      BY <1>1, <2>1, <2>3
    <3>2. u[i - 1] = s[i]
      BY <1>2, <3>1
    <3> QED BY <1>4, <2>1, <2>3, <3>1, <3>2 DEF Places
  <2> QED BY <2>2, <2>3
<1>7. Head(s).kind = k => 1 \in Places(s, k)
  BY <1>1, <1>3 DEF Places
<1> QED BY <1>2, <1>3, <1>5, <1>6, <1>7

\* What a list adds to the connection, by places: u is s, of length l, then t.
Placed(s, t, u, l) ==
    /\ l \in Nat
    /\ \A k \in {"NEW", "CANCEL"} :
         /\ \A i \in Places(s, k) : i \in 1..l /\ i \in Places(u, k) /\ u[i] = s[i]
         /\ \A i \in Places(t, k) :
               i \in Nat \ {0} /\ l + i \in Places(u, k) /\ u[l + i] = t[i]
         /\ \A i \in Places(u, k) :
               \/ i \in Places(s, k)
               \/ i \in Nat /\ i > l /\ i - l \in Places(t, k) /\ u[i] = t[i - l]

LEMMA PlacesSent ==
    ASSUME Types, connected, NEW S, NEW orders, Sending(S, orders)
    PROVE  \E t, g, l : Batch(t, g, S, orders) /\ Placed(c2s, t, c2s', l)
<1>1. PICK t, g : c2s' = c2s \o t /\ Batch(t, g, S, orders)
  BY DEF Sending, Sends
<1>2. t \in Seq(Messages) /\ c2s \in Seq(Messages)
  BY <1>1 DEF Batch, Types, NetTypes
<1>3. Placed(c2s, t, c2s \o t, Len(c2s))
  <2>1. ASSUME NEW k
        PROVE  /\ Len(c2s) \in Nat
               /\ \A i \in Places(c2s, k) :
                     /\ i \in 1..Len(c2s)
                     /\ i \in Places(c2s \o t, k) /\ (c2s \o t)[i] = c2s[i]
               /\ \A i \in Places(t, k) :
                     /\ i \in Nat \ {0}
                     /\ Len(c2s) + i \in Places(c2s \o t, k)
                     /\ (c2s \o t)[Len(c2s) + i] = t[i]
               /\ \A i \in Places(c2s \o t, k) :
                     \/ i \in Places(c2s, k)
                     \/ /\ i \in Nat /\ i > Len(c2s) /\ i - Len(c2s) \in Places(t, k)
                        /\ (c2s \o t)[i] = t[i - Len(c2s)]
    BY <1>2, Joined, Zenon
  <2> QED
    BY <2>1, Zenon DEF Placed
<1> QED BY <1>1, <1>3

\* A list is sent by an agent that gives up no order but those it cancels.
LEMMA TrackedSent ==
    ASSUME Types, Tracked, NEW S, NEW orders, Sending(S, orders),
           \A o \in Orders : o.agent \in Agents /\ Kept(o) => Kept(o)' \/ o.id \in S,
           \A o \in ToSet(orders) : o.agent \in Agents => Kept(o)'
    PROVE  Tracked'
<1>1. CASE ~connected
  BY <1>1 DEF Tracked, Sending, Sends, Types, NetTypes, Places
<1>2. CASE connected
  <2>1. PICK t, g, l : Batch(t, g, S, orders) /\ Placed(c2s, t, c2s', l)
    BY <1>2, PlacesSent
  <2>2. c2s \in Seq(Messages) /\ book' = book
    BY DEF Types, NetTypes, Sending
  <2>3. /\ l \in Nat
        /\ \A k \in {"NEW", "CANCEL"} :
             /\ \A i \in Places(c2s, k) :
                   i \in 1..l /\ i \in Places(c2s', k) /\ c2s'[i] = c2s[i]
             /\ \A i \in Places(t, k) :
                   i \in Nat \ {0} /\ l + i \in Places(c2s', k) /\ c2s'[l + i] = t[i]
             /\ \A i \in Places(c2s', k) :
                   \/ i \in Places(c2s, k)
                   \/ i \in Nat /\ i > l /\ i - l \in Places(t, k) /\ c2s'[i] = t[i - l]
    BY <2>1 DEF Placed
  <2>4. ASSUME NEW o \in Orders, o.agent \in Agents, NEW i \in 0..l,
               Kept(o) \/ CancelAfter(i, o.id)
        PROVE  Kept(o)' \/ CancelAfter(i, o.id)'
    <3>1. CASE CancelAfter(i, o.id)
      BY <2>3, <3>1 DEF CancelAfter
    <3>2. CASE Kept(o) /\ o.id \in S
      <4>1. CASE o.id \in lost'
        BY <4>1 DEF Kept
      <4>2. CASE \E j \in Places(t, "CANCEL") : t[j].id = o.id
        <5>1. PICK j \in Places(t, "CANCEL") : t[j].id = o.id
          BY <4>2
        <5>2. /\ j \in Nat \ {0} /\ l + j \in Places(c2s', "CANCEL")
              /\ c2s'[l + j] = t[j] /\ l \in Nat
          BY <2>3
        <5>3. i < l + j
          BY <5>2
        <5> QED BY <5>1, <5>2, <5>3 DEF CancelAfter
      <4> QED BY <2>1, <3>2, <4>1, <4>2 DEF Batch
    <3> QED BY <2>4, <3>1, <3>2
  <2>5. ASSUME NEW o \in book', o.agent \in Agents
        PROVE  Kept(o)' \/ CancelAfter(0, o.id)'
    <3>1. o \in book /\ o \in Orders /\ 0 \in 0..l
      BY <2>2, <2>3 DEF Types, NetTypes
    <3> QED BY <2>4, <2>5, <3>1 DEF Tracked
  <2>6. ASSUME NEW i \in Places(c2s', "NEW"), NEW o, o = c2s'[i].order, o.agent \in Agents
        PROVE  Kept(o)' \/ CancelAfter(i, o.id)'
    <3>1. CASE i \in Places(c2s, "NEW")
      <4>1. i \in 1..l /\ c2s'[i] = c2s[i] /\ l \in Nat
        BY <2>3, <3>1
      <4>2. c2s[i] \in Messages /\ c2s[i].kind = "NEW"
        BY <2>2, <3>1, LenProperties, ElementOfSeq DEF Places
      <4>3. o \in Orders /\ i \in 0..l
        BY <2>6, <4>1, <4>2, MessageIs
      <4>4. Kept(o) \/ CancelAfter(i, o.id)
        BY <2>6, <3>1, <4>1 DEF Tracked
      <4> QED BY <2>4, <2>6, <4>3, <4>4
    <3>2. CASE i - l \in Places(t, "NEW") /\ c2s'[i] = t[i - l]
      <4>1. PICK k \in DOMAIN orders : t[i - l] = New(orders[k])
        BY <2>1, <3>2 DEF Batch
      <4>2. o \in ToSet(orders)
        BY <2>6, <3>2, <4>1 DEF New, ToSet
      <4> QED BY <2>6, <4>2
    <3> QED BY <2>3, <3>1, <3>2
  <2> QED BY <2>5, <2>6 DEF Tracked, Kept, CancelAfter
<1> QED BY <1>1, <1>2 DEF Types, NetTypes

\* The engine takes the message at the head.
LEMMA TrackedTaken == Types /\ Tracked /\ EngineTakes => Tracked'
<1> SUFFICES ASSUME Types, Tracked, EngineTakes PROVE Tracked'
  OBVIOUS
<1>1. /\ c2s \in Seq(Messages) /\ c2s # <<>> /\ c2s' = Tail(c2s) /\ book \in SUBSET Orders
      /\ UNCHANGED <<active, to_cancel>> /\ lost \subseteq lost'
  BY DEF Types, NetTypes, EngineTakes
<1>2. ASSUME NEW k \in {"NEW", "CANCEL"}
      PROVE  /\ Head(c2s) = c2s[1] /\ Head(c2s) \in Messages
             /\ Head(c2s).kind = k => 1 \in Places(c2s, k)
             /\ \A i \in Places(c2s', k) :
                   i \in Nat /\ i > 0 /\ i + 1 \in Places(c2s, k) /\ c2s'[i] = c2s[i + 1]
             /\ \A i \in Places(c2s, k) :
                   /\ i \in Nat /\ i > 0 /\ (i = 1 => Head(c2s).kind = k)
                   /\ i # 1 => i - 1 \in Places(c2s', k) /\ c2s'[i - 1] = c2s[i]
  <2>1. Shifted(c2s, c2s')
    BY <1>1, TailIsShifted
  <2>2. c2s \in Seq(Messages) /\ c2s # <<>>
    BY <1>1
  <2> QED BY <2>1, <2>2, Taken
<1>3. \A o : Kept(o) => Kept(o)'
  BY <1>1 DEF Kept
\* A cancel that is not at the head is one place further on.
<1>4. ASSUME NEW i \in Nat, NEW id, CancelAfter(i + 1, id) PROVE CancelAfter(i, id)'
  <2>1. PICK j \in Places(c2s, "CANCEL") : i + 1 < j /\ c2s[j].id = id
    BY <1>4 DEF CancelAfter
  <2>2. j \in Nat /\ j # 1 /\ i < j - 1
    BY <1>2, <2>1
  <2>3. j - 1 \in Places(c2s', "CANCEL") /\ c2s'[j - 1] = c2s[j]
    BY <1>2, <2>2
  <2> QED BY <2>1, <2>2, <2>3 DEF CancelAfter
<1>5. ASSUME NEW i \in Places(c2s', "NEW"), NEW o, o = c2s'[i].order, o.agent \in Agents
      PROVE  Kept(o)' \/ CancelAfter(i, o.id)'
  <2>1. i \in Nat /\ i + 1 \in Places(c2s, "NEW") /\ c2s[i + 1].order = o
    BY <1>2, <1>5
  <2> QED BY <1>3, <1>4, <1>5, <2>1 DEF Tracked
<1>6. ASSUME NEW o \in book', o.agent \in Agents
      PROVE  Kept(o)' \/ CancelAfter(0, o.id)'
  <2>1. CASE Head(c2s).kind = "NEW" /\ EngineAdds(Head(c2s).order)
    <3>1. 1 \in Places(c2s, "NEW") /\ Head(c2s) = c2s[1]
      BY <1>2, <2>1
    <3>2. CASE o = Head(c2s).order
      <4>1. Kept(o) \/ CancelAfter(0 + 1, o.id)
        BY <1>6, <3>1, <3>2 DEF Tracked
      <4> QED BY <1>3, <1>4, <4>1
    <3>3. CASE o \in book
      <4>1. CASE Kept(o)
        BY <1>3, <4>1
      <4>2. CASE CancelAfter(0, o.id)
        <5>1. PICK j \in Places(c2s, "CANCEL") : 0 < j /\ c2s[j].id = o.id
          BY <4>2 DEF CancelAfter
        <5>2. j \in Nat \ {0} /\ j # 1
          BY <1>2, <2>1
        <5>3. CancelAfter(0 + 1, o.id)
          BY <5>1, <5>2 DEF CancelAfter
        <5> QED BY <1>4, <5>3
      <4> QED BY <1>6, <3>3, <4>1, <4>2 DEF Tracked
    <3> QED BY <1>6, <2>1, <3>2, <3>3 DEF EngineAdds
  <2>2. CASE Head(c2s).kind = "CANCEL" /\ book' = {x \in book : x.id # Head(c2s).id}
    <3>1. o \in book /\ o.id # Head(c2s).id
      BY <1>6, <2>2
    <3>2. CASE Kept(o)
      BY <1>3, <3>2
    <3>3. CASE CancelAfter(0, o.id)
      <4>1. PICK j \in Places(c2s, "CANCEL") : 0 < j /\ c2s[j].id = o.id
        BY <3>3 DEF CancelAfter
      <4>2. j \in Nat \ {0} /\ j # 1
        BY <1>2, <3>1, <4>1
      <4>3. CancelAfter(0 + 1, o.id)
        BY <4>1, <4>2 DEF CancelAfter
      <4> QED BY <1>4, <4>3
    <3> QED BY <1>6, <3>1, <3>2, <3>3 DEF Tracked
  <2>3. CASE Head(c2s).kind = "CANCEL" /\ lost' = lost \cup {Head(c2s).id} /\ book' = book
    <3>1. CASE Kept(o)
      BY <1>3, <3>1
    <3>2. CASE CancelAfter(0, o.id)
      <4>1. PICK j \in Places(c2s, "CANCEL") : 0 < j /\ c2s[j].id = o.id
        BY <3>2 DEF CancelAfter
      <4>2. CASE j = 1
        BY <1>2, <2>3, <4>1, <4>2 DEF Kept
      <4>3. CASE j # 1
        <5>1. j \in Nat \ {0}
          BY <1>2
        <5>2. CancelAfter(0 + 1, o.id)
          BY <4>1, <4>3, <5>1 DEF CancelAfter
        <5> QED BY <1>4, <5>2
      <4> QED BY <4>2, <4>3
    <3> QED BY <1>6, <2>3, <3>1, <3>2 DEF Tracked
  <2> QED BY <2>1, <2>2, <2>3 DEF EngineTakes
<1> QED BY <1>5, <1>6 DEF Tracked, Kept, CancelAfter

\* Kept by an agent that goes on with its orders.
LEMMA StillKept ==
    ASSUME NEW o \in Orders, lost \subseteq lost', to_cancel \subseteq to_cancel',
           active[o.agent] \subseteq active'[o.agent], Kept(o)
    PROVE  Kept(o)'
BY DEF Kept

LEMMA TrackedStep == Types /\ Tracked /\ Step => Tracked'
<1> SUFFICES ASSUME Types, Tracked, Step PROVE Tracked'
  OBVIOUS
<1>1. active \in [Agents -> SUBSET Orders]
  BY DEF Types, AgentTypes
<1>2. CASE MakerSends
  <2>1. /\ "MM" \in Agents /\ Sending(IdsOf(active["MM"]), Quotes) /\ to_cancel' = to_cancel
        /\ active' = [active EXCEPT !["MM"] = {} \cup ToSet(Quotes)] /\ lost \subseteq lost'
    BY <1>2 DEF MakerSends, Track, Sending, Sends
  <2>2. ASSUME NEW o \in Orders, o.agent \in Agents, Kept(o)
        PROVE  Kept(o)' \/ o.id \in IdsOf(active["MM"])
    <3>1. CASE o.agent = "MM" /\ o \in active["MM"]
      BY <3>1 DEF IdsOf
    <3>2. CASE o.agent # "MM"
      BY <1>1, <2>1, <2>2, <3>2, StillKept
    <3>3. CASE o.agent = "MM" /\ o.id \in lost
      BY <2>1, <3>3 DEF Kept
    <3> QED BY <2>2, <3>1, <3>2, <3>3 DEF Kept
  <2>3. ASSUME NEW o \in ToSet(Quotes) PROVE Kept(o)'
    <3>1. o.agent = "MM"
      BY <2>1, QuotesAre DEF ToSet, Types
    <3>2. o \in active'[o.agent]
      BY <1>1, <2>1, <3>1
    <3> QED BY <3>2 DEF Kept
  <2> QED BY <2>1, <2>2, <2>3, TrackedSent
<1>3. CASE TraderSends
  <2>1. PICK a \in Agents \ {"MM", "HUMAN"}, s \in Side, ty \in {"LIMIT", "MARKET"} :
             /\ Sending({}, <<AgentOrder(a, 0, s, ty)>>)
             /\ Track(a, active[a], <<AgentOrder(a, 0, s, ty)>>)
             /\ UNCHANGED <<inventory, pending, to_cancel>>
    BY <1>3 DEF TraderSends
  <2> DEFINE o == AgentOrder(a, 0, s, ty)
  <2>2. o \in Orders /\ o.agent = a
    BY OrderIs DEF AgentOrder, Types
  <2> HIDE DEF o
  <2>3. ToSet(<<o>>) = {o}
    BY <2>2, OneOrder
  <2>4. active' = [active EXCEPT ![a] = active[a] \cup {o}] /\ lost \subseteq lost'
    BY <2>1, <2>3 DEF Track, o, Sending, Sends
  <2>5. ASSUME NEW x \in Orders, x.agent \in Agents, Kept(x) PROVE Kept(x)'
    <3>1. active[x.agent] \subseteq active'[x.agent]
      BY <1>1, <2>4, <2>5
    <3> QED BY <2>1, <2>4, <2>5, <3>1, StillKept
  <2>6. ASSUME NEW x \in ToSet(<<o>>) PROVE Kept(x)'
    <3>1. x = o /\ x.agent = a
      BY <2>2, <2>3
    <3>2. x \in active'[x.agent]
      BY <1>1, <2>4, <3>1
    <3> QED BY <3>2 DEF Kept
  <2>7. Sending({}, <<o>>)
    BY <2>1 DEF o
  <2> QED BY <2>5, <2>6, <2>7, TrackedSent
<1>4. CASE HumanSends
  <2>1. "HUMAN" \in Agents
    BY DEF Agents
  <2>2. /\ Sending(to_cancel, pending) /\ lost \subseteq lost'
        /\ active' = [active EXCEPT !["HUMAN"] = active["HUMAN"] \cup ToSet(pending)]
    BY <1>4 DEF HumanSends, Sending, Sends
  <2>3. ASSUME NEW o \in Orders, o.agent \in Agents, Kept(o)
        PROVE  Kept(o)' \/ o.id \in to_cancel
    <3>1. active[o.agent] \subseteq active'[o.agent]
      BY <1>1, <2>1, <2>2, <2>3
    <3> QED BY <2>2, <2>3, <3>1 DEF Kept
  <2>4. ASSUME NEW o \in ToSet(pending) PROVE Kept(o)'
    <3>1. o.agent = "HUMAN"
      BY DEF ToSet, Types, AgentTypes
    <3>2. o \in active'[o.agent]
      BY <1>1, <2>1, <2>2, <3>1
    <3> QED BY <3>2 DEF Kept
  <2> QED BY <2>2, <2>3, <2>4, TrackedSent
<1>5. CASE NothingSent
  <2>1. PICK orders \in {<<>>, <<WhaleOrder>>} :
             Sending({}, orders) /\ UNCHANGED <<active, to_cancel>>
    BY <1>5 DEF NothingSent
  <2>2. \A o \in ToSet(orders) : o.agent \notin Agents
    <3>1. ToSet(<<>>) = {} /\ ToSet(<<WhaleOrder>>) = {WhaleOrder}
      BY OneOrder, OrderIs DEF ToSet
    <3>2. WhaleOrder.agent \notin Agents
      BY OrderAssumption DEF WhaleOrder, Agents
    <3> QED BY <3>1, <3>2
  <2>3. \A o \in Orders : Kept(o) => Kept(o)'
    BY <2>1 DEF Kept, Sending, Sends
  <2> QED BY <2>1, <2>2, <2>3, TrackedSent
<1>6. CASE HumanQueues
  BY <1>6 DEF HumanQueues, Tracked, Kept, CancelAfter
<1>7. CASE HumanForgets
  <2>1. /\ to_cancel' = to_cancel \cup IdsOf(active["HUMAN"])
        /\ active' = [active EXCEPT !["HUMAN"] = {}] /\ "HUMAN" \in Agents
        /\ UNCHANGED <<c2s, book, lost>>
    BY <1>7 DEF HumanForgets, HumanCancelAll, netVars, Agents
  <2>2. ASSUME NEW o, o.agent \in Agents, Kept(o) PROVE Kept(o)'
    <3>1. CASE o.agent = "HUMAN"
      BY <2>1, <2>2, <3>1 DEF Kept, IdsOf
    <3>2. CASE o.agent # "HUMAN"
      BY <1>1, <2>1, <2>2, <3>2 DEF Kept
    <3> QED BY <3>1, <3>2
  <2>3. \A i, id : CancelAfter(i, id)' <=> CancelAfter(i, id)
    BY <2>1 DEF CancelAfter
  <2>4. ASSUME NEW o \in book', o.agent \in Agents PROVE Kept(o)' \/ CancelAfter(0, o.id)'
    BY <2>1, <2>2, <2>3, <2>4 DEF Tracked
  <2>5. ASSUME NEW i \in Places(c2s', "NEW"), NEW o, o = c2s'[i].order, o.agent \in Agents
        PROVE  Kept(o)' \/ CancelAfter(i, o.id)'
    BY <2>1, <2>2, <2>3, <2>5 DEF Tracked
  <2> QED BY <2>4, <2>5 DEF Tracked, Kept, CancelAfter
<1>8. CASE EngineTakes
  BY <1>8, TrackedTaken
<1>9. CASE Idle
  BY <1>9 DEF Idle, Tracked, Kept, CancelAfter
<1> QED BY <1>2, <1>3, <1>4, <1>5, <1>6, <1>7, <1>8, <1>9 DEF Step

\* Whatever is filled, swept, refused or delayed, an order in the engine or on
\* the way there is one its agent can still cancel or whose cancel is queued,
\* under way or lost, in the send or at a full in_queue_ (NoOrderIsForgotten).
THEOREM OrdersAreTracked == Spec => []NoOrderIsForgotten
<1>1. Init => Types /\ Tracked
  <2>1. Init => Tracked
    BY DEF Init, Tracked, Places
  <2> QED BY <2>1, InitTypes
<1>2. Types /\ Tracked /\ [Next]_vars => (Types /\ Tracked)'
  BY TypesStep, StepIs, TrackedStep
<1>3. Types /\ Tracked => NoOrderIsForgotten
  <2> SUFFICES ASSUME Types, Tracked, NEW o \in book \cup OrdersOnTheWay, o.agent \in Agents
               PROVE  \/ o \in active[o.agent]
                      \/ o.agent = "HUMAN" /\ o.id \in to_cancel
                      \/ o.id \in CancelsOnTheWay
                      \/ o.id \in lost
    BY DEF NoOrderIsForgotten
  <2>1. \E i : Kept(o) \/ CancelAfter(i, o.id)
    BY DEF Tracked, OrdersOnTheWay
  <2> QED BY <2>1 DEF Kept, CancelAfter, CancelsOnTheWay
<1> QED BY <1>1, <1>2, <1>3, PTL DEF Spec

-----------------------------------------------------------------------------
(***************************************************************************)
(* Quotes do not accumulate.  Of two quotes of the market maker that are   *)
(* not of one set, the older has a cancel that the engine takes before it  *)
(* takes the younger, or its cancel is lost.  The ids of one set are less  *)
(* than 2 * Levels apart.                                                  *)
(***************************************************************************)
Near(o, x) == o.id - x.id < 2 * Levels /\ x.id - o.id < 2 * Levels

CancelBetween(h, i, id) ==
    \E j \in Places(c2s, "CANCEL") : h < j /\ j < i /\ c2s[j].id = id

Distinct == \A o, x \in book : o.id = x.id => o = x

InBook ==
    \A o, x \in book : o.agent = "MM" /\ x.agent = "MM" =>
        o.id \in lost \/ x.id \in lost \/ Near(o, x)

\* o is in the engine already, or at place h; x is at place i.  An order is near
\* itself: there is none when there are no levels.
Ahead(h, o, i, x) == o.id \in lost \/ CancelBetween(h, i, o.id) \/ Near(o, x)

BookAhead ==
    \A o \in book, i \in Places(c2s, "NEW") :
        o.agent = "MM" /\ c2s[i].order.agent = "MM" => Ahead(0, o, i, c2s[i].order)

WayAhead ==
    \A h, i \in Places(c2s, "NEW") :
        h <= i /\ c2s[h].order.agent = "MM" /\ c2s[i].order.agent = "MM" =>
            Ahead(h, c2s[h].order, i, c2s[i].order)

Quoted == Distinct /\ InBook /\ BookAhead /\ WayAhead

LEMMA OrderAt ==
    ASSUME Types, NEW i \in Places(c2s, "NEW")
    PROVE  c2s[i].order \in Orders
<1>1. c2s \in Seq(Messages) /\ i \in DOMAIN c2s /\ c2s[i].kind = "NEW"
  BY DEF Types, NetTypes, Places
<1>2. c2s[i] \in Messages
  BY <1>1, LenProperties, ElementOfSeq
<1> QED BY <1>1, <1>2, MessageIs

LEMMA QuotedSent ==
    ASSUME Types, Tracked, Quoted, NEW S, NEW orders, Sending(S, orders),
           \A o, x \in ToSet(orders) : o.agent = "MM" /\ x.agent = "MM" => Near(o, x),
           (\E o \in ToSet(orders) : o.agent = "MM") =>
               "MM" \in Agents /\ IdsOf(active["MM"]) \subseteq S
    PROVE  Quoted'
<1>1. book' = book /\ lost \subseteq lost' /\ connected \in BOOLEAN
  BY DEF Sending, Sends, Types, NetTypes
<1>2. CASE ~connected
  <2>1. c2s' = c2s /\ lost' = lost
    BY <1>2 DEF Sending, Sends
  <2> QED BY <1>1, <2>1 DEF Quoted, Distinct, InBook, BookAhead, WayAhead, Ahead, CancelBetween
<1>3. CASE connected
  <2>0. PICK t, g, l : Batch(t, g, S, orders) /\ Placed(c2s, t, c2s', l)
    BY <1>3, PlacesSent
  <2>1. /\ l \in Nat
        /\ \A k \in {"NEW", "CANCEL"} :
             /\ \A i \in Places(c2s, k) :
                   i \in 1..l /\ i \in Places(c2s', k) /\ c2s'[i] = c2s[i]
             /\ \A i \in Places(t, k) :
                   i \in Nat \ {0} /\ l + i \in Places(c2s', k) /\ c2s'[l + i] = t[i]
             /\ \A i \in Places(c2s', k) :
                   \/ i \in Places(c2s, k)
                   \/ i \in Nat /\ i > l /\ i - l \in Places(t, k) /\ c2s'[i] = t[i - l]
    BY <2>0 DEF Placed
  \* Both were there.
  <2>2. ASSUME NEW h, NEW o, NEW i, NEW x, Ahead(h, o, i, x)
        PROVE  Ahead(h, o, i, x)'
    <3>1. CancelBetween(h, i, o.id) => CancelBetween(h, i, o.id)'
      BY <2>1 DEF CancelBetween
    <3> QED BY <1>1, <2>2, <3>1 DEF Ahead, Near
  <2>3. ASSUME NEW i \in Places(c2s', "NEW"), i \notin Places(c2s, "NEW")
        PROVE  i \in Nat /\ i > l /\ i - l \in Places(t, "NEW")
               /\ c2s'[i].order \in ToSet(orders)
    <3>1. i \in Nat /\ i > l /\ i - l \in Places(t, "NEW") /\ c2s'[i] = t[i - l]
      BY <2>1, <2>3
    <3>2. PICK k \in DOMAIN orders : t[i - l] = New(orders[k])
      BY <2>0, <3>1 DEF Batch
    <3> QED BY <3>1, <3>2 DEF New, ToSet
  \* The second is new.
  <2>4. ASSUME NEW h \in 0..l, NEW o \in Orders, o.agent = "MM",
               Kept(o) \/ CancelAfter(h, o.id),
               NEW i \in Places(c2s', "NEW"), i \notin Places(c2s, "NEW"),
               c2s'[i].order.agent = "MM", NEW x
        PROVE  Ahead(h, o, i, x)'
    <3>1. i \in Nat /\ i > l /\ i - l \in Places(t, "NEW") /\ c2s'[i].order \in ToSet(orders)
      BY <2>3, <2>4
    <3>2. "MM" \in Agents /\ IdsOf(active["MM"]) \subseteq S
      BY <2>4, <3>1
    <3>3. CASE CancelAfter(h, o.id)
      <4>1. PICK j \in Places(c2s, "CANCEL") : h < j /\ c2s[j].id = o.id
        BY <3>3 DEF CancelAfter
      <4>2. j \in 1..l /\ j \in Places(c2s', "CANCEL") /\ c2s'[j] = c2s[j]
        BY <2>1
      <4>3. j < i
        BY <2>1, <3>1, <4>2
      <4> QED BY <4>1, <4>2, <4>3 DEF Ahead, CancelBetween
    <3>4. CASE o.id \in lost
      BY <1>1, <3>4 DEF Ahead
    <3>5. CASE o \in active["MM"]
      <4>1. o.id \in S
        BY <3>2, <3>5 DEF IdsOf
      <4>2. CASE o.id \in lost'
        BY <4>2 DEF Ahead
      <4>3. CASE \E j \in Places(t, "CANCEL") : t[j].id = o.id
        <5>1. PICK j \in Places(t, "CANCEL") : t[j].id = o.id
          BY <4>3
        <5>2. j \in Nat \ {0} /\ l + j \in Places(c2s', "CANCEL") /\ c2s'[l + j] = t[j]
          BY <2>1
        <5>3. j < i - l
          BY <2>0, <3>1 DEF Batch
        <5>4. h < l + j /\ l + j < i
          BY <2>1, <3>1, <5>2, <5>3
        <5> QED BY <5>1, <5>2, <5>4 DEF Ahead, CancelBetween
      <4> QED BY <2>0, <4>1, <4>2, <4>3 DEF Batch
    <3> QED BY <2>4, <3>3, <3>4, <3>5 DEF Kept
  <2>5. ASSUME NEW o \in book', NEW i \in Places(c2s', "NEW"), NEW x, x = c2s'[i].order,
               o.agent = "MM", x.agent = "MM"
        PROVE  Ahead(0, o, i, x)'
    <3>1. CASE i \in Places(c2s, "NEW")
      <4>1. c2s'[i] = c2s[i]
        BY <2>1, <3>1
      <4>2. Ahead(0, o, i, x)
        BY <1>1, <2>5, <3>1, <4>1 DEF Quoted, BookAhead
      <4> QED BY <2>2, <4>2
    <3>2. CASE i \notin Places(c2s, "NEW")
      <4>1. "MM" \in Agents
        BY <2>3, <2>5, <3>2
      <4>2. o \in Orders /\ 0 \in 0..l /\ (Kept(o) \/ CancelAfter(0, o.id))
        BY <1>1, <2>1, <2>5, <4>1 DEF Tracked, Types, NetTypes
      <4> QED BY <2>4, <2>5, <3>2, <4>2
    <3> QED BY <3>1, <3>2
  <2>6. ASSUME NEW h \in Places(c2s', "NEW"), NEW i \in Places(c2s', "NEW"), h <= i,
               NEW o, o = c2s'[h].order, NEW x, x = c2s'[i].order,
               o.agent = "MM", x.agent = "MM"
        PROVE  Ahead(h, o, i, x)'
    <3>1. CASE h \in Places(c2s, "NEW") /\ i \in Places(c2s, "NEW")
      <4>1. c2s'[h] = c2s[h] /\ c2s'[i] = c2s[i]
        BY <2>1, <3>1
      <4>2. Ahead(h, o, i, x)
        BY <2>6, <3>1, <4>1 DEF Quoted, WayAhead
      <4> QED BY <2>2, <4>2
    <3>2. CASE h \in Places(c2s, "NEW") /\ i \notin Places(c2s, "NEW")
      <4>1. "MM" \in Agents
        BY <2>3, <2>6, <3>2
      <4>2. h \in 0..l /\ c2s'[h] = c2s[h]
        BY <2>1, <3>2
      <4>3. o \in Orders
        BY <2>6, <3>2, <4>2, OrderAt
      <4>4. Kept(o) \/ CancelAfter(h, o.id)
        BY <2>6, <3>2, <4>1, <4>2 DEF Tracked
      <4> QED BY <2>4, <2>6, <3>2, <4>2, <4>3, <4>4
    <3>3. CASE h \notin Places(c2s, "NEW") /\ i \notin Places(c2s, "NEW")
      BY <2>3, <2>6, <3>3 DEF Ahead
    <3>4. CASE h \notin Places(c2s, "NEW") /\ i \in Places(c2s, "NEW")
      <4>1. h \in Nat /\ h > l /\ i \in 1..l /\ l \in Nat
        BY <2>1, <2>3, <3>4
      <4> QED BY <2>6, <4>1
    <3> QED BY <3>1, <3>2, <3>3, <3>4
  <2>7. Distinct' /\ InBook'
    BY <1>1 DEF Quoted, Distinct, InBook
  <2>8. BookAhead'
    BY <2>5 DEF BookAhead, Ahead, CancelBetween
  <2>9. WayAhead'
    BY <2>6 DEF WayAhead, Ahead, CancelBetween
  <2> QED BY <2>7, <2>8, <2>9 DEF Quoted
<1> QED BY <1>1, <1>2, <1>3

\* The engine takes the message at the head: the places of the others shift.
LEMMA QuotedTaken == Types /\ Quoted /\ EngineTakes => Quoted'
<1> SUFFICES ASSUME Types, Quoted, EngineTakes PROVE Quoted'
  OBVIOUS
<1>1. c2s \in Seq(Messages) /\ c2s # <<>> /\ c2s' = Tail(c2s) /\ lost \subseteq lost'
  BY DEF Types, NetTypes, EngineTakes
<1>2. ASSUME NEW k \in {"NEW", "CANCEL"}
      PROVE  /\ Head(c2s) = c2s[1] /\ Head(c2s) \in Messages
             /\ Head(c2s).kind = k => 1 \in Places(c2s, k)
             /\ \A i \in Places(c2s', k) :
                   i \in Nat /\ i > 0 /\ i + 1 \in Places(c2s, k) /\ c2s'[i] = c2s[i + 1]
             /\ \A i \in Places(c2s, k) :
                   /\ i \in Nat /\ i > 0 /\ (i = 1 => Head(c2s).kind = k)
                   /\ i # 1 => i - 1 \in Places(c2s', k) /\ c2s'[i - 1] = c2s[i]
  <2>1. Shifted(c2s, c2s')
    BY <1>1, TailIsShifted
  <2>2. c2s \in Seq(Messages) /\ c2s # <<>>
    BY <1>1
  <2> QED BY <2>1, <2>2, Taken
<1>3. ASSUME NEW h \in Nat, NEW o, NEW i \in Nat, NEW x, Ahead(h + 1, o, i + 1, x)
      PROVE  Ahead(h, o, i, x)'
  <2>1. ASSUME CancelBetween(h + 1, i + 1, o.id) PROVE CancelBetween(h, i, o.id)'
    <3>1. PICK j \in Places(c2s, "CANCEL") : h + 1 < j /\ j < i + 1 /\ c2s[j].id = o.id
      BY <2>1 DEF CancelBetween
    <3>2. j \in Nat /\ j # 1 /\ h < j - 1 /\ j - 1 < i
      BY <1>2, <3>1
    <3>3. j - 1 \in Places(c2s', "CANCEL") /\ c2s'[j - 1] = c2s[j]
      BY <1>2, <3>2
    <3> QED BY <3>1, <3>2, <3>3 DEF CancelBetween
  <2> QED BY <1>1, <1>3, <2>1 DEF Ahead, Near
<1>4. ASSUME NEW h \in Places(c2s', "NEW"), NEW i \in Places(c2s', "NEW"), h <= i,
             NEW o, o = c2s'[h].order, NEW x, x = c2s'[i].order,
             o.agent = "MM", x.agent = "MM"
      PROVE  Ahead(h, o, i, x)'
  <2>1. /\ h \in Nat /\ h + 1 \in Places(c2s, "NEW") /\ c2s[h + 1].order = o
        /\ i \in Nat /\ i + 1 \in Places(c2s, "NEW") /\ c2s[i + 1].order = x
    BY <1>2, <1>4
  <2>2. h + 1 <= i + 1
    BY <1>4, <2>1
  <2>3. Ahead(h + 1, o, i + 1, x)
    BY <1>4, <2>1, <2>2 DEF Quoted, WayAhead
  <2> QED BY <1>3, <2>1, <2>3
<1>5. WayAhead'
  BY <1>4 DEF WayAhead, Ahead, CancelBetween
<1>6. CASE Head(c2s).kind = "NEW" /\ EngineAdds(Head(c2s).order) /\ lost' = lost
  <2> DEFINE y == Head(c2s).order
  <2>1. 1 \in Places(c2s, "NEW") /\ y = c2s[1].order
    BY <1>2, <1>6
  <2>2. book' \subseteq book \cup {y} /\ (y \in book' \ book => y.id \notin IdsOf(book))
    BY <1>6 DEF EngineAdds
  <2> HIDE DEF y
  <2>3. Distinct'
    <3>1. \A o, x \in book' : o.id = x.id => o = x
      BY <2>2 DEF Quoted, Distinct, IdsOf
    <3> QED BY <3>1 DEF Distinct
  \* A cancel of an order in the book is not at the head.
  <2>4. ASSUME NEW o \in book, NEW i \in Places(c2s, "NEW"), NEW x, Ahead(0, o, i, x)
        PROVE  Ahead(0 + 1, o, i, x)
    <3>1. ASSUME CancelBetween(0, i, o.id) PROVE CancelBetween(0 + 1, i, o.id)
      <4>1. PICK j \in Places(c2s, "CANCEL") : 0 < j /\ j < i /\ c2s[j].id = o.id
        BY <3>1 DEF CancelBetween
      <4>2. j \in Nat /\ j > 0 /\ j # 1
        BY <1>2, <1>6
      <4>3. 0 + 1 < j
        BY <4>2
      <4> QED BY <4>1, <4>3 DEF CancelBetween
    <3> QED BY <2>4, <3>1 DEF Ahead
  <2>5. ASSUME NEW o \in book, o.agent = "MM", y.agent = "MM"
        PROVE  o.id \in lost \/ Near(o, y)
    <3>1. Ahead(0, o, 1, y)
      BY <2>1, <2>5 DEF Quoted, BookAhead
    <3>2. ~CancelBetween(0, 1, o.id)
      <4> SUFFICES ASSUME NEW j \in Places(c2s, "CANCEL"), 0 < j, j < 1 PROVE FALSE
        BY DEF CancelBetween
      <4>1. j \in Nat
        BY <1>2
      <4> QED BY <4>1
    <3> QED BY <3>1, <3>2 DEF Ahead
  <2>6. InBook'
    <3>1. ASSUME NEW o \in book', NEW x \in book', o.agent = "MM", x.agent = "MM"
          PROVE  o.id \in lost \/ x.id \in lost \/ Near(o, x)
      <4>1. CASE o \in book /\ x \in book
        BY <3>1, <4>1 DEF Quoted, InBook
      <4>2. CASE o \in book /\ x = y
        BY <2>5, <3>1, <4>2
      <4>3. CASE o = y /\ x \in book
        BY <2>5, <3>1, <4>3 DEF Near
      <4>4. CASE o = y /\ x = y
        <5>1. Ahead(1, y, 1, y)
          BY <2>1, <3>1, <4>4 DEF Quoted, WayAhead
        <5>2. ~CancelBetween(1, 1, y.id)
          <6> SUFFICES ASSUME NEW j \in Places(c2s, "CANCEL"), 1 < j, j < 1 PROVE FALSE
            BY DEF CancelBetween
          <6>1. j \in Nat
            BY <1>2
          <6> QED BY <6>1
        <5> QED BY <4>4, <5>1, <5>2 DEF Ahead
      <4> QED BY <2>2, <4>1, <4>2, <4>3, <4>4
    <3> QED BY <1>6, <3>1 DEF InBook
  <2>7. ASSUME NEW o \in book', NEW i \in Places(c2s', "NEW"), NEW x, x = c2s'[i].order,
               o.agent = "MM", x.agent = "MM"
        PROVE  Ahead(0, o, i, x)'
    <3>1. i \in Nat /\ i > 0 /\ i + 1 \in Places(c2s, "NEW") /\ c2s[i + 1].order = x
      BY <1>2, <2>7
    <3>2. Ahead(0 + 1, o, i + 1, x)
      <4>1. CASE o \in book
        <5>1. Ahead(0, o, i + 1, x)
          BY <2>7, <3>1, <4>1 DEF Quoted, BookAhead
        <5> QED BY <2>4, <3>1, <4>1, <5>1
      <4>2. CASE o = y
        <5>1. 1 <= i + 1 /\ 0 + 1 = 1
          BY <3>1
        <5> QED BY <2>1, <2>7, <3>1, <4>2, <5>1 DEF Quoted, WayAhead
      <4> QED BY <2>2, <4>1, <4>2
    <3> QED BY <1>3, <3>1, <3>2
  <2>8. BookAhead'
    BY <2>7 DEF BookAhead, Ahead, CancelBetween
  <2> QED BY <1>5, <2>3, <2>6, <2>8 DEF Quoted
<1>7. CASE Head(c2s).kind = "CANCEL" /\ book' = {o \in book : o.id # Head(c2s).id} /\ lost' = lost
  <2>1. Distinct' /\ InBook'
    BY <1>7 DEF Quoted, Distinct, InBook
  <2>2. ASSUME NEW o \in book', NEW i \in Places(c2s', "NEW"), NEW x, x = c2s'[i].order,
               o.agent = "MM", x.agent = "MM"
        PROVE  Ahead(0, o, i, x)'
    <3>1. i \in Nat /\ i + 1 \in Places(c2s, "NEW") /\ c2s[i + 1].order = x
      BY <1>2, <2>2
    <3>2. o \in book /\ o.id # c2s[1].id
      BY <1>2, <1>7, <2>2
    <3>3. Ahead(0, o, i + 1, x)
      BY <2>2, <3>1, <3>2 DEF Quoted, BookAhead
    <3>4. ASSUME CancelBetween(0, i + 1, o.id) PROVE CancelBetween(0 + 1, i + 1, o.id)
      <4>1. PICK j \in Places(c2s, "CANCEL") : 0 < j /\ j < i + 1 /\ c2s[j].id = o.id
        BY <3>4 DEF CancelBetween
      <4>2. j \in Nat /\ j > 0 /\ j # 1
        BY <1>2, <3>2, <4>1
      <4>3. 0 + 1 < j
        BY <4>2
      <4> QED BY <4>1, <4>3 DEF CancelBetween
    <3>5. Ahead(0 + 1, o, i + 1, x)
      BY <3>3, <3>4 DEF Ahead
    <3> QED BY <1>3, <3>1, <3>5
  <2>3. BookAhead'
    BY <2>2 DEF BookAhead, Ahead, CancelBetween
  <2> QED BY <1>5, <2>1, <2>3 DEF Quoted
<1>8. CASE Head(c2s).kind = "CANCEL" /\ lost' = lost \cup {Head(c2s).id} /\ book' = book
  <2>1. Distinct' /\ InBook'
    BY <1>1, <1>8 DEF Quoted, Distinct, InBook, Near
  <2>2. ASSUME NEW o \in book', NEW i \in Places(c2s', "NEW"), NEW x, x = c2s'[i].order,
               o.agent = "MM", x.agent = "MM"
        PROVE  Ahead(0, o, i, x)'
    <3>1. i \in Nat /\ i + 1 \in Places(c2s, "NEW") /\ c2s[i + 1].order = x /\ o \in book
      BY <1>2, <1>8, <2>2
    <3>2. Ahead(0, o, i + 1, x)
      BY <2>2, <3>1 DEF Quoted, BookAhead
    <3>3. CASE o.id = c2s[1].id
      BY <1>2, <1>8, <3>3 DEF Ahead
    <3>4. CASE o.id # c2s[1].id
      <4>1. ASSUME CancelBetween(0, i + 1, o.id) PROVE CancelBetween(0 + 1, i + 1, o.id)
        <5>1. PICK j \in Places(c2s, "CANCEL") : 0 < j /\ j < i + 1 /\ c2s[j].id = o.id
          BY <4>1 DEF CancelBetween
        <5>2. j \in Nat /\ j > 0 /\ j # 1
          BY <1>2, <3>4, <5>1
        <5>3. 0 + 1 < j
          BY <5>2
        <5> QED BY <5>1, <5>3 DEF CancelBetween
      <4>2. Ahead(0 + 1, o, i + 1, x)
        BY <3>2, <4>1 DEF Ahead
      <4> QED BY <1>3, <3>1, <4>2
    <3> QED BY <3>3, <3>4
  <2>3. BookAhead'
    BY <2>2 DEF BookAhead, Ahead, CancelBetween
  <2> QED BY <1>5, <2>1, <2>3 DEF Quoted
<1> QED BY <1>6, <1>7, <1>8 DEF EngineTakes

LEMMA QuotedStep == Types /\ Tracked /\ Quoted /\ Step => Quoted'
<1> SUFFICES ASSUME Types, Tracked, Quoted, Step PROVE Quoted'
  OBVIOUS
<1>1. CASE MakerSends
  <2>1. "MM" \in Agents /\ Sending(IdsOf(active["MM"]), Quotes)
    BY <1>1 DEF MakerSends
  <2>2. ASSUME NEW o \in ToSet(Quotes), NEW x \in ToSet(Quotes) PROVE Near(o, x)
    <3>1. /\ DOMAIN Quotes = 1..(2 * Levels) /\ Levels \in Nat
          /\ \A k \in 1..(2 * Levels) : Quotes[k].id = Offset("MM") + next_id["MM"] + k - 1
      BY <2>1, QuotesAre DEF Types
    <3>2. PICK j \in 1..(2 * Levels), k \in 1..(2 * Levels) : o = Quotes[j] /\ x = Quotes[k]
      BY <3>1 DEF ToSet
    <3>3. Offset("MM") \in Nat /\ next_id["MM"] \in Nat
      BY <2>1, OffsetIsNat DEF Types, AgentTypes
    <3> DEFINE b == Offset("MM") + next_id["MM"]
    <3>4. o.id = b + j - 1 /\ x.id = b + k - 1 /\ b \in Nat
      BY <3>1, <3>2, <3>3
    <3> HIDE DEF b
    <3> QED BY <3>1, <3>4 DEF Near
  <2> QED BY <2>1, <2>2, QuotedSent
<1>2. ASSUME NEW orders, Sending({}, orders), \A o \in ToSet(orders) : o.agent # "MM"
      PROVE  Quoted'
  BY <1>2, QuotedSent
<1>3. CASE TraderSends
  <2>1. PICK a \in Agents \ {"MM", "HUMAN"}, s \in Side, ty \in {"LIMIT", "MARKET"} :
             Sending({}, <<AgentOrder(a, 0, s, ty)>>)
    BY <1>3 DEF TraderSends
  <2> DEFINE o == AgentOrder(a, 0, s, ty)
  <2>2. o \in Orders /\ o.agent = a
    BY OrderIs DEF AgentOrder, Types
  <2> HIDE DEF o
  <2>3. ToSet(<<o>>) = {o} /\ Sending({}, <<o>>)
    BY <2>1, <2>2, OneOrder DEF o
  <2> QED BY <1>2, <2>2, <2>3
<1>4. CASE HumanSends
  <2>1. Sending(to_cancel, pending)
    BY <1>4 DEF HumanSends
  <2>2. \A o \in ToSet(pending) : o.agent = "HUMAN"
    BY DEF ToSet, Types, AgentTypes
  <2> QED BY <2>1, <2>2, QuotedSent
<1>5. CASE NothingSent
  <2>1. PICK orders \in {<<>>, <<WhaleOrder>>} : Sending({}, orders)
    BY <1>5 DEF NothingSent
  <2>2. ToSet(<<>>) = {} /\ ToSet(<<WhaleOrder>>) = {WhaleOrder}
    BY OneOrder, OrderIs DEF ToSet
  <2>3. WhaleOrder.agent # "MM"
    BY DEF WhaleOrder
  <2> QED BY <1>2, <2>1, <2>2, <2>3
<1>6. CASE HumanQueues \/ HumanForgets \/ Idle
  <2>1. UNCHANGED <<c2s, book, lost>>
    BY <1>6 DEF HumanQueues, HumanForgets, HumanCancelAll, netVars, Idle
  <2> QED BY <2>1 DEF Quoted, Distinct, InBook, BookAhead, WayAhead, Ahead, CancelBetween
<1>7. CASE EngineTakes
  BY <1>7, QuotedTaken
<1> QED BY <1>1, <1>3, <1>4, <1>5, <1>6, <1>7 DEF Step

\* The quotes whose cancels are not lost have ids of one interval.
LEMMA QuotesCounted == Types /\ Quoted => QuotesDoNotAccumulate
<1> SUFFICES ASSUME Types, Quoted PROVE QuotesDoNotAccumulate
  OBVIOUS
<1> DEFINE B == {o \in book : o.agent = "MM"}
           C == {o \in B : o.id \in lost}
           D == B \ C
<1>1. /\ B \subseteq Orders /\ lost \subseteq Nat /\ IsFiniteSet(lost) /\ Levels \in Nat
      /\ \A o, x \in B : o.id = x.id => o = x
      /\ \A o, x \in D : Near(o, x)
  BY SimulatorAssumption DEF Types, NetTypes, Quoted, Distinct, InBook
<1>2. \A o \in B : o.id \in Nat
  BY <1>1 DEF Orders
<1>3. IsFiniteSet(C) /\ Cardinality(C) <= Cardinality(lost)
  <2> DEFINE f == [o \in C |-> o.id]
  <2>1. f \in Injection(C, lost)
    <3>1. f \in [C -> lost]
      OBVIOUS
    <3>2. \A o, x \in C : f[o] = f[x] => o = x
      BY <1>1
    <3> QED BY <3>1, <3>2 DEF Injection, IsInjective
  <2> HIDE DEF C, f
  <2> QED BY <1>1, <2>1, FS_Injection
<1>4. IsFiniteSet(D) /\ Cardinality(D) <= 2 * Levels
  <2>1. CASE D = {}
    <3> HIDE DEF D
    <3> QED BY <1>1, <2>1, FS_EmptySet
  <2>2. CASE D # {}
    <3> DEFINE T == {o.id : o \in D}
    <3>1. T \subseteq Nat /\ T # {}
      BY <1>2, <2>2
    <3>2. \E n \in T : \A y \in T : ~ (<<y, n>> \in OpToRel(<, Nat))
      <4> HIDE DEF T
      <4> QED BY <3>1, WFMin, NatLessThanWellFounded
    <3>3. PICK n \in T : \A y \in T : ~ y < n
      BY <3>1, <3>2 DEF OpToRel
    <3>4. PICK m \in D : m.id = n
      OBVIOUS
    <3> DEFINE I == n..(n + 2 * Levels - 1)
               f == [o \in D |-> o.id]
    <3>5. n \in Nat /\ n - n < 2 * Levels
      BY <1>1, <1>2, <3>4 DEF Near
    <3>6. ASSUME NEW o \in D PROVE o.id \in I
      <4>1. o.id \in Nat /\ ~ o.id < n
        BY <1>2, <3>3
      <4>2. o.id - n < 2 * Levels
        BY <1>1, <3>4 DEF Near
      <4> QED BY <1>1, <3>5, <4>1, <4>2
    <3>7. f \in Injection(D, I)
      <4>1. f \in [D -> I]
        BY <3>6
      <4>2. \A o, x \in D : f[o] = f[x] => o = x
        BY <1>1
      <4> QED BY <4>1, <4>2 DEF Injection, IsInjective
    <3>8. IsFiniteSet(I) /\ Cardinality(I) = 2 * Levels
      <4> DEFINE e == n + 2 * Levels - 1
      <4>1. n \in Int /\ e \in Int /\ ~ n > e /\ e - n + 1 = 2 * Levels
        BY <1>1, <3>5
      <4> HIDE DEF e
      <4>2. IsFiniteSet(n..e) /\ Cardinality(n..e) = IF n > e THEN 0 ELSE e - n + 1
        BY <4>1, FS_Interval
      <4> QED BY <4>1, <4>2 DEF e
    <3> HIDE DEF D, I, f
    <3> QED BY <3>7, <3>8, FS_Injection
  <2> QED BY <2>1, <2>2
<1>5. B = C \cup D
  OBVIOUS
<1> HIDE DEF B, C, D
<1>6. /\ IsFiniteSet(C \cap D) /\ Cardinality(C \cap D) \in Nat /\ Cardinality(C) \in Nat
      /\ Cardinality(D) \in Nat /\ Cardinality(lost) \in Nat
  BY <1>1, <1>3, <1>4, FS_Intersection, FS_CardinalityType
<1>7. Cardinality(B) = Cardinality(C) + Cardinality(D) - Cardinality(C \cap D)
  BY <1>3, <1>4, <1>5, FS_Union
<1>8. Cardinality(B) <= 2 * Levels + Cardinality(lost)
  BY <1>1, <1>3, <1>4, <1>6, <1>7
<1> QED BY <1>8 DEF QuotesDoNotAccumulate, B

\* Cancel-and-replace keeps the market maker's quotes in the engine to one set
\* but for those whose cancel is lost (QuotesDoNotAccumulate), however
\* the engine and the event loop interleave.
THEOREM QuotesAreReplaced == Spec => []QuotesDoNotAccumulate
<1>1. Init => Types /\ Tracked /\ Quoted
  <2>1. Init => Tracked
    BY DEF Init, Tracked, Places
  <2>2. Init => Quoted
    BY DEF Init, Quoted, Distinct, InBook, BookAhead, WayAhead, Places
  <2> QED BY <2>1, <2>2, InitTypes
<1>2. Types /\ Tracked /\ Quoted /\ [Next]_vars => (Types /\ Tracked /\ Quoted)'
  BY TypesStep, StepIs, TrackedStep, QuotedStep
<1> QED BY <1>1, <1>2, QuotesCounted, PTL DEF Spec

-----------------------------------------------------------------------------
(***************************************************************************)
(* Ids.  An agent's orders have ids of its block that it has taken, and as *)
(* long as no block is used up the blocks, less their last id, which is    *)
(* the whale's in the first of them, have nothing in common.               *)
(***************************************************************************)
IdsLeft == \A a \in Agents : next_id[a] < IdBlock

InBlock(a, n) == Offset(a) < n /\ n < Offset(a) + IdBlock - 1

\* o is the whale's, or its agent has called next_order_id for it.
IssuedOrder(o) ==
    \/ o = WhaleOrder
    \/ /\ o.agent \in Agents
       /\ Offset(o.agent) < o.id /\ o.id < Offset(o.agent) + next_id[o.agent]

Issued ==
    /\ \A o \in book : IssuedOrder(o)
    /\ \A i \in Places(c2s, "NEW") : IssuedOrder(c2s[i].order)
    /\ \A k \in DOMAIN pending : IssuedOrder(pending[k])

UniqueWay ==
    /\ \A i, j \in Places(c2s, "NEW") :
          i # j /\ c2s[i].order.agent \in Agents => c2s[i].order.id # c2s[j].order.id
    /\ \A i \in Places(c2s, "NEW"), o \in book :
          c2s[i].order.agent \in Agents => c2s[i].order.id # o.id

UniquePending ==
    /\ \A k, m \in DOMAIN pending : k # m => pending[k].id # pending[m].id
    /\ \A k \in DOMAIN pending, o \in book : pending[k].id # o.id
    /\ \A k \in DOMAIN pending, i \in Places(c2s, "NEW") : pending[k].id # c2s[i].order.id

Unique == UniqueWay /\ UniquePending

LEMMA BlocksApart ==
    ASSUME NEW a \in Agents, NEW n \in Nat, InBlock(a, n)
    PROVE  /\ n # WhaleId
           /\ \A b \in Agents, m \in Nat : a # b /\ InBlock(b, m) => n # m
<1> DEFINE O(x) == CASE x = "MM" -> 0 [] x = "NOISE" -> 1 [] x = "INFORMED" -> 2
                     [] x = "MOMENTUM" -> 3 [] x = "ARB" -> 4 [] x = "HUMAN" -> 5
<1>1. IdBlock \in Nat /\ IdBlock > 1
  BY SimulatorAssumption
<1>2. Agents \subseteq {"MM", "NOISE", "INFORMED", "MOMENTUM", "ARB", "HUMAN"}
  BY OrderAssumption DEF Agents
<1>3. /\ O("MM") = 0 /\ O("NOISE") = 1 /\ O("INFORMED") = 2 /\ O("MOMENTUM") = 3
      /\ O("ARB") = 4 /\ O("HUMAN") = 5
  OBVIOUS
<1>4. \A x : Offset(x) = IdBlock * O(x)
  BY DEF Offset
<1> HIDE DEF O
<1>5. ASSUME NEW x \in Agents PROVE O(x) \in 0..5
  BY <1>2, <1>3
<1>6. ASSUME NEW x \in Agents, NEW y \in Agents, x # y PROVE O(x) # O(y)
  BY <1>2, <1>3, <1>6
<1>7. ASSUME NEW x \in Agents
      PROVE  Offset(x) = 0 \/ Offset(x) >= IdBlock
  <2>1. Offset(x) = IdBlock * O(x) /\ O(x) \in 0..5
    BY <1>4, <1>5
  <2> QED BY <1>1, <2>1
<1>8. ASSUME NEW x \in Agents, NEW y \in Agents, O(x) < O(y)
      PROVE  Offset(x) + IdBlock <= Offset(y)
  <2>1. /\ Offset(x) = IdBlock * O(x) /\ O(x) \in 0..5
        /\ Offset(y) = IdBlock * O(y) /\ O(y) \in 0..5
    BY <1>4, <1>5
  <2>2. /\ O(x) \in {0, 1, 2, 3, 4, 5} /\ O(y) \in {0, 1, 2, 3, 4, 5}
    BY <2>1
  <2> QED BY <1>1, <1>8, <2>1, <2>2
<1>9. n # WhaleId
  <2>1. Offset(a) \in Nat
    BY OffsetIsNat
  <2> QED BY <1>1, <1>7, <2>1 DEF InBlock, WhaleId
<1>10. ASSUME NEW b \in Agents, NEW m \in Nat, a # b, InBlock(b, m) PROVE n # m
  <2>1. Offset(a) \in Nat /\ Offset(b) \in Nat /\ O(a) \in Int /\ O(b) \in Int
    BY <1>5, OffsetIsNat
  <2>2. O(a) # O(b)
    BY <1>6, <1>10
  <2>3. Offset(a) + IdBlock <= Offset(b) \/ Offset(b) + IdBlock <= Offset(a)
    BY <1>8, <2>1, <2>2
  <2> QED BY <1>1, <1>10, <2>1, <2>3 DEF InBlock
<1> QED BY <1>9, <1>10

\* While ids are left, an agent's order has an id within its block.
LEMMA IssuedInBlock ==
    ASSUME Types, IdsLeft, NEW o \in Orders, IssuedOrder(o)
    PROVE  o = WhaleOrder \/ (o.agent \in Agents /\ InBlock(o.agent, o.id))
<1>1. CASE o = WhaleOrder
  BY <1>1
<1>2. CASE o # WhaleOrder
  <2>1. /\ o.agent \in Agents /\ o.id \in Nat
        /\ Offset(o.agent) < o.id /\ o.id < Offset(o.agent) + next_id[o.agent]
    BY <1>2 DEF IssuedOrder, Orders
  <2>2. Offset(o.agent) \in Nat /\ next_id[o.agent] \in Nat /\ next_id[o.agent] < IdBlock
    BY <2>1, OffsetIsNat DEF Types, AgentTypes, IdsLeft
  <2>3. IdBlock \in Nat
    BY SimulatorAssumption
  <2> QED BY <2>1, <2>2, <2>3 DEF InBlock
<1> QED BY <1>1, <1>2

\* The next id of an agent is nobody's.
LEMMA FreshId ==
    ASSUME Types, IdsLeft, NEW o \in Orders, IssuedOrder(o), NEW a \in Agents, NEW n \in Nat,
           n >= Offset(a) + next_id[a], InBlock(a, n)
    PROVE  o.id # n
<1>1. n # WhaleId /\ \A b \in Agents, m \in Nat : a # b /\ InBlock(b, m) => n # m
  BY BlocksApart
<1>2. CASE o = WhaleOrder
  BY <1>1, <1>2 DEF WhaleOrder
<1>3. CASE o # WhaleOrder /\ o.agent = a
  <2>1. o.id < Offset(a) + next_id[a] /\ o.id \in Nat
    BY <1>3 DEF IssuedOrder, Orders
  <2>2. Offset(a) \in Nat /\ next_id[a] \in Nat
    BY OffsetIsNat DEF Types, AgentTypes
  <2> QED BY <2>1, <2>2
<1>4. CASE o # WhaleOrder /\ o.agent # a
  <2>1. o.agent \in Agents /\ InBlock(o.agent, o.id) /\ o.id \in Nat
    BY <1>4, IssuedInBlock DEF Orders
  <2> QED BY <1>1, <1>4, <2>1
<1> QED BY <1>2, <1>3, <1>4

\* The whale's id is no agent's.
LEMMA WhaleApart ==
    ASSUME Types, IdsLeft, NEW o \in Orders, IssuedOrder(o), o.agent \in Agents
    PROVE  o.id # WhaleId
<1>1. o # WhaleOrder
  BY OrderAssumption DEF WhaleOrder, Agents
<1>2. InBlock(o.agent, o.id) /\ o.id \in Nat
  BY <1>1, IssuedInBlock DEF Orders
<1> QED BY <1>2, BlocksApart

\* The orders that have an id and that the engine may still hold.
Live == book \cup OrdersOnTheWay \cup ToSet(pending)

LEMMA LiveAre ==
    ASSUME Types, Issued, NEW o \in Live
    PROVE  o \in Orders /\ IssuedOrder(o)
<1>1. CASE o \in book
  BY <1>1 DEF Types, NetTypes, Issued
<1>2. CASE o \in OrdersOnTheWay
  BY <1>2, OrderAt DEF OrdersOnTheWay, Issued
<1>3. CASE o \in ToSet(pending)
  <2>1. PICK k \in DOMAIN pending : o = pending[k]
    BY <1>3 DEF ToSet
  <2>2. pending \in Seq(Orders)
    BY DEF Types, AgentTypes
  <2>3. pending[k] \in Orders
    BY <2>2, LenProperties, ElementOfSeq
  <2> QED BY <2>1, <2>3 DEF Issued
<1> QED BY <1>1, <1>2, <1>3 DEF Live

\* Ids are taken, never given back.
Grows == \A a \in Agents : next_id'[a] \in Nat /\ next_id[a] <= next_id'[a]

LEMMA IdsGrow == Types /\ Step => Grows
<1> SUFFICES ASSUME Types, Step PROVE Grows
  OBVIOUS
<1>1. next_id \in [Agents -> Nat \ {0}] /\ "HUMAN" \in Agents
  BY DEF Types, AgentTypes, Agents
<1>2. ASSUME NEW a \in Agents, NEW n \in Nat, next_id' = [next_id EXCEPT ![a] = @ + n]
      PROVE  Grows
  BY <1>1, <1>2 DEF Grows
<1>3. CASE MakerSends
  <2>1. "MM" \in Agents /\ next_id' = [next_id EXCEPT !["MM"] = @ + Len(Quotes)]
    BY <1>3 DEF MakerSends, Track
  <2>2. Len(Quotes) \in Nat
    BY <2>1, QuotesAre DEF Types
  <2> QED BY <1>2, <2>1, <2>2
<1>4. CASE TraderSends
  <2>1. PICK a \in Agents \ {"MM", "HUMAN"}, s \in Side, ty \in {"LIMIT", "MARKET"} :
             next_id' = [next_id EXCEPT ![a] = @ + Len(<<AgentOrder(a, 0, s, ty)>>)]
    BY <1>4 DEF TraderSends, Track
  <2>2. AgentOrder(a, 0, s, ty) \in Orders
    BY OrderIs DEF Types
  <2>3. Len(<<AgentOrder(a, 0, s, ty)>>) = 1
    BY <2>2, OneOrder
  <2> QED BY <1>2, <2>1, <2>3
<1>5. CASE HumanQueues
  <2>1. next_id' = [next_id EXCEPT !["HUMAN"] = @ + 1]
    BY <1>5 DEF HumanQueues
  <2> QED BY <1>1, <1>2, <2>1
<1>6. CASE HumanSends \/ NothingSent \/ HumanForgets \/ EngineTakes \/ Idle
  <2>1. next_id' = next_id
    BY <1>6 DEF HumanSends, NothingSent, HumanForgets, HumanCancelAll, EngineTakes, Idle
  <2> QED BY <1>1, <2>1 DEF Grows
<1> QED BY <1>3, <1>4, <1>5, <1>6 DEF Step

LEMMA StillIssued ==
    ASSUME Types, Grows, NEW o \in Orders, IssuedOrder(o)
    PROVE  IssuedOrder(o)'
<1>1. CASE o = WhaleOrder
  BY <1>1 DEF IssuedOrder
<1>2. CASE o # WhaleOrder
  <2>1. /\ o.agent \in Agents /\ o.id \in Nat
        /\ Offset(o.agent) < o.id /\ o.id < Offset(o.agent) + next_id[o.agent]
    BY <1>2 DEF IssuedOrder, Orders
  <2>2. /\ Offset(o.agent) \in Nat /\ next_id[o.agent] \in Nat
        /\ next_id'[o.agent] \in Nat /\ next_id[o.agent] <= next_id'[o.agent]
    BY <2>1, OffsetIsNat DEF Types, AgentTypes, Grows
  <2>3. o.id < Offset(o.agent) + next_id'[o.agent]
    BY <2>1, <2>2
  <2> QED BY <2>1, <2>3 DEF IssuedOrder
<1> QED BY <1>1, <1>2

\* What a list brings to the connection: orders that were there, and its own.
LEMMA WaySent ==
    ASSUME Types, NEW S, NEW orders, Sending(S, orders), NEW i \in Places(c2s', "NEW")
    PROVE  \/ i \in Places(c2s, "NEW") /\ c2s'[i] = c2s[i]
           \/ c2s'[i].order \in ToSet(orders)
<1>1. CASE ~connected
  BY <1>1 DEF Sending, Sends
<1>2. CASE connected
  <2>1. PICK t, g, l : Batch(t, g, S, orders) /\ Placed(c2s, t, c2s', l)
    BY <1>2, PlacesSent
  <2>2. CASE i \in Places(c2s, "NEW")
    BY <2>1, <2>2 DEF Placed
  <2>3. CASE i \notin Places(c2s, "NEW")
    <3>1. i - l \in Places(t, "NEW") /\ c2s'[i] = t[i - l]
      BY <2>1, <2>3 DEF Placed
    <3>2. PICK k \in DOMAIN orders : t[i - l] = New(orders[k])
      BY <2>1, <3>1 DEF Batch
    <3> QED BY <3>1, <3>2 DEF New, ToSet
  <2> QED BY <2>2, <2>3
<1> QED BY <1>1, <1>2 DEF Types, NetTypes

LEMMA IssuedSent ==
    ASSUME Types, Issued, Grows, NEW S, NEW orders, Sending(S, orders),
           \A o \in ToSet(orders) : IssuedOrder(o)', pending' \in {pending, <<>>}
    PROVE  Issued'
<1>1. ASSUME NEW o \in Live PROVE IssuedOrder(o)'
  BY LiveAre, StillIssued
<1>2. book' = book
  BY DEF Sending
<1>3. \A o \in book' : IssuedOrder(o)'
  BY <1>1, <1>2 DEF Live
<1>4. ASSUME NEW i \in Places(c2s', "NEW"), NEW o, o = c2s'[i].order
      PROVE  IssuedOrder(o)'
  <2>1. CASE i \in Places(c2s, "NEW") /\ c2s'[i] = c2s[i]
    <3>1. o \in Live
      BY <1>4, <2>1 DEF Live, OrdersOnTheWay
    <3> QED BY <1>1, <3>1
  <2>2. CASE c2s'[i].order \in ToSet(orders)
    BY <1>4, <2>2
  <2> QED BY <2>1, <2>2, WaySent
<1>5. ASSUME NEW k \in DOMAIN pending', NEW o, o = pending'[k]
      PROVE  IssuedOrder(o)'
  <2>1. pending' = pending
    BY <1>5
  <2>2. o \in Live
    BY <1>5, <2>1 DEF Live, ToSet
  <2> QED BY <1>1, <2>2
<1> QED BY <1>3, <1>4, <1>5 DEF Issued, IssuedOrder

\* The orders that a step makes have ids from next_order_id: after those of
\* before, and before those of after.
Made(a, o) == /\ o \in Orders /\ a \in Agents /\ o.agent = a
              /\ Offset(a) + next_id[a] <= o.id /\ o.id < Offset(a) + next_id'[a]

LEMMA MadeIsIssued ==
    ASSUME Types, NEW a \in Agents, NEW o \in Orders, Made(a, o)
    PROVE  IssuedOrder(o)'
<1>1. Offset(a) \in Nat /\ next_id[a] \in Nat \ {0} /\ o.id \in Nat
  BY OffsetIsNat DEF Types, AgentTypes, Orders
<1>2. Offset(a) < o.id /\ o.id < Offset(a) + next_id'[a] /\ o.agent = a
  BY <1>1 DEF Made
<1> QED BY <1>2 DEF IssuedOrder

LEMMA MadeIsFresh ==
    ASSUME Types, Issued, Grows, IdsLeft, IdsLeft', NEW a \in Agents, NEW o \in Orders,
           Made(a, o), NEW x \in Live
    PROVE  x.id # o.id
<1>1. /\ Offset(a) \in Nat /\ next_id[a] \in Nat \ {0} /\ o.id \in Nat /\ IdBlock \in Nat
      /\ next_id'[a] \in Nat /\ next_id'[a] < IdBlock
  BY OffsetIsNat, SimulatorAssumption DEF Types, AgentTypes, Orders, Grows, IdsLeft
<1>2. Offset(a) + next_id[a] <= o.id /\ o.id < Offset(a) + next_id'[a]
  BY DEF Made
<1>3. InBlock(a, o.id) /\ o.id >= Offset(a) + next_id[a]
  BY <1>1, <1>2 DEF InBlock
<1>4. x \in Orders /\ IssuedOrder(x)
  BY LiveAre
<1> QED BY <1>1, <1>3, <1>4, FreshId

LEMMA QuotesAreMade ==
    ASSUME Types, MakerSends
    PROVE  /\ \A o \in ToSet(Quotes) : Made("MM", o)
           /\ \A k, m \in DOMAIN Quotes : k # m => Quotes[k].id # Quotes[m].id
<1>1. "MM" \in Agents /\ next_id' = [next_id EXCEPT !["MM"] = @ + Len(Quotes)]
  BY DEF MakerSends, Track
<1>2. /\ Quotes \in Seq(Orders) /\ Len(Quotes) = 2 * Levels /\ Levels \in Nat
      /\ DOMAIN Quotes = 1..(2 * Levels)
      /\ \A k \in 1..(2 * Levels) : /\ Quotes[k].agent = "MM"
                                    /\ Quotes[k].id = Offset("MM") + next_id["MM"] + k - 1
  BY <1>1, QuotesAre DEF Types
<1>3. /\ Offset("MM") \in Nat /\ next_id["MM"] \in Nat
      /\ next_id'["MM"] = next_id["MM"] + 2 * Levels
  BY <1>1, <1>2, OffsetIsNat DEF Types, AgentTypes
<1>4. ASSUME NEW o \in ToSet(Quotes) PROVE Made("MM", o)
  <2>1. PICK k \in 1..(2 * Levels) : o = Quotes[k]
    BY <1>2 DEF ToSet
  <2>2. o \in Orders
    BY <1>2, <2>1, ElementOfSeq
  <2>3. Offset("MM") + next_id["MM"] <= o.id /\ o.id < Offset("MM") + next_id'["MM"]
    BY <1>2, <1>3, <2>1
  <2> QED BY <1>1, <1>2, <2>1, <2>2, <2>3 DEF Made
<1>5. ASSUME NEW k \in DOMAIN Quotes, NEW m \in DOMAIN Quotes, k # m
      PROVE  Quotes[k].id # Quotes[m].id
  <2> DEFINE b == Offset("MM") + next_id["MM"]
  <2>1. b \in Nat
    BY <1>3
  <2>2. k \in 1..(2 * Levels) /\ m \in 1..(2 * Levels)
    BY <1>2, <1>5
  <2>3. Quotes[k].id = b + k - 1 /\ Quotes[m].id = b + m - 1
    BY <1>2, <2>2
  <2> HIDE DEF b
  <2>4. k \in Int /\ m \in Int
    BY <1>2, <2>2
  <2> QED BY <1>5, <2>1, <2>3, <2>4
<1> QED BY <1>4, <1>5

LEMMA OneIsMade ==
    ASSUME Types, NEW a \in Agents, NEW s \in Side, NEW ty \in {"LIMIT", "MARKET"},
           next_id' = [next_id EXCEPT ![a] = @ + 1]
    PROVE  Made(a, AgentOrder(a, 0, s, ty))
<1>1. Offset(a) \in Nat /\ next_id[a] \in Nat /\ next_id'[a] = next_id[a] + 1
  BY OffsetIsNat DEF Types, AgentTypes
<1>2. AgentOrder(a, 0, s, ty) \in Orders
  BY OrderIs DEF Types
<1> QED BY <1>1, <1>2 DEF Made, AgentOrder

\* A trader's step, by its order.
LEMMA TraderMakes ==
    ASSUME Types, TraderSends
    PROVE  \E a \in Agents, o \in Orders :
               /\ Made(a, o) /\ Sending({}, <<o>>) /\ ToSet(<<o>>) = {o} /\ DOMAIN <<o>> = {1}
               /\ pending' = pending
<1>1. PICK a \in Agents \ {"MM", "HUMAN"}, s \in Side, ty \in {"LIMIT", "MARKET"} :
             /\ Sending({}, <<AgentOrder(a, 0, s, ty)>>)
             /\ next_id' = [next_id EXCEPT ![a] = @ + Len(<<AgentOrder(a, 0, s, ty)>>)]
             /\ pending' = pending
  BY DEF TraderSends, Track
<1> DEFINE o == AgentOrder(a, 0, s, ty)
<1>2. o \in Orders
  BY OrderIs DEF Types
<1>3. ToSet(<<o>>) = {o} /\ DOMAIN <<o>> = {1} /\ Len(<<o>>) = 1
  <2> HIDE DEF o
  <2> QED BY <1>2, OneOrder
<1>4. Made(a, o)
  BY <1>1, <1>3, OneIsMade
<1> QED BY <1>1, <1>2, <1>3, <1>4

\* HUMAN's step, by its order.
LEMMA HumanMakes ==
    ASSUME Types, HumanQueues
    PROVE  \E o \in Orders :
               /\ Made("HUMAN", o)
               /\ DOMAIN pending' = 1..(Len(pending) + 1) /\ Len(pending) \in Nat
               /\ \A k \in DOMAIN pending' :
                     pending'[k] = IF k = Len(pending) + 1 THEN o ELSE pending[k]
               /\ DOMAIN pending = 1..Len(pending)
               /\ UNCHANGED <<c2s, book>>
<1>1. PICK s \in Side, ty \in {"LIMIT", "MARKET"} :
             pending' = Append(pending, AgentOrder("HUMAN", 0, s, ty))
  BY DEF HumanQueues
<1>2. "HUMAN" \in Agents /\ next_id' = [next_id EXCEPT !["HUMAN"] = @ + 1]
  BY DEF HumanQueues, Agents
<1> DEFINE o == AgentOrder("HUMAN", 0, s, ty)
<1>3. o \in Orders /\ Made("HUMAN", o)
  BY <1>2, OrderIs, OneIsMade DEF Types
<1>4. pending \in Seq(Orders) /\ pending' = Append(pending, o)
  BY <1>1 DEF Types, AgentTypes
<1> HIDE DEF o
<1>5. DOMAIN pending = 1..Len(pending) /\ Len(pending) \in Nat
  BY <1>4, LenProperties
<1>6. /\ pending' \in Seq(Orders) /\ Len(pending') = Len(pending) + 1
      /\ \A k \in 1..Len(pending) : pending'[k] = pending[k]
      /\ pending'[Len(pending) + 1] = o
  BY <1>3, <1>4, AppendProperties
<1>7. DOMAIN pending' = 1..(Len(pending) + 1)
  BY <1>6, LenProperties
<1>8. ASSUME NEW k \in 1..(Len(pending) + 1)
      PROVE  pending'[k] = IF k = Len(pending) + 1 THEN o ELSE pending[k]
  BY <1>5, <1>6
<1> QED BY <1>3, <1>5, <1>7, <1>8 DEF HumanQueues

LEMMA WhaleSends ==
    ASSUME NothingSent
    PROVE  \E orders : /\ Sending({}, orders) /\ ToSet(orders) \subseteq {WhaleOrder}
                       /\ DOMAIN orders \subseteq {1} /\ pending' = pending
<1>1. PICK orders \in {<<>>, <<WhaleOrder>>} : Sending({}, orders) /\ pending' = pending
  BY DEF NothingSent
<1>2. /\ ToSet(<<>>) = {} /\ DOMAIN <<>> = {}
      /\ ToSet(<<WhaleOrder>>) = {WhaleOrder} /\ DOMAIN <<WhaleOrder>> = {1}
  BY OneOrder, OrderIs DEF ToSet
<1> QED BY <1>1, <1>2

\* The engine takes the message at the head: what is left was there before.
LEMMA WayTaken ==
    ASSUME Types, EngineTakes
    PROVE  /\ \A i \in Places(c2s', "NEW") :
                 i \in Nat /\ i > 0 /\ i + 1 \in Places(c2s, "NEW") /\ c2s'[i] = c2s[i + 1]
           /\ \A o \in book' : o \in book \/ (1 \in Places(c2s, "NEW") /\ o = c2s[1].order)
<1>1. c2s \in Seq(Messages) /\ c2s # <<>> /\ c2s' = Tail(c2s)
  BY DEF Types, NetTypes, EngineTakes
<1>2. Shifted(c2s, c2s')
  BY <1>1, TailIsShifted
<1>3. c2s \in Seq(Messages) /\ c2s # <<>>
  BY <1>1
<1>4. /\ Head(c2s) = c2s[1] /\ (Head(c2s).kind = "NEW" => 1 \in Places(c2s, "NEW"))
      /\ \A i \in Places(c2s', "NEW") :
            i \in Nat /\ i > 0 /\ i + 1 \in Places(c2s, "NEW") /\ c2s'[i] = c2s[i + 1]
  BY <1>2, <1>3, Taken
<1>5. CASE Head(c2s).kind = "NEW" /\ EngineAdds(Head(c2s).order)
  BY <1>4, <1>5 DEF EngineAdds
<1>6. CASE \/ Head(c2s).kind = "CANCEL" /\ book' = {o \in book : o.id # Head(c2s).id}
           \/ book' = book
  BY <1>4, <1>6
<1> QED BY <1>5, <1>6 DEF EngineTakes

LEMMA IssuedStep == Types /\ Issued /\ Step => Issued'
<1> SUFFICES ASSUME Types, Issued, Step PROVE Issued'
  OBVIOUS
<1>1. Grows
  BY IdsGrow
<1>2. ASSUME NEW o \in Live PROVE IssuedOrder(o)'
  BY <1>1, LiveAre, StillIssued
<1>3. CASE MakerSends
  <2>1. "MM" \in Agents /\ Sending(IdsOf(active["MM"]), Quotes) /\ pending' = pending
    BY <1>3 DEF MakerSends
  <2>2. ASSUME NEW o \in ToSet(Quotes) PROVE IssuedOrder(o)'
    <3>1. Made("MM", o)
      BY <1>3, QuotesAreMade
    <3>2. o \in Orders
      BY <3>1 DEF Made
    <3> QED BY <2>1, <3>1, <3>2, MadeIsIssued
  <2> QED BY <1>1, <2>1, <2>2, IssuedSent
<1>4. CASE TraderSends
  <2>1. PICK a \in Agents, o \in Orders :
             Made(a, o) /\ Sending({}, <<o>>) /\ ToSet(<<o>>) = {o} /\ pending' = pending
    BY <1>4, TraderMakes
  <2>2. IssuedOrder(o)'
    BY <2>1, MadeIsIssued
  <2>3. \A x \in ToSet(<<o>>) : IssuedOrder(x)'
    BY <2>1, <2>2
  <2> QED BY <1>1, <2>1, <2>3, IssuedSent
<1>5. CASE HumanSends
  <2>1. Sending(to_cancel, pending) /\ pending' = <<>>
    BY <1>5 DEF HumanSends
  <2>2. \A o \in ToSet(pending) : IssuedOrder(o)'
    BY <1>2 DEF Live
  <2> QED BY <1>1, <2>1, <2>2, IssuedSent
<1>6. CASE NothingSent
  <2>1. PICK orders : /\ Sending({}, orders) /\ ToSet(orders) \subseteq {WhaleOrder}
                      /\ pending' = pending
    BY <1>6, WhaleSends
  <2>2. \A o \in ToSet(orders) : IssuedOrder(o)'
    BY <2>1 DEF IssuedOrder
  <2> QED BY <1>1, <2>1, <2>2, IssuedSent
<1>7. CASE HumanQueues
  <2>1. PICK o \in Orders :
             /\ Made("HUMAN", o)
             /\ DOMAIN pending' = 1..(Len(pending) + 1) /\ Len(pending) \in Nat
             /\ \A k \in DOMAIN pending' :
                   pending'[k] = IF k = Len(pending) + 1 THEN o ELSE pending[k]
             /\ DOMAIN pending = 1..Len(pending)
             /\ UNCHANGED <<c2s, book>>
    BY <1>7, HumanMakes
  <2>2. IssuedOrder(o)'
    BY <2>1, MadeIsIssued DEF Made
  <2>3. ASSUME NEW k \in DOMAIN pending', NEW x, x = pending'[k] PROVE IssuedOrder(x)'
    <3>1. CASE k = Len(pending) + 1
      BY <2>1, <2>2, <2>3, <3>1
    <3>2. CASE k # Len(pending) + 1
      <4>1. k \in DOMAIN pending /\ x = pending[k]
        BY <2>1, <2>3, <3>2
      <4>2. x \in Live
        BY <4>1 DEF Live, ToSet
      <4> QED BY <1>2, <4>2
    <3> QED BY <3>1, <3>2
  <2>4. ASSUME NEW i \in Places(c2s', "NEW"), NEW x, x = c2s'[i].order PROVE IssuedOrder(x)'
    <3>1. x \in Live
      BY <2>1, <2>4 DEF Live, OrdersOnTheWay
    <3> QED BY <1>2, <3>1
  <2>5. ASSUME NEW x \in book' PROVE IssuedOrder(x)'
    BY <1>2, <2>1 DEF Live
  <2> QED BY <2>3, <2>4, <2>5 DEF Issued, IssuedOrder
<1>8. CASE HumanForgets \/ Idle
  <2>1. UNCHANGED <<c2s, book, next_id, pending>>
    BY <1>8 DEF HumanForgets, HumanCancelAll, netVars, Idle
  <2> QED BY <2>1 DEF Issued, IssuedOrder
<1>9. CASE EngineTakes
  <2>1. UNCHANGED <<next_id, pending>>
    BY <1>9 DEF EngineTakes
  <2>2. /\ \A i \in Places(c2s', "NEW") :
              i \in Nat /\ i > 0 /\ i + 1 \in Places(c2s, "NEW") /\ c2s'[i] = c2s[i + 1]
        /\ \A o \in book' : o \in book \/ (1 \in Places(c2s, "NEW") /\ o = c2s[1].order)
    BY <1>9, WayTaken
  <2>3. ASSUME NEW i \in Places(c2s', "NEW"), NEW x, x = c2s'[i].order PROVE IssuedOrder(x)'
    <3>1. x \in Live
      BY <2>2, <2>3 DEF Live, OrdersOnTheWay
    <3> QED BY <1>2, <3>1
  <2>4. ASSUME NEW x \in book' PROVE IssuedOrder(x)'
    <3>1. x \in Live
      BY <2>2 DEF Live, OrdersOnTheWay
    <3> QED BY <1>2, <3>1
  <2>5. ASSUME NEW k \in DOMAIN pending', NEW x, x = pending'[k] PROVE IssuedOrder(x)'
    <3>1. x \in Live
      BY <2>1, <2>5 DEF Live, ToSet
    <3> QED BY <1>2, <3>1
  <2> QED BY <2>3, <2>4, <2>5 DEF Issued, IssuedOrder
<1> QED BY <1>3, <1>4, <1>5, <1>6, <1>7, <1>8, <1>9 DEF Step

\* A list whose orders have ids of their own.
LEMMA UniqueSent ==
    ASSUME Types, Unique, NEW S, NEW orders, Sending(S, orders),
           \A k, m \in DOMAIN orders : k # m => orders[k].id # orders[m].id,
           \A o \in ToSet(orders), x \in book \cup OrdersOnTheWay :
               o.agent \in Agents \/ x.agent \in Agents => o.id # x.id,
           \/ pending' = <<>>
           \/ /\ pending' = pending
              /\ \A o \in ToSet(orders), x \in ToSet(pending) : o.id # x.id
    PROVE  Unique'
<1>1. book' = book
  BY DEF Sending
<1>2. ASSUME NEW i \in Places(c2s', "NEW"), NEW j \in Places(c2s', "NEW"), i # j,
             c2s'[i].order.agent \in Agents
      PROVE  c2s'[i].order.id # c2s'[j].order.id
  <2>1. CASE ~connected
    BY <1>2, <2>1 DEF Sending, Sends, Unique, UniqueWay
  <2>2. CASE connected
    <3>1. PICK t, g, l : Batch(t, g, S, orders) /\ Placed(c2s, t, c2s', l)
      BY <2>2, PlacesSent
    <3>2. ASSUME NEW h \in Places(c2s', "NEW"), h \notin Places(c2s, "NEW")
          PROVE  /\ h \in Nat /\ l \in Nat /\ h - l \in Places(t, "NEW")
                 /\ g[h - l] \in DOMAIN orders /\ c2s'[h].order = orders[g[h - l]]
                 /\ c2s'[h].order \in ToSet(orders)
      <4>1. h \in Nat /\ l \in Nat /\ h - l \in Places(t, "NEW") /\ c2s'[h] = t[h - l]
        BY <3>1, <3>2 DEF Placed
      <4>2. g[h - l] \in DOMAIN orders /\ t[h - l] = New(orders[g[h - l]])
        BY <3>1, <4>1 DEF Batch
      <4> QED BY <4>1, <4>2 DEF New, ToSet
    <3>3. ASSUME NEW h \in Places(c2s, "NEW")
          PROVE  c2s'[h] = c2s[h] /\ c2s'[h].order \in book \cup OrdersOnTheWay
      <4>1. c2s'[h] = c2s[h]
        BY <3>1 DEF Placed
      <4> QED BY <4>1 DEF OrdersOnTheWay
    <3>4. CASE i \in Places(c2s, "NEW") /\ j \in Places(c2s, "NEW")
      BY <1>2, <3>3, <3>4 DEF Unique, UniqueWay
    <3>5. CASE i \in Places(c2s, "NEW") /\ j \notin Places(c2s, "NEW")
      BY <1>2, <3>2, <3>3, <3>5
    <3>6. CASE i \notin Places(c2s, "NEW") /\ j \in Places(c2s, "NEW")
      BY <1>2, <3>2, <3>3, <3>6
    <3>7. CASE i \notin Places(c2s, "NEW") /\ j \notin Places(c2s, "NEW")
      <4>1. /\ i \in Nat /\ l \in Nat /\ i - l \in Places(t, "NEW")
            /\ g[i - l] \in DOMAIN orders /\ c2s'[i].order = orders[g[i - l]]
        BY <3>2, <3>7
      <4>2. /\ j \in Nat /\ j - l \in Places(t, "NEW")
            /\ g[j - l] \in DOMAIN orders /\ c2s'[j].order = orders[g[j - l]]
        BY <3>2, <3>7
      <4>3. \A n \in DOMAIN orders : n \in Nat
        <5>1. orders \in Seq(Orders)
          BY DEF Sending
        <5> QED BY <5>1, LenProperties
      <4>4. i - l < j - l \/ j - l < i - l
        BY <1>2, <4>1, <4>2
      <4>5. g[i - l] < g[j - l] \/ g[j - l] < g[i - l]
        BY <3>1, <4>1, <4>2, <4>4 DEF Batch
      <4>6. g[i - l] # g[j - l]
        BY <4>1, <4>2, <4>3, <4>5
      <4> QED BY <4>1, <4>2, <4>6
    <3> QED BY <3>4, <3>5, <3>6, <3>7
  <2> QED BY <2>1, <2>2 DEF Types, NetTypes
<1>3. ASSUME NEW i \in Places(c2s', "NEW"), NEW o \in book', c2s'[i].order.agent \in Agents
      PROVE  c2s'[i].order.id # o.id
  <2>1. CASE i \in Places(c2s, "NEW") /\ c2s'[i] = c2s[i]
    BY <1>1, <1>3, <2>1 DEF Unique, UniqueWay
  <2>2. CASE c2s'[i].order \in ToSet(orders)
    BY <1>1, <1>3, <2>2
  <2> QED BY <2>1, <2>2, WaySent
<1>4. CASE pending' = <<>>
  BY <1>2, <1>3, <1>4 DEF Unique, UniqueWay, UniquePending
<1>5. CASE /\ pending' = pending
           /\ \A o \in ToSet(orders), x \in ToSet(pending) : o.id # x.id
  <2>1. ASSUME NEW k \in DOMAIN pending, NEW i \in Places(c2s', "NEW")
        PROVE  pending[k].id # c2s'[i].order.id
    <3>1. CASE i \in Places(c2s, "NEW") /\ c2s'[i] = c2s[i]
      BY <3>1 DEF Unique, UniquePending
    <3>2. CASE c2s'[i].order \in ToSet(orders)
      BY <1>5, <3>2 DEF ToSet
    <3> QED BY <3>1, <3>2, WaySent
  <2>2. UniquePending'
    BY <1>1, <1>5, <2>1 DEF Unique, UniquePending
  <2> QED BY <1>2, <1>3, <2>2 DEF Unique, UniqueWay
<1> QED BY <1>4, <1>5

LEMMA UniqueTaken == Types /\ Unique /\ EngineTakes => Unique'
<1> SUFFICES ASSUME Types, Unique, EngineTakes PROVE Unique'
  OBVIOUS
<1>1. /\ \A i \in Places(c2s', "NEW") :
            i \in Nat /\ i > 0 /\ i + 1 \in Places(c2s, "NEW") /\ c2s'[i] = c2s[i + 1]
      /\ \A o \in book' : o \in book \/ (1 \in Places(c2s, "NEW") /\ o = c2s[1].order)
  BY WayTaken
<1>2. pending' = pending
  BY DEF EngineTakes
<1>3. ASSUME NEW i \in Places(c2s', "NEW"), NEW j \in Places(c2s', "NEW"), i # j,
             c2s'[i].order.agent \in Agents
      PROVE  c2s'[i].order.id # c2s'[j].order.id
  <2>1. /\ i + 1 \in Places(c2s, "NEW") /\ c2s'[i] = c2s[i + 1] /\ i + 1 # j + 1
        /\ j + 1 \in Places(c2s, "NEW") /\ c2s'[j] = c2s[j + 1]
    BY <1>1, <1>3
  <2> QED BY <1>3, <2>1 DEF Unique, UniqueWay
<1>4. ASSUME NEW i \in Places(c2s', "NEW"), NEW o \in book', c2s'[i].order.agent \in Agents
      PROVE  c2s'[i].order.id # o.id
  <2>1. i + 1 \in Places(c2s, "NEW") /\ c2s'[i] = c2s[i + 1] /\ i + 1 # 1
    BY <1>1
  <2>2. CASE o \in book
    BY <1>4, <2>1, <2>2 DEF Unique, UniqueWay
  <2>3. CASE 1 \in Places(c2s, "NEW") /\ o = c2s[1].order
    BY <1>4, <2>1, <2>3 DEF Unique, UniqueWay
  <2> QED BY <1>1, <2>2, <2>3
<1>5. UniquePending'
  <2>1. ASSUME NEW k \in DOMAIN pending, NEW o \in book' PROVE pending[k].id # o.id
    BY <1>1 DEF Unique, UniquePending
  <2>2. ASSUME NEW k \in DOMAIN pending, NEW i \in Places(c2s', "NEW")
        PROVE  pending[k].id # c2s'[i].order.id
    BY <1>1 DEF Unique, UniquePending
  <2> QED BY <1>2, <2>1, <2>2 DEF Unique, UniquePending
<1> QED BY <1>3, <1>4, <1>5 DEF Unique, UniqueWay

LEMMA UniqueStep ==
    ASSUME Types, Issued, IdsLeft, Unique, Step, IdsLeft'
    PROVE  Unique'
<1>1. Grows
  BY IdsGrow
<1>2. ASSUME NEW a \in Agents, NEW o \in Orders, Made(a, o), NEW x \in Live
      PROVE  o.id # x.id
  BY <1>1, <1>2, MadeIsFresh
<1>3. CASE MakerSends
  <2>1. "MM" \in Agents /\ Sending(IdsOf(active["MM"]), Quotes) /\ pending' = pending
    BY <1>3 DEF MakerSends
  <2>2. /\ \A o \in ToSet(Quotes) : Made("MM", o)
        /\ \A k, m \in DOMAIN Quotes : k # m => Quotes[k].id # Quotes[m].id
    BY <1>3, QuotesAreMade
  <2>3. ASSUME NEW o \in ToSet(Quotes), NEW x \in Live PROVE o.id # x.id
    <3>1. Made("MM", o) /\ o \in Orders
      BY <2>2 DEF Made
    <3> QED BY <1>2, <2>1, <3>1
  <2>4. /\ \A o \in ToSet(Quotes), x \in book \cup OrdersOnTheWay : o.id # x.id
        /\ \A o \in ToSet(Quotes), x \in ToSet(pending) : o.id # x.id
    BY <2>3 DEF Live
  <2> QED BY <2>1, <2>2, <2>4, UniqueSent
<1>4. CASE TraderSends
  <2>1. PICK a \in Agents, o \in Orders :
             /\ Made(a, o) /\ Sending({}, <<o>>) /\ ToSet(<<o>>) = {o} /\ DOMAIN <<o>> = {1}
             /\ pending' = pending
    BY <1>4, TraderMakes
  <2>2. \A x \in Live : o.id # x.id
    BY <1>2, <2>1
  <2> DEFINE orders == <<o>>
  <2>3. /\ Sending({}, orders) /\ ToSet(orders) = {o} /\ DOMAIN orders = {1}
    BY <2>1
  <2> HIDE DEF orders
  <2>4. /\ \A y \in ToSet(orders), x \in book \cup OrdersOnTheWay : y.id # x.id
        /\ \A y \in ToSet(orders), x \in ToSet(pending) : y.id # x.id
    BY <2>2, <2>3 DEF Live
  <2>5. \A k, m \in DOMAIN orders : k # m => orders[k].id # orders[m].id
    BY <2>3
  <2> QED BY <2>1, <2>3, <2>4, <2>5, UniqueSent
<1>5. CASE HumanSends
  <2>1. Sending(to_cancel, pending) /\ pending' = <<>>
    BY <1>5 DEF HumanSends
  <2>2. \A o \in ToSet(pending), x \in book \cup OrdersOnTheWay : o.id # x.id
    BY DEF Unique, UniquePending, ToSet, OrdersOnTheWay
  <2>3. \A k, m \in DOMAIN pending : k # m => pending[k].id # pending[m].id
    BY DEF Unique, UniquePending
  <2> QED BY <2>1, <2>2, <2>3, UniqueSent
<1>6. CASE NothingSent
  <2>1. PICK orders : /\ Sending({}, orders) /\ ToSet(orders) \subseteq {WhaleOrder}
                      /\ DOMAIN orders \subseteq {1} /\ pending' = pending
    BY <1>6, WhaleSends
  <2>2. ASSUME NEW x \in Live, x.agent \in Agents PROVE x.id # WhaleOrder.id
    BY <2>2, LiveAre, WhaleApart DEF WhaleOrder
  <2>3. WhaleOrder.agent \notin Agents
    BY OrderAssumption DEF WhaleOrder, Agents
  <2>4. \A x \in ToSet(pending) : x.agent \in Agents
    BY DEF ToSet, Types, AgentTypes, Agents
  <2>5. \A o \in ToSet(orders), x \in book \cup OrdersOnTheWay :
           o.agent \in Agents \/ x.agent \in Agents => o.id # x.id
    BY <2>1, <2>2, <2>3 DEF Live
  <2>6. \A o \in ToSet(orders), x \in ToSet(pending) : o.id # x.id
    BY <2>1, <2>2, <2>4 DEF Live
  <2>7. \A k, m \in DOMAIN orders : k # m => orders[k].id # orders[m].id
    BY <2>1
  <2> QED BY <2>1, <2>5, <2>6, <2>7, UniqueSent
<1>7. CASE HumanQueues
  <2>1. PICK o \in Orders :
             /\ Made("HUMAN", o)
             /\ DOMAIN pending' = 1..(Len(pending) + 1) /\ Len(pending) \in Nat
             /\ \A k \in DOMAIN pending' :
                   pending'[k] = IF k = Len(pending) + 1 THEN o ELSE pending[k]
             /\ DOMAIN pending = 1..Len(pending)
             /\ UNCHANGED <<c2s, book>>
    BY <1>7, HumanMakes
  <2>2. \A x \in Live : o.id # x.id
    BY <1>2, <2>1 DEF Made
  <2>3. ASSUME NEW k \in DOMAIN pending'
        PROVE  \/ k = Len(pending) + 1 /\ pending'[k] = o
               \/ k \in DOMAIN pending /\ pending'[k] = pending[k]
    BY <2>1, <2>3
  <2>4. /\ \A x \in book : o.id # x.id
        /\ \A i \in Places(c2s, "NEW") : o.id # c2s[i].order.id
        /\ \A k \in DOMAIN pending : o.id # pending[k].id
    BY <2>2 DEF Live, OrdersOnTheWay, ToSet
  <2>5. \A k, m \in DOMAIN pending' : k # m => pending'[k].id # pending'[m].id
    BY <2>3, <2>4 DEF Unique, UniquePending
  <2>6. \A k \in DOMAIN pending', x \in book : pending'[k].id # x.id
    BY <2>3, <2>4 DEF Unique, UniquePending
  <2>7. \A k \in DOMAIN pending', i \in Places(c2s, "NEW") : pending'[k].id # c2s[i].order.id
    BY <2>3, <2>4 DEF Unique, UniquePending
  <2>8. UniquePending'
    BY <2>1, <2>5, <2>6, <2>7 DEF UniquePending
  <2>9. UniqueWay'
    BY <2>1 DEF Unique, UniqueWay
  <2> QED BY <2>8, <2>9 DEF Unique
<1>8. CASE HumanForgets \/ Idle
  <2>1. UNCHANGED <<c2s, book, pending>>
    BY <1>8 DEF HumanForgets, HumanCancelAll, netVars, Idle
  <2> QED BY <2>1 DEF Unique, UniqueWay, UniquePending
<1>9. CASE EngineTakes
  BY <1>9, UniqueTaken
<1> QED BY <1>3, <1>4, <1>5, <1>6, <1>7, <1>8, <1>9 DEF Step

LEMMA UniqueMeans == Types /\ Issued /\ Distinct /\ IdsLeft /\ Unique => NoIdCollides
<1> SUFFICES ASSUME Types, Issued, Distinct, IdsLeft, Unique PROVE NoIdCollides
  OBVIOUS
<1>1. ASSUME NEW i \in Places(c2s, "NEW")
      PROVE  c2s[i].id = c2s[i].order.id
  <2>1. c2s \in Seq(Messages) /\ i \in DOMAIN c2s /\ c2s[i].kind = "NEW"
    BY DEF Types, NetTypes, Places
  <2>2. c2s[i] \in Messages
    BY <2>1, LenProperties, ElementOfSeq
  <2>3. c2s[i] = New(c2s[i].order)
    BY <2>1, <2>2, MessageIs
  <2> DEFINE o == c2s[i].order
  <2> HIDE DEF o
  <2>4. New(o).id = o.id
    BY DEF New
  <2> QED BY <2>3, <2>4 DEF o
\* An order that is not an agent's is the whale's, and no agent's has its id.
<1>2. ASSUME NEW x \in Live, x.agent \notin Agents PROVE x = WhaleOrder
  BY <1>2, LiveAre DEF IssuedOrder
<1>3. ASSUME NEW x \in Live, x.id = WhaleId PROVE x.agent \notin Agents
  BY <1>3, LiveAre, WhaleApart
<1>4. ASSUME NEW i \in Places(c2s, "NEW"), NEW j \in Places(c2s, "NEW"),
             i # j, c2s[i].order.agent \in Agents
      PROVE  c2s[i].id # c2s[j].id
  BY <1>1, <1>4 DEF Unique, UniqueWay
<1>5. ASSUME NEW o \in OrdersOnTheWay, NEW x \in book, o.agent \in Agents
      PROVE  o.id # x.id
  BY <1>5 DEF Unique, UniqueWay, OrdersOnTheWay
<1>6. ASSUME NEW o \in book \cup OrdersOnTheWay, NEW x \in book \cup OrdersOnTheWay,
             o.id = x.id
      PROVE  o = x
  <2>1. o \in Live /\ x \in Live
    BY DEF Live
  <2>2. CASE o.agent \notin Agents
    <3>1. o = WhaleOrder /\ x.id = WhaleId
      BY <1>2, <1>6, <2>1, <2>2 DEF WhaleOrder
    <3> QED BY <1>2, <1>3, <2>1, <3>1
  <2>3. CASE x.agent \notin Agents
    <3>1. x = WhaleOrder /\ o.id = WhaleId
      BY <1>2, <1>6, <2>1, <2>3 DEF WhaleOrder
    <3> QED BY <1>2, <1>3, <2>1, <3>1
  <2>4. CASE o.agent \in Agents /\ x.agent \in Agents
    <3>1. CASE o \in book /\ x \in book
      BY <1>6, <3>1 DEF Distinct
    <3>2. CASE o \in OrdersOnTheWay /\ x \in OrdersOnTheWay
      BY <1>6, <2>4, <3>2 DEF Unique, UniqueWay, OrdersOnTheWay
    <3> QED BY <1>5, <1>6, <2>4, <3>1, <3>2
  <2> QED BY <2>2, <2>3, <2>4
<1>7. \A o \in OrdersOnTheWay : o.agent \in Agents => o \notin book
  BY <1>5
<1> QED BY <1>4, <1>6, <1>7 DEF NoIdCollides

\* As long as no agent has used up its block, no order of an agent meets another
\* with its id in the engine or on the way there (NoIdCollides): next_order_id,
\* the offsets of _create_agents and the whale's id do not get in each other's
\* way, whatever fails, is swept or waits with HUMAN.
THEOREM IdsDoNotCollide == Spec => [](IdsLeft => NoIdCollides)
<1> DEFINE Inv == Types /\ Tracked /\ Quoted /\ Issued /\ (IdsLeft => Unique)
<1>1. Init => Inv
  <2>1. Init => Tracked
    BY DEF Init, Tracked, Places
  <2>2. Init => Quoted
    BY DEF Init, Quoted, Distinct, InBook, BookAhead, WayAhead, Places
  <2>3. Init => Issued /\ Unique
    BY DEF Init, Issued, Unique, UniqueWay, UniquePending, Places
  <2> QED BY <2>1, <2>2, <2>3, InitTypes
<1>2. Inv /\ [Next]_vars => Inv'
  <2> SUFFICES ASSUME Inv, [Next]_vars PROVE Inv'
    OBVIOUS
  <2>1. Step /\ Types'
    BY StepIs, TypesStep
  <2>2. Tracked' /\ Quoted' /\ Issued'
    BY <2>1, TrackedStep, QuotedStep, IssuedStep
  <2>3. ASSUME IdsLeft' PROVE Unique'
    <3>1. Grows
      BY <2>1, IdsGrow
    <3>2. IdsLeft
      <4> SUFFICES ASSUME NEW a \in Agents PROVE next_id[a] < IdBlock
        BY DEF IdsLeft
      <4>1. next_id[a] \in Nat /\ next_id'[a] \in Nat /\ next_id[a] <= next_id'[a]
        BY <3>1 DEF Types, AgentTypes, Grows
      <4>2. next_id'[a] < IdBlock /\ IdBlock \in Nat
        BY <2>3, SimulatorAssumption DEF IdsLeft
      <4> QED BY <4>1, <4>2
    <3> QED BY <2>1, <2>3, <3>2, UniqueStep
  <2> QED BY <2>1, <2>2, <2>3
<1>3. Inv => (IdsLeft => NoIdCollides)
  BY UniqueMeans DEF Quoted
<1> QED BY <1>1, <1>2, <1>3, PTL DEF Spec
=============================================================================
