---------------------------- MODULE Ledger_proofs ----------------------------
(***************************************************************************)
(* Proofs about Ledger, for any set of agents, any number of orders and of *)
(* orders per action, and any bound on the losses: the records of          *)
(* MetricsEngine stay in step with the agents' books, and what they say of *)
(* the engine is true once the CANCELs under way have arrived.             *)
(***************************************************************************)
EXTENDS Ledger, SequenceTheorems, TLAPS

Messages == [kind: {"NEW", "CANCEL"}, id: Nat]

-----------------------------------------------------------------------------
(* Messages about an order in a sequence of them. *)

Where(s, kind, id) == {i \in DOMAIN s : s[i] = [kind |-> kind, id |-> id]}

\* A CANCEL for the order is there.
Coming(s, id) == Where(s, "CANCEL", id) # {}

\* Behind every NEW with the order there is a CANCEL for it.
Behind(s, id) ==
    \A i \in Where(s, "NEW", id) : \E j \in Where(s, "CANCEL", id) : i < j

LEMMA AppendIs ==
    ASSUME NEW s \in Seq(Messages), NEW m \in Messages
    PROVE  /\ Append(s, m) \in Seq(Messages)
           /\ DOMAIN Append(s, m) = DOMAIN s \cup {Len(s) + 1}
           /\ \A i \in DOMAIN s : Append(s, m)[i] = s[i] /\ i < Len(s) + 1
           /\ Append(s, m)[Len(s) + 1] = m
           /\ Len(s) + 1 \notin DOMAIN s
<1>1. /\ Append(s, m) \in Seq(Messages) /\ Len(Append(s, m)) = Len(s) + 1
      /\ \A i \in 1..Len(s) : Append(s, m)[i] = s[i]
      /\ Append(s, m)[Len(s) + 1] = m
  BY AppendProperties
<1>2. Len(s) \in Nat /\ DOMAIN s = 1..Len(s) /\ DOMAIN Append(s, m) = 1..(Len(s) + 1)
  BY <1>1, LenProperties
<1> QED
  BY <1>1, <1>2

LEMMA TailIs ==
    ASSUME NEW s \in Seq(Messages), s # <<>>
    PROVE  /\ Tail(s) \in Seq(Messages) /\ Head(s) \in Messages /\ Head(s) = s[1]
           /\ \A i \in DOMAIN Tail(s) : i + 1 \in DOMAIN s /\ Tail(s)[i] = s[i + 1] /\ i \in Nat
           /\ \A i \in DOMAIN s : i \in Nat /\ (i # 1 => i - 1 \in DOMAIN Tail(s) /\ 1 < i)
           /\ \A i \in DOMAIN s : i # 1 => Tail(s)[i - 1] = s[i]
           /\ 1 \in DOMAIN s
<1>1. /\ Tail(s) \in Seq(Messages) /\ Head(s) \in Messages /\ Head(s) = s[1]
      /\ Len(Tail(s)) = Len(s) - 1
      /\ \A i \in 1..Len(Tail(s)) : Tail(s)[i] = s[i + 1]
  BY HeadTailProperties
<1>2. Len(s) \in Nat \ {0} /\ DOMAIN s = 1..Len(s) /\ DOMAIN Tail(s) = 1..(Len(s) - 1)
  BY <1>1, LenProperties, EmptySeq
<1>3. \A i \in DOMAIN s : i # 1 => i - 1 \in 1..Len(Tail(s)) /\ i - 1 + 1 = i
  BY <1>1, <1>2
<1> QED
  BY <1>1, <1>2, <1>3

\* A CANCEL that is sent is behind everything that was sent before it.
LEMMA CancelGoesBehind ==
    ASSUME NEW s \in Seq(Messages), NEW id \in Nat
    PROVE  Coming(Append(s, Cancel(id)), id) /\ Behind(Append(s, Cancel(id)), id)
<1> DEFINE t == Append(s, Cancel(id))
           last == Len(s) + 1
<1>1. Cancel(id) \in Messages
  BY DEF Messages, Cancel
<1>2. DOMAIN t = DOMAIN s \cup {last} /\ t[last] = Cancel(id) /\ \A i \in DOMAIN s : i < last
  BY <1>1, AppendIs
<1> HIDE DEF t, last
<1>3. last \in Where(t, "CANCEL", id)
  BY <1>2 DEF Where, Cancel
<1>4. ASSUME NEW i \in Where(t, "NEW", id)
      PROVE  i < last
  <2>1. i \in DOMAIN t /\ t[i].kind = "NEW"
    BY <1>4 DEF Where
  <2>2. t[last].kind = "CANCEL"
    BY <1>2 DEF Cancel
  <2> QED
    BY <1>2, <2>1, <2>2
<1>5. Coming(t, id) /\ Behind(t, id)
  BY <1>3, <1>4 DEF Coming, Behind
<1> QED
  BY <1>5 DEF t

\* A message about another order changes nothing.
LEMMA AnotherAppended ==
    ASSUME NEW s \in Seq(Messages), NEW m \in Messages, NEW id, m.id # id
    PROVE  /\ Coming(s, id) => Coming(Append(s, m), id)
           /\ Behind(s, id) => Behind(Append(s, m), id)
<1> DEFINE t == Append(s, m)
           last == Len(s) + 1
<1>1. /\ DOMAIN t = DOMAIN s \cup {last} /\ t[last] = m
      /\ \A i \in DOMAIN s : t[i] = s[i]
  BY AppendIs
<1> HIDE DEF t, last
<1>2. \A k \in {"NEW", "CANCEL"} : Where(t, k, id) = Where(s, k, id)
  <2>1. \A k \in {"NEW", "CANCEL"} : t[last] # [kind |-> k, id |-> id]
    BY <1>1
  <2> QED
    BY <1>1, <2>1 DEF Where
<1>3. /\ Coming(s, id) => Coming(t, id)
      /\ Behind(s, id) => Behind(t, id)
  BY <1>2 DEF Coming, Behind
<1> QED
  BY <1>3 DEF t

\* When the first message is taken, a CANCEL that was behind a NEW still is; only
\* the CANCEL itself can be the one that is gone, and one that was behind the NEW
\* that is taken is still to come.
LEMMA FirstTaken ==
    ASSUME NEW s \in Seq(Messages), s # <<>>, NEW id
    PROVE  /\ Behind(s, id) => Behind(Tail(s), id)
           /\ (Coming(s, id) /\ Head(s) # Cancel(id)) => Coming(Tail(s), id)
           /\ (Behind(s, id) /\ Head(s) = New(id)) => Coming(Tail(s), id)
<1> DEFINE t == Tail(s)
<1>1. /\ \A i \in DOMAIN t : i + 1 \in DOMAIN s /\ t[i] = s[i + 1] /\ i \in Nat
      /\ \A i \in DOMAIN s : i \in Nat /\ (i # 1 => i - 1 \in DOMAIN t /\ 1 < i)
      /\ \A i \in DOMAIN s : i # 1 => t[i - 1] = s[i]
      /\ 1 \in DOMAIN s /\ Head(s) = s[1]
  BY TailIs
<1> HIDE DEF t
<1>2. \A k, i : i \in Where(t, k, id) => i \in Nat /\ i + 1 \in Where(s, k, id)
  BY <1>1 DEF Where
<1>3. \A k, i : (i \in Where(s, k, id) /\ i # 1) => i \in Nat /\ 1 < i /\ i - 1 \in Where(t, k, id)
  BY <1>1 DEF Where
<1>4. ASSUME Behind(s, id), NEW i \in Where(t, "NEW", id)
      PROVE  \E j \in Where(t, "CANCEL", id) : i < j
  <2>1. i \in Nat /\ i + 1 \in Where(s, "NEW", id)
    BY <1>2, <1>4
  <2>2. PICK j \in Where(s, "CANCEL", id) : i + 1 < j
    BY <1>4, <2>1 DEF Behind
  <2>3. j # 1
    BY <2>1, <2>2
  <2>4. j \in Nat /\ j - 1 \in Where(t, "CANCEL", id)
    BY <1>3, <2>3
  <2>5. i < j - 1
    BY <2>1, <2>2, <2>4
  <2> QED
    BY <2>4, <2>5
<1>5. ASSUME Coming(s, id), Head(s) # Cancel(id)
      PROVE  Coming(t, id)
  <2>1. PICK j : j \in Where(s, "CANCEL", id)
    BY <1>5 DEF Coming
  <2>2. j # 1
    BY <1>1, <1>5, <2>1 DEF Where, Cancel
  <2>3. j - 1 \in Where(t, "CANCEL", id)
    BY <1>3, <2>1, <2>2
  <2> QED
    BY <2>3 DEF Coming
<1>6. ASSUME Behind(s, id), Head(s) = New(id)
      PROVE  Coming(t, id)
  <2>1. 1 \in Where(s, "NEW", id)
    BY <1>1, <1>6 DEF Where, New
  <2>2. PICK j \in Where(s, "CANCEL", id) : 1 < j
    BY <1>6, <2>1 DEF Behind
  <2>3. j # 1
    BY <2>2
  <2>4. j - 1 \in Where(t, "CANCEL", id)
    BY <1>3, <2>3
  <2> QED
    BY <2>4 DEF Coming
<1>7. Behind(s, id) => Behind(t, id)
  BY <1>4 DEF Behind
<1>8. /\ Behind(s, id) => Behind(t, id)
      /\ (Coming(s, id) /\ Head(s) # Cancel(id)) => Coming(t, id)
      /\ (Behind(s, id) /\ Head(s) = New(id)) => Coming(t, id)
  BY <1>5, <1>6, <1>7
<1> QED
  BY <1>8 DEF t

-----------------------------------------------------------------------------
(***************************************************************************)
(* The inductive invariant.  Books: an order is tracked by the agent that  *)
(* has placed it, and by none once it is to be cancelled; one that is yet  *)
(* to be sent is tracked and has no record.                                *)
(***************************************************************************)
Ids == 1..Len(placed)

BookTypes ==
    /\ now \in Nat
    /\ placed \in Seq(Agents)
    /\ active \in [Agents -> SUBSET Ids]
    /\ pending \in SUBSET Ids /\ cancels \in SUBSET Ids /\ orders \in SUBSET Ids

Owned == \A a \in Agents : \A id \in active[a] : placed[id] = a

Apart ==
    /\ \A a \in Agents : active[a] \cap (pending \cup cancels) = {}
    /\ pending \cap cancels = {}

Fresh == \A id \in orders : id \in active[placed[id]] /\ id \notin DOMAIN quotes

Books == BookTypes /\ Owned /\ Apart /\ Fresh

QuoteTypes ==
    \A id \in DOMAIN quotes :
        /\ id \in Ids
        /\ quotes[id] \in [at: Nat, cancel: Nat \cup {Never}]
        /\ quotes[id].at <= now

Ended(id) == quotes[id].cancel # Never

\* What CancelledQuotesLeave says of the Python process.
EndedIsGone ==
    \A id \in DOMAIN quotes :
        Ended(id) => /\ quotes[id].cancel >= quotes[id].at
                     /\ id \notin active[placed[id]] \cup pending \cup cancels

Records == QuoteTypes /\ OpenQuotesAreTracked /\ EndedIsGone

\* What it says of the engine.
Leaves(id) ==
    \/ id \in dropped
    \/ (id \in resting => Coming(c2s, id)) /\ Behind(c2s, id)

Way == /\ c2s \in Seq(Messages)
       /\ \A id \in DOMAIN quotes : Ended(id) => Leaves(id)

IInv == Books /\ Records /\ Way

-----------------------------------------------------------------------------
(* AGENT_ACTION. *)

\* What an action takes out of its agent's hands belongs to the agent.
LEMMA GivenUpIs ==
    ASSUME Books, NEW a \in Agents
    PROVE  /\ GivenUp(a) \in SUBSET Ids
           /\ GivenUp(a) = {} \/ GivenUp(a) = active[a] \/ GivenUp(a) = pending
BY DEF Books, BookTypes, GivenUp

LEMMA PlacedGrows ==
    ASSUME placed \in Seq(Agents), NEW a \in Agents, NEW n \in Nat,
           placed' = placed \o [i \in 1..n |-> a]
    PROVE  /\ placed' \in Seq(Agents) /\ Len(placed') = Len(placed) + n
           /\ Ids \subseteq Ids'
           /\ \A id \in Ids : placed'[id] = placed[id]
           /\ \A id \in (Len(placed) + 1)..(Len(placed) + n) :
                 id \in Ids' /\ id \notin Ids /\ placed'[id] = a
<1> DEFINE new == [i \in 1..n |-> a]
<1>1. new \in Seq(Agents) /\ Len(new) = n /\ \A i \in 1..n : new[i] = a
  OBVIOUS
<1>2. Len(placed) \in Nat
  BY LenProperties
<1> HIDE DEF new
<1>3. placed' = placed \o new
  BY DEF new
<1>4. /\ placed' \in Seq(Agents) /\ Len(placed') = Len(placed) + n
      /\ \A i \in 1..(Len(placed) + n) :
            placed'[i] = IF i <= Len(placed) THEN placed[i] ELSE new[i - Len(placed)]
  BY <1>1, <1>3, ConcatProperties
<1>5. Ids = 1..Len(placed) /\ Ids' = 1..(Len(placed) + n)
  BY <1>4 DEF Ids
<1>6. ASSUME NEW id \in (Len(placed) + 1)..(Len(placed) + n)
      PROVE  id \in Ids' /\ id \notin Ids /\ placed'[id] = a
  <2>1. id \in 1..(Len(placed) + n) /\ ~ id <= Len(placed) /\ id - Len(placed) \in 1..n
    BY <1>2
  <2>2. placed'[id] = new[id - Len(placed)]
    BY <1>4, <2>1
  <2> QED
    BY <1>1, <1>5, <2>1, <2>2
<1>7. \A id \in Ids : id \in Ids' /\ placed'[id] = placed[id]
  BY <1>2, <1>4, <1>5
<1> QED
  BY <1>4, <1>6, <1>7

LEMMA DecideInv ==
    ASSUME IInv, NEW a \in Agents, NEW n \in Nat, Decide(a, n), Idle,
           now' \in now..MaxTime, UNCHANGED <<quotes, c2s, engine, losses>>
    PROVE  IInv'
<1> DEFINE ids == (Len(placed) + 1)..(Len(placed) + n)
           up == GivenUp(a)
<1>1. /\ placed' = placed \o [i \in 1..n |-> a]
      /\ active' = [active EXCEPT ![a] = (active[a] \ up) \cup ids]
      /\ pending' = pending \ up /\ cancels' = up /\ orders' = ids
      /\ quotes' = quotes /\ c2s' = c2s /\ resting' = resting /\ dropped' = dropped
      /\ unsent' = unsent
  BY DEF Decide, engine, losses
<1>2. BookTypes /\ Owned /\ Apart /\ Records /\ Way
  BY DEF IInv, Books
<1>3. /\ placed' \in Seq(Agents) /\ Ids \subseteq Ids'
      /\ \A id \in Ids : placed'[id] = placed[id]
      /\ \A id \in ids : id \in Ids' /\ id \notin Ids /\ placed'[id] = a
  BY <1>1, <1>2, PlacedGrows DEF BookTypes
<1>4. up \in SUBSET Ids /\ (up = {} \/ up = active[a] \/ up = pending)
  BY GivenUpIs DEF IInv
<1>5. now' \in Nat /\ now <= now'
  BY <1>2, LedgerAssumption DEF BookTypes
<1>6. cancels = {} /\ orders = {}
  BY DEF Idle
<1> HIDE DEF ids, up
<1>7. BookTypes'
  BY <1>1, <1>2, <1>3, <1>4, <1>5 DEF BookTypes
<1>8. \A b \in Agents : active'[b] = IF b = a THEN (active[a] \ up) \cup ids ELSE active[b]
  BY <1>1, <1>2 DEF BookTypes
<1>9. Owned'
  BY <1>2, <1>3, <1>8 DEF Owned, BookTypes
<1>10. \A b \in Agents : active[b] \subseteq Ids /\ (b # a => active[b] \cap active[a] = {})
  BY <1>2 DEF Owned, BookTypes
<1>11. Apart'
  <2>1. ASSUME NEW b \in Agents PROVE active'[b] \cap (pending' \cup cancels') = {}
    <3>1. active[b] \cap pending = {} /\ pending \subseteq Ids
      BY <1>2 DEF Apart, BookTypes
    <3>2. CASE b = a
      BY <1>1, <1>3, <1>4, <1>8, <3>1, <3>2
    <3>3. CASE b # a
      <4>1. active[b] \cap up = {}
        BY <1>4, <1>10, <3>1, <3>3
      <4> QED
        BY <1>1, <1>8, <3>1, <3>3, <4>1
    <3> QED
      BY <3>2, <3>3
  <2> QED
    BY <1>1, <2>1 DEF Apart
<1>12. \A id \in DOMAIN quotes : id \in Ids /\ id \notin ids /\ placed'[id] = placed[id]
  BY <1>2, <1>3 DEF Records, QuoteTypes
<1>13. Fresh'
  <2>1. ids \subseteq active'[a]
    BY <1>8
  <2>2. \A id \in ids : id \in active'[placed'[id]] /\ id \notin DOMAIN quotes
    BY <1>3, <1>12, <2>1
  <2>3. orders' = ids /\ quotes' = quotes
    BY <1>1
  <2> QED
    BY <2>2, <2>3 DEF Fresh
<1>14. QuoteTypes'
  <2>1. ASSUME NEW id \in DOMAIN quotes
        PROVE  /\ id \in Ids' /\ quotes[id] \in [at: Nat, cancel: Nat \cup {Never}]
               /\ quotes[id].at <= now'
    <3>1. quotes[id].at \in Nat /\ quotes[id].at <= now /\ now \in Nat
      BY <1>2 DEF Records, QuoteTypes, BookTypes
    <3>2. quotes[id].at <= now'
      BY <1>5, <3>1
    <3> QED
      BY <1>2, <1>3, <1>12, <3>2 DEF Records, QuoteTypes
  <2> QED
    BY <1>1, <2>1 DEF QuoteTypes
<1>15. \A id \in DOMAIN quotes : placed[id] \in Agents
  <2>1. \A id \in Ids : placed[id] \in Agents
    BY <1>2, ElementOfSeq DEF BookTypes, Ids
  <2> QED
    BY <1>12, <2>1
<1>16. OpenQuotesAreTracked'
  <2>1. ASSUME NEW id \in DOMAIN quotes, quotes[id].cancel = Never
        PROVE  id \in active'[placed'[id]] \cup pending' \cup cancels' \cup unsent'
    <3>1. id \in active[placed[id]] \cup pending \cup unsent
      BY <1>2, <1>6, <2>1 DEF Records, OpenQuotesAreTracked
    <3>2. active'[placed'[id]] =
              IF placed[id] = a THEN (active[a] \ up) \cup ids ELSE active[placed[id]]
      BY <1>8, <1>12, <1>15
    <3>3. pending' = pending \ up /\ cancels' = up /\ unsent' = unsent
      BY <1>1
    <3> QED
      BY <3>1, <3>2, <3>3
  <2> QED
    BY <1>1, <2>1 DEF OpenQuotesAreTracked
<1>17. EndedIsGone'
  <2>1. ASSUME NEW id \in DOMAIN quotes, Ended(id)
        PROVE  /\ quotes[id].cancel >= quotes[id].at
               /\ id \notin active'[placed'[id]] \cup pending' \cup cancels'
    <3>1. quotes[id].cancel >= quotes[id].at /\ id \notin active[placed[id]] \cup pending
      BY <1>2, <2>1 DEF Records, EndedIsGone
    <3>2. \A b \in Agents : id \in active[b] => b = placed[id]
      BY <1>2 DEF Owned
    <3>3. id \notin up
      BY <1>4, <3>1, <3>2
    <3>4. active'[placed'[id]] =
              IF placed[id] = a THEN (active[a] \ up) \cup ids ELSE active[placed[id]]
      BY <1>8, <1>12, <1>15
    <3>5. pending' = pending \ up /\ cancels' = up /\ id \notin ids
      BY <1>1, <1>12
    <3> QED
      BY <3>1, <3>3, <3>4, <3>5
  <2> QED
    BY <1>1, <2>1 DEF EndedIsGone, Ended
<1>18. Way'
  BY <1>1, <1>2 DEF Way, Ended, Leaves
<1> QED
  BY <1>7, <1>9, <1>11, <1>13, <1>14, <1>16, <1>17, <1>18 DEF IInv, Books, Records

\* Nothing but the clock.
LEMMA ClockInv ==
    ASSUME IInv, now' \in now..MaxTime,
           UNCHANGED <<placed, active, pending, sending, quotes, c2s, engine, losses>>
    PROVE  IInv'
<1>1. /\ placed' = placed /\ active' = active /\ pending' = pending
      /\ cancels' = cancels /\ orders' = orders /\ quotes' = quotes /\ c2s' = c2s
      /\ resting' = resting /\ dropped' = dropped /\ unsent' = unsent
  BY DEF sending, engine, losses
<1>2. now \in Nat /\ now' \in Nat /\ now <= now'
  BY LedgerAssumption DEF IInv, Books, BookTypes
<1>3. Books'
  BY <1>1, <1>2 DEF IInv, Books, BookTypes, Ids, Owned, Apart, Fresh
<1>4. QuoteTypes'
  <2>1. ASSUME NEW id \in DOMAIN quotes PROVE quotes[id].at <= now'
    <3>1. quotes[id].at \in Nat /\ quotes[id].at <= now
      BY DEF IInv, Records, QuoteTypes
    <3> QED
      BY <1>2, <3>1
  <2>2. QuoteTypes
    BY DEF IInv, Records
  <2> QED
    BY <1>1, <2>1, <2>2 DEF QuoteTypes, Ids
<1>5. OpenQuotesAreTracked' /\ EndedIsGone'
  BY <1>1 DEF IInv, Records, OpenQuotesAreTracked, EndedIsGone, Ended
<1>6. Way'
  BY <1>1 DEF IInv, Way, Ended, Leaves
<1> QED
  BY <1>3, <1>4, <1>5, <1>6 DEF IInv, Records

LEMMA ActionInv == ASSUME IInv, NEW a \in Agents, Action(a) PROVE IInv'
<1>1. CASE \E n \in Orders(a) : Decide(a, n)
  <2>1. PICK n \in Orders(a) : Decide(a, n)
    BY <1>1
  <2>2. n \in Nat
    BY LedgerAssumption DEF Orders
  <2> QED
    BY <2>1, <2>2, DecideInv DEF Action
<1>2. CASE UNCHANGED <<placed, active, pending, sending>>
  BY <1>2, ClockInv DEF Action
<1> QED
  BY <1>1, <1>2 DEF Action

-----------------------------------------------------------------------------
(* cancel_all_quotes *)

LEMMA HumanCancelAllInv == ASSUME IInv, HumanCancelAll PROVE IInv'
<1>1. /\ now' = now /\ placed' = placed /\ cancels' = cancels /\ orders' = orders
      /\ quotes' = quotes /\ c2s' = c2s /\ resting' = resting /\ dropped' = dropped
      /\ unsent' = unsent /\ cancels = {} /\ orders = {}
      /\ pending' = pending \cup active["HUMAN"]
      /\ active' = [active EXCEPT !["HUMAN"] = {}] /\ "HUMAN" \in Agents
  BY DEF HumanCancelAll, Idle, sending, engine, losses
<1>2. BookTypes /\ Owned /\ Apart /\ Records /\ Way
  BY DEF IInv, Books
<1>3. \A b \in Agents : active'[b] = IF b = "HUMAN" THEN {} ELSE active[b]
  BY <1>1, <1>2 DEF BookTypes
<1>4. BookTypes' /\ Ids' = Ids
  BY <1>1, <1>2 DEF BookTypes, Ids
<1>5. Owned'
  BY <1>1, <1>2, <1>3 DEF Owned
<1>6. Apart'
  <2>1. ASSUME NEW b \in Agents PROVE active'[b] \cap pending' = {}
    <3>1. b # "HUMAN" => active[b] \cap active["HUMAN"] = {}
      BY <1>1, <1>2 DEF Owned
    <3>2. active[b] \cap pending = {}
      BY <1>2 DEF Apart
    <3> QED
      BY <1>1, <1>3, <3>1, <3>2
  <2> QED
    BY <1>1, <2>1 DEF Apart
<1>7. Fresh'
  BY <1>1 DEF Fresh
<1>8. QuoteTypes'
  BY <1>1, <1>2, <1>4 DEF Records, QuoteTypes
<1>9. \A id \in DOMAIN quotes : placed[id] \in Agents
  <2>1. \A id \in Ids : placed[id] \in Agents
    BY <1>2, ElementOfSeq DEF BookTypes, Ids
  <2> QED
    BY <1>2, <2>1 DEF Records, QuoteTypes
<1>10. ASSUME NEW id \in DOMAIN quotes
       PROVE  id \in active'[placed[id]] \cup pending' <=> id \in active[placed[id]] \cup pending
  <2>1. id \in active["HUMAN"] => placed[id] = "HUMAN"
    BY <1>1, <1>2 DEF Owned
  <2>2. active'[placed[id]] = IF placed[id] = "HUMAN" THEN {} ELSE active[placed[id]]
    BY <1>3, <1>9
  <2>3. pending' = pending \cup active["HUMAN"]
    BY <1>1
  <2> QED
    BY <2>1, <2>2, <2>3
<1>11. OpenQuotesAreTracked'
  <2>1. \A id \in DOMAIN quotes : quotes[id].cancel = Never =>
            id \in active'[placed[id]] \cup pending' \cup cancels \cup unsent
    BY <1>2, <1>10 DEF Records, OpenQuotesAreTracked
  <2>2. placed' = placed /\ cancels' = cancels /\ unsent' = unsent /\ quotes' = quotes
    BY <1>1
  <2> QED
    BY <2>1, <2>2 DEF OpenQuotesAreTracked
<1>12. EndedIsGone'
  <2>1. \A id \in DOMAIN quotes : Ended(id) =>
            /\ quotes[id].cancel >= quotes[id].at
            /\ id \notin active'[placed[id]] \cup pending' \cup cancels
    BY <1>2, <1>10 DEF Records, EndedIsGone
  <2>2. placed' = placed /\ cancels' = cancels /\ quotes' = quotes
    BY <1>1
  <2> QED
    BY <2>1, <2>2 DEF EndedIsGone, Ended
<1>13. Way'
  BY <1>1, <1>2 DEF Way, Ended, Leaves
<1> QED
  BY <1>4, <1>5, <1>6, <1>7, <1>8, <1>11, <1>12, <1>13 DEF IInv, Books, Records

-----------------------------------------------------------------------------
(* _submit_cancels *)

\* Books loses an id from cancels.
LEMMA CancelTaken ==
    ASSUME Books, NEW id \in cancels, cancels' = cancels \ {id},
           UNCHANGED <<books, orders>>, DOMAIN quotes' = DOMAIN quotes
    PROVE  /\ Books'
           /\ id \notin active[placed[id]] \cup pending \cup cancels' /\ id \in Nat
<1>1. now' = now /\ placed' = placed /\ active' = active /\ pending' = pending /\ orders' = orders
  BY DEF books
<1>2. BookTypes /\ Owned /\ Apart /\ Fresh
  BY DEF Books
<1>3. BookTypes' /\ Owned'
  BY <1>1, <1>2 DEF BookTypes, Ids, Owned
<1>4. Apart'
  BY <1>1, <1>2 DEF Apart
<1>5. Fresh'
  BY <1>1, <1>2 DEF Fresh
<1>6. id \in 1..Len(placed) /\ placed \in Seq(Agents)
  BY <1>2 DEF BookTypes, Ids
<1>7. placed[id] \in Agents /\ id \in Nat
  BY <1>6, ElementOfSeq
<1>8. id \notin active[placed[id]] \cup pending
  BY <1>2, <1>7 DEF Apart
<1> QED
  BY <1>3, <1>4, <1>5, <1>7, <1>8 DEF Books

LEMMA CancelSent ==
    ASSUME IInv, NEW id \in cancels, cancels' = cancels \ {id},
           c2s' = Append(c2s, Cancel(id)), RecordCancel(id),
           UNCHANGED <<books, orders, engine, losses>>
    PROVE  IInv'
<1>1. /\ now' = now /\ placed' = placed /\ active' = active /\ pending' = pending
      /\ orders' = orders /\ resting' = resting /\ dropped' = dropped /\ unsent' = unsent
  BY DEF books, engine, losses
<1>2. /\ DOMAIN quotes' = DOMAIN quotes
      /\ \A x \in DOMAIN quotes : quotes'[x] =
            IF x = id THEN [quotes[x] EXCEPT !.cancel = now] ELSE quotes[x]
  BY DEF RecordCancel
<1>3. Books' /\ id \notin active[placed[id]] \cup pending \cup cancels' /\ id \in Nat
  BY <1>2, CancelTaken DEF IInv
<1>4. now \in Nat /\ Records /\ Way
  BY DEF IInv, Books, BookTypes
<1>5. ASSUME NEW x \in DOMAIN quotes
      PROVE  /\ quotes'[x] \in [at: Nat, cancel: Nat \cup {Never}]
             /\ quotes'[x].at = quotes[x].at
             /\ x = id => quotes'[x].cancel = now
             /\ x # id => quotes'[x] = quotes[x]
             /\ quotes[x].at \in Nat /\ quotes[x].at <= now
  <2>1. /\ quotes[x] \in [at: Nat, cancel: Nat \cup {Never}] /\ quotes[x].at <= now
        /\ quotes[x].at \in Nat
    BY <1>4 DEF Records, QuoteTypes
  <2> QED
    BY <1>2, <1>4, <2>1
<1>6. QuoteTypes'
  <2>1. \A x \in DOMAIN quotes : x \in Ids
    BY <1>4 DEF Records, QuoteTypes
  <2>2. Ids' = Ids
    BY <1>1 DEF Ids
  <2> QED
    BY <1>1, <1>2, <1>5, <2>1, <2>2 DEF QuoteTypes
<1>7. now # Never
  BY <1>4 DEF Never
<1>8. OpenQuotesAreTracked'
  <2>1. ASSUME NEW x \in DOMAIN quotes, quotes'[x].cancel = Never
        PROVE  x \in active[placed[x]] \cup pending \cup cancels' \cup unsent
    <3>1. x # id /\ quotes'[x] = quotes[x]
      BY <1>5, <1>7, <2>1
    <3>2. x \in active[placed[x]] \cup pending \cup cancels \cup unsent
      BY <1>4, <2>1, <3>1 DEF Records, OpenQuotesAreTracked
    <3> QED
      BY <3>1, <3>2
  <2> QED
    BY <1>1, <1>2, <2>1 DEF OpenQuotesAreTracked
<1>9. EndedIsGone'
  <2>1. ASSUME NEW x \in DOMAIN quotes, quotes'[x].cancel # Never
        PROVE  /\ quotes'[x].cancel >= quotes'[x].at
               /\ x \notin active[placed[x]] \cup pending \cup cancels'
    <3>1. CASE x = id
      <4>1. quotes'[x].cancel = now /\ quotes'[x].at <= now /\ quotes'[x].at \in Nat
        BY <1>5, <3>1
      <4>2. quotes'[x].cancel >= quotes'[x].at
        BY <1>4, <4>1
      <4> QED
        BY <1>3, <3>1, <4>2
    <3>2. CASE x # id
      <4>1. quotes'[x] = quotes[x]
        BY <1>5, <3>2
      <4> QED
        BY <1>4, <2>1, <4>1 DEF Records, EndedIsGone, Ended
    <3> QED
      BY <3>1, <3>2
  <2> QED
    BY <1>1, <1>2, <2>1 DEF EndedIsGone, Ended
<1>10. Way'
  <2>1. c2s \in Seq(Messages) /\ Cancel(id) \in Messages /\ Cancel(id).id = id
    BY <1>3, <1>4 DEF Way, Messages, Cancel
  <2>2. c2s' \in Seq(Messages)
    BY <2>1, AppendIs
  <2>3. ASSUME NEW x \in DOMAIN quotes, quotes'[x].cancel # Never
        PROVE  \/ x \in dropped
               \/ (x \in resting => Coming(c2s', x)) /\ Behind(c2s', x)
    <3>1. CASE x = id
      BY <1>3, <2>1, <3>1, CancelGoesBehind
    <3>2. CASE x # id
      <4>1. Leaves(x)
        BY <1>4, <1>5, <2>3, <3>2 DEF Way, Ended
      <4>2. (Coming(c2s, x) => Coming(c2s', x)) /\ (Behind(c2s, x) => Behind(c2s', x))
        BY <2>1, <3>2, AnotherAppended
      <4> QED
        BY <4>1, <4>2 DEF Leaves
    <3> QED
      BY <3>1, <3>2
  <2> QED
    BY <1>1, <1>2, <2>2, <2>3 DEF Way, Ended, Leaves
<1> QED
  BY <1>3, <1>6, <1>8, <1>9, <1>10 DEF IInv, Records

\* sendall raises: the quote stays open, and its agent has lost sight of it.
LEMMA CancelFails ==
    ASSUME IInv, NEW id \in cancels, cancels' = cancels \ {id},
           unsent' = unsent \cup {id}, FailedCancel(id),
           UNCHANGED <<books, orders, c2s, engine, dropped>>
    PROVE  IInv'
<1>1. /\ now' = now /\ placed' = placed /\ active' = active /\ pending' = pending
      /\ orders' = orders /\ resting' = resting /\ dropped' = dropped /\ c2s' = c2s
      /\ quotes' = quotes
  BY DEF books, engine, FailedCancel
<1>2. Books'
  BY <1>1, CancelTaken DEF IInv
<1>3. QuoteTypes'
  BY <1>1 DEF IInv, Records, QuoteTypes, Ids
<1>4. OpenQuotesAreTracked'
  BY <1>1 DEF IInv, Records, OpenQuotesAreTracked
<1>5. EndedIsGone'
  BY <1>1 DEF IInv, Records, EndedIsGone, Ended
<1>6. Way'
  BY <1>1 DEF IInv, Way, Ended, Leaves
<1> QED
  BY <1>2, <1>3, <1>4, <1>5, <1>6 DEF IInv, Records

LEMMA SendCancelInv == ASSUME IInv, SendCancel PROVE IInv'
<1>1. PICK id \in cancels :
         /\ cancels' = cancels \ {id}
         /\ \/ /\ c2s' = Append(c2s, Cancel(id)) /\ RecordCancel(id)
               /\ UNCHANGED <<unsent, failures>>
            \/ unsent' = unsent \cup {id} /\ FailedCancel(id) /\ UNCHANGED c2s
         /\ UNCHANGED <<books, orders, engine, dropped>>
  BY DEF SendCancel
<1>2. CASE c2s' = Append(c2s, Cancel(id)) /\ RecordCancel(id) /\ UNCHANGED <<unsent, failures>>
  <2>1. UNCHANGED losses
    BY <1>1, <1>2 DEF losses
  <2> QED
    BY <1>1, <1>2, <2>1, CancelSent
<1>3. CASE unsent' = unsent \cup {id} /\ FailedCancel(id) /\ UNCHANGED c2s
  BY <1>1, <1>3, CancelFails
<1> QED
  BY <1>1, <1>2, <1>3

-----------------------------------------------------------------------------
(* _submit_orders *)

LEMMA OrderSent ==
    ASSUME IInv, NEW id \in orders, orders' = orders \ {id},
           c2s' = Append(c2s, New(id)),
           quotes' = [x \in DOMAIN quotes \cup {id} |->
                         IF x = id THEN [at |-> now, cancel |-> Never] ELSE quotes[x]],
           UNCHANGED <<books, cancels, engine, unsent, dropped>>
    PROVE  IInv'
<1>1. /\ now' = now /\ placed' = placed /\ active' = active /\ pending' = pending
      /\ cancels' = cancels /\ resting' = resting /\ dropped' = dropped /\ unsent' = unsent
  BY DEF books, engine
<1>2. BookTypes /\ Owned /\ Apart /\ Fresh /\ Records /\ Way
  BY DEF IInv, Books
<1>3. id \in active[placed[id]] /\ id \notin DOMAIN quotes /\ id \in Ids
  BY <1>2 DEF Fresh, BookTypes
<1>4. /\ DOMAIN quotes' = DOMAIN quotes \cup {id}
      /\ quotes'[id] = [at |-> now, cancel |-> Never]
      /\ \A x \in DOMAIN quotes : x # id /\ quotes'[x] = quotes[x]
  BY <1>3
<1>5. now \in Nat
  BY <1>2 DEF BookTypes
<1>6. Books'
  <2>1. BookTypes' /\ Owned' /\ Apart'
    BY <1>1, <1>2 DEF BookTypes, Ids, Owned, Apart
  <2>2. Fresh'
    BY <1>1, <1>2, <1>4 DEF Fresh
  <2> QED
    BY <2>1, <2>2 DEF Books
<1>7. QuoteTypes'
  <2>1. Ids' = Ids
    BY <1>1 DEF Ids
  <2>2. quotes'[id] \in [at: Nat, cancel: Nat \cup {Never}] /\ quotes'[id].at <= now
    BY <1>4, <1>5
  <2>3. \A x \in DOMAIN quotes : /\ x \in Ids
                                 /\ quotes'[x] \in [at: Nat, cancel: Nat \cup {Never}]
                                 /\ quotes'[x].at <= now
    BY <1>2, <1>4 DEF Records, QuoteTypes
  <2> QED
    BY <1>1, <1>3, <1>4, <2>1, <2>2, <2>3 DEF QuoteTypes
<1>8. quotes'[id].cancel = Never
  BY <1>4
<1>9. OpenQuotesAreTracked'
  <2>1. ASSUME NEW x \in DOMAIN quotes', quotes'[x].cancel = Never
        PROVE  x \in active[placed[x]] \cup pending \cup cancels \cup unsent
    <3>1. CASE x = id
      BY <1>3, <3>1
    <3>2. CASE x # id
      <4>1. x \in DOMAIN quotes /\ quotes'[x] = quotes[x]
        BY <1>4, <3>2
      <4> QED
        BY <1>2, <2>1, <4>1 DEF Records, OpenQuotesAreTracked
    <3> QED
      BY <3>1, <3>2
  <2> QED
    BY <1>1, <2>1 DEF OpenQuotesAreTracked
<1>10. \A x \in DOMAIN quotes' : quotes'[x].cancel # Never =>
           x \in DOMAIN quotes /\ quotes'[x] = quotes[x] /\ x # id
  BY <1>4, <1>8
<1>11. EndedIsGone'
  <2>1. ASSUME NEW x \in DOMAIN quotes', quotes'[x].cancel # Never
        PROVE  /\ quotes'[x].cancel >= quotes'[x].at
               /\ x \notin active[placed[x]] \cup pending \cup cancels
    <3>1. x \in DOMAIN quotes /\ quotes'[x] = quotes[x]
      BY <1>10, <2>1
    <3> QED
      BY <1>2, <2>1, <3>1 DEF Records, EndedIsGone, Ended
  <2> QED
    BY <1>1, <2>1 DEF EndedIsGone, Ended
<1>12. Way'
  <2>1. c2s \in Seq(Messages) /\ New(id) \in Messages /\ New(id).id = id
    <3>1. id \in Nat
      BY <1>3 DEF Ids
    <3> QED
      BY <1>2, <3>1 DEF Way, Messages, New
  <2>2. c2s' \in Seq(Messages)
    BY <2>1, AppendIs
  <2>3. ASSUME NEW x \in DOMAIN quotes', quotes'[x].cancel # Never
        PROVE  \/ x \in dropped
               \/ (x \in resting => Coming(c2s', x)) /\ Behind(c2s', x)
    <3>1. x \in DOMAIN quotes /\ quotes'[x] = quotes[x] /\ x # id
      BY <1>10, <2>3
    <3>2. Leaves(x)
      BY <1>2, <2>3, <3>1 DEF Way, Ended
    <3>3. (Coming(c2s, x) => Coming(c2s', x)) /\ (Behind(c2s, x) => Behind(c2s', x))
      BY <2>1, <3>1, AnotherAppended
    <3> QED
      BY <3>2, <3>3 DEF Leaves
  <2> QED
    BY <1>1, <2>2, <2>3 DEF Way, Ended, Leaves
<1> QED
  BY <1>6, <1>7, <1>9, <1>11, <1>12 DEF IInv, Records

LEMMA SendOrderInv == ASSUME IInv, SendOrder PROVE IInv'
<1>1. PICK id \in orders :
         /\ orders' = orders \ {id}
         /\ \/ /\ c2s' = Append(c2s, New(id))
               /\ quotes' = [x \in DOMAIN quotes \cup {id} |->
                                IF x = id THEN [at |-> now, cancel |-> Never] ELSE quotes[x]]
            \/ UNCHANGED <<c2s, quotes>>
         /\ UNCHANGED <<books, cancels, engine, unsent, dropped>>
  BY DEF SendOrder
<1>2. CASE /\ c2s' = Append(c2s, New(id))
           /\ quotes' = [x \in DOMAIN quotes \cup {id} |->
                            IF x = id THEN [at |-> now, cancel |-> Never] ELSE quotes[x]]
  BY <1>1, <1>2, OrderSent
<1>3. CASE UNCHANGED <<c2s, quotes>>
  <2>1. /\ now' = now /\ placed' = placed /\ active' = active /\ pending' = pending
        /\ cancels' = cancels /\ resting' = resting /\ dropped' = dropped
        /\ unsent' = unsent /\ quotes' = quotes /\ c2s' = c2s /\ orders' \subseteq orders
    BY <1>1, <1>3 DEF books, engine
  <2>2. Books'
    BY <2>1 DEF IInv, Books, BookTypes, Ids, Owned, Apart, Fresh
  <2>3. Records'
    BY <2>1 DEF IInv, Records, QuoteTypes, Ids, OpenQuotesAreTracked, EndedIsGone, Ended
  <2>4. Way'
    BY <2>1 DEF IInv, Way, Ended, Leaves
  <2> QED
    BY <2>2, <2>3, <2>4 DEF IInv
<1> QED
  BY <1>1, <1>2, <1>3

-----------------------------------------------------------------------------
(* The engine touches neither the agents' books nor the records. *)

LEMMA EngineLeavesBooks ==
    ASSUME IInv, UNCHANGED <<books, sending, quotes>>, unsent' = unsent
    PROVE  Books' /\ Records'
<1>1. /\ now' = now /\ placed' = placed /\ active' = active /\ pending' = pending
      /\ cancels' = cancels /\ orders' = orders /\ quotes' = quotes
  BY DEF books, sending
<1>2. Books'
  BY <1>1 DEF IInv, Books, BookTypes, Ids, Owned, Apart, Fresh
<1>3. Records'
  BY <1>1 DEF IInv, Records, QuoteTypes, Ids, OpenQuotesAreTracked, EndedIsGone, Ended
<1> QED
  BY <1>2, <1>3

\* A command is taken from the connection: a NEW may put its order into the book,
\* a CANCEL takes its order out or is noted as dropped.
LEMMA CommandTaken ==
    ASSUME Way, c2s # <<>>, c2s' = Tail(c2s), quotes' = quotes,
           dropped \subseteq dropped',
           \A x \in resting' : x \in resting \/ Head(c2s) = New(x),
           \A x \in resting' : Head(c2s) = Cancel(x) => x \in dropped'
    PROVE  Way'
<1>1. c2s \in Seq(Messages)
  BY DEF Way
<1>2. c2s' \in Seq(Messages)
  BY <1>1, TailIs
<1>3. ASSUME NEW x \in DOMAIN quotes, Ended(x)
      PROVE  \/ x \in dropped'
             \/ (x \in resting' => Coming(c2s', x)) /\ Behind(c2s', x)
  <2>1. Leaves(x)
    BY <1>3 DEF Way
  <2>2. /\ Behind(c2s, x) => Behind(c2s', x)
        /\ (Coming(c2s, x) /\ Head(c2s) # Cancel(x)) => Coming(c2s', x)
        /\ (Behind(c2s, x) /\ Head(c2s) = New(x)) => Coming(c2s', x)
    BY <1>1, FirstTaken
  <2> QED
    BY <2>1, <2>2 DEF Leaves
<1> QED
  BY <1>2, <1>3 DEF Way, Ended, Leaves

LEMMA MessageIs ==
    ASSUME NEW m \in Messages
    PROVE  /\ m.kind \in {"NEW", "CANCEL"}
           /\ m.kind = "NEW" => m = New(m.id)
           /\ m.kind = "CANCEL" => m = Cancel(m.id)
           /\ \A x : m = Cancel(x) => m.kind = "CANCEL" /\ m.id = x
BY DEF Messages, New, Cancel

LEMMA EngineActsInv == ASSUME IInv, EngineActs PROVE IInv'
<1>1. /\ c2s # <<>> /\ c2s' = Tail(c2s) /\ quotes' = quotes
      /\ dropped' = dropped /\ unsent' = unsent
  BY DEF EngineActs, losses
<1>2. Way /\ Head(c2s) \in Messages
  BY <1>1, TailIs DEF IInv, Way
<1>3. /\ \A x \in resting' : x \in resting \/ Head(c2s) = New(x)
      /\ \A x \in resting' : Head(c2s) # Cancel(x)
  <2>1. CASE /\ Head(c2s).kind = "NEW"
             /\ resting' = resting \cup {Head(c2s).id} \/ UNCHANGED resting
    BY <1>2, <2>1, MessageIs
  <2>2. CASE Head(c2s).kind = "CANCEL" /\ resting' = resting \ {Head(c2s).id}
    BY <1>2, <2>2, MessageIs
  <2> QED
    BY <2>1, <2>2 DEF EngineActs
<1>4. Way'
  BY <1>1, <1>2, <1>3, CommandTaken
<1>5. Books' /\ Records'
  BY <1>1, EngineLeavesBooks DEF EngineActs
<1> QED
  BY <1>4, <1>5 DEF IInv

LEMMA ServerDropsInv == ASSUME IInv, ServerDrops PROVE IInv'
<1>1. /\ c2s # <<>> /\ c2s' = Tail(c2s) /\ quotes' = quotes
      /\ dropped' = dropped \cup {m.id : m \in {x \in {Head(c2s)} : x.kind = "CANCEL"}}
      /\ unsent' = unsent /\ resting' = resting
  BY DEF ServerDrops, engine
<1>2. Way /\ Head(c2s) \in Messages
  BY <1>1, TailIs DEF IInv, Way
<1>3. dropped \subseteq dropped' /\ \A x : Head(c2s) = Cancel(x) => x \in dropped'
  <2>1. Head(c2s).kind = "CANCEL" => Head(c2s).id \in dropped'
    BY <1>1
  <2> QED
    BY <1>1, <1>2, <2>1, MessageIs
<1>4. Way'
  BY <1>1, <1>2, <1>3, CommandTaken
<1>5. Books' /\ Records'
  BY <1>1, EngineLeavesBooks DEF ServerDrops
<1> QED
  BY <1>4, <1>5 DEF IInv

LEMMA FillInv == ASSUME IInv, Fill PROVE IInv'
<1>1. /\ resting' \subseteq resting /\ UNCHANGED <<books, sending, quotes, c2s, losses>>
  BY DEF Fill
<1>2. c2s' = c2s /\ quotes' = quotes /\ dropped' = dropped /\ unsent' = unsent
  BY <1>1 DEF losses
<1>3. Way'
  BY <1>1, <1>2 DEF IInv, Way, Ended, Leaves
<1>4. Books' /\ Records'
  BY <1>1, <1>2, EngineLeavesBooks
<1> QED
  BY <1>3, <1>4 DEF IInv

-----------------------------------------------------------------------------
LEMMA StepInv == IInv /\ [Next]_vars => IInv'
<1> SUFFICES ASSUME IInv, [Next]_vars PROVE IInv'
  OBVIOUS
<1>1. CASE \E a \in Agents : Action(a)
  BY <1>1, ActionInv
<1>2. CASE HumanCancelAll
  BY <1>2, HumanCancelAllInv
<1>3. CASE SendCancel
  BY <1>3, SendCancelInv
<1>4. CASE SendOrder
  BY <1>4, SendOrderInv
<1>5. CASE EngineActs
  BY <1>5, EngineActsInv
<1>6. CASE ServerDrops
  BY <1>6, ServerDropsInv
<1>7. CASE Fill
  BY <1>7, FillInv
<1>8. CASE UNCHANGED vars
  <2>1. /\ UNCHANGED <<books, sending, quotes>> /\ unsent' = unsent
        /\ c2s' = c2s /\ quotes' = quotes /\ resting' = resting /\ dropped' = dropped
    BY <1>8 DEF vars, engine, losses
  <2>2. Way'
    BY <2>1 DEF IInv, Way, Ended, Leaves
  <2> QED
    BY <2>1, <2>2, EngineLeavesBooks DEF IInv
<1> QED
  BY <1>1, <1>2, <1>3, <1>4, <1>5, <1>6, <1>7, <1>8 DEF Next

LEMMA InitInv == Init => IInv
<1> SUFFICES ASSUME Init PROVE IInv
  OBVIOUS
<1>1. DOMAIN quotes = {} /\ Ids = {}
  BY DEF Init, Ids
<1>2. Books
  BY <1>1 DEF Init, Books, BookTypes, Owned, Apart, Fresh
<1>3. Records
  BY <1>1 DEF Records, QuoteTypes, OpenQuotesAreTracked, EndedIsGone
<1>4. Way
  BY <1>1 DEF Init, Way
<1> QED
  BY <1>2, <1>3, <1>4 DEF IInv

LEMMA Always == Spec => []IInv
BY InitInv, StepInv, PTL DEF Spec

\* A record without a cancel time is that of an order its agent tracks or is about
\* to cancel, unless the CANCEL could not be sent; and an order whose cancel is
\* recorded is in the engine, or on the way there, only ahead of its CANCEL or if
\* the CANCEL was lost (RecordsAgree), however the sends, the engine and the fills
\* interleave.
THEOREM QuotesStayInStep == Spec => []RecordsAgree
<1>1. ASSUME IInv PROVE CancelledQuotesLeave
  <2>1. ASSUME NEW id \in DOMAIN quotes, quotes[id].cancel # Never
        PROVE  /\ quotes[id].cancel >= quotes[id].at
               /\ id \notin active[placed[id]] \cup pending \cup cancels
    BY <1>1, <2>1 DEF IInv, Records, EndedIsGone, Ended
  <2>2. ASSUME NEW id \in DOMAIN quotes, quotes[id].cancel # Never
        PROVE  \/ id \in dropped
               \/ /\ id \in resting => Under("CANCEL", id) # {}
                  /\ \A i \in Under("NEW", id) : \E j \in Under("CANCEL", id) : i < j
    <3>1. Leaves(id)
      BY <1>1, <2>2 DEF IInv, Way, Ended
    <3>2. /\ Under("CANCEL", id) = Where(c2s, "CANCEL", id)
          /\ Under("NEW", id) = Where(c2s, "NEW", id)
      BY DEF Under, Where
    <3> QED
      BY <3>1, <3>2 DEF Leaves, Coming, Behind
  <2> QED
    BY <2>1, <2>2 DEF CancelledQuotesLeave
<1>2. IInv => RecordsAgree
  BY <1>1 DEF IInv, Records, RecordsAgree
<1> QED
  BY <1>2, Always, PTL
=============================================================================
