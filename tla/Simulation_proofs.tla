------------------------- MODULE Simulation_proofs --------------------------
(***************************************************************************)
(* Proofs about Simulation, for every roster, number of steps, sampling    *)
(* interval and latencies: time does not go back, samples are taken in     *)
(* their steps, the price the loop goes by is that of the process, and the *)
(* heap implements the order of events that TradingSimulator is built on.  *)
(*                                                                         *)
(* The invariant says what is left in the heap: the moves from step_count  *)
(* on, the samples that have not been taken, one action of each agent for  *)
(* every step to come and HUMAN's from the first one that has not acted.   *)
(* What is popped is the earliest, and that decides its step.              *)
(*                                                                         *)
(* The last part is about the memory of the Hawkes process, which never    *)
(* holds more events than fit its window.                                  *)
(***************************************************************************)
EXTENDS Simulation, SequenceTheorems, FiniteSetTheorems, FunctionTheorems,
        WellFoundedInduction, TLAPS

HumanAt(j) == Action("HUMAN", j, 0, j * Dt)

\* What an event looks like, and when it is due.
Shaped(e) ==
    /\ e.step \in Steps /\ e.at \in Nat
    /\ \/ e.kind = "MIDPRICE_MOVE" /\ e = Move(e.step)
       \/ e.kind = "METRICS_SAMPLE" /\ e = MetricsSample(e.step)
       \/ /\ e.kind = "AGENT_ACTION" /\ e.agent \in Agents /\ e.k \in Nat
          /\ e = Action(e.agent, e.step, e.k, e.at)
          /\ IF e.agent = "HUMAN" THEN e.k = 0 /\ e.at = e.step * Dt
                                  ELSE e.at > e.step * Dt

HeapShape == \A e \in heap : Shaped(e)

InTime == now \in Nat /\ \A e \in heap : e.at >= now

MovesLeft ==
    /\ step_count \in 0..TotalSteps
    /\ \A i \in Steps : Move(i) \in heap <=> i >= step_count

SampledInStep == \A i \in DOMAIN samples : samples[i] = (i - 1) * SampleEvery + 1

SamplesLeft ==
    /\ samples \in Seq(Int)
    /\ \A e \in heap : e.kind = "METRICS_SAMPLE" => e.step % SampleEvery = 0 /\ step_count <= e.step + 1
    /\ IF "MM" \in Roster
       THEN \A i \in Steps : i % SampleEvery = 0 =>
               (MetricsSample(i) \in heap <=> i >= Len(samples) * SampleEvery)
       ELSE samples = <<>>
    /\ SampledInStep

\* The one action of agent a that is scheduled for step i.
OneActionFor(a, i) ==
    \E t \in Nat : {e \in ActionsOf(a) : e.step = i} = {Action(a, i, 0, t)}

ActionsLeft ==
    \A a \in Roster : /\ IsFiniteSet(DueOf(a))
                      /\ \A i \in Steps : i >= step_count => OneActionFor(a, i)

HumansFrom(h) == ActionsOf("HUMAN") = {HumanAt(j) : j \in h..(TotalSteps - 1)}

HumansLeft == \E h \in 0..TotalSteps : HumansFrom(h)

Inv == HeapShape /\ InTime /\ MovesLeft /\ SamplesLeft /\ ActionsLeft /\ HumansLeft

-----------------------------------------------------------------------------
(***************************************************************************)
(* The price.                                                              *)
(***************************************************************************)
PriceTypes ==
    /\ process \in Processes /\ regime \in Regimes
    /\ price \in Int /\ theta \in Int /\ sigma \in Nat /\ step_count \in Nat

PriceInv == PriceTypes /\ MidFollowsProcess

LEMMA Products ==
    ASSUME NEW n \in Nat, NEW m \in Nat
    PROVE  /\ n * m \in Nat /\ (n + 1) * m = n * m + m
           /\ n * m <= n * (3 * m)
<1>1. n * m \in Nat /\ (n + 1) * m = n * m + m
  BY SMT
<1>2. n * (3 * m) = 3 * (n * m)
  BY SMT
<1> QED
  BY <1>1, <1>2

\* The sigma of a regime is at most the largest one.
LEMMA LargestSigma ==
    /\ Max({Sigma[r] : r \in Regimes}) \in Nat
    /\ \A r \in Regimes : Sigma[r] \in Nat /\ Sigma[r] <= Max({Sigma[q] : q \in Regimes})
<1> DEFINE c == Sigma["CALM"]
           v == Sigma["VOLATILE"]
           n == Sigma["NEWS"]
           S == {Sigma[r] : r \in Regimes}
<1>1. c \in Nat /\ v \in Nat /\ n \in Nat
  BY PriceAssumption DEF Regimes
<1>2. S = {c, v, n}
  BY DEF Regimes
<1> HIDE DEF c, v, n
<1>3. \E x \in {c, v, n} : \A y \in {c, v, n} : x >= y
  BY <1>1
<1> HIDE DEF S
<1>4. \E x \in S : \A y \in S : x >= y
  BY <1>2, <1>3
<1>5. Max(S) \in S /\ \A y \in S : Max(S) >= y
  BY <1>4 DEF Max
<1>6. Max(S) \in Nat
  BY <1>1, <1>2, <1>5
<1>7. ASSUME NEW r \in Regimes PROVE Sigma[r] \in S
  BY DEF S
<1>8. ASSUME NEW r \in Regimes PROVE Sigma[r] \in Nat /\ Sigma[r] <= Max(S)
  <2>1. Sigma[r] \in Nat
    BY PriceAssumption
  <2> QED
    BY <1>5, <1>6, <1>7, <2>1
<1> QED
  BY <1>6, <1>8 DEF S

LEMMA MaxMoveIsNat == PriceTypes => MaxMove \in Nat
BY LargestSigma, PriceAssumption DEF PriceTypes, MaxMove

\* A move of the process is of at most MaxMove.
LEMMA MoveIsSmall ==
    ASSUME PriceTypes, Step
    PROVE  /\ price' \in Int /\ price' - price \in (-MaxMove)..MaxMove
           /\ process' = process /\ theta' = theta /\ sigma' = sigma /\ MaxMove' = MaxMove
           /\ regime' \in Regimes
<1>1. CASE SwitchedStep
  <2> DEFINE M == Max({Sigma[r] : r \in Regimes})
  <2>1. MaxMove = JumpSize + M /\ MaxMove' = JumpSize + M
    BY <1>1 DEF SwitchedStep, MaxMove
  <2>2. M \in Nat /\ Sigma[regime'] \in Nat /\ Sigma[regime'] <= M
    BY <1>1, LargestSigma DEF SwitchedStep
  <2>3. JumpSize \in Nat
    BY PriceAssumption
  <2>4. PICK jump \in {-JumpSize, JumpSize, 0}, d \in {-Sigma[regime'], Sigma[regime']} :
           price' = price + jump + d
    BY <1>1 DEF SwitchedStep, UpOrDown
  <2> HIDE DEF M
  <2>5. jump \in Int /\ d \in Int /\ jump <= JumpSize /\ -JumpSize <= jump /\ d <= M /\ -M <= d
    BY <2>2, <2>3
  <2>6. price \in Int
    BY DEF PriceTypes
  <2>7. price' \in Int /\ price' - price \in (-MaxMove)..MaxMove
    BY <2>1, <2>2, <2>3, <2>4, <2>5, <2>6
  <2> QED
    BY <1>1, <2>1, <2>7 DEF SwitchedStep
<1>2. CASE Moves /\ process # "regime_switching"
  <2>1. price \in Int /\ sigma \in Nat /\ regime' \in Regimes
    BY <1>2 DEF PriceTypes, Moves
  <2>2. MaxMove = sigma /\ MaxMove' = sigma
    BY <1>2 DEF MaxMove, Moves
  <2>3. price' = price + sigma \/ price' = price + (-sigma)
    BY <1>2 DEF Moves, UpOrDown
  <2>4. price' \in Int /\ price' - price \in (-MaxMove)..MaxMove
    BY <2>1, <2>2, <2>3
  <2> QED
    BY <1>2, <2>1, <2>2, <2>4 DEF Moves
<1> QED
  BY <1>1, <1>2 DEF Step, GBMStep, OUStep

LEMMA Within ==
    ASSUME NEW f \in Nat, NEW m \in Nat, NEW x \in Int, NEW y \in Int,
           x \in (-f)..f, y \in (-m)..m
    PROVE  x + y \in (-(f + m))..(f + m)
OBVIOUS

\* How far the price may be from the mean.
Near(m) == price - theta \in -(step_count * m)..(step_count * m)

LEMMA PriceIsKept == PriceInv /\ [Next]_vars => PriceInv'
<1> SUFFICES ASSUME PriceInv, [Next]_vars PROVE PriceInv'
  OBVIOUS
<1> USE DEF PriceInv
<1>0. MaxMove \in Nat /\ PriceTypes /\ mid = price /\ (process # "gbm" => Near(MaxMove))
  BY MaxMoveIsNat DEF MidFollowsProcess, Near
<1>1. CASE MidpriceMove
  <2>1. Step /\ mid' = price' /\ step_count' = step_count + 1
    BY <1>1 DEF MidpriceMove
  <2>2. PriceTypes'
    BY <1>0, <2>1, MoveIsSmall DEF PriceTypes
  <2>3. ASSUME process' # "gbm" PROVE Near(MaxMove)'
    <3> DEFINE m == MaxMove
               n == step_count
               far == n * m
               gap == price - theta
               gap2 == price' - theta'
    <3>1. MaxMove' = m /\ step_count' = n + 1 /\ theta' = theta /\ price' \in Int
          /\ price' - price \in (-m)..m
      BY <1>0, <2>1, MoveIsSmall
    <3>2. Near(m)
      BY <1>0, <2>1, <2>3, MoveIsSmall
    <3>3. m \in Nat /\ n \in Nat /\ price \in Int /\ theta \in Int
      BY <1>0 DEF PriceTypes
    <3>4. far \in Nat
      BY <3>3, Products
    <3>5. (n + 1) * m = far + m
      BY <3>3, Products
    <3>6. gap \in (-far)..far
      BY <3>2 DEF Near
    <3> HIDE DEF m, far
    <3>7. price' \in Int /\ price' - price \in (-m)..m /\ theta' = theta
      BY <3>1
    <3>8. gap2 \in (-(far + m))..(far + m)
      <4>1. gap2 = gap + (price' - price) /\ gap \in Int /\ price' - price \in Int
        BY <3>3, <3>7
      <4> QED
        BY <4>1, <3>3, <3>4, <3>6, <3>7, Within
    <3>9. step_count' * MaxMove' = far + m
      BY <3>1, <3>5
    <3> QED
      BY <3>8, <3>9 DEF Near
  <2> QED
    BY <2>1, <2>2, <2>3 DEF MidFollowsProcess, Near
<1>2. CASE FlashCrash
  <2>1. /\ price' = price - Drop /\ theta' = IF process = "gbm" THEN theta ELSE theta - Drop
        /\ mid' = mid - Drop /\ step_count' = step_count
        /\ process' = process /\ sigma' = sigma /\ regime' = regime
    BY <1>2 DEF FlashCrash, Crash
  <2>2. Drop \in Nat
    BY SimulationAssumption
  <2>3. PriceTypes' /\ mid' = price'
    BY <1>0, <2>1, <2>2 DEF PriceTypes
  <2>4. MaxMove' = MaxMove
    BY <2>1 DEF MaxMove
  <2>5. process # "gbm" => price' - theta' = price - theta
    BY <1>0, <2>1, <2>2 DEF PriceTypes
  <2> QED
    BY <1>0, <2>1, <2>3, <2>4, <2>5 DEF MidFollowsProcess, Near
<1>3. CASE VolSpike
  <2>1. /\ process' = process /\ price' = price /\ theta' = theta /\ mid' = mid
        /\ step_count' = step_count
    BY <1>3 DEF VolSpike, Spike
  <2>2. \/ process = "regime_switching" /\ regime' = "VOLATILE" /\ sigma' = sigma
        \/ process # "regime_switching" /\ regime' = regime /\ sigma' = 3 * sigma
    BY <1>3 DEF VolSpike, Spike
  <2>3. PriceTypes'
    BY <1>0, <2>1, <2>2 DEF PriceTypes, Regimes
  <2>4. MaxMove' = MaxMove \/ MaxMove' = 3 * MaxMove
    BY <2>1, <2>2 DEF MaxMove
  <2>5. ASSUME process # "gbm" PROVE Near(MaxMove)'
    <3> DEFINE m == MaxMove
               n == step_count
               far == n * m
               wide == n * (3 * m)
               gap == price - theta
    <3>1. m \in Nat /\ n \in Nat /\ gap \in Int
      BY <1>0 DEF PriceTypes
    <3>2. far \in Nat /\ far <= wide /\ wide \in Nat
      BY <3>1, Products
    <3>3. gap \in (-far)..far
      BY <1>0, <2>5 DEF Near
    <3> HIDE DEF far, wide, m, gap
    <3>4. gap \in (-wide)..wide
      BY <3>1, <3>2, <3>3
    <3> QED
      BY <2>1, <2>4, <3>3, <3>4 DEF Near, far, wide, m, gap
  <2> QED
    BY <1>0, <2>1, <2>3, <2>5 DEF MidFollowsProcess, Near
<1>4. CASE AgentAction \/ TakeSample \/ UNCHANGED vars
  <2>1. UNCHANGED <<process, price, theta, sigma, regime, mid, step_count>>
    BY <1>4 DEF AgentAction, TakeSample, vars, priceVars
  <2> QED
    BY <1>0, <2>1 DEF PriceTypes, MidFollowsProcess, Near, MaxMove
<1> QED
  BY <1>1, <1>2, <1>3, <1>4 DEF Next

\* The mid the loop goes by is the price of the process after every move and every
\* scenario, and no further from the mean than the moves account for: for every
\* kind of process, volatility, size of a jump and of a crash.
THEOREM PriceFollowsProcess == Spec => []MidFollowsProcess
<1>1. Init => PriceInv
  <2> SUFFICES ASSUME Init PROVE PriceInv
    OBVIOUS
  <2>1. /\ process \in Processes /\ price = InitialPrice /\ theta = InitialPrice
        /\ sigma = BaseSigma /\ regime = "CALM" /\ step_count = 0 /\ mid = InitialPrice
    BY DEF Init, PriceInit
  <2>2. InitialPrice \in Nat /\ BaseSigma \in Nat
    BY PriceAssumption
  <2>3. PriceTypes
    BY <2>1, <2>2 DEF PriceTypes, Regimes
  <2>4. MaxMove \in Nat
    BY <2>3, MaxMoveIsNat
  <2>5. step_count * MaxMove = 0 /\ price - theta = 0
    BY <2>1, <2>2, <2>4
  <2> QED
    BY <2>1, <2>3, <2>5 DEF PriceInv, MidFollowsProcess
<1>2. PriceInv => MidFollowsProcess
  BY DEF PriceInv
<1> QED
  BY <1>1, <1>2, PriceIsKept, PTL DEF Spec
-----------------------------------------------------------------------------
(***************************************************************************)
(* Events and their times.                                                 *)
(***************************************************************************)
LEMMA DtIs ==
    HalfStep \in Nat /\ HalfStep >= 1 /\ Dt \in Nat /\ Dt >= 1 /\ Dt = HalfStep + HalfStep
<1>1. HalfStep \in Nat /\ HalfStep >= 1
  BY SimulationAssumption
<1> QED
  BY <1>1 DEF Dt

LEMMA Times ==
    ASSUME NEW i \in Nat, NEW j \in Nat
    PROVE  /\ i * Dt \in Nat /\ j * Dt \in Nat
           /\ i < j => i * Dt + Dt <= j * Dt
<1>1. i * Dt \in Nat /\ j * Dt \in Nat
  BY DtIs
<1>2. ASSUME i < j PROVE i * Dt + Dt <= j * Dt
  <2>1. PICK k \in Nat : j = i + 1 + k
    <3>1. j - i - 1 \in Nat /\ j = i + 1 + (j - i - 1)
      BY <1>2
    <3> QED
      BY <3>1
  <2>2. k * Dt \in Nat
    BY DtIs
  <2>3. (i + 1 + k) * Dt = i * Dt + Dt + k * Dt
    BY DtIs
  <2> QED
    BY <1>1, <2>1, <2>2, <2>3, DtIs
<1> QED
  BY <1>1, <1>2

\* Every delay of an agent of the roster is positive.
LEMMA DelaysArePositive ==
    /\ "HUMAN" \notin Roster /\ Sample("HUMAN") = {0}
    /\ \A a \in Roster : \A d \in Sample(a) : d \in Nat /\ d >= 1
<1>1. "HUMAN" \notin Roster
  BY SimulationAssumption
<1>2. ASSUME NEW a \in Roster, NEW d \in Sample(a) PROVE d \in Nat /\ d >= 1
  <2> DEFINE b == Latency[a].base
             j == Latency[a].jitter
             f == Latency[a].spike
             plain == (b - j)..(b + j)
  <2>1. b \in Nat /\ j \in Nat /\ f \in Nat /\ f >= 1 /\ b > j
    BY SimulationAssumption
  <2>2. PICK x \in plain \cup {y * f : y \in plain} : d = IF x > 0 THEN x ELSE 0
    BY <1>1 DEF Sample
  <2> HIDE DEF b, j, f
  <2>3. \A y \in plain : y \in Nat /\ y >= 1
    BY <2>1
  <2>4. \A y \in Nat : y >= 1 => y * f \in Nat /\ y * f >= 1
    BY <2>1
  <2> HIDE DEF plain
  <2>5. x \in Nat /\ x >= 1
    BY <2>2, <2>3, <2>4
  <2> QED
    BY <2>2, <2>5
<1> QED
  BY <1>1, <1>2 DEF Sample

LEMMA Fields ==
    /\ \A i : /\ Move(i).kind = "MIDPRICE_MOVE" /\ Move(i).at = i * Dt /\ Move(i).step = i
              /\ MetricsSample(i).kind = "METRICS_SAMPLE"
              /\ MetricsSample(i).at = i * Dt + HalfStep /\ MetricsSample(i).step = i
    /\ \A a, i, k, t :
          /\ Action(a, i, k, t).kind = "AGENT_ACTION" /\ Action(a, i, k, t).at = t
          /\ Action(a, i, k, t).step = i /\ Action(a, i, k, t).agent = a
          /\ Action(a, i, k, t).k = k
BY DEF Move, MetricsSample, Action

LEMMA HumanFields ==
    \A i : /\ HumanAt(i).kind = "AGENT_ACTION" /\ HumanAt(i).at = i * Dt
          /\ HumanAt(i).step = i /\ HumanAt(i).agent = "HUMAN" /\ HumanAt(i).k = 0
BY Fields DEF HumanAt

LEMMA StepsAre == TotalSteps \in Nat /\ \A i : i \in Steps <=> i \in Nat /\ i < TotalSteps
BY SimulationAssumption DEF Steps

\* An event in the heap, by its kind.
LEMMA Kinds ==
    ASSUME NEW e, Shaped(e)
    PROVE  /\ e.step \in Nat /\ e.step < TotalSteps /\ e.at \in Nat
           /\ e.kind \in {"MIDPRICE_MOVE", "METRICS_SAMPLE", "AGENT_ACTION"}
           /\ e.kind = "MIDPRICE_MOVE" => e = Move(e.step) /\ e.at = e.step * Dt
           /\ e.kind = "METRICS_SAMPLE" =>
                 e = MetricsSample(e.step) /\ e.at = e.step * Dt + HalfStep
           /\ e.kind = "AGENT_ACTION" =>
                 /\ e.agent \in Agents
                 /\ IF e.agent = "HUMAN" THEN e = HumanAt(e.step) /\ e.at = e.step * Dt
                                         ELSE e.at > e.step * Dt
<1>1. e.step \in Nat /\ e.step < TotalSteps /\ e.at \in Nat
  BY StepsAre DEF Shaped
<1>2. CASE e.kind = "MIDPRICE_MOVE"
  <2>1. e = Move(e.step)
    BY <1>2 DEF Shaped
  <2>2. e.at = e.step * Dt
    BY <2>1, Fields
  <2> QED
    BY <1>1, <1>2, <2>1, <2>2
<1>3. CASE e.kind = "METRICS_SAMPLE"
  <2>1. e = MetricsSample(e.step)
    BY <1>3 DEF Shaped
  <2>2. e.at = e.step * Dt + HalfStep
    BY <2>1, Fields
  <2> QED
    BY <1>1, <1>3, <2>1, <2>2
<1>4. CASE e.kind = "AGENT_ACTION"
  BY <1>1, <1>4 DEF Shaped, HumanAt
<1> QED
  BY <1>2, <1>3, <1>4 DEF Shaped
-----------------------------------------------------------------------------
(***************************************************************************)
(* What is popped.                                                         *)
(***************************************************************************)
\* While steps are left, nothing is popped that is later than the next move.
LEMMA NotAfterMove ==
    ASSUME MovesLeft, NEW e \in NextEvents, step_count < TotalSteps
    PROVE  e.at <= step_count * Dt
<1>1. step_count \in Steps /\ step_count >= step_count
  BY StepsAre DEF MovesLeft
<1>2. Move(step_count) \in heap
  BY <1>1 DEF MovesLeft
<1> QED
  BY <1>2, Fields DEF NextEvents

LEMMA PoppedMove ==
    ASSUME HeapShape, MovesLeft, NEW e \in NextEvents, e.kind = "MIDPRICE_MOVE"
    PROVE  e = Move(step_count) /\ step_count < TotalSteps /\ step_count \in Nat
<1>1. e \in heap /\ Shaped(e)
  BY DEF NextEvents, HeapShape
<1>2. e.step \in Nat /\ e.step < TotalSteps /\ e = Move(e.step) /\ e.at = e.step * Dt
  BY <1>1, Kinds
<1>3. e.step >= step_count /\ step_count \in Nat /\ TotalSteps \in Nat
  BY <1>1, <1>2, StepsAre DEF MovesLeft
<1>4. step_count < TotalSteps
  BY <1>2, <1>3
<1>5. e.step * Dt <= step_count * Dt
  BY <1>2, <1>4, NotAfterMove
<1>6. e.step = step_count
  <2>1. step_count < e.step => step_count * Dt + Dt <= e.step * Dt
    BY <1>2, <1>3, Times
  <2>2. Dt \in Nat /\ Dt >= 1 /\ step_count * Dt \in Nat /\ e.step * Dt \in Nat
    BY <1>2, <1>3, DtIs, Times
  <2> QED
    BY <1>2, <1>3, <1>5, <2>1, <2>2
<1> QED
  BY <1>2, <1>3, <1>4, <1>6

\* A METRICS_SAMPLE is popped between the move of its step and the next one.
LEMMA PoppedSample ==
    ASSUME HeapShape, MovesLeft, SamplesLeft, NEW e \in NextEvents, e.kind = "METRICS_SAMPLE"
    PROVE  step_count = e.step + 1
<1>1. e \in heap /\ Shaped(e)
  BY DEF NextEvents, HeapShape
<1>2. e.step \in Nat /\ e.step < TotalSteps /\ e.at = e.step * Dt + HalfStep
  BY <1>1, Kinds
<1>3. step_count \in Nat /\ step_count <= e.step + 1
  BY <1>1, StepsAre DEF MovesLeft, SamplesLeft
<1>4. ASSUME step_count <= e.step PROVE FALSE
  <2>1. step_count < TotalSteps
    BY <1>2, <1>3, <1>4, StepsAre
  <2>2. e.step * Dt + HalfStep <= step_count * Dt
    BY <1>2, <2>1, NotAfterMove
  <2>3. /\ HalfStep \in Nat /\ HalfStep >= 1 /\ Dt \in Nat
        /\ step_count * Dt \in Nat /\ e.step * Dt \in Nat
        /\ step_count < e.step => step_count * Dt + Dt <= e.step * Dt
    BY <1>2, <1>3, DtIs, Times
  <2>4. step_count * Dt <= e.step * Dt
    BY <1>2, <1>3, <1>4, <2>3
  <2> QED
    BY <2>2, <2>3, <2>4
<1> QED
  BY <1>2, <1>3, <1>4

\* An action of the roster is popped after the move of its step, HUMAN's at the
\* same time at the earliest.
LEMMA PoppedAction ==
    ASSUME HeapShape, MovesLeft, NEW e \in NextEvents, e.kind = "AGENT_ACTION"
    PROVE  /\ e.agent # "HUMAN" => e.step < step_count
           /\ e.agent = "HUMAN" => e.step <= step_count
<1>1. e \in heap /\ Shaped(e)
  BY DEF NextEvents, HeapShape
<1>2. e.step \in Nat /\ e.step < TotalSteps /\ TotalSteps \in Nat /\ step_count \in Nat
  BY <1>1, Kinds, StepsAre DEF MovesLeft
<1>3. IF e.agent = "HUMAN" THEN e.at = e.step * Dt ELSE e.at > e.step * Dt
  BY <1>1, Kinds
<1>4. /\ Dt \in Nat /\ Dt >= 1 /\ step_count * Dt \in Nat /\ e.step * Dt \in Nat
      /\ step_count < e.step => step_count * Dt + Dt <= e.step * Dt
  <2>1. step_count < e.step => step_count * Dt + Dt <= e.step * Dt
    BY <1>2, Times
  <2>2. Dt \in Nat /\ Dt >= 1 /\ step_count * Dt \in Nat /\ e.step * Dt \in Nat
    BY <1>2, DtIs, Times
  <2> QED
    BY <2>1, <2>2
<1>5. ASSUME step_count <= e.step PROVE e.at <= step_count * Dt
  BY <1>2, <1>5, NotAfterMove
<1>6. e.at \in Nat
  BY <1>1, Kinds
<1>7. ASSUME step_count < e.step PROVE FALSE
  <2>1. e.at <= step_count * Dt
    BY <1>2, <1>5, <1>7
  <2>2. e.at >= e.step * Dt
    BY <1>3, <1>4, <1>6
  <2> QED
    BY <1>4, <1>6, <1>7, <2>1, <2>2
<1>8. ASSUME step_count = e.step, e.agent # "HUMAN" PROVE FALSE
  <2>1. e.at <= e.step * Dt
    BY <1>2, <1>5, <1>8
  <2> QED
    BY <1>3, <1>4, <1>6, <1>8, <2>1
<1>9. e.step <= step_count
  BY <1>2, <1>7
<1> QED
  BY <1>2, <1>8, <1>9
-----------------------------------------------------------------------------
(***************************************************************************)
(* A move keeps the invariant.                                             *)
(***************************************************************************)
Extras(m, time) == {Action("NOISE", step_count, k, time[k]) : k \in 1..m}

\* The events a move pushes: m actions of the noise trader, all in the future.
Pushed(m, time) ==
    /\ m \in 0..MaxExtra /\ (m = 0 \/ "NOISE" \in Roster)
    /\ time \in [1..m -> Nat] /\ \A k \in 1..m : time[k] > step_count * Dt
    /\ heap' = (heap \ {Move(step_count)}) \cup Extras(m, time)

LEMMA MovePushes ==
    ASSUME Inv, MidpriceMove
    PROVE  /\ Move(step_count) \in NextEvents /\ step_count \in Nat /\ step_count < TotalSteps
           /\ now' = step_count * Dt /\ step_count' = step_count + 1 /\ samples' = samples
           /\ \E m, time : Pushed(m, time)
<1>1. PICK e \in NextEvents, n \in 0..MaxExtra :
         /\ e.kind = "MIDPRICE_MOVE" /\ now' = e.at
         /\ \E delay \in IF "NOISE" \in Roster THEN [1..n -> Sample("NOISE")] ELSE {<<>>} :
               heap' = (heap \ {e}) \cup Extra(e, delay)
  BY DEF MidpriceMove
<1>2. e = Move(step_count) /\ step_count < TotalSteps /\ step_count \in Nat
  BY <1>1, PoppedMove DEF Inv
<1>3. e.at = step_count * Dt /\ e.step = step_count /\ e.at \in Nat
  BY <1>2, Fields, DtIs, Times
<1>4. MaxExtra \in Nat
  BY SimulationAssumption
<1>5. \E m, time : Pushed(m, time)
  <2>1. CASE "NOISE" \in Roster
    <3>1. PICK delay \in [1..n -> Sample("NOISE")] :
             heap' = (heap \ {e}) \cup Extra(e, delay)
      BY <1>1, <2>1
    <3> DEFINE time == [k \in 1..n |-> e.at + delay[k]]
    <3>2. \A k \in 1..n : delay[k] \in Nat /\ delay[k] >= 1
      BY <2>1, DelaysArePositive
    <3>3. time \in [1..n -> Nat] /\ \A k \in 1..n : time[k] > step_count * Dt
      BY <1>3, <3>2
    <3>4. Extra(e, delay) = Extras(n, time)
      BY <1>3 DEF Extra, Extras
    <3>5. Pushed(n, time)
      BY <1>1, <1>2, <2>1, <3>1, <3>3, <3>4 DEF Pushed
    <3> QED
      BY <3>5
  <2>2. CASE "NOISE" \notin Roster
    <3>1. heap' = (heap \ {e}) \cup Extra(e, <<>>)
      BY <1>1, <2>2
    <3>2. DOMAIN <<>> = {} /\ 1..0 = {}
      OBVIOUS
    <3> DEFINE time == [k \in 1..0 |-> 0]
    <3>3. Extra(e, <<>>) = Extras(0, time)
      BY <3>2 DEF Extra, Extras
    <3>4. Pushed(0, time)
      BY <1>2, <1>4, <3>1, <3>2, <3>3 DEF Pushed
    <3> QED
      BY <3>4
  <2> QED
    BY <2>1, <2>2
<1> QED
  BY <1>1, <1>2, <1>3, <1>5 DEF MidpriceMove

LEMMA ExtrasAre ==
    ASSUME Inv, step_count \in Nat, step_count < TotalSteps,
           NEW m, NEW time, Pushed(m, time), NEW x \in Extras(m, time)
    PROVE  /\ x.kind = "AGENT_ACTION" /\ x.agent = "NOISE" /\ x.step = step_count
           /\ x.at \in Nat /\ x.at > step_count * Dt /\ Shaped(x) /\ "NOISE" \in Roster
           /\ x.k >= 1
<1>1. PICK k \in 1..m : x = Action("NOISE", step_count, k, time[k])
  BY DEF Extras
<1>2. m \in Nat /\ k \in Nat /\ k >= 1 /\ m # 0
  BY <1>1, SimulationAssumption DEF Pushed
<1>3. "NOISE" \in Roster /\ time[k] \in Nat /\ time[k] > step_count * Dt
  BY <1>2 DEF Pushed
<1>4. /\ x.kind = "AGENT_ACTION" /\ x.agent = "NOISE" /\ x.step = step_count
      /\ x.k = k /\ x.at = time[k]
  BY <1>1, Fields
<1>5. x = Action(x.agent, x.step, x.k, x.at) /\ x.step \in Steps /\ x.agent \in Agents
  BY <1>1, <1>3, <1>4, StepsAre DEF Agents
<1>6. x.at > x.step * Dt /\ x.at \in Nat /\ x.k \in Nat /\ x.agent # "HUMAN"
  BY <1>2, <1>3, <1>4
<1>7. Shaped(x)
  BY <1>4, <1>5, <1>6 DEF Shaped
<1> QED
  BY <1>2, <1>3, <1>4, <1>7
OfNoise(x) == /\ x.kind = "AGENT_ACTION" /\ x.agent = "NOISE" /\ "NOISE" \in Roster
              /\ x.step = step_count /\ Shaped(x)

\* What is in the heap after a move: events that were there, none of them earlier
\* than the move, and the actions it has pushed.
LEMMA AfterMove ==
    ASSUME Inv, MidpriceMove
    PROVE  /\ \A x : x.kind # "AGENT_ACTION" =>
                 (x \in heap' <=> x \in heap /\ x # Move(step_count))
           /\ \A x \in heap' : x \in heap \/ OfNoise(x)
           /\ \A x \in heap : x.kind = "AGENT_ACTION" => x \in heap'
           /\ \A x \in heap' : x.at >= step_count * Dt
<1> DEFINE mv == Move(step_count)
<1>1. mv \in NextEvents /\ step_count \in Nat /\ step_count < TotalSteps
  BY MovePushes
<1>2. PICK m, time : Pushed(m, time)
  BY MovePushes
<1> DEFINE X == Extras(m, time)
<1>3. heap' = (heap \ {mv}) \cup X
  BY <1>2 DEF Pushed
<1>4. \A x \in X : /\ x.kind = "AGENT_ACTION" /\ x.agent = "NOISE" /\ x.step = step_count
                   /\ x.at \in Nat /\ x.at > step_count * Dt /\ Shaped(x) /\ "NOISE" \in Roster
  BY <1>1, <1>2, ExtrasAre
<1>5. mv.kind = "MIDPRICE_MOVE" /\ mv.at = step_count * Dt /\ step_count * Dt \in Nat
  BY <1>1, Fields, Times
<1>6. \A x \in heap : x.at >= mv.at
  <2>1. ASSUME NEW x \in heap PROVE x.at \in Nat /\ mv.at <= x.at
    BY <1>1, Kinds DEF NextEvents, Inv, HeapShape
  <2> QED
    BY <1>5, <2>1
<1> HIDE DEF mv, X
<1>7. \A x : x.kind # "AGENT_ACTION" => (x \in heap' <=> x \in heap /\ x # mv)
  BY <1>3, <1>4
<1>8. \A x \in heap' : x \in heap \/ x \in X
  BY <1>3
<1>9. \A x \in heap : x.kind = "AGENT_ACTION" => x \in heap'
  BY <1>3, <1>5
<1>10. \A x \in heap' : x.at >= step_count * Dt
  <2>1. ASSUME NEW x \in X PROVE x.at >= step_count * Dt
    BY <1>4, <1>5
  <2> QED
    BY <1>5, <1>6, <1>8, <2>1
<1> QED
  BY <1>4, <1>7, <1>8, <1>9, <1>10 DEF mv, OfNoise

LEMMA MoveKeepsShape ==
    ASSUME Inv, MidpriceMove
    PROVE  HeapShape' /\ InTime' /\ MovesLeft'
<1>1. step_count \in Nat /\ step_count < TotalSteps /\ step_count' = step_count + 1
  BY MovePushes
<1>2. HeapShape'
  <2>1. \A x \in heap' : Shaped(x)
    BY AfterMove DEF Inv, HeapShape, OfNoise
  <2> QED
    BY <2>1 DEF HeapShape, Shaped
<1>3. InTime'
  <2>1. now' = step_count * Dt /\ step_count * Dt \in Nat
    BY <1>1, MovePushes, Times
  <2>2. \A x \in heap' : x.at >= step_count * Dt
    BY AfterMove
  <2> QED
    BY <2>1, <2>2 DEF InTime
<1>4. MovesLeft'
  <2>1. step_count' \in 0..TotalSteps
    BY <1>1, StepsAre
  <2>2. ASSUME NEW i \in Steps PROVE Move(i) \in heap' <=> i >= step_count + 1
    <3>1. Move(i).kind # "AGENT_ACTION" /\ (Move(i) = Move(step_count) => i = step_count)
      BY Fields
    <3>2. Move(i) \in heap' <=> Move(i) \in heap /\ Move(i) # Move(step_count)
      BY <3>1, AfterMove
    <3>3. Move(i) \in heap <=> i >= step_count
      BY DEF Inv, MovesLeft
    <3>4. i \in Nat
      BY StepsAre
    <3>5. Move(i) = Move(step_count) <=> i = step_count
      BY <3>1
    <3> QED
      BY <1>1, <3>2, <3>3, <3>4, <3>5
  <2> QED
    BY <1>1, <2>1, <2>2 DEF MovesLeft, Move
<1> QED
  BY <1>2, <1>3, <1>4

LEMMA MoveKeepsSamples ==
    ASSUME Inv, MidpriceMove
    PROVE  SamplesLeft'
<1>1. step_count \in Nat /\ step_count < TotalSteps /\ step_count' = step_count + 1
      /\ samples' = samples
  BY MovePushes
<1>2. ASSUME NEW x \in heap', x.kind = "METRICS_SAMPLE"
      PROVE  x.step % SampleEvery = 0 /\ step_count' <= x.step + 1
  <2>1. x \in heap /\ Shaped(x) /\ x.at >= step_count * Dt
    BY <1>2, AfterMove DEF Inv, HeapShape, OfNoise
  <2>2. x.step \in Nat /\ x.at = x.step * Dt + HalfStep
    BY <1>2, <2>1, Kinds
  <2>3. /\ x.step * Dt \in Nat /\ step_count * Dt \in Nat
        /\ x.step < step_count => x.step * Dt + Dt <= step_count * Dt
    BY <1>1, <2>2, Times
  <2>4. ~(x.step < step_count)
    BY <1>1, <2>1, <2>2, <2>3, DtIs
  <2>5. x.step % SampleEvery = 0
    BY <1>2, <2>1 DEF Inv, SamplesLeft
  <2> QED
    BY <1>1, <2>2, <2>4, <2>5
<1>3. ASSUME NEW i PROVE MetricsSample(i) \in heap' <=> MetricsSample(i) \in heap
  <2>1. MetricsSample(i).kind = "METRICS_SAMPLE" /\ Move(step_count).kind = "MIDPRICE_MOVE"
    BY Fields
  <2> QED
    BY <2>1, AfterMove
<1> QED
  BY <1>1, <1>2, <1>3 DEF Inv, SamplesLeft, SampledInStep, MetricsSample
LEMMA SameSize ==
    ASSUME NEW S, IsFiniteSet(S), NEW T, NEW F \in [S -> T],
           \A a, b \in S : F[a] = F[b] => a = b, \A t \in T : \E a \in S : F[a] = t
    PROVE  IsFiniteSet(T) /\ Cardinality(T) = Cardinality(S)
<1>1. F \in Bijection(S, T)
  BY Fun_IsBij
<1>2. ExistsBijection(S, T)
  BY <1>1 DEF ExistsBijection
<1> QED
  BY <1>2, FS_Bijection

LEMMA DisjointUnion ==
    ASSUME NEW S, IsFiniteSet(S), NEW T, IsFiniteSet(T), S \cap T = {}
    PROVE  IsFiniteSet(S \cup T) /\ Cardinality(S \cup T) = Cardinality(S) + Cardinality(T)
<1>1. Cardinality(S) \in Nat /\ Cardinality(T) \in Nat /\ Cardinality(S \cap T) = 0
  BY FS_CardinalityType, FS_EmptySet
<1>2. IsFiniteSet(S \cup T)
      /\ Cardinality(S \cup T) = Cardinality(S) + Cardinality(T) - Cardinality(S \cap T)
  BY FS_Union, Zenon
<1> QED
  BY <1>1, <1>2

LEMMA ExtrasSize ==
    ASSUME NEW m \in Nat, NEW time
    PROVE  IsFiniteSet(Extras(m, time)) /\ Cardinality(Extras(m, time)) = m
<1> DEFINE F == [k \in 1..m |-> Action("NOISE", step_count, k, time[k])]
           T == Extras(m, time)
<1>1. F \in [1..m -> T] /\ \A t \in T : \E k \in 1..m : F[k] = t
  BY DEF Extras
<1>2. ASSUME NEW a \in 1..m, NEW b \in 1..m, F[a] = F[b] PROVE a = b
  <2>1. F[a].k = a /\ F[b].k = b
    BY Fields
  <2> QED
    BY <1>2, <2>1
<1>3. IsFiniteSet(1..m) /\ Cardinality(1..m) = m
  <2>1. IsFiniteSet(1..m) /\ Cardinality(1..m) = IF 1 > m THEN 0 ELSE m - 1 + 1
    BY FS_Interval
  <2> QED
    BY <2>1
<1> HIDE DEF F, T
<1>4. IsFiniteSet(T) /\ Cardinality(T) = Cardinality(1..m)
  BY <1>1, <1>2, <1>3, SameSize
<1> QED
  BY <1>3, <1>4 DEF T

\* The actions of an agent after a move.
LEMMA ActionsAfterMove ==
    ASSUME Inv, MidpriceMove, NEW m, NEW time, Pushed(m, time), NEW a \in Agents
    PROVE  ActionsOf(a)' = ActionsOf(a) \cup (IF a = "NOISE" THEN Extras(m, time) ELSE {})
<1> DEFINE X == Extras(m, time)
<1>1. step_count \in Nat /\ step_count < TotalSteps
  BY MovePushes
<1>2. heap' = (heap \ {Move(step_count)}) \cup X
  BY DEF Pushed
<1>3. Move(step_count).kind = "MIDPRICE_MOVE"
  BY Fields
<1>4. \A x \in X : x.kind = "AGENT_ACTION" /\ x.agent = "NOISE"
  BY <1>1, ExtrasAre
<1> HIDE DEF X
<1>5. ActionsOf(a)' = {e \in heap' : e.kind = "AGENT_ACTION" /\ e.agent = a}
  BY DEF ActionsOf
<1>6. ActionsOf(a)' = ActionsOf(a) \cup (IF a = "NOISE" THEN X ELSE {})
  BY <1>2, <1>3, <1>4, <1>5 DEF ActionsOf
<1> QED
  BY <1>6 DEF X

LEMMA DueAfterMove ==
    ASSUME Inv, MidpriceMove, NEW m, NEW time, Pushed(m, time), NEW a \in Roster
    PROVE  /\ IsFiniteSet(DueOf(a)) /\ IsFiniteSet(DueOf(a)')
           /\ Cardinality(DueOf(a)) \in Nat
           /\ Cardinality(DueOf(a)') =
                 Cardinality(DueOf(a)) + 1 + (IF a = "NOISE" THEN m ELSE 0)
<1> DEFINE X == IF a = "NOISE" THEN Extras(m, time) ELSE {}
           D == DueOf(a)
<1>1. step_count \in Nat /\ step_count < TotalSteps /\ step_count' = step_count + 1
  BY MovePushes
<1>2. step_count \in Steps /\ step_count >= step_count
  BY <1>1, StepsAre
<1>3. IsFiniteSet(D) /\ OneActionFor(a, step_count)
  BY <1>2 DEF Inv, ActionsLeft
<1>4. PICK t \in Nat : {e \in ActionsOf(a) : e.step = step_count} = {Action(a, step_count, 0, t)}
  BY <1>3 DEF OneActionFor
<1> DEFINE u == Action(a, step_count, 0, t)
<1>5. u.step = step_count /\ u.k = 0
  BY Fields
<1>6. ActionsOf(a)' = ActionsOf(a) \cup X
  BY ActionsAfterMove DEF Agents
<1>7. \A x \in X : x.step = step_count /\ x.k >= 1
  BY <1>1, ExtrasAre
<1>8. m \in Nat
  BY SimulationAssumption DEF Pushed
<1>9. IsFiniteSet(X) /\ Cardinality(X) = IF a = "NOISE" THEN m ELSE 0
  BY <1>8, ExtrasSize, FS_EmptySet
<1>10. \A x \in ActionsOf(a) : x.step \in Nat
  BY Kinds DEF ActionsOf, Inv, HeapShape
<1>11. \A x \in ActionsOf(a) : x.step < step_count + 1 <=> x \in D \/ x = u
  <2>1. ASSUME NEW x \in ActionsOf(a) PROVE x.step = step_count <=> x = u
    BY <1>4, <1>5
  <2>2. ASSUME NEW x \in ActionsOf(a) PROVE x \in D <=> x.step < step_count
    BY DEF DueOf
  <2> QED
    BY <1>1, <1>10, <2>1, <2>2
<1>12. u \in ActionsOf(a) /\ D \subseteq ActionsOf(a)
  BY <1>4 DEF DueOf
<1>13. DueOf(a)' = {e \in ActionsOf(a)' : e.step < step_count + 1}
  BY <1>1 DEF DueOf
<1>14. \A x \in X : x.step < step_count + 1
  BY <1>1, <1>7
<1>15. u \notin D
  BY <1>1, <1>5 DEF DueOf
<1>16. \A x \in X : x \notin D /\ x # u
  <2>1. ASSUME NEW x \in X PROVE x \notin D
    BY <1>1, <1>7 DEF DueOf
  <2>2. ASSUME NEW x \in X PROVE x # u
    BY <1>5, <1>7
  <2> QED
    BY <2>1, <2>2
<1> HIDE DEF X, D, u
<1>17. DueOf(a)' = (D \cup {u}) \cup X
  BY <1>6, <1>11, <1>12, <1>13, <1>14
<1>18. IsFiniteSet(D \cup {u}) /\ Cardinality(D \cup {u}) = Cardinality(D) + 1
  BY <1>3, <1>15, FS_AddElement
<1>19. (D \cup {u}) \cap X = {}
  BY <1>16
<1>20. /\ IsFiniteSet((D \cup {u}) \cup X)
       /\ Cardinality((D \cup {u}) \cup X) = Cardinality(D \cup {u}) + Cardinality(X)
  BY <1>9, <1>18, <1>19, DisjointUnion
<1>21. Cardinality(D) \in Nat
  BY <1>3, FS_CardinalityType
<1> QED
  BY <1>3, <1>9, <1>17, <1>18, <1>20, <1>21 DEF D
LEMMA MoveKeepsActions ==
    ASSUME Inv, MidpriceMove
    PROVE  ActionsLeft' /\ HumansLeft'
<1>1. PICK m, time : Pushed(m, time)
  BY MovePushes
<1>2. step_count \in Nat /\ step_count < TotalSteps /\ step_count' = step_count + 1
  BY MovePushes
<1>3. ASSUME NEW a \in Roster, NEW i \in Steps, i >= step_count'
      PROVE  OneActionFor(a, i)'
  <2>1. i \in Nat /\ i >= step_count /\ i # step_count
    BY <1>2, <1>3, StepsAre
  <2>2. PICK t \in Nat : {e \in ActionsOf(a) : e.step = i} = {Action(a, i, 0, t)}
    BY <2>1 DEF Inv, ActionsLeft, OneActionFor
  <2>3. ActionsOf(a)' = ActionsOf(a) \cup (IF a = "NOISE" THEN Extras(m, time) ELSE {})
    BY <1>1, ActionsAfterMove DEF Agents
  <2>4. \A x \in Extras(m, time) : x.step = step_count
    BY <1>1, <1>2, ExtrasAre
  <2>5. {e \in ActionsOf(a)' : e.step = i} = {e \in ActionsOf(a) : e.step = i}
    BY <2>1, <2>3, <2>4
  <2>6. {e \in ActionsOf(a)' : e.step = i} = {Action(a, i, 0, t)}
    BY <2>2, <2>5
  <2> QED
    BY <2>6 DEF OneActionFor, Action
<1>4. ActionsLeft'
  BY <1>1, <1>3, DueAfterMove DEF ActionsLeft, Steps
<1>5. HumansLeft'
  <2>1. ActionsOf("HUMAN")' = ActionsOf("HUMAN")
    BY <1>1, ActionsAfterMove DEF Agents
  <2> QED
    BY <2>1 DEF Inv, HumansLeft, HumansFrom, HumanAt, Action
<1> QED
  BY <1>4, <1>5

-----------------------------------------------------------------------------
(***************************************************************************)
(* The other events, which are only taken from the heap.                   *)
(***************************************************************************)
\* e is the earliest event, and is taken; it is no move.
Takes(e) ==
    /\ e \in NextEvents /\ e.kind # "MIDPRICE_MOVE"
    /\ now' = e.at /\ heap' = heap \ {e} /\ step_count' = step_count

LEMMA TakingKeepsShape ==
    ASSUME Inv, NEW e, Takes(e)
    PROVE  HeapShape' /\ InTime' /\ MovesLeft'
<1>1. e \in heap /\ heap' \subseteq heap /\ \A x \in heap : e.at <= x.at
  BY DEF Takes, NextEvents
<1>2. \A x \in heap : Shaped(x) /\ x.at \in Nat
  BY Kinds DEF Inv, HeapShape
<1>3. HeapShape'
  <2>1. \A x \in heap' : Shaped(x)
    BY <1>1, <1>2
  <2> QED
    BY <2>1 DEF HeapShape, Shaped
<1>4. InTime'
  <2>1. now' \in Nat /\ now' = e.at
    BY <1>1, <1>2 DEF Takes
  <2>2. ASSUME NEW x \in heap' PROVE x.at >= now'
    BY <1>1, <1>2, <2>1
  <2> QED
    BY <2>1, <2>2 DEF InTime
<1>5. ASSUME NEW i \in Steps PROVE Move(i) \in heap' <=> Move(i) \in heap
  <2>1. Move(i).kind = "MIDPRICE_MOVE"
    BY Fields
  <2> QED
    BY <2>1 DEF Takes
<1>6. MovesLeft'
  BY <1>5 DEF Takes, Inv, MovesLeft, Move
<1> QED
  BY <1>3, <1>4, <1>6

\* What is no action leaves the actions as they are.
LEMMA TakingKeepsActions ==
    ASSUME Inv, NEW e, Takes(e), e.kind # "AGENT_ACTION"
    PROVE  ActionsLeft' /\ HumansLeft' /\ \A a : ActionsOf(a)' = ActionsOf(a) /\ DueOf(a)' = DueOf(a)
<1>1. heap' = heap \ {e} /\ step_count' = step_count
  BY DEF Takes
<1>2. ASSUME NEW a PROVE ActionsOf(a)' = ActionsOf(a)
  BY <1>1 DEF ActionsOf
<1>3. ASSUME NEW a PROVE DueOf(a)' = DueOf(a)
  BY <1>1, <1>2 DEF DueOf
<1>4. ASSUME NEW a, NEW i, OneActionFor(a, i) PROVE OneActionFor(a, i)'
  BY <1>2, <1>4 DEF OneActionFor, Action
<1>5. ActionsLeft'
  BY <1>1, <1>3, <1>4 DEF Inv, ActionsLeft, Steps
<1>6. HumansLeft'
  BY <1>2 DEF Inv, HumansLeft, HumansFrom, HumanAt, Action
<1> QED
  BY <1>2, <1>3, <1>5, <1>6

\* What is no sample leaves the samples as they are.
LEMMA TakingKeepsSamples ==
    ASSUME Inv, NEW e, Takes(e), e.kind # "METRICS_SAMPLE", samples' = samples
    PROVE  SamplesLeft'
<1>1. heap' = heap \ {e} /\ step_count' = step_count
  BY DEF Takes
<1>2. ASSUME NEW i PROVE MetricsSample(i) \in heap' <=> MetricsSample(i) \in heap
  <2>1. MetricsSample(i).kind = "METRICS_SAMPLE"
    BY Fields
  <2> QED
    BY <1>1, <2>1
<1> QED
  BY <1>1, <1>2 DEF Inv, SamplesLeft, SampledInStep, MetricsSample
\* An agent of the roster acts: one action less is due to it.
LEMMA RosterActs ==
    ASSUME Inv, NEW e, Takes(e), e.kind = "AGENT_ACTION", e.agent # "HUMAN"
    PROVE  /\ e.agent \in Roster /\ e \in DueOf(e.agent)
           /\ \A a : DueOf(a)' = DueOf(a) \ {e}
           /\ \A a : a # e.agent => ActionsOf(a)' = ActionsOf(a) /\ DueOf(a)' = DueOf(a)
           /\ ActionsLeft' /\ HumansLeft'
<1>1. heap' = heap \ {e} /\ step_count' = step_count /\ e \in heap /\ e \in NextEvents
  BY DEF Takes, NextEvents
<1>2. e.agent \in Roster
  BY <1>1, Kinds DEF Inv, HeapShape, Agents
<1>3. e.step < step_count /\ e.step \in Nat /\ step_count \in Nat
  BY <1>1, PoppedAction, Kinds, StepsAre DEF Inv, HeapShape, MovesLeft
<1>4. e \in DueOf(e.agent)
  BY <1>1, <1>3 DEF DueOf, ActionsOf
<1>5. \A a : ActionsOf(a)' = ActionsOf(a) \ {e}
  BY <1>1 DEF ActionsOf
<1>6. \A a : DueOf(a)' = DueOf(a) \ {e}
  BY <1>1, <1>5 DEF DueOf
<1>7. ASSUME NEW a, a # e.agent PROVE ActionsOf(a)' = ActionsOf(a) /\ DueOf(a)' = DueOf(a)
  <2>1. e \notin ActionsOf(a) /\ e \notin DueOf(a)
    BY <1>7 DEF ActionsOf, DueOf
  <2> QED
    BY <1>5, <1>6, <2>1
<1>8. ASSUME NEW a \in Roster, NEW i \in Steps, i >= step_count PROVE OneActionFor(a, i)'
  <2>1. PICK t \in Nat : {x \in ActionsOf(a) : x.step = i} = {Action(a, i, 0, t)}
    BY <1>8 DEF Inv, ActionsLeft, OneActionFor
  <2>2. e.step # i
    BY <1>3, <1>8, StepsAre
  <2>3. {x \in ActionsOf(a)' : x.step = i} = {x \in ActionsOf(a) : x.step = i}
    BY <1>5, <2>2
  <2>4. {x \in ActionsOf(a)' : x.step = i} = {Action(a, i, 0, t)}
    BY <2>1, <2>3
  <2> QED
    BY <2>4 DEF OneActionFor, Action
<1>9. ASSUME NEW a \in Roster PROVE IsFiniteSet(DueOf(a)')
  BY <1>6, FS_RemoveElement DEF Inv, ActionsLeft
<1>10. ActionsLeft'
  BY <1>1, <1>8, <1>9 DEF ActionsLeft, Steps
<1>11. HumansLeft'
  BY <1>7 DEF Inv, HumansLeft, HumansFrom, HumanAt, Action
<1> QED
  BY <1>2, <1>4, <1>6, <1>7, <1>10, <1>11

\* HUMAN's actions that are left are those from step h on.
LEMMA HumansHeap ==
    ASSUME NEW h \in 0..TotalSteps, HumansFrom(h), NEW i \in Nat
    PROVE  HumanAt(i) \in heap <=> i >= h /\ i < TotalSteps
<1>1. HumanAt(i).kind = "AGENT_ACTION" /\ HumanAt(i).agent = "HUMAN" /\ HumanAt(i).step = i
  BY HumanFields
<1>2. HumanAt(i) \in heap <=> HumanAt(i) \in ActionsOf("HUMAN")
  BY <1>1 DEF ActionsOf
<1>3. HumanAt(i) \in ActionsOf("HUMAN") <=> \E j \in h..(TotalSteps - 1) : HumanAt(i) = HumanAt(j)
  BY DEF HumansFrom
<1>4. ASSUME NEW j, HumanAt(i) = HumanAt(j) PROVE i = j
  BY <1>4, HumanFields
<1>5. (\E j \in h..(TotalSteps - 1) : HumanAt(i) = HumanAt(j)) <=> i \in h..(TotalSteps - 1)
  BY <1>4
<1>6. i \in h..(TotalSteps - 1) <=> i >= h /\ i < TotalSteps
  BY StepsAre
<1> QED
  BY <1>2, <1>3, <1>5, <1>6

\* HUMAN acts for the steps in their order.
LEMMA HumanActs ==
    ASSUME Inv, NEW e, Takes(e), e.kind = "AGENT_ACTION", e.agent = "HUMAN"
    PROVE  /\ \E h \in 0..TotalSteps : /\ h < TotalSteps /\ h <= step_count
                                       /\ HumansFrom(h) /\ HumansFrom(h + 1)'
           /\ \A a \in Roster : DueOf(a)' = DueOf(a)
           /\ ActionsLeft' /\ HumansLeft'
<1>1. /\ heap' = heap \ {e} /\ step_count' = step_count /\ e \in heap /\ e \in NextEvents
      /\ \A x \in heap : e.at <= x.at
  BY DEF Takes, NextEvents
<1>2. PICK h \in 0..TotalSteps : HumansFrom(h)
  BY DEF Inv, HumansLeft
<1>3. /\ e = HumanAt(e.step) /\ e.at = e.step * Dt /\ e.step \in Nat /\ e.step < TotalSteps
      /\ e.step <= step_count
  BY <1>1, Kinds, PoppedAction DEF Inv, HeapShape
<1>4. TotalSteps \in Nat /\ h \in Nat
  BY StepsAre
<1>5. e.step >= h
  BY <1>1, <1>2, <1>3, HumansHeap
<1>6. h < TotalSteps
  BY <1>3, <1>4, <1>5
<1>7. HumanAt(h) \in heap
  BY <1>2, <1>4, <1>6, HumansHeap
<1>8. e.step * Dt <= h * Dt
  BY <1>1, <1>3, <1>7, HumanFields
<1>9. e.step = h
  <2>1. h < e.step => h * Dt + Dt <= e.step * Dt
    BY <1>3, <1>4, Times
  <2>2. h * Dt \in Nat /\ e.step * Dt \in Nat
    BY <1>3, <1>4, Times
  <2> QED
    BY <1>3, <1>4, <1>5, <1>8, <2>1, <2>2, DtIs
<1>10. \A a : ActionsOf(a)' = ActionsOf(a) \ {e}
  BY <1>1 DEF ActionsOf
<1>11. HumansFrom(h + 1)'
  <2>1. \A j \in Nat : HumanAt(j) = e => j = h
    BY <1>3, <1>9, HumanFields
  <2>2. h..(TotalSteps - 1) = {h} \cup (h + 1)..(TotalSteps - 1)
        /\ \A j \in (h + 1)..(TotalSteps - 1) : j \in Nat /\ j # h
    BY <1>4, <1>6
  <2>3. ActionsOf("HUMAN") = {HumanAt(j) : j \in h..(TotalSteps - 1)}
    BY <1>2 DEF HumansFrom
  <2>4. e = HumanAt(h)
    BY <1>3, <1>9
  <2>5. ActionsOf("HUMAN")' = {HumanAt(j) : j \in (h + 1)..(TotalSteps - 1)}
    BY <1>10, <2>1, <2>2, <2>3, <2>4
  <2> QED
    BY <2>5 DEF HumansFrom, HumanAt, Action
<1>12. HumansLeft'
  <2>1. h + 1 \in 0..TotalSteps
    BY <1>4, <1>6
  <2> QED
    BY <1>11, <2>1 DEF HumansLeft
<1>13. ASSUME NEW a \in Roster PROVE ActionsOf(a)' = ActionsOf(a) /\ DueOf(a)' = DueOf(a)
  <2>1. a # "HUMAN"
    BY DelaysArePositive
  <2>2. e \notin ActionsOf(a)
    BY <2>1 DEF ActionsOf
  <2>3. ActionsOf(a)' = ActionsOf(a)
    BY <1>10, <2>2
  <2> QED
    BY <1>1, <2>3 DEF DueOf
<1>14. ASSUME NEW a \in Roster, NEW i, OneActionFor(a, i) PROVE OneActionFor(a, i)'
  BY <1>13, <1>14 DEF OneActionFor, Action
<1>15. ActionsLeft'
  BY <1>1, <1>13, <1>14 DEF Inv, ActionsLeft, Steps
<1>16. h <= step_count
  BY <1>3, <1>9
<1> QED
  BY <1>2, <1>6, <1>11, <1>12, <1>13, <1>15, <1>16
LEMMA Multiples ==
    ASSUME NEW m \in Nat, m >= 1, NEW n \in Nat, NEW i \in Nat
    PROVE  /\ n * m \in Nat /\ (n * m) % m = 0 /\ (n + 1) * m = n * m + m
           /\ i % m = 0 /\ i > n * m => i >= n * m + m
<1>1. n * m \in Nat /\ (n + 1) * m = n * m + m
  BY Products
<1>2. (n * m) % m = 0
  <2> DEFINE p == n * m
             q == p \div m
             r == p % m
  <2>1. q \in Int /\ r \in 0..(m - 1) /\ p = m * q + r
    BY <1>1
  <2>2. r = m * (n - q) /\ n - q \in Int
    BY <1>1, <2>1
  <2> DEFINE k == n - q
  <2> HIDE DEF p, q, r, k
  <2>3. k >= 1 => m * k >= m
    BY <2>2 DEF k
  <2>4. k <= -1 => m * k <= -m
    BY <2>2 DEF k
  <2>5. k = 0 => m * k = 0
    BY <2>2 DEF k
  <2>6. k \in Int /\ r = m * k
    BY <2>2 DEF k
  <2>7. r = 0
    BY <2>1, <2>3, <2>4, <2>5, <2>6
  <2> QED
    BY <2>7 DEF r, p
<1>3. ASSUME i % m = 0, i > n * m PROVE i >= n * m + m
  <2> DEFINE q == i \div m
             k == q - n
  <2>1. q \in Int /\ i = m * q
    BY <1>3
  <2>2. k \in Int /\ i = n * m + m * k
    BY <2>1
  <2> HIDE DEF q, k
  <2>3. k >= 1 => m * k >= m
    BY <2>2
  <2>4. k <= 0 => m * k <= 0
    BY <2>2
  <2>5. m * k \in Int
    BY <2>2
  <2> QED
    BY <1>1, <1>3, <2>2, <2>3, <2>4, <2>5
<1> QED
  BY <1>1, <1>2, <1>3

\* The samples are taken in their order, each in its step.
LEMMA TakingASample ==
    ASSUME Inv, TakeSample
    PROVE  SamplesLeft' /\ \E e : Takes(e) /\ e.kind = "METRICS_SAMPLE"
<1>1. PICK e \in NextEvents :
         /\ e.kind = "METRICS_SAMPLE" /\ now' = e.at /\ heap' = heap \ {e}
         /\ samples' = (IF "MM" \in Roster THEN Append(samples, step_count) ELSE samples)
         /\ step_count' = step_count
  BY DEF TakeSample
<1>2. Takes(e)
  BY <1>1 DEF Takes
<1>3. e \in heap /\ \A x \in heap : e.at <= x.at
  BY DEF NextEvents
<1>4. step_count = e.step + 1
  BY <1>1, PoppedSample DEF Inv
<1>5. /\ e.step \in Nat /\ e.step < TotalSteps
      /\ e = MetricsSample(e.step) /\ e.at = e.step * Dt + HalfStep
  BY <1>1, <1>3, Kinds DEF Inv, HeapShape
<1>6. \A x \in heap' : x.kind = "METRICS_SAMPLE" =>
         x.step % SampleEvery = 0 /\ step_count' <= x.step + 1
  BY <1>1 DEF Inv, SamplesLeft
<1>7. CASE "MM" \in Roster
  <2> DEFINE n == Len(samples)
             S == SampleEvery
             first == n * S
  <2>1. S \in Nat /\ S >= 1
    BY SimulationAssumption
  <2>2. samples \in Seq(Int) /\ n \in Nat
    BY LenProperties DEF Inv, SamplesLeft
  <2>3. first \in Nat /\ first % S = 0 /\ (n + 1) * S = first + S
    BY <2>1, <2>2, Multiples
  <2>4. \A i \in Steps : i % S = 0 => (MetricsSample(i) \in heap <=> i >= first)
    BY <1>7 DEF Inv, SamplesLeft
  <2>5. e.step % S = 0
    BY <1>1, <1>3 DEF Inv, SamplesLeft
  <2> HIDE DEF n, first, S
  <2>6. e.step >= first
    BY <1>3, <1>5, <2>4, <2>5, StepsAre
  <2>7. first \in Steps /\ first >= first
    BY <1>5, <2>3, <2>6, StepsAre
  <2>8. MetricsSample(first) \in heap
    BY <2>3, <2>4, <2>7
  <2>9. e.step * Dt + HalfStep <= first * Dt + HalfStep
    BY <1>3, <1>5, <2>8, Fields
  <2>10. e.step = first
    <3>1. first < e.step => first * Dt + Dt <= e.step * Dt
      BY <1>5, <2>3, Times
    <3>2. first * Dt \in Nat /\ e.step * Dt \in Nat
      BY <1>5, <2>3, Times
    <3> QED
      BY <1>5, <2>3, <2>6, <2>9, <3>1, <3>2, DtIs
  <2>11. step_count \in Int
    BY <1>4, <1>5
  <2>12. samples' = Append(samples, step_count)
    BY <1>1, <1>7
  <2>13. /\ samples' \in Seq(Int) /\ Len(samples') = n + 1
         /\ \A i \in 1..n : samples'[i] = samples[i]
         /\ samples'[n + 1] = step_count
    BY <2>2, <2>11, <2>12, AppendProperties DEF n
  <2>14. SampledInStep'
    <3>1. DOMAIN samples = 1..n /\ DOMAIN samples' = 1..(n + 1)
      BY <2>2, <2>13, LenProperties DEF n
    <3>2. ASSUME NEW i \in 1..n PROVE samples'[i] = (i - 1) * SampleEvery + 1
      BY <2>13, <3>1 DEF Inv, SamplesLeft, SampledInStep
    <3>3. samples'[n + 1] = ((n + 1) - 1) * SampleEvery + 1
      <4>1. (n + 1) - 1 = n
        BY <2>2
      <4> QED
        BY <1>4, <2>10, <2>13, <4>1 DEF first, S
    <3>4. \A i \in 1..(n + 1) : i \in 1..n \/ i = n + 1
      BY <2>2
    <3> QED
      BY <3>1, <3>2, <3>3, <3>4 DEF SampledInStep
  <2>15. ASSUME NEW i \in Steps, i % S = 0
         PROVE  MetricsSample(i) \in heap' <=> i >= first + S
    <3>1. i \in Nat
      BY StepsAre
    <3>2. MetricsSample(i) = e <=> i = first
      BY <1>5, <2>10, Fields
    <3>3. MetricsSample(i) \in heap' <=> i >= first /\ i # first
      BY <1>1, <2>4, <2>15, <3>2
    <3>4. i > first => i >= first + S
      BY <2>1, <2>2, <2>15, <3>1, Multiples DEF first
    <3> QED
      BY <2>1, <2>3, <3>1, <3>3, <3>4
  <2>16. Len(samples') * S = first + S
    BY <2>3, <2>13
  <2>17. \A i \in Steps : i % SampleEvery = 0 =>
            (MetricsSample(i) \in heap' <=> i >= Len(samples') * SampleEvery)
    BY <2>15, <2>16 DEF S
  <2> QED
    BY <1>1, <1>2, <1>6, <1>7, <2>13, <2>14, <2>17 DEF SamplesLeft, MetricsSample
<1>8. CASE "MM" \notin Roster
  BY <1>1, <1>2, <1>6, <1>8 DEF Inv, SamplesLeft, SampledInStep
<1> QED
  BY <1>7, <1>8
-----------------------------------------------------------------------------
(***************************************************************************)
(* The initial events.                                                     *)
(***************************************************************************)
Scheduled(a, i, delay) == Action(a, i, 0, i * Dt + delay[<<a, i>>])

LEMMA ScheduleIs ==
    ASSUME NEW delay, NEW e
    PROVE  e \in Schedule(delay) <=>
             \/ \E i \in Steps : e = Move(i)
             \/ \E a \in Agents, i \in Steps : e = Scheduled(a, i, delay)
             \/ \E i \in Steps : i % SampleEvery = 0 /\ e = MetricsSample(i)
<1> DEFINE A == {Action(x[1], x[2], 0, x[2] * Dt + delay[x]) : x \in Agents \X Steps}
           M == {MetricsSample(i) : i \in {j \in Steps : j % SampleEvery = 0}}
<1>1. e \in A <=> \E x \in Agents \X Steps : e = Scheduled(x[1], x[2], delay)
  <2>1. \A x \in Agents \X Steps : x = <<x[1], x[2]>>
    OBVIOUS
  <2>2. \A x \in Agents \X Steps :
           Scheduled(x[1], x[2], delay) = Action(x[1], x[2], 0, x[2] * Dt + delay[x])
    BY <2>1 DEF Scheduled
  <2> QED
    BY <2>2
<1>2. (\E x \in Agents \X Steps : e = Scheduled(x[1], x[2], delay))
        <=> \E a \in Agents, i \in Steps : e = Scheduled(a, i, delay)
  <2>1. ASSUME NEW a \in Agents, NEW i \in Steps, e = Scheduled(a, i, delay)
        PROVE  \E x \in Agents \X Steps : e = Scheduled(x[1], x[2], delay)
    <3>1. <<a, i>> \in Agents \X Steps /\ <<a, i>>[1] = a /\ <<a, i>>[2] = i
      OBVIOUS
    <3> QED
      BY <2>1, <3>1
  <2>2. \A x \in Agents \X Steps : x[1] \in Agents /\ x[2] \in Steps
    OBVIOUS
  <2> QED
    BY <2>1, <2>2
<1>3. e \in M <=> \E i \in Steps : i % SampleEvery = 0 /\ e = MetricsSample(i)
  OBVIOUS
<1> HIDE DEF A, M
<1>4. Schedule(delay) = {Move(i) : i \in Steps} \cup A \cup M
  BY DEF Schedule, A, M
<1> QED
  BY <1>1, <1>2, <1>3, <1>4

LEMMA DelayIs ==
    ASSUME NEW delay \in Delays, NEW a \in Agents, NEW i \in Steps
    PROVE  /\ delay[<<a, i>>] \in Nat
           /\ IF a = "HUMAN" THEN delay[<<a, i>>] = 0 ELSE delay[<<a, i>>] >= 1
<1>1. <<a, i>> \in Agents \X Steps /\ <<a, i>>[1] = a
  OBVIOUS
<1>2. delay[<<a, i>>] \in Sample(a)
  BY <1>1 DEF Delays
<1>3. a = "HUMAN" \/ a \in Roster
  BY DEF Agents
<1> QED
  BY <1>2, <1>3, DelaysArePositive

LEMMA ScheduledIs ==
    ASSUME NEW delay \in Delays, NEW a \in Agents, NEW i \in Steps
    PROVE  LET e == Scheduled(a, i, delay) IN
           /\ Shaped(e) /\ e.kind = "AGENT_ACTION" /\ e.agent = a /\ e.step = i
           /\ a = "HUMAN" => e = HumanAt(i)
<1> DEFINE d == delay[<<a, i>>]
           t == i * Dt + d
           e == Action(a, i, 0, t)
<1>1. d \in Nat /\ IF a = "HUMAN" THEN d = 0 ELSE d >= 1
  BY DelayIs
<1>2. i \in Nat /\ i * Dt \in Nat
  BY StepsAre, Times
<1> HIDE DEF d
<1>3. t \in Nat /\ IF a = "HUMAN" THEN t = i * Dt ELSE t > i * Dt
  BY <1>1, <1>2
<1> HIDE DEF t
<1>4. e.kind = "AGENT_ACTION" /\ e.agent = a /\ e.step = i /\ e.k = 0 /\ e.at = t
  BY Fields
<1>5. Shaped(e)
  BY <1>3, <1>4 DEF Shaped
<1>6. a = "HUMAN" => e = HumanAt(i)
  BY <1>3 DEF HumanAt
<1> QED
  BY <1>4, <1>5, <1>6 DEF Scheduled, d, t

LEMMA InitialInv == Init => Inv /\ HumansFrom(0)
<1> SUFFICES ASSUME Init PROVE Inv /\ HumansFrom(0)
  OBVIOUS
<1>1. PICK delay \in Delays : heap = Schedule(delay)
  BY DEF Init
<1>2. now = 0 /\ step_count = 0 /\ samples = <<>>
  BY DEF Init
<1>3. ASSUME NEW i \in Steps
      PROVE  Shaped(Move(i)) /\ Shaped(MetricsSample(i))
  <2>1. i \in Nat /\ i * Dt \in Nat /\ i * Dt + HalfStep \in Nat
    BY StepsAre, Times, DtIs
  <2> QED
    BY <2>1, Fields DEF Shaped
<1>4. HeapShape
  <2> SUFFICES ASSUME NEW e \in heap PROVE Shaped(e)
    BY DEF HeapShape
  <2> QED
    BY <1>1, <1>3, ScheduleIs, ScheduledIs
<1>5. InTime
  BY <1>2, <1>4, Kinds DEF InTime, HeapShape
<1>6. MovesLeft
  <2>1. ASSUME NEW i \in Steps PROVE Move(i) \in heap /\ i >= 0
    BY <1>1, ScheduleIs, StepsAre
  <2> QED
    BY <1>2, <2>1, StepsAre DEF MovesLeft
<1>7. ASSUME NEW e \in heap, e.kind = "METRICS_SAMPLE"
      PROVE  e.step % SampleEvery = 0 /\ e.step \in Nat
  <2>1. e \in Schedule(delay)
    BY <1>1
  <2>2. CASE \E i \in Steps : e = Move(i)
    BY <1>7, <2>2, Fields
  <2>3. CASE \E a \in Agents, i \in Steps : e = Scheduled(a, i, delay)
    BY <1>7, <2>3, Fields DEF Scheduled
  <2>4. CASE \E i \in Steps : i % SampleEvery = 0 /\ e = MetricsSample(i)
    BY <2>4, Fields, StepsAre
  <2> QED
    BY <2>1, <2>2, <2>3, <2>4, ScheduleIs
<1>8. SamplesLeft
  <2>1. samples \in Seq(Int) /\ Len(samples) = 0 /\ DOMAIN samples = {}
    BY <1>2
  <2>2. SampleEvery \in Nat
    BY SimulationAssumption
  <2>3. Len(samples) * SampleEvery = 0
    BY <2>1, <2>2
  <2>4. ASSUME NEW i \in Steps, i % SampleEvery = 0 PROVE MetricsSample(i) \in heap /\ i >= 0
    BY <1>1, <2>4, ScheduleIs, StepsAre
  <2>5. \A e \in heap : e.kind = "METRICS_SAMPLE" =>
           e.step % SampleEvery = 0 /\ step_count <= e.step + 1
    BY <1>2, <1>7
  <2>6. SampledInStep
    BY <2>1 DEF SampledInStep
  <2> QED
    BY <1>2, <2>1, <2>3, <2>4, <2>5, <2>6 DEF SamplesLeft
<1>9. ASSUME NEW a \in Agents, NEW e
      PROVE  e \in ActionsOf(a) <=> \E i \in Steps : e = Scheduled(a, i, delay)
  <2>1. ASSUME NEW i \in Steps, e = Scheduled(a, i, delay) PROVE e \in ActionsOf(a)
    BY <1>1, <2>1, ScheduleIs, ScheduledIs DEF ActionsOf
  <2>2. ASSUME e \in ActionsOf(a) PROVE \E i \in Steps : e = Scheduled(a, i, delay)
    <3>1. e \in Schedule(delay) /\ e.kind = "AGENT_ACTION" /\ e.agent = a
      BY <1>1, <2>2 DEF ActionsOf
    <3>2. PICK b \in Agents, i \in Steps : e = Scheduled(b, i, delay)
      BY <3>1, ScheduleIs, Fields
    <3>3. b = a
      BY <3>1, <3>2, ScheduledIs
    <3> QED
      BY <3>2, <3>3
  <2> QED
    BY <2>1, <2>2
<1>10. ActionsLeft
  <2> SUFFICES ASSUME NEW a \in Roster
               PROVE  IsFiniteSet(DueOf(a)) /\ \A i \in Steps : OneActionFor(a, i)
    BY DEF ActionsLeft
  <2>1. a \in Agents
    BY DEF Agents
  <2>2. DueOf(a) = {}
    <3>1. \A e \in ActionsOf(a) : e.step \in Nat
      BY <1>4, Kinds DEF ActionsOf, HeapShape
    <3> QED
      BY <1>2, <3>1 DEF DueOf
  <2>3. ASSUME NEW i \in Steps PROVE OneActionFor(a, i)
    <3> DEFINE t == i * Dt + delay[<<a, i>>]
    <3>1. t \in Nat
      BY <2>1, DelayIs, StepsAre, Times
    <3>2. Scheduled(a, i, delay) = Action(a, i, 0, t)
      BY DEF Scheduled
    <3>3. \A j \in Steps : Scheduled(a, j, delay).step = j
      BY Fields DEF Scheduled
    <3>4. {e \in ActionsOf(a) : e.step = i} = {Scheduled(a, i, delay)}
      BY <1>9, <2>1, <3>3
    <3> QED
      BY <3>1, <3>2, <3>4 DEF OneActionFor
  <2> QED
    BY <2>2, <2>3, FS_EmptySet
<1>11. HumansLeft /\ HumansFrom(0)
  <2>1. "HUMAN" \in Agents
    BY DEF Agents
  <2>2. \A i \in Steps : Scheduled("HUMAN", i, delay) = HumanAt(i)
    BY <2>1, ScheduledIs
  <2>3. ActionsOf("HUMAN") = {HumanAt(j) : j \in 0..(TotalSteps - 1)}
    BY <1>9, <2>1, <2>2 DEF Steps
  <2>4. 0 \in 0..TotalSteps
    BY StepsAre
  <2> QED
    BY <2>3, <2>4 DEF HumansLeft, HumansFrom
<1> QED
  BY <1>4, <1>5, <1>6, <1>8, <1>10, <1>11 DEF Inv

LEMMA InvIsKept == Inv /\ [Next]_vars => Inv'
<1> SUFFICES ASSUME Inv, [Next]_vars PROVE Inv'
  OBVIOUS
<1>1. CASE MidpriceMove
  BY <1>1, MoveKeepsShape, MoveKeepsSamples, MoveKeepsActions DEF Inv
<1>2. CASE AgentAction
  <2>1. PICK e : Takes(e) /\ e.kind = "AGENT_ACTION" /\ samples' = samples
    BY <1>2 DEF AgentAction, Takes
  <2>2. HeapShape' /\ InTime' /\ MovesLeft' /\ SamplesLeft'
    BY <2>1, TakingKeepsShape, TakingKeepsSamples
  <2>3. ActionsLeft' /\ HumansLeft'
    BY <2>1, RosterActs, HumanActs
  <2> QED
    BY <2>2, <2>3 DEF Inv
<1>3. CASE TakeSample
  <2>1. PICK e : Takes(e) /\ e.kind = "METRICS_SAMPLE"
    BY <1>3, TakingASample
  <2>2. HeapShape' /\ InTime' /\ MovesLeft' /\ ActionsLeft' /\ HumansLeft'
    BY <2>1, TakingKeepsShape, TakingKeepsActions
  <2> QED
    BY <1>3, <2>2, TakingASample DEF Inv
<1>4. CASE FlashCrash \/ VolSpike \/ UNCHANGED vars
  <2>1. UNCHANGED <<heap, now, step_count, samples>>
    BY <1>4 DEF FlashCrash, VolSpike, vars
  <2> QED
    <3>1. HeapShape' /\ InTime' /\ MovesLeft'
      BY <2>1 DEF Inv, HeapShape, Shaped, InTime, MovesLeft
    <3>2. SamplesLeft'
      BY <2>1 DEF Inv, SamplesLeft, SampledInStep
    <3>3. ActionsLeft'
      BY <2>1 DEF Inv, ActionsLeft, OneActionFor, ActionsOf, DueOf
    <3>4. HumansLeft'
      BY <2>1 DEF Inv, HumansLeft, HumansFrom, ActionsOf, HumanAt
    <3> QED
      BY <3>1, <3>2, <3>3, <3>4 DEF Inv
<1> QED
  BY <1>1, <1>2, <1>3, <1>4 DEF Next

\* Whatever the latencies, no event is left behind the clock, and the samples of the
\* market maker are taken in their order, each right after the move of its step.
THEOREM EventsComeInTime == Spec => []EventsAreTimely
<1>1. Inv => EventsAreTimely
  BY DEF Inv, InTime, SamplesLeft, SampledInStep, EventsAreTimely
<1> QED
  BY <1>1, InitialInv, InvIsKept, PTL DEF Spec
-----------------------------------------------------------------------------
(***************************************************************************)
(* The heap implements EventOrder.                                         *)
(***************************************************************************)
due == [a \in Roster |-> Cardinality(DueOf(a))]
human_done == TotalSteps - Cardinality(ActionsOf("HUMAN"))

LEMMA HumansDone ==
    \A h \in 0..TotalSteps : HumansFrom(h) => human_done = h
<1> SUFFICES ASSUME NEW h \in 0..TotalSteps, HumansFrom(h) PROVE human_done = h
  OBVIOUS
<1> DEFINE S == h..(TotalSteps - 1)
           T == ActionsOf("HUMAN")
           F == [j \in S |-> HumanAt(j)]
<1>1. TotalSteps \in Nat /\ h \in Nat /\ h <= TotalSteps
  BY StepsAre
<1>2. IsFiniteSet(S) /\ Cardinality(S) = TotalSteps - h
  <2>1. IsFiniteSet(S) /\ Cardinality(S) = IF h > TotalSteps - 1 THEN 0
                                           ELSE (TotalSteps - 1) - h + 1
    BY <1>1, FS_Interval
  <2> HIDE DEF S
  <2> QED
    BY <1>1, <2>1
<1>3. T = {HumanAt(j) : j \in S}
  BY DEF HumansFrom
<1>4. F \in [S -> T] /\ \A t \in T : \E j \in S : F[j] = t
  BY <1>3
<1>5. ASSUME NEW i \in S, NEW j \in S, F[i] = F[j] PROVE i = j
  <2>1. F[i].step = i /\ F[j].step = j
    BY HumanFields
  <2> QED
    BY <1>5, <2>1
<1> HIDE DEF S, T, F
<1>6. Cardinality(T) = Cardinality(S)
  BY <1>2, <1>4, <1>5, SameSize
<1> QED
  BY <1>1, <1>2, <1>6 DEF T, human_done

LEMMA HumansDoneNext ==
    (\A h \in 0..TotalSteps : HumansFrom(h) => human_done = h)'
BY HumansDone, PTL

LEMMA MoveRefines == Inv /\ MidpriceMove => Order!TakeMove
<1> SUFFICES ASSUME Inv, MidpriceMove PROVE Order!TakeMove
  OBVIOUS
<1>1. PICK h \in 0..TotalSteps : HumansFrom(h)
  BY DEF Inv, HumansLeft
<1>2. /\ Move(step_count) \in NextEvents /\ step_count \in Nat /\ step_count < TotalSteps
      /\ step_count' = step_count + 1
  BY MovePushes
<1>3. PICK m, time : Pushed(m, time)
  BY MovePushes
<1>4. human_done = h /\ h \in Nat
  BY <1>1, HumansDone, StepsAre
<1>5. h >= step_count
  <2> SUFFICES ASSUME h < step_count PROVE FALSE
    BY <1>2, <1>4
  <2>1. HumanAt(h) \in heap
    BY <1>1, <1>2, <1>4, HumansHeap, StepsAre
  <2>2. step_count * Dt <= h * Dt
    BY <1>2, <2>1, Fields, HumanFields DEF NextEvents
  <2>3. h * Dt + Dt <= step_count * Dt
    BY <1>2, <1>4, Times
  <2>4. h * Dt \in Nat /\ step_count * Dt \in Nat
    BY <1>2, <1>4, Times
  <2> QED
    BY <2>2, <2>3, <2>4, DtIs
<1>6. human_done' = human_done
  <2>1. ActionsOf("HUMAN")' = ActionsOf("HUMAN")
    BY <1>3, ActionsAfterMove DEF Agents
  <2> QED
    BY <2>1 DEF human_done
<1>7. due' = [a \in Roster |-> due[a] + 1 + (IF a = "NOISE" THEN m ELSE 0)]
  <2>1. \A a \in Roster : Cardinality(DueOf(a)') =
           Cardinality(DueOf(a)) + 1 + (IF a = "NOISE" THEN m ELSE 0)
    BY <1>3, DueAfterMove
  <2> QED
    BY <2>1 DEF due
<1>8. m \in 0..MaxExtra
  BY <1>3 DEF Pushed
<1> QED
  BY <1>2, <1>4, <1>5, <1>6, <1>7, <1>8 DEF Order!TakeMove, due, human_done

LEMMA ActionRefines == Inv /\ AgentAction => Order!OrderNext
<1> SUFFICES ASSUME Inv, AgentAction PROVE Order!OrderNext
  OBVIOUS
<1>1. PICK e : Takes(e) /\ e.kind = "AGENT_ACTION"
  BY DEF AgentAction, Takes
<1>2. step_count' = step_count
  BY <1>1 DEF Takes
<1>3. CASE e.agent = "HUMAN"
  <2>1. PICK h \in 0..TotalSteps : /\ h < TotalSteps /\ h <= step_count
                                   /\ HumansFrom(h) /\ HumansFrom(h + 1)'
    BY <1>1, <1>3, HumanActs
  <2>2. h \in Nat /\ h + 1 \in 0..TotalSteps
    BY <2>1, StepsAre
  <2>3. human_done = h /\ human_done' = h + 1
    <3>1. \A x \in 0..TotalSteps : HumansFrom(x)' => human_done' = x
      BY HumansDoneNext
    <3> QED
      BY <2>1, <2>2, <3>1, HumansDone
  <2>4. due' = due
    <3>1. \A a \in Roster : DueOf(a)' = DueOf(a)
      BY <1>1, <1>3, HumanActs
    <3> QED
      BY <3>1 DEF due
  <2>5. Order!TakeHuman
    BY <1>2, <2>1, <2>3, <2>4 DEF Order!TakeHuman, due, human_done
  <2> QED
    BY <2>5 DEF Order!OrderNext
<1>4. CASE e.agent # "HUMAN"
  <2> DEFINE b == e.agent
  <2>1. b \in Roster /\ e \in DueOf(b)
    BY <1>1, <1>4, RosterActs
  <2>2. \A a \in Roster : DueOf(a)' = IF a = b THEN DueOf(a) \ {e} ELSE DueOf(a)
    BY <1>1, <1>4, RosterActs
  <2>3. ActionsOf("HUMAN")' = ActionsOf("HUMAN")
    BY <1>1, <1>4, RosterActs
  <2>4. IsFiniteSet(DueOf(b))
    BY <2>1 DEF Inv, ActionsLeft
  <2>5. Cardinality(DueOf(b)) \in Nat /\ Cardinality(DueOf(b)) # 0
    BY <2>1, <2>4, FS_CardinalityType, FS_EmptySet
  <2>6. Cardinality(DueOf(b) \ {e}) = Cardinality(DueOf(b)) - 1
    BY <2>1, <2>4, FS_RemoveElement
  <2> HIDE DEF b
  <2>7. due' = [due EXCEPT ![b] = due[b] - 1]
    BY <2>1, <2>2, <2>6 DEF due
  <2>8. due[b] > 0
    BY <2>1, <2>5 DEF due
  <2>9. human_done' = human_done
    BY <2>3 DEF human_done
  <2>10. Order!TakeAction(b)
    BY <1>2, <2>7, <2>8, <2>9 DEF Order!TakeAction, Order!Popped, due, human_done
  <2> QED
    BY <2>1, <2>10 DEF Order!OrderNext
<1> QED
  BY <1>3, <1>4

\* For every roster, latency and number of steps, what the heap pops is an order of
\* events TradingSimulator allows: the move of a step before its agents, HUMAN at
\* the latest before the next move, and the Hawkes process's events counted once.
THEOREM HeapImplementsOrder == Spec => RefinesEventOrder
<1>1. Init => Order!OrderInit
  <2> SUFFICES ASSUME Init PROVE Order!OrderInit
    OBVIOUS
  <2>1. Inv /\ step_count = 0
    BY InitialInv DEF Init
  <2>2. \A a \in Roster : Cardinality(DueOf(a)) = 0
    <3>1. ASSUME NEW a \in Roster PROVE DueOf(a) = {}
      <4>1. \A e \in ActionsOf(a) : e.step \in Nat
        BY <2>1, Kinds DEF ActionsOf, Inv, HeapShape
      <4> QED
        BY <2>1, <4>1 DEF DueOf
    <3> QED
      BY <3>1, FS_EmptySet
  <2>3. human_done = 0
    <3>1. HumansFrom(0) /\ 0 \in 0..TotalSteps
      BY InitialInv, StepsAre
    <3> QED
      BY <3>1, HumansDone
  <2> QED
    BY <2>1, <2>2, <2>3 DEF Order!OrderInit, due, human_done
<1>2. Inv /\ [Next]_vars => [Order!OrderNext]_(Order!orderVars)
  <2> SUFFICES ASSUME Inv, [Next]_vars PROVE [Order!OrderNext]_(Order!orderVars)
    OBVIOUS
  <2>1. CASE MidpriceMove
    BY <2>1, MoveRefines DEF Order!OrderNext
  <2>2. CASE AgentAction
    BY <2>2, ActionRefines
  <2>3. CASE TakeSample
    <3>1. PICK e : Takes(e) /\ e.kind = "METRICS_SAMPLE"
      BY <2>3, TakingASample
    <3>2. \A a : ActionsOf(a)' = ActionsOf(a) /\ DueOf(a)' = DueOf(a)
      BY <3>1, TakingKeepsActions
    <3>3. step_count' = step_count
      BY <3>1 DEF Takes
    <3> QED
      BY <3>2, <3>3 DEF Order!orderVars
  <2>4. CASE FlashCrash \/ VolSpike \/ UNCHANGED vars
    <3>1. UNCHANGED <<heap, step_count>>
      BY <2>4 DEF FlashCrash, VolSpike, vars
    <3> QED
      BY <3>1 DEF Order!orderVars, ActionsOf, DueOf
  <2> QED
    BY <2>1, <2>2, <2>3, <2>4 DEF Next
<1> QED
  BY <1>1, <1>2, InitialInv, InvIsKept, PTL DEF Spec, RefinesEventOrder, Order!OrderSpec

-----------------------------------------------------------------------------
(***************************************************************************)
(* The memory of the Hawkes process.                                       *)
(*                                                                         *)
(* The list is sorted, so that what a step forgets is at its front; and    *)
(* MaxExtra places on in it an event is at least a step later.  So an      *)
(* event that many times as many places on as there are steps in a window  *)
(* is more than a window later, and cannot be there with the first.        *)
(***************************************************************************)
LEMMA LeastNumber ==
    ASSUME NEW T \in SUBSET Nat, NEW m \in T
    PROVE  \E n \in T : \A k \in T : ~ k < n
<1>1. \E n \in T : \A k \in T : ~ (<<k, n>> \in OpToRel(<, Nat))
  BY WFMin, NatLessThanWellFounded
<1> QED
  BY <1>1 DEF OpToRel

LEMMA MaxOfPart ==
    ASSUME NEW n \in Nat, NEW t \in SUBSET (1..n), t # {}
    PROVE  Max(t) \in t /\ \A y \in t : Max(t) >= y
<1> DEFINE T == {n - y : y \in t}
<1>1. T \in SUBSET Nat /\ \E m : m \in T
  <2>1. \A y \in t : y \in Nat /\ n - y \in Nat
    OBVIOUS
  <2>2. PICK y \in t : TRUE
    OBVIOUS
  <2>3. n - y \in T
    OBVIOUS
  <2>4. T \in SUBSET Nat
    BY <2>1
  <2> HIDE DEF T
  <2> QED
    BY <2>3, <2>4
<1>2. PICK k \in T : \A l \in T : ~ l < k
  <2> HIDE DEF T
  <2> QED
    BY <1>1, LeastNumber
<1>3. PICK x \in t : k = n - x
  OBVIOUS
<1>4. \A y \in t : x >= y
  <2> SUFFICES ASSUME NEW y \in t, ~ x >= y PROVE FALSE
    OBVIOUS
  <2>1. n - y \in T /\ n - y < k
    BY <1>3
  <2> QED
    BY <1>2, <2>1
<1>5. \E z \in t : \A y \in t : z >= y
  BY <1>4
<1> QED
  BY <1>5 DEF Max

(***************************************************************************)
(* Folds over a sequence of length n.  FoldLeft is a function of the       *)
(* subsets of 1..n; step[v, i] is the value after element i.               *)
(***************************************************************************)
Folding(h, A, base, step, n) ==
    /\ h \in [SUBSET (1..n) -> A]
    /\ h[{}] = base
    /\ \A t \in SUBSET (1..n) : t # {} => h[t] = step[<<h[t \ {Max(t)}], Max(t)>>]

LEMMA FoldingGrows ==
    ASSUME NEW A, NEW base \in A, NEW n \in Nat \ {0}, NEW N \in Nat, n <= N,
           NEW step \in [A \X (1..N) -> A],
           NEW h, Folding(h, A, base, step, n - 1)
    PROVE  \E g : Folding(g, A, base, step, n)
<1> DEFINE g == [t \in SUBSET (1..n) |-> IF n \in t THEN step[<<h[t \ {n}], n>>] ELSE h[t]]
<1>1. /\ h \in [SUBSET (1..(n - 1)) -> A] /\ h[{}] = base
      /\ \A t \in SUBSET (1..(n - 1)) : t # {} => h[t] = step[<<h[t \ {Max(t)}], Max(t)>>]
  BY DEF Folding
<1>2. \A t \in SUBSET (1..n) : /\ t \ {n} \in SUBSET (1..(n - 1))
                               /\ n \notin t => t \in SUBSET (1..(n - 1))
  OBVIOUS
<1>3. g \in [SUBSET (1..n) -> A] /\ g[{}] = base
  <2>1. \A t \in SUBSET (1..n) : n \in t => step[<<h[t \ {n}], n>>] \in A
    BY <1>1, <1>2
  <2>2. \A t \in SUBSET (1..n) : n \notin t => h[t] \in A
    BY <1>1, <1>2
  <2> QED
    BY <1>1, <2>1, <2>2
<1>4. ASSUME NEW t \in SUBSET (1..n), t # {}
      PROVE  g[t] = step[<<g[t \ {Max(t)}], Max(t)>>]
  <2>1. Max(t) \in t /\ \A y \in t : Max(t) >= y
    BY <1>4, MaxOfPart
  <2>2. CASE n \in t
    <3>1. Max(t) = n
      <4>1. Max(t) \in 1..n /\ Max(t) >= n
        BY <2>1, <2>2
      <4> QED
        BY <4>1
    <3>2. g[t] = step[<<h[t \ {n}], n>>]
      BY <2>2
    <3>3. t \ {n} \in SUBSET (1..n) /\ n \notin t \ {n}
      OBVIOUS
    <3>4. g[t \ {n}] = h[t \ {n}]
      BY <3>3
    <3> QED
      BY <3>1, <3>2, <3>4
  <2>3. CASE n \notin t
    <3>1. t \in SUBSET (1..(n - 1)) /\ t \ {Max(t)} \in SUBSET (1..n)
      BY <1>2, <2>3
    <3>2. g[t] = h[t] /\ g[t \ {Max(t)}] = h[t \ {Max(t)}]
      BY <2>3, <3>1
    <3> QED
      BY <1>1, <1>4, <3>1, <3>2
  <2> QED
    BY <2>2, <2>3
<1> HIDE DEF g
<1>5. Folding(g, A, base, step, n)
  BY <1>3, <1>4 DEF Folding
<1> QED
  BY <1>5

LEMMA FoldingExists ==
    ASSUME NEW A, NEW base \in A, NEW N \in Nat, NEW step \in [A \X (1..N) -> A]
    PROVE  \E h : Folding(h, A, base, step, N)
<1> DEFINE T == {n \in Nat : n <= N /\ ~ \E h : Folding(h, A, base, step, n)}
<1> SUFFICES ASSUME ~ \E h : Folding(h, A, base, step, N) PROVE FALSE
  OBVIOUS
<1>1. N \in T /\ T \in SUBSET Nat
  OBVIOUS
<1>2. PICK n \in T : \A k \in T : ~ k < n
  <2> HIDE DEF T
  <2> QED
    BY <1>1, LeastNumber
<1>3. n # 0
  <2> SUFFICES ASSUME n = 0 PROVE FALSE
    OBVIOUS
  <2> DEFINE h == [t \in SUBSET (1..0) |-> base]
  <2>1. /\ h \in [SUBSET (1..0) -> A] /\ h[{}] = base
        /\ \A t \in SUBSET (1..0) : t = {}
    OBVIOUS
  <2> HIDE DEF h
  <2>2. Folding(h, A, base, step, 0)
    BY <2>1 DEF Folding
  <2> QED
    BY <1>2, <2>2
<1>4. n \in Nat \ {0} /\ n <= N /\ n - 1 \in Nat /\ n - 1 \notin T
  BY <1>2, <1>3
<1>5. PICK h : Folding(h, A, base, step, n - 1)
  BY <1>4
<1>6. \E g : Folding(g, A, base, step, n)
  BY <1>4, <1>5, FoldingGrows
<1> QED
  BY <1>2, <1>6

\* A function of the subsets that goes on from 1..(k-1) to 1..k by step, as long as
\* it is in A, stays in A.
GoesOn(it, A, base, step, n) ==
    /\ it[{}] = base
    /\ \A k \in 1..n : it[1..(k - 1)] \in A => it[1..k] = step[<<it[1..(k - 1)], k>>]

LEMMA StaysIn ==
    ASSUME NEW A, NEW base \in A, NEW n \in Nat, NEW step \in [A \X (1..n) -> A],
           NEW it, GoesOn(it, A, base, step, n)
    PROVE  \A k \in 0..n : it[1..k] \in A
<1> DEFINE T == {k \in 0..n : it[1..k] \notin A}
<1> SUFFICES ASSUME NEW m \in T PROVE FALSE
  OBVIOUS
<1>1. PICK k \in T : \A l \in T : ~ l < k
  <2>1. T \in SUBSET Nat
    OBVIOUS
  <2> HIDE DEF T
  <2> QED
    BY <2>1, LeastNumber
<1>2. k # 0
  <2>1. 1..0 = {}
    OBVIOUS
  <2> QED
    BY <1>1, <2>1 DEF GoesOn
<1>3. k \in 1..n /\ k - 1 \in 0..n /\ k - 1 \notin T
  BY <1>1, <1>2
<1>4. it[1..(k - 1)] \in A
  BY <1>3
<1>5. it[1..k] = step[<<it[1..(k - 1)], k>>]
  BY <1>3, <1>4 DEF GoesOn
<1> QED
  BY <1>1, <1>3, <1>4, <1>5

LEMMA RangeUpTo ==
    ASSUME NEW n \in Nat, NEW k \in 1..n
    PROVE  /\ 1..k \in SUBSET (1..n) /\ 1..k # {} /\ Max(1..k) = k
           /\ (1..k) \ {k} = 1..(k - 1)
<1>1. 1..k \in SUBSET (1..n) /\ k \in 1..k /\ \A y \in 1..k : k >= y
  OBVIOUS
<1>2. Max(1..k) \in 1..k /\ Max(1..k) >= k
  BY <1>1, MaxOfPart
<1> QED
  BY <1>1, <1>2

\* Of a sorted list, the events after c are those behind its first d.
KeptOf(ev, c) == FoldLeft(LAMBDA kept, e : IF e > c THEN Append(kept, e) ELSE kept, <<>>, ev)

Sorted(ev) == \A i, j \in 1..Len(ev) : i <= j => ev[i] <= ev[j]

Behind(kept, ev, c, k, d) ==
    /\ d \in 0..k /\ kept \in Seq(Int) /\ Len(kept) = k - d
    /\ \A i \in 1..(k - d) : kept[i] = ev[d + i] /\ ev[d + i] > c

LEMMA BehindGrows ==
    ASSUME NEW ev \in Seq(Int), Sorted(ev), NEW c \in Int, NEW k \in 1..Len(ev),
           NEW d, NEW kept, Behind(kept, ev, c, k - 1, d)
    PROVE  \E e : Behind(IF ev[k] > c THEN Append(kept, ev[k]) ELSE kept, ev, c, k, e)
<1>1. k \in Nat /\ k >= 1 /\ Len(ev) \in Nat /\ k <= Len(ev) /\ ev[k] \in Int
  OBVIOUS
<1>2. /\ d \in 0..(k - 1) /\ kept \in Seq(Int) /\ Len(kept) = (k - 1) - d
      /\ \A i \in 1..((k - 1) - d) : kept[i] = ev[d + i] /\ ev[d + i] > c
  BY DEF Behind
<1>3. CASE ev[k] > c
  <2> DEFINE more == Append(kept, ev[k])
             m == k - d
  <2>1. m \in Nat /\ m >= 1 /\ d + m = k /\ (k - 1) - d = m - 1 /\ d \in 0..k
    BY <1>1, <1>2
  <2>2. /\ more \in Seq(Int) /\ Len(more) = Len(kept) + 1 /\ more[Len(kept) + 1] = ev[k]
        /\ \A i \in 1..Len(kept) : more[i] = kept[i]
    BY <1>1, <1>2
  <2>3. Len(kept) = m - 1 /\ Len(kept) + 1 = m
    BY <1>2, <2>1
  <2> HIDE DEF more, m
  <2>4. ASSUME NEW i \in 1..m PROVE more[i] = ev[d + i] /\ ev[d + i] > c
    <3>1. i \in 1..(m - 1) \/ i = m
      BY <2>1
    <3>2. CASE i \in 1..(m - 1)
      BY <1>2, <2>1, <2>2, <2>3, <3>2
    <3>3. CASE i = m
      BY <1>3, <2>1, <2>2, <2>3, <3>3
    <3> QED
      BY <3>1, <3>2, <3>3
  <2>5. Behind(more, ev, c, k, d)
    BY <2>1, <2>2, <2>3, <2>4 DEF Behind, m
  <2> QED
    BY <1>3, <2>5 DEF more
<1>4. CASE ~ ev[k] > c
  <2>1. d = k - 1
    <3> SUFFICES ASSUME d # k - 1 PROVE FALSE
      OBVIOUS
    <3>1. 1 \in 1..((k - 1) - d) /\ d + 1 \in 1..Len(ev) /\ d + 1 <= k
      BY <1>1, <1>2
    <3>2. ev[d + 1] > c /\ ev[d + 1] \in Int
      BY <1>2, <3>1
    <3>3. ev[d + 1] <= ev[k]
      BY <3>1 DEF Sorted
    <3> QED
      BY <1>1, <1>4, <3>2, <3>3
  <2>2. k \in 0..k /\ k - k = 0 /\ (k - 1) - d = 0 /\ 1..0 = {}
    BY <1>1, <2>1
  <2>3. Behind(kept, ev, c, k, k)
    BY <1>2, <2>2 DEF Behind
  <2> QED
    BY <1>4, <2>3
<1> QED
  BY <1>3, <1>4

LEMMA KeptIsBehind ==
    ASSUME NEW ev \in Seq(Int), Sorted(ev), NEW c \in Int
    PROVE  \E d : Behind(KeptOf(ev, c), ev, c, Len(ev), d)
<1> DEFINE n == Len(ev)
           A == Seq(Int)
           op(kept, k) == IF ev[k] > c THEN Append(kept, ev[k]) ELSE kept
           eqn(g) == g = [t \in SUBSET (DOMAIN ev) |->
                             IF t = {} THEN <<>> ELSE LET x == Max(t) IN op(g[t \ {x}], x)]
           iter == CHOOSE g : eqn(g)
           step == [x \in A \X (1..n) |-> op(x[1], x[2])]
           T == {k \in 0..n : ~ \E d : Behind(iter[1..k], ev, c, k, d)}
<1>1. KeptOf(ev, c) = iter[DOMAIN ev]
  BY DEF KeptOf, FoldLeft, MapThenFoldSet
<1>2. n \in Nat /\ DOMAIN ev = 1..n /\ <<>> \in A
  OBVIOUS
<1>3. \A kept \in A, k \in 1..n : op(kept, k) \in A
  OBVIOUS
<1>4. \A k \in 1..n : \A kept, d : Behind(kept, ev, c, k - 1, d) => \E e : Behind(op(kept, k), ev, c, k, e)
  BY BehindGrows
<1> HIDE DEF op, n, A
<1>5. step \in [A \X (1..n) -> A]
  <2>1. \A x \in A \X (1..n) : x[1] \in A /\ x[2] \in 1..n
    OBVIOUS
  <2>2. \A x \in A \X (1..n) : op(x[1], x[2]) \in A
    BY <1>3, <2>1
  <2> QED
    BY <2>2
<1>6. PICK h : Folding(h, A, <<>>, step, n)
  <2> HIDE DEF step
  <2> QED
    BY <1>2, <1>5, FoldingExists
<1>7. eqn(h)
  <2>1. /\ h \in [SUBSET (1..n) -> A] /\ h[{}] = <<>>
        /\ \A t \in SUBSET (1..n) : t # {} => h[t] = step[<<h[t \ {Max(t)}], Max(t)>>]
    BY <1>6 DEF Folding
  <2>2. ASSUME NEW t \in SUBSET (1..n), t # {}
        PROVE  h[t] = op(h[t \ {Max(t)}], Max(t))
    <3>1. Max(t) \in 1..n /\ t \ {Max(t)} \in SUBSET (1..n)
      BY <1>2, <2>2, MaxOfPart
    <3>2. <<h[t \ {Max(t)}], Max(t)>> \in A \X (1..n)
      BY <2>1, <3>1
    <3>3. step[<<h[t \ {Max(t)}], Max(t)>>] = op(h[t \ {Max(t)}], Max(t))
      BY <3>2
    <3> QED
      BY <2>1, <2>2, <3>3
  <2> QED
    BY <1>2, <2>1, <2>2
<1>8. eqn(iter)
  <2> HIDE DEF eqn
  <2> QED
    BY <1>7
<1>9. \A t \in SUBSET (1..n) : iter[t] = IF t = {} THEN <<>> ELSE op(iter[t \ {Max(t)}], Max(t))
  <2> HIDE DEF iter
  <2> QED
    BY <1>2, <1>8
<1> HIDE DEF iter
<1>10. iter[{}] = <<>>
  BY <1>9
<1>11. \A k \in 1..n : iter[1..k] = op(iter[1..(k - 1)], k)
  <2> SUFFICES ASSUME NEW k \in 1..n PROVE iter[1..k] = op(iter[1..(k - 1)], k)
    OBVIOUS
  <2> DEFINE u == 1..k
  <2>1. u \in SUBSET (1..n) /\ u # {} /\ Max(u) = k /\ u \ {k} = 1..(k - 1)
    BY <1>2, RangeUpTo
  <2> HIDE DEF u
  <2>2. iter[u] = op(iter[1..(k - 1)], k)
    BY <1>9, <2>1
  <2> QED
    BY <2>2 DEF u
<1>12. \A k \in 0..n : k \notin T
  <2> SUFFICES ASSUME NEW m \in T PROVE FALSE
    OBVIOUS
  <2>1. PICK k \in T : \A l \in T : ~ l < k
    <3>1. T \in SUBSET Nat
      BY <1>2
    <3> HIDE DEF T
    <3> QED
      BY <3>1, LeastNumber
  <2>2. k # 0
    <3>1. 1..0 = {} /\ 0 - 0 = 0 /\ 0 \in 0..0
      OBVIOUS
    <3>2. <<>> \in Seq(Int) /\ Len(<<>>) = 0
      OBVIOUS
    <3>3. Behind(<<>>, ev, c, 0, 0)
      BY <3>1, <3>2 DEF Behind
    <3>4. iter[1..0] = <<>>
      BY <1>10, <3>1
    <3> QED
      BY <2>1, <3>3, <3>4
  <2>3. k \in 1..n /\ k - 1 \in 0..n /\ k - 1 \notin T
    BY <1>2, <2>1, <2>2
  <2>4. PICK d : Behind(iter[1..(k - 1)], ev, c, k - 1, d)
    BY <2>3
  <2>5. \E e : Behind(op(iter[1..(k - 1)], k), ev, c, k, e)
    BY <1>4, <2>3, <2>4
  <2> QED
    BY <1>11, <2>1, <2>3, <2>5
<1>13. \E d : Behind(iter[1..n], ev, c, n, d)
  BY <1>2, <1>12
<1> QED
  BY <1>1, <1>2, <1>13 DEF n

\* What is remembered: sorted, of the last window, and with no more than MaxExtra
\* events in a step.
Spaced(ev) == \A i \in 1..Len(ev) : i + MaxExtra <= Len(ev) => ev[i + MaxExtra] >= ev[i] + Dt

MemoryInv ==
    /\ hawkes_time \in Nat /\ event_times \in Seq(Int)
    /\ Sorted(event_times) /\ Spaced(event_times)
    /\ \A i \in 1..Len(event_times) :
          event_times[i] <= hawkes_time /\ event_times[i] > hawkes_time - Window

LEMMA WindowFacts ==
    Window \in Nat /\ Window >= 1 /\ MaxExtra \in Nat /\ Dt \in Nat /\ Dt >= 1
<1>1. HalfStep \in Nat /\ HalfStep >= 1 /\ MaxExtra \in Nat
  BY SimulationAssumption
<1>2. Window \in Nat /\ Window >= 1
  BY PriceAssumption
<1> QED
  BY <1>1, <1>2 DEF Dt

LEMMA MemoryIsKept ==
    ASSUME MemoryInv, NEW n \in 0..MaxExtra, HawkesStep(Dt, n)
    PROVE  MemoryInv'
<1> DEFINE ev == event_times
           t == hawkes_time + Dt
           kept == KeptOf(ev, t - Window)
           late == [i \in 1..n |-> t]
           all == kept \o late
<1>1. hawkes_time' = t /\ event_times' = all
  <2>1. hawkes_time' = t /\ event_times' = Remembered(hawkes_time') \o [i \in 1..n |-> hawkes_time']
    BY DEF HawkesStep
  <2>2. Remembered(t) = kept
    BY DEF Remembered, KeptOf
  <2> HIDE DEF kept
  <2> QED
    BY <2>1, <2>2
<1>2. /\ ev \in Seq(Int) /\ Sorted(ev) /\ Spaced(ev) /\ hawkes_time \in Nat
      /\ \A i \in 1..Len(ev) : ev[i] <= hawkes_time
  BY DEF MemoryInv
<1>3. t \in Nat /\ t = hawkes_time + Dt /\ t - Window \in Int /\ t > t - Window
  BY <1>2, WindowFacts
<1>4. Window \in Nat /\ MaxExtra \in Nat /\ Dt \in Nat /\ n \in Nat /\ n <= MaxExtra
  BY WindowFacts
<1> HIDE DEF t, ev
<1>5. PICK d : Behind(kept, ev, t - Window, Len(ev), d)
  BY <1>2, <1>3, KeptIsBehind
<1> DEFINE m == Len(ev) - d
<1>6. /\ d \in Nat /\ m \in Nat /\ kept \in Seq(Int) /\ Len(kept) = m
      /\ \A i \in 1..m : /\ d + i \in 1..Len(ev) /\ kept[i] = ev[d + i]
                         /\ ev[d + i] > t - Window
  <2>1. Len(ev) \in Nat /\ d \in 0..Len(ev)
    BY <1>2, <1>5 DEF Behind
  <2>2. \A i \in 1..m : d + i \in 1..Len(ev)
    BY <2>1
  <2> QED
    BY <1>5, <2>1, <2>2 DEF Behind
<1>7. late \in Seq(Int) /\ Len(late) = n /\ \A i \in 1..n : late[i] = t
  BY <1>3, <1>4
<1>8. Len(ev) = d + m
  BY <1>2, <1>6
<1> HIDE DEF kept, late, m
<1>9. /\ all \in Seq(Int) /\ Len(all) = m + n
      /\ \A i \in 1..(m + n) : all[i] = IF i <= m THEN kept[i] ELSE late[i - m]
  <2>1. /\ all \in Seq(Int) /\ Len(all) = Len(kept) + Len(late)
        /\ \A i \in 1..(Len(kept) + Len(late)) :
              all[i] = IF i <= Len(kept) THEN kept[i] ELSE late[i - Len(kept)]
    BY <1>6, <1>7, ConcatProperties
  <2>2. Len(kept) = m /\ Len(late) = n
    BY <1>6, <1>7
  <2> HIDE DEF all
  <2> QED
    BY <2>1, <2>2
<1>10. ASSUME NEW i \in 1..(m + n)
       PROVE  \/ /\ i \in 1..m /\ d + i \in 1..Len(ev) /\ all[i] = ev[d + i]
                 /\ all[i] > t - Window /\ all[i] + Dt <= t
              \/ i > m /\ all[i] = t
  <2>1. CASE i <= m
    <3>1. i \in 1..m
      BY <1>6, <2>1
    <3>2. /\ d + i \in 1..Len(ev) /\ all[i] = ev[d + i] /\ ev[d + i] > t - Window
          /\ ev[d + i] <= hawkes_time
      BY <1>2, <1>6, <1>9, <2>1, <3>1
    <3>3. ev[d + i] \in Int
      BY <1>2, <3>2
    <3>4. ev[d + i] + Dt <= t
      BY <1>2, <1>3, <1>4, <3>2, <3>3
    <3> QED
      BY <3>1, <3>2, <3>4
  <2>2. CASE ~ i <= m
    <3>1. i \in Nat /\ m \in Nat /\ i > m /\ i - m \in 1..n
      BY <1>4, <1>6, <2>2
    <3> QED
      BY <1>7, <1>9, <2>2, <3>1
  <2> QED
    BY <2>1, <2>2
<1> HIDE DEF all
<1>11. \A i \in 1..(m + n) : all[i] \in Int /\ all[i] <= t /\ all[i] > t - Window
  <2> SUFFICES ASSUME NEW i \in 1..(m + n) PROVE all[i] \in Int /\ all[i] <= t /\ all[i] > t - Window
    OBVIOUS
  <2>1. all[i] \in Int
    BY <1>9
  <2> QED
    BY <1>3, <1>4, <1>10, <2>1
<1>12. Sorted(all)
  <2> SUFFICES ASSUME NEW i \in 1..(m + n), NEW j \in 1..(m + n), i <= j PROVE all[i] <= all[j]
    BY <1>9 DEF Sorted
  <2>1. CASE j > m /\ all[j] = t
    BY <1>11, <2>1
  <2>2. CASE j \in 1..m
    <3>1. i \in 1..m /\ d + i <= d + j
      BY <1>6, <2>2
    <3>2. ~ i > m /\ ~ j > m
      BY <1>6, <2>2, <3>1
    <3>3. /\ d + i \in 1..Len(ev) /\ all[i] = ev[d + i]
          /\ d + j \in 1..Len(ev) /\ all[j] = ev[d + j]
      BY <1>10, <3>2
    <3>4. ev[d + i] <= ev[d + j]
      BY <1>2, <3>1, <3>3 DEF Sorted
    <3> QED
      BY <3>3, <3>4
  <2> QED
    BY <1>10, <2>1, <2>2
<1>13. Spaced(all)
  <2> SUFFICES ASSUME NEW i \in 1..(m + n), i + MaxExtra <= m + n
               PROVE  all[i + MaxExtra] >= all[i] + Dt
    BY <1>9 DEF Spaced
  <2> DEFINE j == i + MaxExtra
  <2>1. i \in Nat /\ j \in Nat /\ j \in 1..(m + n) /\ i <= m /\ ~ i > m
    BY <1>4, <1>6
  <2>2. d + i \in 1..Len(ev) /\ all[i] = ev[d + i] /\ all[i] + Dt <= t /\ all[i] \in Int
    BY <1>10, <1>11, <2>1
  <2> HIDE DEF j
  <2>3. CASE j > m /\ all[j] = t
    <3>1. all[j] >= all[i] + Dt
      BY <1>3, <1>4, <2>2, <2>3
    <3> QED
      BY <3>1 DEF j
  <2>4. CASE j \in 1..m
    <3>1. ~ j > m
      BY <1>6, <2>1, <2>4
    <3>2. d + j \in 1..Len(ev) /\ all[j] = ev[d + j]
      BY <1>10, <2>1, <3>1
    <3>3. d + j = (d + i) + MaxExtra /\ d + j <= Len(ev)
      <4>1. d + j = (d + i) + MaxExtra
        BY <1>4, <1>6, <2>1 DEF j
      <4> QED
        BY <3>2, <4>1
    <3>4. ev[(d + i) + MaxExtra] >= ev[d + i] + Dt
      BY <1>2, <2>2, <3>3 DEF Spaced
    <3>5. all[j] >= all[i] + Dt
      BY <2>2, <3>2, <3>3, <3>4
    <3> QED
      BY <3>5 DEF j
  <2> QED
    BY <1>10, <2>1, <2>3, <2>4
<1> QED
  BY <1>1, <1>3, <1>9, <1>11, <1>12, <1>13 DEF MemoryInv

\* MaxExtra places on j times, an event is j steps later.
LEMMA Spread ==
    ASSUME MemoryInv, NEW q \in Nat, MaxExtra * q + 1 <= Len(event_times)
    PROVE  event_times[MaxExtra * q + 1] >= event_times[1] + q * Dt
<1> DEFINE ev == event_times
           T == {j \in 0..q : ~ ev[MaxExtra * j + 1] >= ev[1] + j * Dt}
           L == Len(ev)
<1>1. ev \in Seq(Int) /\ L \in Nat /\ Spaced(ev)
  BY DEF MemoryInv
<1>2. MaxExtra \in Nat /\ Dt \in Nat /\ MaxExtra * q + 1 <= L
  BY WindowFacts
<1> HIDE DEF ev, L
<1>3. \A j \in Nat : /\ MaxExtra * j \in Nat /\ MaxExtra * (j + 1) = MaxExtra * j + MaxExtra
                     /\ j * Dt \in Nat /\ (j + 1) * Dt = j * Dt + Dt
  <2> SUFFICES ASSUME NEW j \in Nat
               PROVE  /\ MaxExtra * j \in Nat /\ MaxExtra * (j + 1) = MaxExtra * j + MaxExtra
                      /\ j * Dt \in Nat /\ (j + 1) * Dt = j * Dt + Dt
    OBVIOUS
  <2>1. j * Dt \in Nat /\ (j + 1) * Dt = j * Dt + Dt
    BY <1>2, Products
  <2>2. j * MaxExtra \in Nat /\ (j + 1) * MaxExtra = j * MaxExtra + MaxExtra
    BY <1>2, Products
  <2>3. MaxExtra * j = j * MaxExtra /\ MaxExtra * (j + 1) = (j + 1) * MaxExtra
    BY <1>2
  <2> QED
    BY <2>1, <2>2, <2>3
<1>4. \A j \in 0..q : MaxExtra * j <= MaxExtra * q
  <2> SUFFICES ASSUME NEW j \in 0..q PROVE MaxExtra * j <= MaxExtra * q
    OBVIOUS
  <2>1. j \in Nat /\ q - j \in Nat /\ q = j + (q - j)
    OBVIOUS
  <2>2. MaxExtra * (q - j) \in Nat
    BY <1>3, <2>1
  <2>3. MaxExtra * (j + (q - j)) = MaxExtra * j + MaxExtra * (q - j)
    BY <1>2, <2>1
  <2>4. MaxExtra * q = MaxExtra * j + MaxExtra * (q - j)
    BY <2>1, <2>3
  <2> DEFINE x == MaxExtra * j
             y == MaxExtra * (q - j)
             z == MaxExtra * q
  <2>5. x \in Nat /\ y \in Nat /\ z = x + y
    BY <1>3, <2>1, <2>2, <2>4
  <2> HIDE DEF x, y, z
  <2>6. x <= z
    BY <2>5
  <2> QED
    BY <2>6 DEF x, z
<1> SUFFICES ASSUME NEW i \in T PROVE FALSE
  BY DEF ev
<1>5. PICK j \in T : \A l \in T : ~ l < j
  <2>1. T \in SUBSET Nat
    OBVIOUS
  <2> HIDE DEF T
  <2> QED
    BY <2>1, LeastNumber
<1>6. j # 0
  <2>1. MaxExtra * 0 + 1 = 1 /\ 0 * Dt = 0
    BY <1>2
  <2>2. 1 \in 1..L
    BY <1>1, <1>2, <1>3
  <2>3. ev[1] \in Int
    BY <1>1, <2>2 DEF L
  <2>4. ev[MaxExtra * 0 + 1] >= ev[1] + 0 * Dt
    BY <2>1, <2>3
  <2> QED
    BY <1>5, <2>4
<1>7. j \in 0..q /\ j - 1 \in 0..q /\ j - 1 \in Nat /\ (j - 1) + 1 = j /\ j - 1 \notin T
  BY <1>5, <1>6
<1> DEFINE p == MaxExtra * (j - 1) + 1
           b == (j - 1) * Dt
<1>8. ev[p] >= ev[1] + b
  BY <1>7
<1>9. /\ MaxExtra * j + 1 = p + MaxExtra /\ j * Dt = b + Dt /\ p \in Nat /\ p >= 1 /\ b \in Nat
      /\ p + MaxExtra <= L
  <2>1. MaxExtra * (j - 1) \in Nat /\ MaxExtra * j = MaxExtra * (j - 1) + MaxExtra
    BY <1>3, <1>7
  <2>2. b \in Nat /\ j * Dt = b + Dt
    BY <1>3, <1>7
  <2>3. MaxExtra * j <= MaxExtra * q /\ MaxExtra * q \in Nat
    BY <1>3, <1>4, <1>7
  <2> DEFINE x == MaxExtra * (j - 1)
             y == MaxExtra * j
             z == MaxExtra * q
  <2>4. x \in Nat /\ y = x + MaxExtra /\ y <= z /\ z \in Nat /\ z + 1 <= L /\ p = x + 1
    BY <1>2, <2>1, <2>3
  <2> HIDE DEF x, y, z, p
  <2>5. y + 1 = p + MaxExtra /\ p \in Nat /\ p >= 1 /\ p + MaxExtra <= L
    BY <1>1, <1>2, <2>4
  <2> QED
    BY <2>2, <2>5 DEF y
<1> HIDE DEF p, b
<1>10. 1 \in 1..L /\ p \in 1..L /\ p + MaxExtra \in 1..L
  BY <1>1, <1>2, <1>9
<1>11. ev[p + MaxExtra] >= ev[p] + Dt
  BY <1>1, <1>9, <1>10 DEF Spaced, L
<1>12. ev[1] \in Int /\ ev[p] \in Int /\ ev[p + MaxExtra] \in Int
  <2>1. \A l \in 1..L : ev[l] \in Int
    BY <1>1 DEF L
  <2> QED
    BY <1>10, <2>1
<1>13. ev[p + MaxExtra] >= ev[1] + (b + Dt)
  <2> DEFINE x == ev[1]
             y == ev[p]
             z == ev[p + MaxExtra]
  <2>1. x \in Int /\ y \in Int /\ z \in Int /\ b \in Nat /\ Dt \in Nat /\ y >= x + b /\ z >= y + Dt
    BY <1>2, <1>8, <1>9, <1>11, <1>12
  <2> HIDE DEF x, y, z
  <2>2. z >= x + (b + Dt)
    BY <2>1
  <2> QED
    BY <2>2 DEF x, z
<1>14. ev[MaxExtra * j + 1] >= ev[1] + j * Dt
  BY <1>9, <1>13
<1> QED
  BY <1>5, <1>14

LEMMA MemoryInvBounds == MemoryInv => MemoryIsBounded
<1> SUFFICES ASSUME MemoryInv, ~ MemoryIsBounded PROVE FALSE
  OBVIOUS
<1> DEFINE q == 1 + (Window - 1) \div Dt
           L == Len(event_times)
<1>1. Window \in Nat /\ Window >= 1 /\ MaxExtra \in Nat /\ Dt \in Nat /\ Dt >= 1
  BY WindowFacts
<1>2. q \in Nat /\ q * Dt >= Window
  <2> DEFINE w == Window - 1
             x == w \div Dt
  <2>1. w \in Nat /\ Dt \in Nat \ {0}
    BY <1>1
  <2> HIDE DEF w
  <2>2. x \in Nat /\ w = Dt * x + (w % Dt) /\ w % Dt \in 0..(Dt - 1)
    BY <2>1
  <2>3. (x + 1) * Dt = x * Dt + Dt /\ x * Dt \in Nat
    BY <1>1, <2>2, Products
  <2>4. Dt * x = x * Dt
    BY <1>1, <2>2
  <2> HIDE DEF x
  <2>5. (x + 1) * Dt >= w + 1
    BY <1>1, <2>1, <2>2, <2>3, <2>4
  <2>6. q = x + 1 /\ w + 1 = Window
    BY <1>1, <2>2 DEF x, w
  <2> QED
    BY <2>2, <2>5, <2>6
<1>3. ~ L <= MaxExtra * q
  BY DEF MemoryIsBounded
<1> HIDE DEF q
<1>4. event_times \in Seq(Int) /\ L \in Nat /\ hawkes_time \in Nat
  BY DEF MemoryInv
<1>5. MaxExtra * q \in Nat
  <2>1. q * MaxExtra \in Nat
    BY <1>1, <1>2, Products
  <2> QED
    BY <1>1, <1>2, <2>1
<1> DEFINE p == MaxExtra * q + 1
<1>6. p <= L /\ p \in 1..L /\ 1 \in 1..L
  BY <1>3, <1>4, <1>5
<1>7. event_times[p] >= event_times[1] + q * Dt
  BY <1>2, <1>6, Spread
<1> HIDE DEF p
<1>8. /\ event_times[p] \in Int /\ event_times[1] \in Int
      /\ event_times[p] <= hawkes_time /\ event_times[1] > hawkes_time - Window
  BY <1>4, <1>6 DEF MemoryInv
<1> DEFINE z == q * Dt
<1>9. z \in Nat /\ z >= Window
  BY <1>1, <1>2, Products
<1>10. event_times[p] >= event_times[1] + z
  BY <1>7
<1> HIDE DEF z
<1> QED
  BY <1>1, <1>4, <1>8, <1>9, <1>10

\* The list that the intensity of the Hawkes process is summed over has at most the
\* events of the steps in a window, however long the simulation runs.
THEOREM MemoryStaysBounded == Spec => []MemoryIsBounded
<1>1. Init => MemoryInv
  <2> SUFFICES ASSUME Init PROVE MemoryInv
    OBVIOUS
  <2>1. hawkes_time = 0 /\ event_times = <<>>
    BY DEF Init, PriceInit
  <2>2. <<>> \in Seq(Int) /\ Len(<<>>) = 0 /\ 1..0 = {}
    OBVIOUS
  <2> QED
    BY <2>1, <2>2 DEF MemoryInv, Sorted, Spaced
<1>2. MemoryInv /\ [Next]_vars => MemoryInv'
  <2> SUFFICES ASSUME MemoryInv, [Next]_vars PROVE MemoryInv'
    OBVIOUS
  <2>1. CASE MidpriceMove
    <3>1. PICK n \in 0..MaxExtra : HawkesStep(Dt, n)
      BY <2>1 DEF MidpriceMove
    <3> QED
      BY <3>1, MemoryIsKept
  <2>2. CASE UNCHANGED hawkesVars
    BY <2>2 DEF hawkesVars, MemoryInv, Sorted, Spaced
  <2> QED
    BY <2>1, <2>2 DEF Next, AgentAction, TakeSample, FlashCrash, VolSpike, vars
<1> QED
  BY <1>1, <1>2, MemoryInvBounds, PTL DEF Spec
=============================================================================
