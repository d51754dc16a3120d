----------------------------- MODULE Simulation -----------------------------
(***************************************************************************)
(* Simulator.run of simulation/simulator.py with its clock: the heap of    *)
(* timed events, the latencies of market/latency_model.py, the price and   *)
(* Hawkes processes (PriceProcess), and the scenarios of the browser.      *)
(*                                                                         *)
(* Events with the same timestamp are popped in any order.  What an agent  *)
(* does in its action is in TradingSimulator and in Ledger.                *)
(***************************************************************************)
EXTENDS PriceProcess, FiniteSets

CONSTANTS
    Roster,        \* agents that take part, HUMAN always does
    TotalSteps,    \* steps of the configuration
    MaxExtra,      \* bound on the events HawkesProcess asks for in a step
    HalfStep,      \* half of dt
    SampleEvery,   \* steps between METRICS_SAMPLEs (100 in the code)
    Latency,       \* base, jitter and spike factor of each agent of the roster
    Drop,          \* ticks of a flash crash (100 in the code)
    MaxScenarios   \* bound on the scenarios triggered

Dt == 2 * HalfStep
Agents == Roster \cup {"HUMAN"}

ASSUME SimulationAssumption ==
    /\ Roster \subseteq {"MM", "NOISE", "INFORMED", "MOMENTUM", "ARB"}
    /\ {TotalSteps, MaxExtra} \subseteq Nat
    /\ HalfStep \in Nat \ {0} /\ SampleEvery \in Nat \ {0}
    /\ {Drop, MaxScenarios} \subseteq Nat
    /\ Latency \in [Roster -> [base: Nat, jitter: Nat, spike: Nat \ {0}]]
    /\ \A a \in Roster : Latency[a].base > Latency[a].jitter

VARIABLES
    heap,          \* event_queue
    now,           \* current_time
    step_count,
    mid,           \* current_mid
    samples,       \* the steps record_state has been called with
    scenarios      \* number of scenarios triggered

vars == <<heap, now, step_count, mid, samples, scenarios, priceVars, hawkesVars>>

-----------------------------------------------------------------------------
\* Seeded fault: no delay.
NoDelay(a) == {0}

\* LatencyModel.sample: the delays it can return.  HUMAN has ZeroLatency.
Sample(a) ==
    IF a = "HUMAN" THEN {0}
    ELSE LET c == Latency[a]
             plain == (c.base - c.jitter)..(c.base + c.jitter) IN
         {IF d > 0 THEN d ELSE 0 : d \in plain \cup {x * c.spike : x \in plain}}

Steps == 0..(TotalSteps - 1)

\* An action is the one scheduled for its step, or the k-th the Hawkes process adds.
Move(step) == [kind |-> "MIDPRICE_MOVE", at |-> step * Dt, step |-> step]
Action(a, step, k, at) ==
    [kind |-> "AGENT_ACTION", at |-> at, step |-> step, agent |-> a, k |-> k]
MetricsSample(step) ==
    [kind |-> "METRICS_SAMPLE", at |-> step * Dt + HalfStep, step |-> step]

\* _schedule_initial_events, for the latencies drawn.
Schedule(delay) ==
    {Move(i) : i \in Steps}
    \cup {Action(x[1], x[2], 0, x[2] * Dt + delay[x]) : x \in Agents \X Steps}
    \cup {MetricsSample(i) : i \in {j \in Steps : j % SampleEvery = 0}}

Delays == {d \in [Agents \X Steps -> UNION {Sample(a) : a \in Agents}] :
              \A x \in Agents \X Steps : d[x] \in Sample(x[1])}

Init ==
    /\ heap \in {Schedule(d) : d \in Delays}
    /\ now = 0 /\ step_count = 0 /\ mid = InitialPrice
    /\ samples = <<>> /\ scenarios = 0
    /\ PriceInit

-----------------------------------------------------------------------------
\* EventQueue.pop: Event compares timestamps only.
NextEvents == {e \in heap : \A x \in heap : e.at <= x.at}

\* Seeded fault: the delay counts from the start of the simulation.
ExtraAtDelay(e, delay) == {Action("NOISE", e.step, k, delay[k]) : k \in DOMAIN delay}

\* The events the Hawkes process adds for the first noise trader.
Extra(e, delay) == {Action("NOISE", e.step, k, e.at + delay[k]) : k \in DOMAIN delay}

MidpriceMove ==
    \E e \in NextEvents, n \in 0..MaxExtra :
        /\ e.kind = "MIDPRICE_MOVE"
        /\ now' = e.at
        /\ Step
        /\ mid' = price'
        /\ step_count' = step_count + 1
        /\ HawkesStep(Dt, n)
        /\ \E delay \in IF "NOISE" \in Roster THEN [1..n -> Sample("NOISE")] ELSE {<<>>} :
              heap' = (heap \ {e}) \cup Extra(e, delay)
        /\ UNCHANGED <<samples, scenarios>>

AgentAction ==
    \E e \in NextEvents :
        /\ e.kind = "AGENT_ACTION"
        /\ now' = e.at
        /\ heap' = heap \ {e}
        /\ UNCHANGED <<step_count, mid, samples, scenarios, priceVars, hawkesVars>>

TakeSample ==
    \E e \in NextEvents :
        /\ e.kind = "METRICS_SAMPLE"
        /\ now' = e.at
        /\ heap' = heap \ {e}
        /\ samples' = IF "MM" \in Roster THEN Append(samples, step_count) ELSE samples
        /\ UNCHANGED <<step_count, mid, scenarios, priceVars, hawkesVars>>

\* Scenarios of the browser, at the head of the loop.
FlashCrash ==
    /\ heap # {} /\ scenarios < MaxScenarios
    /\ scenarios' = scenarios + 1
    /\ mid' = mid - Drop
    /\ Crash(Drop)
    /\ UNCHANGED <<heap, now, step_count, samples, hawkesVars>>

VolSpike ==
    /\ heap # {} /\ scenarios < MaxScenarios
    /\ scenarios' = scenarios + 1
    /\ Spike
    /\ UNCHANGED <<heap, now, step_count, mid, samples, hawkesVars>>

Next == MidpriceMove \/ AgentAction \/ TakeSample \/ FlashCrash \/ VolSpike

Spec == Init /\ [][Next]_vars

-----------------------------------------------------------------------------
(***************************************************************************)
(* Properties.                                                             *)
(***************************************************************************)
ActionsOf(a) == {e \in heap : e.kind = "AGENT_ACTION" /\ e.agent = a}

\* The actions of an agent whose step has begun.
DueOf(a) == {e \in ActionsOf(a) : e.step < step_count}

Order == INSTANCE EventOrder WITH
    due <- [a \in Roster |-> Cardinality(DueOf(a))],
    human_done <- TotalSteps - Cardinality(ActionsOf("HUMAN"))

\* The heap with its latencies, and the events the Hawkes process pushes while it
\* is drained, implements the order of events that TradingSimulator is built on.
RefinesEventOrder == Order!OrderSpec

\* Time never goes back: no event is pushed into the past, and none is left behind
\* there.  A METRICS_SAMPLE is taken in its own step, after the move and before the
\* next one, whatever the latencies of the agents around it.
EventsAreTimely ==
    /\ \A e \in heap : e.at >= now
    /\ \A i \in DOMAIN samples : samples[i] = (i - 1) * SampleEvery + 1

\* The price the loop goes by is that of the process through moves and scenarios,
\* and a flash crash takes the mean along: the price is never further from it
\* than the moves of the process account for.
MidFollowsProcess ==
    /\ mid = price
    /\ process # "gbm" => price - theta \in -(step_count * MaxMove)..(step_count * MaxMove)

\* The Hawkes process remembers the events of a window only: the list its
\* intensity is summed over does not grow with the run.
MemoryIsBounded == Len(event_times) <= MaxExtra * (1 + (Window - 1) \div Dt)
=============================================================================
