----------------------------- MODULE EventOrder -----------------------------
(***************************************************************************)
(* The order in which the event loop of simulation/simulator.py may pop    *)
(* its events, without times: TradingSimulator is built on it, Simulation  *)
(* has the heap, the clock and the latencies and is shown to implement it. *)
(*                                                                         *)
(* The move of the price comes first in its step; the actions of a step's  *)
(* agents come after it, in any order and after later moves too; HUMAN's,  *)
(* whose latency is 0, may tie with the move, and comes before the next.   *)
(***************************************************************************)
EXTENDS Integers

CONSTANTS
    Roster,      \* agents that take part, HUMAN always does
    TotalSteps,  \* steps of the configuration
    MaxExtra     \* extra actions HawkesProcess may ask for in a step

ASSUME OrderAssumption ==
    /\ Roster \subseteq {"MM", "NOISE", "INFORMED", "MOMENTUM", "ARB"}
    /\ TotalSteps \in Nat
    /\ MaxExtra \in Nat

VARIABLES
    step_count,  \* steps whose move has been popped
    due,         \* actions of each agent but HUMAN, of those steps, to be popped
    human_done   \* actions of HUMAN popped

orderVars == <<step_count, due, human_done>>

Agents == Roster \cup {"HUMAN"}

OrderInit == step_count = 0 /\ due = [a \in Roster |-> 0] /\ human_done = 0

\* MIDPRICE_MOVE: the actions of the step can be popped from now on, with those
\* the Hawkes process adds for the first noise trader.
TakeMove ==
    /\ step_count < TotalSteps
    /\ human_done >= step_count
    /\ step_count' = step_count + 1
    /\ \E extra \in 0..MaxExtra :
          due' = [a \in Roster |-> due[a] + 1 + (IF a = "NOISE" THEN extra ELSE 0)]
    /\ UNCHANGED human_done

\* Seeded fault: the event stays in the heap.
Repeated(a) == due[a]

Popped(a) == due[a] - 1

TakeAction(a) ==
    /\ due[a] > 0
    /\ due' = [due EXCEPT ![a] = Popped(a)]
    /\ UNCHANGED <<step_count, human_done>>

TakeHuman ==
    /\ human_done < TotalSteps
    /\ human_done <= step_count
    /\ human_done' = human_done + 1
    /\ UNCHANGED <<step_count, due>>

MoreEvents == \/ step_count < TotalSteps
              \/ human_done < TotalSteps
              \/ \E a \in Roster : due[a] > 0

OrderNext == TakeMove \/ TakeHuman \/ \E a \in Roster : TakeAction(a)

OrderSpec == OrderInit /\ [][OrderNext]_orderVars
=============================================================================
