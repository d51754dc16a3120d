---------------------------- MODULE MCSimulation ----------------------------
(* Instance of Simulation: the market maker is faster than half a step but *)
(* for a spike, the noise trader slower than a step.                       *)
EXTENDS Simulation

MCLatency == [a \in Roster |-> IF a = "MM" THEN [base |-> 1, jitter |-> 0, spike |-> 5]
                                           ELSE [base |-> 3, jitter |-> 0, spike |-> 2]]

MCSigma == [r \in Regimes |-> IF r = "CALM" THEN 1 ELSE 2]
=============================================================================
