---------------------------- MODULE PriceProcess ----------------------------
(***************************************************************************)
(* market/price_process.py: the price processes and HawkesProcess, as the  *)
(* simulator drives them.  Random numbers are choices.  A move has one of  *)
(* two signs and the size of the volatility, the pull to theta included;   *)
(* the time spent in a regime, which changes only the odds of leaving it,  *)
(* is left out.                                                            *)
(***************************************************************************)
EXTENDS Integers, Sequences, SequencesExt

CONSTANTS
    Processes,     \* kinds of price process that are configured
    InitialPrice,  \* initial_price, theta too
    BaseSigma,     \* sigma of GBM and OU
    Sigma,         \* sigma of each regime
    JumpSize,      \* jump on entry to NEWS
    Window         \* how long the Hawkes process remembers an event (10 / beta)

Regimes == {"CALM", "VOLATILE", "NEWS"}

ASSUME PriceAssumption ==
    /\ Processes \subseteq {"gbm", "ou", "regime_switching"}
    /\ {InitialPrice, BaseSigma, JumpSize} \subseteq Nat /\ Window \in Nat \ {0}
    /\ Sigma \in [Regimes -> Nat]

VARIABLES
    process,      \* the kind of price_process
    price,        \* current_price
    theta,        \* long-run mean, of OU and the regimes
    sigma,        \* volatility, of GBM and OU
    regime,       \* current_regime
    hawkes_time,  \* _current_time of the Hawkes process
    event_times   \* its _event_times

priceVars == <<process, price, theta, sigma, regime>>
hawkesVars == <<hawkes_time, event_times>>

PriceInit ==
    /\ process \in Processes
    /\ price = InitialPrice /\ theta = InitialPrice
    /\ sigma = BaseSigma /\ regime = "CALM"
    /\ hawkes_time = 0 /\ event_times = <<>>

-----------------------------------------------------------------------------
UpOrDown(size) == {-size, size}

\* _maybe_switch_regime: every regime can follow every other, at any step.
SwitchedStep ==
    /\ process = "regime_switching"
    /\ regime' \in Regimes
    /\ \E jump \in IF regime' = "NEWS" /\ regime # "NEWS" THEN UpOrDown(JumpSize) ELSE {0},
          d \in UpOrDown(Sigma[regime']) :
          price' = price + jump + d
    /\ UNCHANGED <<process, theta, sigma>>

Moves ==
    /\ \E d \in UpOrDown(sigma) : price' = price + d
    /\ UNCHANGED <<process, theta, sigma, regime>>

GBMStep == process = "gbm" /\ Moves
OUStep == process = "ou" /\ Moves

Step == SwitchedStep \/ GBMStep \/ OUStep

\* Seeded fault: the mean stays, and pulls the price up again.
CrashOfPrice(drop) ==
    /\ price' = price - drop
    /\ UNCHANGED <<process, theta, sigma, regime>>

\* What the flash_crash scenario does to the process; GBM has no theta.
Crash(drop) ==
    /\ price' = price - drop
    /\ theta' = IF process = "gbm" THEN theta ELSE theta - drop
    /\ UNCHANGED <<process, sigma, regime>>

\* What the vol_spike scenario does to it.
Spike ==
    /\ IF process = "regime_switching"
       THEN regime' = "VOLATILE" /\ UNCHANGED sigma
       ELSE sigma' = 3 * sigma /\ UNCHANGED regime
    /\ UNCHANGED <<process, price, theta>>

\* The size of the largest move so far.
MaxMove == IF process = "regime_switching"
           THEN JumpSize + Max({Sigma[r] : r \in Regimes})
           ELSE sigma

-----------------------------------------------------------------------------
\* Seeded fault: nothing is forgotten.
Everything(t) == event_times

\* The events whose kernel still counts at time t.
Remembered(t) ==
    FoldLeft(LAMBDA kept, e : IF e > t - Window THEN Append(kept, e) ELSE kept, <<>>, event_times)

\* HawkesProcess.step with n events.  Any n can come up: a candidate can be thinned
\* out until one is accepted, which raises the intensity to the bound it is
\* compared with, so that all candidates behind it are accepted.
HawkesStep(dt, n) ==
    /\ hawkes_time' = hawkes_time + dt
    /\ event_times' = Remembered(hawkes_time') \o [i \in 1..n |-> hawkes_time']
=============================================================================
