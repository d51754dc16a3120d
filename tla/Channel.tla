------------------------------ MODULE Channel -------------------------------
(***************************************************************************)
(* What EngineServer and TradingSimulator take a connection to be, in one  *)
(* direction: messages arrive whole, in the order in which they were sent, *)
(* none twice and none left out.  Wire shows when that is so.              *)
(***************************************************************************)
EXTENDS Naturals, Sequences

CONSTANT Messages

VARIABLES sent, got

Init == sent = <<>> /\ got = <<>>

Send == \E m \in Messages : sent' = Append(sent, m) /\ UNCHANGED got

Deliver == \E n \in 1..(Len(sent) - Len(got)) :
              got' = SubSeq(sent, 1, Len(got) + n) /\ UNCHANGED sent

Next == Send \/ Deliver

Spec == Init /\ [][Next]_<<sent, got>>
=============================================================================
