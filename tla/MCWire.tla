------------------------------- MODULE MCWire -------------------------------
(* Instance of Wire: a new order and a snapshot have two payload bytes, a  *)
(* cancel and a reject one.                                                *)
EXTENDS Wire

MCPayload == [k \in {"NEW", "CANCEL", "UPDATE", "REJECT"} |->
                 IF k \in {"NEW", "UPDATE"} THEN 2 ELSE 1]
=============================================================================
