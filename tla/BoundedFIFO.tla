---------------------------- MODULE BoundedFIFO ----------------------------
(***************************************************************************)
(* What the queue between the I/O thread and the engine thread promises:   *)
(* a sequence of at most Capacity items, each taken out exactly once and   *)
(* in the order they were put in.  A refused push or pop changes nothing.  *)
(***************************************************************************)
EXTENDS Integers, Sequences

CONSTANTS Items, Capacity

VARIABLES
    fifo,    \* items pushed and not yet popped, oldest first
    popped   \* result of the last successful pop, <<>> before the first

Init == fifo = <<>> /\ popped = <<>>

Push(v) ==
    /\ Len(fifo) < Capacity
    /\ fifo' = Append(fifo, v)
    /\ UNCHANGED popped

Pop ==
    /\ fifo # <<>>
    /\ popped' = <<Head(fifo)>>
    /\ fifo' = Tail(fifo)

Next == Pop \/ \E v \in Items : Push(v)

Spec == Init /\ [][Next]_<<fifo, popped>>
=============================================================================
