----------------------------- MODULE SPSCQueue -----------------------------
(***************************************************************************)
(* The lock-free queue of engine/include/spsc_queue.hpp: a ring of         *)
(* Capacity + 1 slots, one producer thread, one consumer thread.           *)
(*                                                                         *)
(* Every access to shared memory is a step of its own.  A thread reads its *)
(* own index with a relaxed load and the other thread's with an acquire    *)
(* load, which may return an older value than the last one stored, though  *)
(* never an older one than this thread has read before: what a thread sees *)
(* of the other's index is a view that follows the index one store at a    *)
(* time (See...).  The release stores make the slot visible with the view. *)
(***************************************************************************)
EXTENDS Integers, Sequences

CONSTANTS Items, Capacity

ASSUME CapacityAssumption == Capacity \in Nat \ {0}

VARIABLES
    buffer,      \* buffer_; a slot never written holds <<>>
    write_idx,   \* write_idx_
    read_idx,    \* read_idx_
    read_view,   \* what the producer sees of read_idx_
    write_view,  \* what the consumer sees of write_idx_
    ppc,         \* "idle", "check", "write" or "store": where push is
    item,        \* the argument of push
    cpc,         \* "idle", "check", "read" or "store": where pop is
    out,         \* the caller's item, filled before read_idx_ is stored
    popped       \* the item of the last pop that returned true

producerVars == <<buffer, write_idx, ppc, item>>
consumerVars == <<read_idx, cpc, out, popped>>
vars == <<buffer, write_idx, read_idx, read_view, write_view,
          ppc, item, cpc, out, popped>>

Size == Capacity + 1

Slots == 0..Capacity

\* (pos + 1) % buffer_.size()
Succ(i) == (i + 1) % Size

Init ==
    /\ buffer = [i \in Slots |-> <<>>]
    /\ write_idx = 0 /\ read_idx = 0
    /\ read_view = 0 /\ write_view = 0
    /\ ppc = "idle" /\ item = <<>>
    /\ cpc = "idle" /\ out = <<>> /\ popped = <<>>

-----------------------------------------------------------------------------
(* push, called by the one producer. *)

BeginPush(v) ==
    /\ ppc = "idle"
    /\ ppc' = "check"
    /\ item' = <<v>>
    /\ UNCHANGED <<buffer, write_idx, read_view, write_view, consumerVars>>

\* Seeded fault: the push does not look.
NeverFull == FALSE

LooksFull == Succ(write_idx) = read_view

PushFull ==
    /\ ppc = "check"
    /\ LooksFull
    /\ ppc' = "idle"
    /\ item' = <<>>
    /\ UNCHANGED <<buffer, write_idx, read_view, write_view, consumerVars>>

PushRoom ==
    /\ ppc = "check"
    /\ ~LooksFull
    /\ ppc' = "write"
    /\ UNCHANGED <<buffer, write_idx, item, read_view, write_view, consumerVars>>

WriteSlot ==
    /\ ppc = "write"
    /\ buffer' = [buffer EXCEPT ![write_idx] = item]
    /\ ppc' = "store"
    /\ UNCHANGED <<write_idx, item, read_view, write_view, consumerVars>>

StoreWriteIdx ==
    /\ ppc = "store"
    /\ write_idx' = Succ(write_idx)
    /\ ppc' = "idle"
    /\ item' = <<>>
    /\ UNCHANGED <<buffer, read_view, write_view, consumerVars>>

-----------------------------------------------------------------------------
(* pop, called by the one consumer. *)

\* Seeded faults: the pop does not look; a full ring is taken for an empty one.
NeverEmpty == FALSE

EmptyOrFull == read_idx = write_view \/ Succ(write_view) = read_idx

LooksEmpty == read_idx = write_view

BeginPop ==
    /\ cpc = "idle"
    /\ cpc' = "check"
    /\ UNCHANGED <<read_idx, out, popped, read_view, write_view, producerVars>>

PopEmpty ==
    /\ cpc = "check"
    /\ LooksEmpty
    /\ cpc' = "idle"
    /\ UNCHANGED <<read_idx, out, popped, read_view, write_view, producerVars>>

PopItem ==
    /\ cpc = "check"
    /\ ~LooksEmpty
    /\ cpc' = "read"
    /\ UNCHANGED <<read_idx, out, popped, read_view, write_view, producerVars>>

ReadSlot ==
    /\ cpc = "read"
    /\ out' = buffer[read_idx]
    /\ cpc' = "store"
    /\ UNCHANGED <<read_idx, popped, read_view, write_view, producerVars>>

StoreReadIdx ==
    /\ cpc = "store"
    /\ read_idx' = Succ(read_idx)
    /\ popped' = out
    /\ out' = <<>>
    /\ cpc' = "idle"
    /\ UNCHANGED <<read_view, write_view, producerVars>>

-----------------------------------------------------------------------------
(* A store becomes visible to the other thread. *)

SeeReadIdx ==
    /\ read_view # read_idx
    /\ read_view' = Succ(read_view)
    /\ UNCHANGED <<write_view, producerVars, consumerVars>>

SeeWriteIdx ==
    /\ write_view # write_idx
    /\ write_view' = Succ(write_view)
    /\ UNCHANGED <<read_view, producerVars, consumerVars>>

Producer == (\E v \in Items : BeginPush(v)) \/ PushFull \/ PushRoom
            \/ WriteSlot \/ StoreWriteIdx

Consumer == BeginPop \/ PopEmpty \/ PopItem \/ ReadSlot \/ StoreReadIdx

Visible == SeeReadIdx \/ SeeWriteIdx

Next == Producer \/ Consumer \/ Visible

Spec == Init /\ [][Next]_vars

\* Stores become visible in finite time, and a thread ends a push or a pop it
\* has begun: neither waits for anything.  Nothing is assumed about how often
\* either is called.
FairSpec ==
    /\ Spec
    /\ WF_vars(SeeReadIdx) /\ WF_vars(SeeWriteIdx)
    /\ WF_vars(PopEmpty \/ PopItem \/ ReadSlot \/ StoreReadIdx)
    /\ WF_vars(PushFull \/ PushRoom \/ WriteSlot \/ StoreWriteIdx)

-----------------------------------------------------------------------------
Slot == {<<>>} \cup {<<v>> : v \in Items}

\* Type invariant.
TypeOK ==
    /\ buffer \in [Slots -> Slot]
    /\ write_idx \in Slots /\ read_idx \in Slots
    /\ read_view \in Slots /\ write_view \in Slots
    /\ ppc \in {"idle", "check", "write", "store"}
    /\ cpc \in {"idle", "check", "read", "store"}
    /\ item \in Slot /\ out \in Slot /\ popped \in Slot

\* The distance from slot i to slot j along the ring.
Distance(i, j) == IF i <= j THEN j - i ELSE j - i + Size

\* Around the ring lie the producer's view of read_idx_, read_idx_, the
\* consumer's view of write_idx_ and write_idx_, in this order, and the slot
\* being written is still free for a producer whose view is old.
RingOrder ==
    /\ Distance(read_view, read_idx) <= Distance(read_view, write_view)
    /\ Distance(read_view, write_view) <= Distance(read_view, write_idx)
    /\ ppc \in {"write", "store"} => Succ(write_idx) # read_view
    /\ cpc \in {"read", "store"} => read_idx # write_view

\* The slot push writes is never the slot pop reads: the unsynchronised accesses
\* to buffer_ are not a data race.
NoSlotRace == ~(ppc = "write" /\ cpc = "read" /\ write_idx = read_idx)

\* What the queue holds, oldest first.
Contents ==
    [k \in 1..Distance(read_idx, write_idx) |->
        buffer[(read_idx + k - 1) % Size][1]]

FIFO == INSTANCE BoundedFIFO WITH fifo <- Contents

\* The queue is a bounded FIFO: StoreWriteIdx is the push, StoreReadIdx the pop,
\* and nothing else is visible.
RefinesFIFO == FIFO!Spec

\* A consumer that goes on calling pop gets every item: read_idx_ moves on from
\* every position at which there is something to read, whatever the producer does
\* and however late its stores are seen.  Callers may well stop calling: run_once
\* does not reach out_queue_ after a poll that timed out (tcp_server.cpp:105), and
\* an engine that waits for room in it does not reach in_queue_
\* (matching_engine.cpp:99).
EverythingIsPopped ==
    []<>(cpc = "check") =>
        \A i \in Slots : (read_idx = i /\ write_idx # i) ~> (read_idx # i)
=============================================================================
