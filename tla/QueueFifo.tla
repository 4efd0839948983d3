------------------------------ MODULE QueueFifo ------------------------------
(***************************************************************************)
(* What queue.h promises of queue_t, without indices: a bounded FIFO whose *)
(* elements are filled and read in place.  Between the producer's acquire  *)
(* and commit, and between the consumer's pop and release, an element      *)
(* still takes room.                                                       *)
(***************************************************************************)
EXTENDS Naturals, Sequences

CONSTANTS Capacity, Value

VARIABLES
  reserved,  \* number of elements acquired and neither committed nor discarded
  items,     \* committed values, oldest first
  taken      \* values the consumer has popped and not released, oldest first

vars == <<reserved, items, taken>>

Init ==
  /\ reserved = 0
  /\ items = << >>
  /\ taken = << >>

Load == reserved + Len(items) + Len(taken)

Reserve ==
  /\ Load < Capacity
  /\ reserved' = reserved + 1
  /\ UNCHANGED <<items, taken>>

\* "the queue will discard the oldest element and push the new element in its place"
Overwrite ==
  /\ Load = Capacity
  /\ items # << >>
  /\ items' = Tail(items)
  /\ reserved' = reserved + 1
  /\ UNCHANGED taken

Publish(v) ==
  /\ reserved > 0
  /\ reserved' = reserved - 1
  /\ items' = Append(items, v)
  /\ UNCHANGED taken

Withdraw ==
  /\ reserved > 0
  /\ reserved' = reserved - 1
  /\ UNCHANGED <<items, taken>>

Take ==
  /\ items # << >>
  /\ items' = Tail(items)
  /\ taken' = Append(taken, Head(items))
  /\ UNCHANGED reserved

Release ==
  /\ taken # << >>
  /\ taken' = Tail(taken)
  /\ UNCHANGED <<reserved, items>>

Next ==
  \/ Reserve
  \/ Overwrite
  \/ \E v \in Value : Publish(v)
  \/ Withdraw
  \/ Take
  \/ Release

Spec == Init /\ [][Next]_vars
==============================================================================
