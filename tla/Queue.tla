-------------------------------- MODULE Queue --------------------------------
(***************************************************************************)
(* queue_t of nanocockpit/lib/queue.c: a circular buffer whose elements    *)
(* are written and read in place.  Three runs of slots follow each other   *)
(* around the ring: the ones the consumer holds (from start_consume), the  *)
(* committed ones (from start) and the ones the producer holds (from end). *)
(*                                                                         *)
(* held and inuse are the clients' own pointers: the slots they were       *)
(* handed and have not given back.  The clients give them back in the      *)
(* order the code's assertions demand: commit the oldest, discard the      *)
(* newest, release the oldest.  An assertion failure ends the program      *)
(* (pmsis_exit), so no action is enabled after one.                        *)
(***************************************************************************)
EXTENDS Integers, Sequences

CONSTANTS
  Capacity,           \* capacity argument of queue_init
  Value,              \* what an element can hold
  OverwriteFlags      \* the overwrite arguments the producer passes

ASSUME CapacityAssumption == Capacity \in Nat \ {0}
ASSUME FlagsAssumption == OverwriteFlags \subseteq BOOLEAN

VARIABLES
  start, end, count,            \* the committed elements
  end_acq, count_acq,           \* the acquired elements
  start_consume, count_consume, \* the consumed elements
  buffer,                       \* contents of each slot
  held,                         \* slots the producer holds, oldest first
  inuse,                        \* slots the consumer holds, oldest first
  failed                        \* has an assertion failed?

ring == <<start, end, count, end_acq, count_acq, start_consume, count_consume>>
vars == <<ring, buffer, held, inuse, failed>>

Slot == 0 .. Capacity - 1

\* The code's (i + 1) % capacity and (i - 1 + capacity) % capacity.
After(i) == (i + 1) % Capacity

\* Mutant of Before: slot 0 has no predecessor.
BeforeUnwrapped(i) == IF i = 0 THEN 0 ELSE i - 1

Before(i) == (i - 1 + Capacity) % Capacity

TypeOK ==
  /\ start \in Slot /\ end \in Slot /\ end_acq \in Slot /\ start_consume \in Slot
  /\ count \in Nat /\ count_acq \in Nat /\ count_consume \in Nat
  /\ buffer \in [Slot -> Value]
  /\ held \in Seq(Slot)
  /\ inuse \in Seq(Slot)
  /\ failed \in BOOLEAN

\* queue_init; pi_l2_malloc leaves the contents arbitrary.
Init ==
  /\ start = 0 /\ end = 0 /\ count = 0
  /\ end_acq = 0 /\ count_acq = 0
  /\ start_consume = 0 /\ count_consume = 0
  /\ buffer \in [Slot -> Value]
  /\ held = << >>
  /\ inuse = << >>
  /\ failed = FALSE

\* Mutant of Full: the elements in use are forgotten.
FullForgettingInUse == count_acq + count = Capacity

Full == count_acq + count + count_consume = Capacity

AssertionFailure ==
  /\ failed' = TRUE
  /\ UNCHANGED <<ring, buffer, held, inuse>>

\* The end of queue_push_acquire: hand out the slot at end_acq.
HandOut ==
  /\ held' = Append(held, end_acq)
  /\ end_acq' = After(end_acq)
  /\ count_acq' = count_acq + 1

\* Mutant of AcquireOverwriting: it drops an element although there is room.
OverwritingWithRoom ==
  /\ count > 0 /\ count_consume = 0
  /\ start' = After(start)
  /\ count' = count - 1
  /\ start_consume' = After(start_consume)
  /\ HandOut
  /\ UNCHANGED <<end, count_consume, buffer, inuse, failed>>

(***************************************************************************)
(* The overwrite path pops the oldest element and releases it at once.     *)
(* The release asserts that the popped slot is the oldest the consumer     *)
(* side holds, which is false when the consumer still holds another one.   *)
(***************************************************************************)
AcquireOverwriting ==
  /\ Full
  /\ count > 0
  /\ IF start = start_consume
       THEN /\ start' = After(start)
            /\ count' = count - 1
            /\ start_consume' = After(start_consume)
            /\ HandOut
            /\ UNCHANGED <<end, count_consume, buffer, inuse, failed>>
       ELSE AssertionFailure

\* queue_push_acquire.  Full with nothing to overwrite: the call returns NULL.
PushAcquire ==
  \/ /\ ~Full
     /\ HandOut
     /\ UNCHANGED <<start, end, count, start_consume, count_consume,
                    buffer, inuse, failed>>
  \/ /\ TRUE \in OverwriteFlags
     /\ AcquireOverwriting

\* *el = v, then queue_push_commit(q, el) with the oldest slot held.
PushCommit(v) ==
  /\ held # << >>
  /\ IF count_acq > 0 /\ Head(held) = end
       THEN /\ buffer' = [buffer EXCEPT ![Head(held)] = v]
            /\ end' = After(end)
            /\ count' = count + 1
            /\ count_acq' = count_acq - 1
            /\ held' = Tail(held)
            /\ UNCHANGED <<start, end_acq, start_consume, count_consume,
                           inuse, failed>>
       ELSE AssertionFailure

Newest(s) == s[Len(s)]
WithoutNewest(s) == SubSeq(s, 1, Len(s) - 1)

\* queue_push_discard(q, el) with the newest slot held.
PushDiscard ==
  /\ held # << >>
  /\ IF count_acq > 0 /\ Newest(held) = Before(end_acq)
       THEN /\ end_acq' = Before(end_acq)
            /\ count_acq' = count_acq - 1
            /\ held' = WithoutNewest(held)
            /\ UNCHANGED <<start, end, count, start_consume, count_consume,
                           buffer, inuse, failed>>
       ELSE AssertionFailure

\* queue_pop_consume; on an empty queue it returns NULL.
PopConsume ==
  /\ count > 0
  /\ inuse' = Append(inuse, start)
  /\ start' = After(start)
  /\ count' = count - 1
  /\ count_consume' = count_consume + 1
  /\ UNCHANGED <<end, end_acq, count_acq, start_consume, buffer, held, failed>>

\* queue_pop_release(q, el) with the oldest slot in use.
PopRelease ==
  /\ inuse # << >>
  /\ IF count_consume > 0 /\ Head(inuse) = start_consume
       THEN /\ start_consume' = After(start_consume)
            /\ count_consume' = count_consume - 1
            /\ inuse' = Tail(inuse)
            /\ UNCHANGED <<start, end, count, end_acq, count_acq,
                           buffer, held, failed>>
       ELSE AssertionFailure

Next ==
  /\ ~failed
  /\ \/ PushAcquire
     \/ \E v \in Value : PushCommit(v)
     \/ PushDiscard
     \/ PopConsume
     \/ PopRelease

Spec == Init /\ [][Next]_vars
------------------------------------------------------------------------------
\* queue.h asks of its clients only that they return elements in order, and of
\* queue_push_acquire it says that with overwrite it overwrites the oldest element
\* if the queue is full (queue.h:59-61): such clients never trip an assertion.
NoAssertionFailure == ~failed

\* What holds of the code: clients that return elements in order trip one only by
\* an overwriting push into a full queue of which the consumer holds an element
\* (queue.c:104, where queue_pop_release meets the wrong one at line 187).
FailsOnlyOverwriting ==
  failed => TRUE \in OverwriteFlags /\ Full /\ count > 0 /\ count_consume > 0

Held == {held[i] : i \in DOMAIN held}
InUse == {inuse[i] : i \in DOMAIN inuse}
Committed == {(start + k) % Capacity : k \in 0 .. count - 1}

\* A slot is with the producer, in the queue or with the consumer, never two of
\* them, and neither client is handed a slot twice: no reader sees a slot that
\* is being written.
NoSlotShared ==
  /\ Held \cap Committed = {}
  /\ Held \cap InUse = {}
  /\ Committed \cap InUse = {}
  /\ \A i, j \in DOMAIN held : held[i] = held[j] => i = j
  /\ \A i, j \in DOMAIN inuse : inuse[i] = inuse[j] => i = j

(***************************************************************************)
(* The inductive invariant: the three runs of slots are adjacent on the    *)
(* ring, their lengths fit in it, and the clients hold exactly the slots   *)
(* of the first and the last run.                                          *)
(***************************************************************************)
Ahead(i, k) == IF i + k < Capacity THEN i + k ELSE i + k - Capacity

RunsAdjacent ==
  /\ start = Ahead(start_consume, count_consume)
  /\ end = Ahead(start, count)
  /\ end_acq = Ahead(end, count_acq)

RunsFit == count_acq + count + count_consume <= Capacity

ClientsAgree ==
  /\ Len(held) = count_acq
  /\ \A i \in 1 .. Len(held) : held[i] = Ahead(end, i - 1)
  /\ Len(inuse) = count_consume
  /\ \A i \in 1 .. Len(inuse) : inuse[i] = Ahead(start_consume, i - 1)

\* Holds of every reachable state; NoSlotShared and ImplementsFifo rest on it.
RingInv == TypeOK /\ RunsAdjacent /\ RunsFit /\ ClientsAgree /\ FailsOnlyOverwriting

\* The queue is the bounded FIFO of queue.h: values come out in the order they
\* were committed, unchanged, and only an overwrite drops one, the oldest.
Fifo == INSTANCE QueueFifo WITH
  reserved <- Len(held),
  items <- [k \in 1 .. count |-> buffer[(start + k - 1) % Capacity]],
  taken <- [k \in 1 .. Len(inuse) |-> buffer[inuse[k]]]

ImplementsFifo == Fifo!Spec
==============================================================================
