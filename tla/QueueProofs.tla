----------------------------- MODULE QueueProofs -----------------------------
(***************************************************************************)
(* Theorems about lib/queue.c, for every capacity and every set of values: *)
(* about Queue, that it implements QueueFifo, and about AsyncQueue.        *)
(***************************************************************************)
EXTENDS AsyncQueue, SequenceTheorems, TLAPS

\* The code's modulo arithmetic moves one slot around the ring.
LEMMA AfterIsAhead ==
  ASSUME NEW i \in Slot
  PROVE  After(i) = Ahead(i, 1) /\ After(i) \in Slot
  BY CapacityAssumption DEF Slot, After, Ahead

LEMMA BeforeIsBack ==
  ASSUME NEW i \in Slot
  PROVE  /\ Before(i) = IF i = 0 THEN Capacity - 1 ELSE i - 1
         /\ Before(i) \in Slot
  BY CapacityAssumption DEF Slot, Before

LEMMA ModIsAhead ==
  ASSUME NEW i \in Slot, NEW k \in Slot
  PROVE  (i + k) % Capacity = Ahead(i, k) /\ Ahead(i, k) \in Slot
  BY CapacityAssumption DEF Slot, Ahead

\* Ahead walks around the ring: two walks add up, and walks of different
\* lengths below the capacity end in different slots.
LEMMA AheadInSlot ==
  ASSUME NEW s \in Slot, NEW a \in 0 .. Capacity
  PROVE  Ahead(s, a) \in Slot
  BY CapacityAssumption DEF Slot, Ahead

LEMMA AheadAdds ==
  ASSUME NEW s \in Slot, NEW a \in Nat, NEW b \in Nat, a + b <= Capacity
  PROVE  Ahead(Ahead(s, a), b) = Ahead(s, a + b)
  BY CapacityAssumption DEF Slot, Ahead

LEMMA AheadInjective ==
  ASSUME NEW s \in Slot, NEW a \in 0 .. Capacity - 1, NEW b \in 0 .. Capacity - 1,
         Ahead(s, a) = Ahead(s, b)
  PROVE  a = b
  BY CapacityAssumption DEF Slot, Ahead

\* What appending one slot does to a client's list.
LEMMA AppendSlot ==
  ASSUME NEW s \in Seq(Slot), NEW e \in Slot
  PROVE  /\ Append(s, e) \in Seq(Slot)
         /\ Len(Append(s, e)) = Len(s) + 1
         /\ \A i \in 1 .. Len(s) : Append(s, e)[i] = s[i]
         /\ Append(s, e)[Len(s) + 1] = e
  OBVIOUS

LEMMA RingInvInit == Init => RingInv
<1> SUFFICES ASSUME Init
             PROVE  RingInv
  OBVIOUS
<1>1. TypeOK
  <2>1. 0 \in Slot
    BY CapacityAssumption DEF Slot
  <2>2. << >> \in Seq(Slot)
    OBVIOUS
  <2>3. QED
    BY <2>1, <2>2 DEF Init, TypeOK
<1>2. RunsAdjacent /\ RunsFit
  BY CapacityAssumption DEF Init, RunsAdjacent, RunsFit, Ahead
<1>3. ClientsAgree
  BY DEF Init, ClientsAgree
<1>4. QED
  BY <1>1, <1>2, <1>3 DEF Init, RingInv, FailsOnlyOverwriting

\* Every call of a client that returns elements in order preserves RingInv.
LEMMA RingInvStep == RingInv /\ [Next]_vars => RingInv'
<1> USE CapacityAssumption DEF RingInv, RunsFit, Slot
<1> SUFFICES ASSUME RingInv, [Next]_vars
             PROVE  RingInv'
  OBVIOUS
<1>1. CASE UNCHANGED vars
  BY <1>1 DEF vars, ring, TypeOK, RunsAdjacent, ClientsAgree, Ahead, FailsOnlyOverwriting, Full
<1>a. Next /\ failed' = failed => FailsOnlyOverwriting'
  BY DEF Next, FailsOnlyOverwriting
<1> SUFFICES ASSUME Next
             PROVE  RingInv'
  BY <1>1
<1>2. CASE PushAcquire
  <2>1. After(end_acq) = Ahead(end_acq, 1) /\ After(end_acq) \in Slot
    BY AfterIsAhead DEF TypeOK
  <2>2. CASE ~Full /\ HandOut /\ UNCHANGED <<start, end, count, start_consume,
                                 count_consume, buffer, inuse, failed>>
    <3>1. TypeOK'
      BY <2>1, <2>2 DEF TypeOK, HandOut, Full
    <3>2. RunsAdjacent' /\ RunsFit'
      BY <2>1, <2>2 DEF TypeOK, HandOut, Full, RunsAdjacent, Ahead
    <3>3. ClientsAgree'
      <4>1. end_acq = Ahead(end, Len(held))
        BY DEF RunsAdjacent, ClientsAgree
      <4>2. held' = Append(held, end_acq) /\ count_acq' = count_acq + 1
        BY <2>2 DEF HandOut
      <4>3. Len(held') = Len(held) + 1
        BY <4>2, AppendSlot DEF TypeOK
      <4>4. \A i \in 1 .. Len(held') : held'[i] = Ahead(end, i - 1)
        BY <4>1, <4>2, <4>3, AppendSlot DEF TypeOK, ClientsAgree
      <4>5. QED
        BY <2>2, <4>2, <4>3, <4>4 DEF ClientsAgree, Ahead
    <3>4. QED
      BY <1>a, <2>2, <3>1, <3>2, <3>3
  <2>3. CASE AcquireOverwriting /\ start = start_consume
    <3>1. start = start_consume /\ count_consume = 0 /\ count > 0 /\ Full
      BY <2>3 DEF AcquireOverwriting, TypeOK, RunsAdjacent, Ahead
    <3>2. After(start) = Ahead(start, 1) /\ After(start) \in Slot
      BY AfterIsAhead DEF TypeOK
    <3>3. /\ start' = After(start) /\ start_consume' = After(start_consume)
          /\ count' = count - 1
          /\ HandOut
          /\ UNCHANGED <<end, count_consume, buffer, inuse, failed>>
      BY <2>3, <3>1 DEF AcquireOverwriting
    <3>4. TypeOK'
      BY <2>1, <3>1, <3>2, <3>3 DEF TypeOK, HandOut, Full
    <3>5. RunsAdjacent' /\ RunsFit'
      BY <2>1, <3>1, <3>2, <3>3 DEF TypeOK, HandOut, Full, RunsAdjacent, Ahead
    <3>6. ClientsAgree'
      <4>1. end_acq = Ahead(end, Len(held))
        BY DEF RunsAdjacent, ClientsAgree
      <4>2. held' = Append(held, end_acq) /\ count_acq' = count_acq + 1
        BY <3>3 DEF HandOut
      <4>3. Len(held') = Len(held) + 1
        BY <4>2, AppendSlot DEF TypeOK
      <4>4. \A i \in 1 .. Len(held') : held'[i] = Ahead(end, i - 1)
        BY <4>1, <4>2, <4>3, AppendSlot DEF TypeOK, ClientsAgree
      <4>5. Len(inuse) = 0
        BY <3>1 DEF ClientsAgree
      <4>6. QED
        BY <3>3, <4>2, <4>3, <4>4, <4>5 DEF ClientsAgree, Ahead
    <3>7. QED
      BY <1>a, <3>3, <3>4, <3>5, <3>6
  <2>4. CASE TRUE \in OverwriteFlags /\ AcquireOverwriting /\ start # start_consume
    <3>1. Full /\ count > 0 /\ AssertionFailure
      BY <2>4 DEF AcquireOverwriting
    <3>2. count_consume > 0
      BY <2>4 DEF TypeOK, RunsAdjacent, Ahead
    <3>3. TypeOK' /\ RunsAdjacent' /\ RunsFit' /\ ClientsAgree'
      BY <3>1 DEF AssertionFailure, ring, TypeOK, RunsAdjacent, ClientsAgree, Ahead
    <3>4. FailsOnlyOverwriting'
      BY <2>4, <3>1, <3>2 DEF AssertionFailure, ring, FailsOnlyOverwriting, Full
    <3>5. QED
      BY <3>3, <3>4
  <2>5. QED
    BY <1>2, <2>2, <2>3, <2>4 DEF PushAcquire
<1>3. ASSUME NEW v \in Value, PushCommit(v)
      PROVE  RingInv'
  <2>1. count_acq > 0 /\ Head(held) = end /\ held # << >>
    BY <1>3 DEF PushCommit, TypeOK, ClientsAgree, Ahead
  <2>2. After(end) = Ahead(end, 1) /\ After(end) \in Slot
    BY AfterIsAhead DEF TypeOK
  <2>3. /\ buffer' = [buffer EXCEPT ![Head(held)] = v]
        /\ end' = After(end)
        /\ count' = count + 1
        /\ count_acq' = count_acq - 1
        /\ held' = Tail(held)
        /\ UNCHANGED <<start, end_acq, start_consume, count_consume, inuse, failed>>
    BY <1>3, <2>1 DEF PushCommit
  <2>4. TypeOK'
    BY <2>1, <2>2, <2>3 DEF TypeOK
  <2>5. RunsAdjacent' /\ RunsFit'
    BY <2>1, <2>2, <2>3 DEF TypeOK, RunsAdjacent, Ahead
  <2>6. ClientsAgree'
    BY <2>1, <2>2, <2>3 DEF TypeOK, ClientsAgree, Ahead
  <2>7. QED
    BY <1>a, <2>3, <2>4, <2>5, <2>6
<1>4. CASE PushDiscard
  <2>1. /\ Before(end_acq) = IF end_acq = 0 THEN Capacity - 1 ELSE end_acq - 1
        /\ Before(end_acq) \in Slot
    BY BeforeIsBack DEF TypeOK
  <2>2. count_acq > 0 /\ Newest(held) = Before(end_acq)
    BY <1>4, <2>1 DEF PushDiscard, Newest, TypeOK, RunsAdjacent, ClientsAgree, Ahead
  <2>3. /\ end_acq' = Before(end_acq)
        /\ count_acq' = count_acq - 1
        /\ held' = SubSeq(held, 1, Len(held) - 1)
        /\ UNCHANGED <<start, end, count, start_consume, count_consume,
                       buffer, inuse, failed>>
    BY <1>4, <2>2 DEF PushDiscard, WithoutNewest
  <2>4. TypeOK'
    BY <2>1, <2>2, <2>3 DEF TypeOK, ClientsAgree
  <2>5. RunsAdjacent' /\ RunsFit'
    BY <2>1, <2>2, <2>3 DEF TypeOK, RunsAdjacent, Ahead
  <2>6. ClientsAgree'
    BY <2>2, <2>3 DEF TypeOK, ClientsAgree, Ahead
  <2>7. QED
    BY <1>a, <2>3, <2>4, <2>5, <2>6
<1>5. CASE PopConsume
  <2>1. After(start) = Ahead(start, 1) /\ After(start) \in Slot
    BY AfterIsAhead DEF TypeOK
  <2>2. TypeOK'
    BY <1>5, <2>1 DEF PopConsume, TypeOK
  <2>3. RunsAdjacent' /\ RunsFit'
    <3>1. /\ start' = Ahead(start, 1) /\ count' = count - 1 /\ count > 0
          /\ count_consume' = count_consume + 1
          /\ UNCHANGED <<end, end_acq, count_acq, start_consume>>
      BY <1>5, <2>1 DEF PopConsume
    <3>2. /\ start \in Slot /\ start_consume \in Slot
          /\ count \in Nat /\ count_acq \in Nat /\ count_consume \in Nat
      BY DEF TypeOK
    <3>3. start' = Ahead(start_consume, count_consume')
      BY <3>1, <3>2, AheadAdds DEF RunsAdjacent
    <3>4. Ahead(Ahead(start, 1), count - 1) = Ahead(start, 1 + (count - 1))
      BY <3>1, <3>2, AheadAdds
    <3>5. end' = Ahead(start', count')
      BY <3>1, <3>2, <3>4 DEF RunsAdjacent
    <3>6. end_acq' = Ahead(end', count_acq')
      BY <3>1 DEF RunsAdjacent, Ahead
    <3>7. QED
      BY <3>1, <3>2, <3>3, <3>5, <3>6 DEF RunsAdjacent
  <2>4. ClientsAgree'
    <3>1. start = Ahead(start_consume, Len(inuse))
      BY DEF RunsAdjacent, ClientsAgree
    <3>2. /\ inuse' = Append(inuse, start) /\ count_consume' = count_consume + 1
          /\ UNCHANGED <<end, count_acq, start_consume, held>>
      BY <1>5 DEF PopConsume
    <3>3. Len(inuse') = Len(inuse) + 1
      BY <3>2, AppendSlot DEF TypeOK
    <3>4. \A i \in 1 .. Len(inuse') : inuse'[i] = Ahead(start_consume, i - 1)
      BY <3>1, <3>2, <3>3, AppendSlot DEF TypeOK, ClientsAgree
    <3>5. QED
      BY <3>2, <3>3, <3>4 DEF ClientsAgree, Ahead
  <2>5. QED
    BY <1>a, <1>5, <2>2, <2>3, <2>4 DEF PopConsume
<1>6. CASE PopRelease
  <2>1. count_consume > 0 /\ Head(inuse) = start_consume /\ inuse # << >>
    BY <1>6 DEF PopRelease, TypeOK, ClientsAgree, Ahead
  <2>2. After(start_consume) = Ahead(start_consume, 1) /\ After(start_consume) \in Slot
    BY AfterIsAhead DEF TypeOK
  <2>3. /\ start_consume' = After(start_consume)
        /\ count_consume' = count_consume - 1
        /\ inuse' = Tail(inuse)
        /\ UNCHANGED <<start, end, count, end_acq, count_acq, buffer, held, failed>>
    BY <1>6, <2>1 DEF PopRelease
  <2>4. TypeOK'
    BY <2>1, <2>2, <2>3 DEF TypeOK
  <2>5. RunsAdjacent' /\ RunsFit'
    BY <2>1, <2>2, <2>3 DEF TypeOK, RunsAdjacent, Ahead
  <2>6. ClientsAgree'
    BY <2>1, <2>2, <2>3 DEF TypeOK, ClientsAgree, Ahead
  <2>7. QED
    BY <1>a, <2>3, <2>4, <2>5, <2>6
<1>7. QED
  BY <1>2, <1>3, <1>4, <1>5, <1>6 DEF Next

\* No other call fails.
LEMMA OtherCallsSucceed ==
  ASSUME RingInv, ~failed,
         \/ (PushAcquire /\ ~Full) \/ (\E v \in Value : PushCommit(v)) \/ PushDiscard
         \/ PopConsume \/ PopRelease \/ UNCHANGED vars
  PROVE  ~failed'
<1> USE CapacityAssumption DEF RingInv, RunsFit, Slot
<1>1. CASE UNCHANGED vars
  BY <1>1 DEF vars
<1>2. ASSUME NEW v \in Value, PushCommit(v)
      PROVE  ~failed'
  <2>1. count_acq > 0 /\ Head(held) = end /\ held # << >>
    BY <1>2 DEF PushCommit, TypeOK, ClientsAgree, Ahead
  <2>2. QED
    BY <1>2, <2>1 DEF PushCommit
<1>3. CASE PushDiscard
  <2>1. Before(end_acq) = IF end_acq = 0 THEN Capacity - 1 ELSE end_acq - 1
    BY BeforeIsBack DEF TypeOK
  <2>2. /\ Len(held) = count_acq /\ count_acq \in Nat /\ held # << >> /\ held \in Seq(Slot)
        /\ held[Len(held)] = Ahead(end, Len(held) - 1) /\ end_acq = Ahead(end, count_acq)
        /\ end \in Slot /\ end_acq \in Slot /\ count_acq <= Capacity
    BY <1>3 DEF PushDiscard, TypeOK, RunsAdjacent, ClientsAgree
  <2>3. count_acq > 0 /\ Newest(held) = Before(end_acq)
    BY <2>1, <2>2 DEF Newest, Ahead
  <2>4. QED
    BY <1>3, <2>3 DEF PushDiscard
<1>4. CASE PopConsume
  BY <1>4 DEF PopConsume
<1>5. CASE PopRelease
  <2>1. count_consume > 0 /\ Head(inuse) = start_consume /\ inuse # << >>
    BY <1>5 DEF PopRelease, TypeOK, ClientsAgree, Ahead
  <2>2. QED
    BY <1>5, <2>1 DEF PopRelease
<1>6. CASE PushAcquire /\ ~Full
  BY <1>6 DEF PushAcquire, AcquireOverwriting
<1>7. QED
  BY <1>1, <1>2, <1>3, <1>4, <1>5, <1>6

\* The ring invariant holds of every reachable state.
THEOREM RingInvariant == Spec => []RingInv
<1>1. Init => RingInv
  BY RingInvInit
<1>2. RingInv /\ [Next]_vars => RingInv'
  BY RingInvStep
<1>3. QED
  BY <1>1, <1>2, PTL DEF Spec

\* Indices, counters and buffer keep their types.
THEOREM TypeCorrect == Spec => []TypeOK
<1>1. RingInv => TypeOK
  BY DEF RingInv
<1>2. QED
  BY <1>1, RingInvariant, PTL

\* Of the calls of clients that return elements in order only one kind can end the
\* program: an overwriting push into a full queue of which an element is in use.
THEOREM FailsOnlyByOverwriting == Spec => []FailsOnlyOverwriting
<1>1. RingInv => FailsOnlyOverwriting
  BY DEF RingInv
<1>2. QED
  BY <1>1, RingInvariant, PTL

\* So clients that never overwrite end it never.
THEOREM NeverFails ==
  ASSUME TRUE \notin OverwriteFlags
  PROVE  Spec => []NoAssertionFailure
<1>1. RingInv => NoAssertionFailure
  BY DEF RingInv, FailsOnlyOverwriting, NoAssertionFailure
<1>2. QED
  BY <1>1, RingInvariant, PTL

\* Producer, queue and consumer never own the same slot.
THEOREM SlotsNotShared == Spec => []NoSlotShared
<1>1. RingInv => NoSlotShared
  <2> USE CapacityAssumption
  <2> SUFFICES ASSUME RingInv
               PROVE  NoSlotShared
    OBVIOUS
  <2>1. /\ start \in Slot /\ end \in Slot /\ start_consume \in Slot
        /\ Len(held) \in Nat /\ Len(inuse) \in Nat /\ count \in Nat
        /\ Len(held) + count + Len(inuse) <= Capacity
        /\ start = Ahead(start_consume, Len(inuse))
        /\ end = Ahead(start, count)
    BY DEF RingInv, TypeOK, RunsFit, RunsAdjacent, ClientsAgree
  <2>2. DOMAIN held = 1 .. Len(held) /\ DOMAIN inuse = 1 .. Len(inuse)
    BY DEF RingInv, TypeOK
  <2>3. \A i \in DOMAIN held : held[i] = Ahead(end, i - 1)
    BY <2>2 DEF RingInv, ClientsAgree
  <2>4. \A i \in DOMAIN inuse : inuse[i] = Ahead(start_consume, i - 1)
    BY <2>2 DEF RingInv, ClientsAgree
  <2>5. \A x \in Committed : \E k \in 0 .. count - 1 : x = Ahead(start, k)
    BY <2>1, ModIsAhead DEF Committed, Slot
  \* Every slot is so many places ahead of the oldest one in use.
  <2> DEFINE At(n) == Ahead(start_consume, n)
  <2>6. \A m \in 0 .. count - 1 : Ahead(start, m) = At(Len(inuse) + m)
    BY <2>1, AheadAdds
  <2>7. end = At(Len(inuse) + count)
    BY <2>1, AheadAdds
  <2>8. \A i \in 1 .. Len(held) : held[i] = At(Len(inuse) + count + (i - 1))
    <3>1. ASSUME NEW i \in 1 .. Len(held)
          PROVE  held[i] = At(Len(inuse) + count + (i - 1))
      <4>1. held[i] = Ahead(end, i - 1)
        BY <2>2, <2>3
      <4>2. /\ Len(inuse) + count \in Nat /\ i - 1 \in Nat
            /\ (Len(inuse) + count) + (i - 1) <= Capacity
        BY <2>1
      <4>3. QED
        BY <2>1, <2>7, <4>1, <4>2, AheadAdds
    <3>2. QED
      BY <3>1
  <2>9. ASSUME NEW m \in 0 .. Capacity - 1, NEW n \in 0 .. Capacity - 1, At(m) = At(n)
        PROVE  m = n
    BY <2>1, <2>9, AheadInjective
  <2> HIDE DEF At
  <2>10. Held \cap Committed = {}
    <3>1. ASSUME NEW i \in 1 .. Len(held), NEW k \in 0 .. count - 1
          PROVE  held[i] # Ahead(start, k)
      BY <2>1, <2>6, <2>8, <2>9
    <3>2. QED
      BY <2>2, <2>5, <3>1 DEF Held
  <2>11. Held \cap InUse = {}
    <3>1. ASSUME NEW i \in 1 .. Len(held), NEW k \in 1 .. Len(inuse)
          PROVE  held[i] # At(k - 1)
      BY <2>1, <2>8, <2>9
    <3>2. QED
      BY <2>2, <2>4, <3>1 DEF Held, InUse, At
  <2>12. Committed \cap InUse = {}
    <3>1. ASSUME NEW i \in 0 .. count - 1, NEW k \in 1 .. Len(inuse)
          PROVE  Ahead(start, i) # At(k - 1)
      BY <2>1, <2>6, <2>9
    <3>2. QED
      BY <2>2, <2>4, <2>5, <3>1 DEF InUse, At
  <2>13. \A i, j \in DOMAIN held : held[i] = held[j] => i = j
    <3>1. ASSUME NEW i \in 1 .. Len(held), NEW j \in 1 .. Len(held), held[i] = held[j]
          PROVE  i = j
      <4>1. /\ Len(inuse) + count + (i - 1) \in 0 .. Capacity - 1
            /\ Len(inuse) + count + (j - 1) \in 0 .. Capacity - 1
        BY <2>1
      <4>2. Len(inuse) + count + (i - 1) = Len(inuse) + count + (j - 1)
        BY <2>8, <2>9, <3>1, <4>1
      <4>3. QED
        BY <2>1, <4>2
    <3>2. QED
      BY <2>2, <3>1
  <2>14. \A i, j \in DOMAIN inuse : inuse[i] = inuse[j] => i = j
    <3>1. ASSUME NEW i \in 1 .. Len(inuse), NEW j \in 1 .. Len(inuse), inuse[i] = inuse[j]
          PROVE  i = j
      <4>1. i - 1 \in 0 .. Capacity - 1 /\ j - 1 \in 0 .. Capacity - 1
        BY <2>1
      <4>2. At(i - 1) = At(j - 1)
        BY <2>2, <2>4, <3>1 DEF At
      <4>3. i - 1 = j - 1
        BY <2>9, <4>1, <4>2
      <4>4. QED
        BY <4>3
    <3>2. QED
      BY <2>2, <3>1
  <2>15. QED
    BY <2>10, <2>11, <2>12, <2>13, <2>14 DEF NoSlotShared
<1>2. QED
  BY <1>1, RingInvariant, PTL
------------------------------------------------------------------------------

\* The abstract state's two sequences, as functions of the ring's
ItemsOf(b, s, n) == [k \in 1 .. n |-> b[(s + k - 1) % Capacity]]
TakenOf(b, u) == [k \in 1 .. Len(u) |-> b[u[k]]]

LEMMA FunctionIsSeq ==
  ASSUME NEW S, NEW n \in Nat, NEW f \in [1 .. n -> S]
  PROVE  f \in Seq(S) /\ Len(f) = n
<1>1. f \in Seq(S)
  BY SeqDef
<1>2. 1 .. Len(f) = 1 .. n /\ Len(f) \in Nat
  BY <1>1, LenProperties
<1>3. QED
  BY <1>1, <1>2

\* The k-th item lies k - 1 slots ahead of start.
LEMMA ItemsFacts ==
  ASSUME NEW b \in [Slot -> Value], NEW s \in Slot, NEW n \in 0 .. Capacity
  PROVE  /\ ItemsOf(b, s, n) \in Seq(Value)
         /\ Len(ItemsOf(b, s, n)) = n
         /\ \A k \in 1 .. n : ItemsOf(b, s, n)[k] = b[Ahead(s, k - 1)]
<1>1. ASSUME NEW k \in 1 .. n
      PROVE  (s + k - 1) % Capacity = Ahead(s, k - 1) /\ Ahead(s, k - 1) \in Slot
  <2>1. k - 1 \in Slot /\ s + k - 1 = s + (k - 1)
    BY CapacityAssumption DEF Slot
  <2>2. QED
    BY <2>1, ModIsAhead
<1>2. ItemsOf(b, s, n) \in [1 .. n -> Value]
  BY <1>1 DEF ItemsOf
<1>3. n \in Nat
  BY CapacityAssumption
<1>4. QED
  BY <1>1, <1>2, <1>3, FunctionIsSeq DEF ItemsOf

LEMMA TakenFacts ==
  ASSUME NEW b \in [Slot -> Value], NEW u \in Seq(Slot)
  PROVE  /\ TakenOf(b, u) \in Seq(Value)
         /\ Len(TakenOf(b, u)) = Len(u)
         /\ \A k \in 1 .. Len(u) : TakenOf(b, u)[k] = b[u[k]]
<1>1. \A k \in 1 .. Len(u) : u[k] \in Slot
  BY ElementOfSeq
<1>2. TakenOf(b, u) \in [1 .. Len(u) -> Value] /\ Len(u) \in Nat
  BY <1>1, LenProperties DEF TakenOf
<1>3. QED
  BY <1>2, FunctionIsSeq DEF TakenOf

\* Moving start one slot on drops the oldest item.
LEMMA ItemsDropOldest ==
  ASSUME NEW b \in [Slot -> Value], NEW s \in Slot, NEW n \in 1 .. Capacity
  PROVE  /\ ItemsOf(b, s, n) # << >>
         /\ Head(ItemsOf(b, s, n)) = b[s]
         /\ ItemsOf(b, After(s), n - 1) = Tail(ItemsOf(b, s, n))
<1> DEFINE I == ItemsOf(b, s, n)
           J == ItemsOf(b, After(s), n - 1)
<1>1. /\ I \in Seq(Value) /\ Len(I) = n
      /\ \A k \in 1 .. n : I[k] = b[Ahead(s, k - 1)]
  BY CapacityAssumption, ItemsFacts
<1>2. After(s) = Ahead(s, 1) /\ After(s) \in Slot /\ n - 1 \in 0 .. Capacity
  BY AfterIsAhead, CapacityAssumption
<1>3. /\ J \in Seq(Value) /\ Len(J) = n - 1
      /\ \A k \in 1 .. n - 1 : J[k] = b[Ahead(After(s), k - 1)]
  BY <1>2, ItemsFacts
<1>4. Ahead(s, 0) = s
  BY CapacityAssumption DEF Slot, Ahead
<1> HIDE DEF I, J
<1>5. I # << >>
  BY <1>1, EmptySeq, CapacityAssumption
<1>6. /\ Tail(I) \in Seq(Value) /\ Len(Tail(I)) = n - 1
      /\ \A k \in 1 .. n - 1 : Tail(I)[k] = I[k + 1]
  BY <1>1, <1>5, HeadTailProperties
<1>7. ASSUME NEW k \in 1 .. n - 1
      PROVE  J[k] = Tail(I)[k]
  <2>1. 1 + (k - 1) <= Capacity /\ k - 1 \in Nat /\ k + 1 \in 1 .. n
    BY CapacityAssumption
  <2>2. Ahead(Ahead(s, 1), k - 1) = Ahead(s, 1 + (k - 1))
    BY <2>1, AheadAdds
  <2>3. 1 + (k - 1) = k /\ (k + 1) - 1 = k
    OBVIOUS
  <2>4. J[k] = b[Ahead(s, k)]
    BY <1>2, <1>3, <2>2, <2>3
  <2>5. I[k + 1] = b[Ahead(s, k)]
    BY <1>1, <2>1, <2>3
  <2>6. QED
    BY <1>6, <2>4, <2>5
<1>8. J = Tail(I)
  BY <1>3, <1>6, <1>7, SeqEqual
<1>9. Head(I) = b[s]
  <2>1. Head(I) = I[1] /\ 1 \in 1 .. n
    BY <1>1, <1>5
  <2>2. QED
    BY <1>1, <1>4, <2>1
<1>10. QED
  BY <1>5, <1>8, <1>9 DEF I, J

\* A commit writes the first slot behind the items and adds it to them.
LEMMA ItemsAddNewest ==
  ASSUME NEW b \in [Slot -> Value], NEW s \in Slot, NEW n \in 0 .. Capacity - 1,
         NEW v \in Value
  PROVE  ItemsOf([b EXCEPT ![Ahead(s, n)] = v], s, n + 1) = Append(ItemsOf(b, s, n), v)
<1> DEFINE c == [b EXCEPT ![Ahead(s, n)] = v]
           I == ItemsOf(b, s, n)
           J == ItemsOf(c, s, n + 1)
<1>1. n \in 0 .. Capacity /\ n + 1 \in 0 .. Capacity /\ Ahead(s, n) \in Slot
  BY CapacityAssumption, AheadInSlot
<1>2. c \in [Slot -> Value] /\ c[Ahead(s, n)] = v
  BY <1>1
<1>3. \A x \in Slot : x # Ahead(s, n) => c[x] = b[x]
  BY <1>1
<1>4. /\ I \in Seq(Value) /\ Len(I) = n
      /\ \A k \in 1 .. n : I[k] = b[Ahead(s, k - 1)]
  BY <1>1, ItemsFacts
<1> HIDE DEF c
<1>5. /\ J \in Seq(Value) /\ Len(J) = n + 1
      /\ \A k \in 1 .. n + 1 : J[k] = c[Ahead(s, k - 1)]
  BY <1>1, <1>2, ItemsFacts
<1> HIDE DEF I, J
<1>6. /\ Append(I, v) \in Seq(Value) /\ Len(Append(I, v)) = n + 1
      /\ \A k \in 1 .. n : Append(I, v)[k] = I[k]
      /\ Append(I, v)[n + 1] = v
  BY <1>4, AppendProperties
<1>7. ASSUME NEW k \in 1 .. n + 1
      PROVE  J[k] = Append(I, v)[k]
  <2>1. CASE k = n + 1
    <3>1. k - 1 = n
      BY <2>1
    <3>2. QED
      BY <1>2, <1>5, <1>6, <2>1, <3>1
  <2>2. CASE k # n + 1
    <3>1. k \in 1 .. n /\ k - 1 \in 0 .. Capacity - 1 /\ k - 1 \in 0 .. Capacity /\ k - 1 # n
      BY <2>2, CapacityAssumption
    <3>2. Ahead(s, k - 1) \in Slot /\ Ahead(s, k - 1) # Ahead(s, n)
      BY <3>1, AheadInSlot, AheadInjective
    <3>3. J[k] = b[Ahead(s, k - 1)]
      BY <1>3, <1>5, <3>2
    <3>4. QED
      BY <1>4, <1>6, <3>1, <3>3
  <2>3. QED
    BY <2>1, <2>2
<1>8. J = Append(I, v)
  BY <1>5, <1>6, <1>7, SeqEqual
<1>9. QED
  BY <1>8 DEF I, J, c

\* The consumer's values do not depend on a slot it does not hold.
LEMMA TakenUnchanged ==
  ASSUME NEW b \in [Slot -> Value], NEW u \in Seq(Slot), NEW e \in Slot, NEW v,
         \A k \in 1 .. Len(u) : u[k] # e
  PROVE  TakenOf([b EXCEPT ![e] = v], u) = TakenOf(b, u)
<1>1. \A k \in 1 .. Len(u) : [b EXCEPT ![e] = v][u[k]] = b[u[k]]
  BY ElementOfSeq
<1>2. QED
  BY <1>1 DEF TakenOf

LEMMA TakenAddNewest ==
  ASSUME NEW b \in [Slot -> Value], NEW u \in Seq(Slot), NEW e \in Slot
  PROVE  TakenOf(b, Append(u, e)) = Append(TakenOf(b, u), b[e])
<1> DEFINE w == Append(u, e)
           T == TakenOf(b, u)
           R == TakenOf(b, w)
<1>1. /\ w \in Seq(Slot) /\ Len(w) = Len(u) + 1 /\ Len(u) \in Nat
      /\ \A k \in 1 .. Len(u) : w[k] = u[k]
      /\ w[Len(u) + 1] = e
  BY AppendProperties, LenProperties
<1>2. /\ T \in Seq(Value) /\ Len(T) = Len(u)
      /\ \A k \in 1 .. Len(u) : T[k] = b[u[k]]
  BY TakenFacts
<1> HIDE DEF w
<1>3. /\ R \in Seq(Value) /\ Len(R) = Len(u) + 1
      /\ \A k \in 1 .. Len(u) + 1 : R[k] = b[w[k]]
  BY <1>1, TakenFacts
<1> HIDE DEF T, R
<1>4. b[e] \in Value
  OBVIOUS
<1>5. /\ Append(T, b[e]) \in Seq(Value) /\ Len(Append(T, b[e])) = Len(u) + 1
      /\ \A k \in 1 .. Len(u) : Append(T, b[e])[k] = T[k]
      /\ Append(T, b[e])[Len(u) + 1] = b[e]
  BY <1>2, <1>4, AppendProperties
<1>6. \A k \in 1 .. Len(u) + 1 : R[k] = Append(T, b[e])[k]
  BY <1>1, <1>2, <1>3, <1>5
<1>7. R = Append(T, b[e])
  BY <1>3, <1>5, <1>6, SeqEqual
<1>8. QED
  BY <1>7 DEF w, T, R

LEMMA TakenDropOldest ==
  ASSUME NEW b \in [Slot -> Value], NEW u \in Seq(Slot), u # << >>
  PROVE  TakenOf(b, u) # << >> /\ TakenOf(b, Tail(u)) = Tail(TakenOf(b, u))
<1> DEFINE w == Tail(u)
           T == TakenOf(b, u)
           R == TakenOf(b, w)
<1>1. /\ w \in Seq(Slot) /\ Len(w) = Len(u) - 1 /\ Len(u) \in Nat \ {0}
      /\ \A k \in 1 .. Len(u) - 1 : w[k] = u[k + 1]
  BY HeadTailProperties, EmptySeq
<1>2. /\ T \in Seq(Value) /\ Len(T) = Len(u)
      /\ \A k \in 1 .. Len(u) : T[k] = b[u[k]]
  BY TakenFacts
<1> HIDE DEF w
<1>3. /\ R \in Seq(Value) /\ Len(R) = Len(u) - 1
      /\ \A k \in 1 .. Len(u) - 1 : R[k] = b[w[k]]
  BY <1>1, TakenFacts
<1> HIDE DEF T, R
<1>4. T # << >>
  BY <1>1, <1>2
<1>5. /\ Tail(T) \in Seq(Value) /\ Len(Tail(T)) = Len(u) - 1
      /\ \A k \in 1 .. Len(u) - 1 : Tail(T)[k] = T[k + 1]
  BY <1>2, <1>4, HeadTailProperties
<1>6. \A k \in 1 .. Len(u) - 1 : k + 1 \in 1 .. Len(u)
  BY <1>1
<1>7. \A k \in 1 .. Len(u) - 1 : R[k] = Tail(T)[k]
  BY <1>1, <1>2, <1>3, <1>5, <1>6
<1>8. R = Tail(T)
  BY <1>3, <1>5, <1>7, SeqEqual
<1>9. QED
  BY <1>4, <1>8 DEF w, T, R

Items == ItemsOf(buffer, start, count)
Taken == TakenOf(buffer, inuse)

LEMMA FifoInit == Init => Fifo!Init
<1> SUFFICES ASSUME Init
             PROVE  Fifo!Init
  OBVIOUS
<1>1. /\ buffer \in [Slot -> Value] /\ start \in Slot /\ count = 0 /\ 0 \in 0 .. Capacity
      /\ inuse = << >> /\ held = << >>
  BY CapacityAssumption DEF Init, Slot
<1>2. << >> \in Seq(Slot)
  BY EmptySeq
<1>3. Len(Items) = 0 /\ Items \in Seq(Value)
  BY <1>1, ItemsFacts DEF Items
<1>4. Len(Taken) = 0 /\ Taken \in Seq(Value)
  BY <1>1, <1>2, TakenFacts DEF Taken
<1>5. Items = << >> /\ Taken = << >>
  BY <1>3, <1>4, EmptySeq
<1>6. QED
  BY <1>1, <1>5 DEF Fifo!Init, Items, Taken, ItemsOf, TakenOf

\* Every call maps to the step of the FIFO it is named for, or to a stutter.
LEMMA FifoStep == RingInv /\ RingInv' /\ [Next]_vars => [Fifo!Next]_(Fifo!vars)
<1> SUFFICES ASSUME RingInv, RingInv', [Next]_vars
             PROVE  [Fifo!Next]_(Fifo!vars)
  OBVIOUS
<1>a. /\ buffer \in [Slot -> Value] /\ start \in Slot /\ end \in Slot
      /\ start_consume \in Slot
      /\ count \in Nat /\ count_acq \in Nat /\ count_consume \in Nat
      /\ held \in Seq(Slot) /\ inuse \in Seq(Slot)
      /\ Len(held) = count_acq /\ Len(inuse) = count_consume
      /\ count_acq + count + count_consume <= Capacity
      /\ end = Ahead(start, count) /\ start = Ahead(start_consume, count_consume)
  BY DEF RingInv, TypeOK, RunsAdjacent, RunsFit, ClientsAgree
<1>b. Len(held') = count_acq'
  BY DEF RingInv, ClientsAgree
<1>c. count \in 0 .. Capacity
  BY <1>a, CapacityAssumption
<1>d. /\ Items \in Seq(Value) /\ Len(Items) = count
      /\ Taken \in Seq(Value) /\ Len(Taken) = count_consume
  BY <1>a, <1>c, ItemsFacts, TakenFacts DEF Items, Taken
<1> DEFINE Load == Len(held) + Len(Items) + Len(Taken)
\* The actions of the FIFO, in terms of Items and Taken
<1>f. /\ Load < Capacity /\ Len(held') = Len(held) + 1 /\ Items' = Items /\ Taken' = Taken
           => Fifo!Reserve
      /\ Load = Capacity /\ Items # << >> /\ Items' = Tail(Items)
         /\ Len(held') = Len(held) + 1 /\ Taken' = Taken
           => Fifo!Overwrite
      /\ \A v \in Value :
           Len(held) > 0 /\ Len(held') = Len(held) - 1 /\ Items' = Append(Items, v)
           /\ Taken' = Taken
             => Fifo!Publish(v)
      /\ Len(held) > 0 /\ Len(held') = Len(held) - 1 /\ Items' = Items /\ Taken' = Taken
           => Fifo!Withdraw
  BY DEF Fifo!Reserve, Fifo!Overwrite, Fifo!Publish, Fifo!Withdraw, Fifo!Load,
         Items, Taken, ItemsOf, TakenOf
<1>g. /\ Items # << >> /\ Items' = Tail(Items) /\ Taken' = Append(Taken, Head(Items))
         /\ Len(held') = Len(held)
           => Fifo!Take
      /\ Taken # << >> /\ Taken' = Tail(Taken) /\ Items' = Items /\ Len(held') = Len(held)
           => Fifo!Release
      /\ Items' = Items /\ Taken' = Taken /\ Len(held') = Len(held)
           => UNCHANGED Fifo!vars
  BY DEF Fifo!Take, Fifo!Release, Fifo!vars, Items, Taken, ItemsOf, TakenOf
<1>e. CASE AssertionFailure
  <2>1. Items' = Items /\ Taken' = Taken /\ Len(held') = Len(held)
    BY <1>e DEF AssertionFailure, ring, Items, Taken, ItemsOf, TakenOf
  <2>2. QED
    BY <1>g, <2>1
<1>1. CASE UNCHANGED vars
  <2>1. Items' = Items /\ Taken' = Taken /\ Len(held') = Len(held)
    BY <1>1 DEF vars, ring, Items, Taken, ItemsOf, TakenOf
  <2>2. QED
    BY <1>g, <2>1
<1>2. CASE PushAcquire
  <2>1. CASE ~Full /\ HandOut /\ UNCHANGED <<start, end, count, start_consume,
                                 count_consume, buffer, inuse, failed>>
    <3>1. Items' = Items /\ Taken' = Taken
      BY <2>1 DEF Items, Taken, ItemsOf, TakenOf
    <3>2. Len(held') = Len(held) + 1 /\ Load < Capacity
      BY <1>a, <1>b, <1>d, <2>1, CapacityAssumption DEF HandOut, Full
    <3>3. Fifo!Reserve
      BY <1>f, <3>1, <3>2
    <3>4. QED
      BY <3>3 DEF Fifo!Next
  <2>2. CASE AcquireOverwriting /\ ~AssertionFailure
    <3>1. /\ start' = After(start) /\ count' = count - 1 /\ HandOut
          /\ UNCHANGED <<buffer, inuse>>
          /\ Full /\ count > 0
      BY <2>2 DEF AcquireOverwriting
    <3>2. count \in 1 .. Capacity
      BY <1>a, <1>c, <3>1
    <3>3. Items # << >> /\ ItemsOf(buffer, After(start), count - 1) = Tail(Items)
      BY <1>a, <3>2, ItemsDropOldest DEF Items
    <3>4. Items' = Tail(Items) /\ Taken' = Taken
      BY <3>1, <3>3 DEF Items, Taken, ItemsOf, TakenOf
    <3>5. Len(held') = Len(held) + 1 /\ Load = Capacity
      BY <1>a, <1>b, <1>d, <3>1, CapacityAssumption DEF HandOut, Full
    <3>6. Fifo!Overwrite
      BY <1>f, <3>3, <3>4, <3>5
    <3>7. QED
      BY <3>6 DEF Fifo!Next
  <2>3. QED
    BY <1>2, <1>e, <2>1, <2>2 DEF PushAcquire
<1>3. ASSUME NEW v \in Value, PushCommit(v), ~AssertionFailure
      PROVE  [Fifo!Next]_(Fifo!vars)
  <2>1. /\ count_acq > 0 /\ Head(held) = end
        /\ buffer' = [buffer EXCEPT ![end] = v]
        /\ count' = count + 1 /\ count_acq' = count_acq - 1
        /\ UNCHANGED <<start, inuse>>
    BY <1>3 DEF PushCommit
  <2>2. count \in 0 .. Capacity - 1 /\ count_consume + count < Capacity
    BY <1>a, <2>1, CapacityAssumption
  <2>3. ItemsOf([buffer EXCEPT ![Ahead(start, count)] = v], start, count + 1)
          = Append(Items, v)
    BY <1>a, <2>2, ItemsAddNewest DEF Items
  <2>4. Items' = Append(Items, v)
    BY <1>a, <2>1, <2>3 DEF Items, ItemsOf
  <2>5. ASSUME NEW k \in 1 .. Len(inuse)
        PROVE  inuse[k] # end
    <3>1. inuse[k] = Ahead(start_consume, k - 1)
      BY DEF RingInv, ClientsAgree
    <3>2. end = Ahead(start_consume, count_consume + count)
      BY <1>a, <2>2, AheadAdds, CapacityAssumption
    <3>3. /\ k - 1 \in 0 .. Capacity - 1 /\ count_consume + count \in 0 .. Capacity - 1
          /\ k - 1 # count_consume + count
      BY <1>a, <2>2, CapacityAssumption
    <3>4. QED
      BY <1>a, <3>1, <3>2, <3>3, AheadInjective
  <2>6. TakenOf([buffer EXCEPT ![end] = v], inuse) = Taken
    <3>1. buffer \in [Slot -> Value] /\ inuse \in Seq(Slot) /\ end \in Slot
      BY <1>a
    <3>2. \A k \in 1 .. Len(inuse) : inuse[k] # end
      BY <2>5
    <3>3. QED
      BY <3>1, <3>2, TakenUnchanged DEF Taken
  <2>7. Taken' = Taken
    BY <2>1, <2>6 DEF Taken, TakenOf
  <2>8. Len(held) > 0 /\ Len(held') = Len(held) - 1
    BY <1>a, <1>b, <2>1
  <2>9. Fifo!Publish(v)
    BY <1>f, <2>4, <2>7, <2>8
  <2>10. QED
    BY <2>9 DEF Fifo!Next
<1>4. CASE PushDiscard /\ ~AssertionFailure
  <2>1. /\ count_acq > 0 /\ count_acq' = count_acq - 1
        /\ UNCHANGED <<start, count, buffer, inuse>>
    BY <1>4 DEF PushDiscard
  <2>2. Items' = Items /\ Taken' = Taken
    BY <2>1 DEF Items, Taken, ItemsOf, TakenOf
  <2>3. Len(held) > 0 /\ Len(held') = Len(held) - 1
    BY <1>a, <1>b, <2>1
  <2>4. Fifo!Withdraw
    BY <1>f, <2>2, <2>3
  <2>5. QED
    BY <2>4 DEF Fifo!Next
<1>5. CASE PopConsume
  <2>1. /\ count > 0 /\ inuse' = Append(inuse, start) /\ start' = After(start)
        /\ count' = count - 1 /\ UNCHANGED <<buffer, held>>
    BY <1>5 DEF PopConsume
  <2>2. count \in 1 .. Capacity
    BY <1>a, <1>c, <2>1
  <2>3. /\ Items # << >> /\ Head(Items) = buffer[start]
        /\ ItemsOf(buffer, After(start), count - 1) = Tail(Items)
    BY <1>a, <2>2, ItemsDropOldest DEF Items
  <2>4. TakenOf(buffer, Append(inuse, start)) = Append(Taken, buffer[start])
    BY <1>a, TakenAddNewest DEF Taken
  <2>5. Items' = Tail(Items) /\ Taken' = Append(Taken, Head(Items))
    BY <2>1, <2>3, <2>4 DEF Items, Taken, ItemsOf, TakenOf
  <2>6. Fifo!Take
    BY <1>g, <2>1, <2>3, <2>5
  <2>7. QED
    BY <2>6 DEF Fifo!Next
<1>6. CASE PopRelease /\ ~AssertionFailure
  <2>1. inuse # << >> /\ inuse' = Tail(inuse) /\ UNCHANGED <<start, count, buffer, held>>
    BY <1>6 DEF PopRelease
  <2>2. Taken # << >> /\ TakenOf(buffer, Tail(inuse)) = Tail(Taken)
    BY <1>a, <2>1, TakenDropOldest DEF Taken
  <2>3. Items' = Items /\ Taken' = Tail(Taken)
    BY <2>1, <2>2 DEF Items, Taken, ItemsOf, TakenOf
  <2>4. Fifo!Release
    BY <1>g, <2>1, <2>2, <2>3
  <2>5. QED
    BY <2>4 DEF Fifo!Next
<1>7. QED
  BY <1>e, <1>1, <1>2, <1>3, <1>4, <1>5, <1>6 DEF Next

\* The ring is the bounded FIFO of queue.h: values leave in the order they were
\* committed, unchanged, and only an overwrite drops one, the oldest.
THEOREM ImplementsBoundedFifo == Spec => ImplementsFifo
<1>1. Init => Fifo!Init
  BY FifoInit
<1>2. RingInv /\ RingInv' /\ [Next]_vars => [Fifo!Next]_(Fifo!vars)
  BY FifoStep
<1>3. QED
  BY <1>1, <1>2, RingInvariant, PTL DEF Spec, ImplementsFifo, Fifo!Spec
------------------------------------------------------------------------------
(***************************************************************************)
(* queue_async_t.  Each of its two sides is a client, the event of its     *)
(* done_task, the queue's own coroutine for it and the ring's event which  *)
(* that one waits for.  Side says where on the run-time they can be.       *)
(***************************************************************************)
Event == {"queue_free", "queue_ready", "pushed", "popped"}
Context == {"producer", "consumer", "push", "pop"}
Task == {Resume(c) : c \in Context} \cup {EventTask(e) : e \in Event}
RunTime ==
  [tasks : Seq(Task), done : [Event -> BOOLEAN], waiting : [Event -> Seq(Context)],
   bits : {{}}, wait : {NotWaiting}]

Has(s, a) == \E i \in DOMAIN s : s[i] = a
AtMostOnce(s, a) == \A i, j \in DOMAIN s : s[i] = a /\ s[j] = a => i = j
Precedes(s, a, b) == \A i, j \in DOMAIN s : s[i] = a /\ s[j] = b => i < j
\* Behind every a there is a b.
Covered(s, a, B) == \A i \in DOMAIN s : s[i] = a => \E j \in DOMAIN s : i < j /\ s[j] \in B

\* The client c has its turn (who = c), is queued to be resumed, or waits for its call's
\* event d, which is not pushed while the queue's coroutine t has the call (st).
Single(r, c, d, t, e, who, st) ==
  /\ AtMostOnce(r.tasks, Resume(c)) /\ AtMostOnce(r.tasks, Resume(t))
  /\ AtMostOnce(r.tasks, EventTask(d))
  /\ Precedes(r.tasks, EventTask(d), Resume(c))
  /\ r.waiting[d] \in {<< >>, <<c>>} /\ r.waiting[e] \in {<< >>, <<t>>}
  /\ who = c => ~Has(r.tasks, EventTask(d))
  /\ who = c \/ Has(r.tasks, Resume(c)) => r.waiting[d] = << >> /\ st = "idle"
  /\ who = c => ~Has(r.tasks, Resume(c))
  /\ st # "idle" => ~Has(r.tasks, EventTask(d))
  /\ st = "idle" => ~Has(r.tasks, Resume(t)) /\ r.waiting[e] = << >>
  /\ st = "started" => Has(r.tasks, Resume(t)) /\ r.waiting[e] = << >>
  /\ st = "waiting" => (Has(r.tasks, Resume(t)) <=> r.waiting[e] = << >>)

\* An event e that is queued while nothing is left for the side to get is an old one:
\* it is run before the client can call again, and cannot wake t up too early.
NotTooEarly(r, c, d, t, e, st, left, calls) ==
  left = 0 /\ "wait" \in calls =>
    /\ Covered(r.tasks, EventTask(e), {EventTask(d), Resume(c)})
    /\ st # "idle" => ~r.done[e]
    /\ st = "waiting" => ~Has(r.tasks, Resume(t))

\* Once something is left to get, t is woken up.
NotTooLate(r, t, e, st, left) ==
  left # 0 =>
    /\ st = "started" => r.done[e] \/ (~DoneAtPush /\ Has(r.tasks, EventTask(e)))
    /\ st = "waiting" => Has(r.tasks, Resume(t)) \/ Has(r.tasks, EventTask(e))

Side(r, c, d, t, e, who, st, left, calls) ==
  /\ st \in TaskState
  /\ st # "idle" => "wait" \in calls
  /\ Single(r, c, d, t, e, who, st)
  /\ NotTooEarly(r, c, d, t, e, st, left, calls)
  /\ NotTooLate(r, t, e, st, left)

LEMMA AppendTask ==
  ASSUME NEW S, NEW s \in Seq(S), NEW k \in S
  PROVE  /\ \A a : Has(Append(s, k), a) <=> Has(s, a) \/ a = k
         /\ \A a : AtMostOnce(s, a) /\ (a = k => ~Has(s, a)) => AtMostOnce(Append(s, k), a)
         /\ \A a, b : Precedes(s, a, b) /\ (a = k => b # k /\ ~Has(s, b))
                         => Precedes(Append(s, k), a, b)
         /\ \A a, B : Covered(s, a, B) /\ a # k => Covered(Append(s, k), a, B)
         /\ \A a, B : k \in B /\ a # k => Covered(Append(s, k), a, B)
PROOF
  <1> DEFINE t == Append(s, k)
  <1>1. /\ Len(s) \in Nat /\ DOMAIN s = 1 .. Len(s) /\ DOMAIN t = 1 .. Len(s) + 1
        /\ \A i \in 1 .. Len(s) : t[i] = s[i]
        /\ t[Len(s) + 1] = k
    OBVIOUS
  <1> HIDE DEF t
  <1>2. \A a : Has(t, a) <=> Has(s, a) \/ a = k
    BY <1>1 DEF Has
  <1>3. ASSUME NEW a, AtMostOnce(s, a), a = k => ~Has(s, a)
        PROVE  AtMostOnce(t, a)
    BY <1>1, <1>3 DEF AtMostOnce, Has
  <1>4. ASSUME NEW a, NEW b, Precedes(s, a, b), a = k => b # k /\ ~Has(s, b)
        PROVE  Precedes(t, a, b)
    BY <1>1, <1>4 DEF Precedes, Has
  <1>5. ASSUME NEW a, NEW B, Covered(s, a, B), a # k
        PROVE  Covered(t, a, B)
    <2> SUFFICES ASSUME NEW i \in DOMAIN t, t[i] = a
                 PROVE  \E j \in DOMAIN t : i < j /\ t[j] \in B
      BY DEF Covered
    <2>1. i \in DOMAIN s /\ s[i] = a
      BY <1>1, <1>5
    <2>2. PICK j \in DOMAIN s : i < j /\ s[j] \in B
      BY <1>5, <2>1 DEF Covered
    <2>3. j \in DOMAIN t /\ t[j] = s[j]
      BY <1>1, <2>2
    <2> QED
      BY <2>2, <2>3
  <1>6. ASSUME NEW a, NEW B, k \in B, a # k
        PROVE  Covered(t, a, B)
    <2> SUFFICES ASSUME NEW i \in DOMAIN t, t[i] = a
                 PROVE  \E j \in DOMAIN t : i < j /\ t[j] \in B
      BY DEF Covered
    <2>1. i < Len(s) + 1 /\ Len(s) + 1 \in DOMAIN t
      BY <1>1, <1>6
    <2> QED
      BY <1>1, <1>6, <2>1
  <1> QED
    BY <1>2, <1>3, <1>4, <1>5, <1>6 DEF t

LEMMA DropTask ==
  ASSUME NEW S, NEW s \in Seq(S), s # << >>
  PROVE  /\ Has(s, Head(s))
         /\ \A a : Has(Tail(s), a) => Has(s, a)
         /\ \A a : Has(s, a) /\ a # Head(s) => Has(Tail(s), a)
         /\ \A a : AtMostOnce(s, a) => AtMostOnce(Tail(s), a)
         /\ AtMostOnce(s, Head(s)) => ~Has(Tail(s), Head(s))
         /\ \A a, b : Precedes(s, a, b) => Precedes(Tail(s), a, b)
         /\ \A a : Precedes(s, a, Head(s)) => ~Has(s, a)
         /\ \A a, B : Covered(s, a, B) => Covered(Tail(s), a, B)
PROOF
  <1> DEFINE t == Tail(s)
             h == Head(s)
  <1>1. /\ Len(s) \in Nat \ {0} /\ DOMAIN s = 1 .. Len(s) /\ DOMAIN t = 1 .. Len(s) - 1
        /\ \A i \in 1 .. Len(s) - 1 : t[i] = s[i + 1]
        /\ h = s[1]
    OBVIOUS
  <1> HIDE DEF t, h
  <1>2. \A i \in DOMAIN s : i = 1 \/ (i - 1 \in DOMAIN t /\ t[i - 1] = s[i])
    BY <1>1
  <1>3. \A i \in DOMAIN t : i + 1 \in DOMAIN s /\ t[i] = s[i + 1]
    BY <1>1
  <1>4. Has(s, h) /\ \A a : Has(t, a) => Has(s, a)
    BY <1>1, <1>3 DEF Has
  <1>5. \A a : Has(s, a) /\ a # h => Has(t, a)
    BY <1>1, <1>2 DEF Has
  <1>6. ASSUME NEW a, AtMostOnce(s, a)
        PROVE  AtMostOnce(t, a)
    BY <1>1, <1>3, <1>6 DEF AtMostOnce
  <1>7. AtMostOnce(s, h) => ~Has(t, h)
    BY <1>1, <1>3 DEF AtMostOnce, Has
  <1>8. ASSUME NEW a, NEW b, Precedes(s, a, b)
        PROVE  Precedes(t, a, b)
    BY <1>1, <1>3, <1>8 DEF Precedes
  <1>9. \A a : Precedes(s, a, h) => ~Has(s, a)
    BY <1>1 DEF Precedes, Has
  <1>10. ASSUME NEW a, NEW B, Covered(s, a, B)
         PROVE  Covered(t, a, B)
    <2> SUFFICES ASSUME NEW i \in DOMAIN t, t[i] = a
                 PROVE  \E j \in DOMAIN t : i < j /\ t[j] \in B
      BY DEF Covered
    <2>1. PICK j \in DOMAIN s : i + 1 < j /\ s[j] \in B
      BY <1>3, <1>10 DEF Covered
    <2>2. j - 1 \in DOMAIN t /\ t[j - 1] \in B /\ i < j - 1
      BY <1>1, <1>2, <2>1
    <2> QED
      BY <2>2
  <1> QED
    BY <1>4, <1>5, <1>6, <1>7, <1>8, <1>9, <1>10 DEF t, h

\* With no b in the queue, a covered a is not queued either.
LEMMA CoveredByNone ==
  ASSUME NEW s, NEW a, NEW b, NEW c, Covered(s, a, {b, c}), ~Has(s, b), ~Has(s, c)
  PROVE  ~Has(s, a)
PROOF
  BY DEF Covered, Has
------------------------------------------------------------------------------
(* The run-time's operations, on a typed state *)

LEMMA TaskKinds ==
  /\ \A a \in Context : Resume(a) \in Task
  /\ \A f \in Event : EventTask(f) \in Task
  /\ \A a, f : Resume(a) # EventTask(f)
  /\ \A a, b : Resume(a) = Resume(b) => a = b
  /\ \A f, g : EventTask(f) = EventTask(g) => f = g
PROOF
  BY DEF Task, Resume, EventTask

LEMMA RunTimePushed ==
  ASSUME NEW r \in RunTime, NEW k \in Task
  PROVE  LET s == PushTask(r, k)
         IN  /\ s \in RunTime /\ s.tasks = Append(r.tasks, k)
             /\ s.done = r.done /\ s.waiting = r.waiting
PROOF
  <1> DEFINE longer == Append(r.tasks, k)
  <1>1. longer \in Seq(Task) /\ PushTask(r, k) = [r EXCEPT !.tasks = longer]
    BY DEF PushTask, RunTime
  <1> HIDE DEF longer
  <1>2. LET s == PushTask(r, k)
        IN  s \in RunTime /\ s.tasks = longer /\ s.done = r.done /\ s.waiting = r.waiting
    BY <1>1 DEF RunTime
  <1> QED
    BY <1>2 DEF longer

LEMMA RunTimePopped ==
  ASSUME NEW r \in RunTime, r.tasks # << >>
  PROVE  LET s == Popped(r)
         IN  /\ s \in RunTime /\ s.tasks = Tail(r.tasks)
             /\ s.done = r.done /\ s.waiting = r.waiting
             /\ Head(r.tasks) \in Task
PROOF
  <1> DEFINE rest == Tail(r.tasks)
  <1>1. r.tasks \in Seq(Task)
    BY DEF RunTime
  <1>2. rest \in Seq(Task) /\ Head(r.tasks) \in Task
    BY <1>1
  <1>3. Popped(r) = [r EXCEPT !.tasks = rest]
    BY DEF Popped
  <1> HIDE DEF rest
  <1>4. LET s == Popped(r)
        IN  s \in RunTime /\ s.tasks = rest /\ s.done = r.done /\ s.waiting = r.waiting
    BY <1>2, <1>3 DEF RunTime
  <1> QED
    BY <1>2, <1>4 DEF rest

LEMMA RunTimeInit ==
  ASSUME NEW r \in RunTime, NEW f \in Event
  PROVE  LET s == InitEvent(r, f)
         IN  /\ s \in RunTime /\ s.tasks = r.tasks
             /\ s.done = [r.done EXCEPT ![f] = FALSE]
             /\ s.waiting = [r.waiting EXCEPT ![f] = << >>]
PROOF
  <1> DEFINE done == [r.done EXCEPT ![f] = FALSE]
             waiting == [r.waiting EXCEPT ![f] = << >>]
  <1>1. done \in [Event -> BOOLEAN] /\ waiting \in [Event -> Seq(Context)]
    BY DEF RunTime
  <1>2. InitEvent(r, f) = [r EXCEPT !.done = done, !.waiting = waiting]
    BY DEF InitEvent, RunTime
  <1> HIDE DEF done, waiting
  <1>3. InitEvent(r, f) \in RunTime /\ InitEvent(r, f).tasks = r.tasks
        /\ InitEvent(r, f).done = done /\ InitEvent(r, f).waiting = waiting
    BY <1>1, <1>2 DEF RunTime
  <1> QED
    BY <1>3 DEF done, waiting

LEMMA RunTimeEventPushed ==
  ASSUME NEW r \in RunTime, NEW f \in Event
  PROVE  LET s == PushEvent(r, f)
         IN  /\ s \in RunTime /\ s.tasks = Append(r.tasks, EventTask(f))
             /\ s.done = [r.done EXCEPT ![f] = @ \/ DoneAtPush]
             /\ s.waiting = r.waiting
PROOF
  <1> DEFINE done == [r.done EXCEPT ![f] = @ \/ DoneAtPush]
             marked == [r EXCEPT !.done = done]
  <1>1. done \in [Event -> BOOLEAN]
    BY DoneAssumption DEF RunTime
  <1>2. PushEvent(r, f) = PushTask(marked, EventTask(f))
    BY DEF PushEvent, RunTime
  <1>3. marked \in RunTime /\ marked.tasks = r.tasks
        /\ marked.done = done /\ marked.waiting = r.waiting
    <2> HIDE DEF done
    <2> QED
      BY <1>1 DEF RunTime
  <1> HIDE DEF done, marked
  <1>4. LET s == PushTask(marked, EventTask(f))
        IN  /\ s \in RunTime /\ s.tasks = Append(r.tasks, EventTask(f))
            /\ s.done = done /\ s.waiting = r.waiting
    BY <1>3, RunTimePushed, TaskKinds
  <1> QED
    BY <1>2, <1>4 DEF done

LEMMA RunTimeWaited ==
  ASSUME NEW r \in RunTime, NEW f \in Event, NEW x \in Context, r.waiting[f] = << >>
  PROVE  LET s == WaitEvent(r, f, x)
         IN  /\ s \in RunTime /\ s.done = r.done
             /\ r.done[f]  => /\ s.tasks = Append(r.tasks, Resume(x))
                              /\ s.waiting = r.waiting
             /\ ~r.done[f] => /\ s.tasks = r.tasks
                              /\ s.waiting = [r.waiting EXCEPT ![f] = <<x>>]
PROOF
  <1>1. CASE r.done[f]
    <2>1. [r EXCEPT !.waiting[f] = << >>] = r
      BY DEF RunTime
    <2>2. WaitEvent(r, f, x) = PushTask(r, Resume(x))
      BY <1>1, <2>1 DEF WaitEvent, PushResume
    <2> QED
      BY <1>1, <2>2, RunTimePushed, TaskKinds
  <1>2. CASE ~r.done[f]
    <2> DEFINE waiting == [r.waiting EXCEPT ![f] = <<x>>]
    <2>1. Append(r.waiting[f], x) = <<x>>
      OBVIOUS
    <2>2. waiting \in [Event -> Seq(Context)]
      BY DEF RunTime
    <2>3. WaitEvent(r, f, x) = [r EXCEPT !.waiting = waiting]
      BY <1>2, <2>1 DEF WaitEvent, RunTime
    <2> HIDE DEF waiting
    <2>4. LET s == WaitEvent(r, f, x)
          IN  s \in RunTime /\ s.done = r.done /\ s.tasks = r.tasks /\ s.waiting = waiting
      BY <2>2, <2>3 DEF RunTime
    <2> QED
      BY <1>2, <2>4 DEF waiting
  <1> QED
    BY <1>1, <1>2

LEMMA RunTimeEventRun ==
  ASSUME NEW r \in RunTime, NEW f \in Event, NEW x \in Context, r.waiting[f] \in {<< >>, <<x>>}
  PROVE  LET s == RunEvent(r, f)
         IN  /\ s \in RunTime
             /\ s.done = [r.done EXCEPT ![f] = @ \/ ~DoneAtPush]
             /\ s.waiting = [r.waiting EXCEPT ![f] = << >>]
             /\ r.waiting[f] = << >> => s.tasks = r.tasks
             /\ r.waiting[f] = <<x>> => s.tasks = Append(r.tasks, Resume(x))
PROOF
  <1> DEFINE ctxs == r.waiting[f]
             done == [r.done EXCEPT ![f] = @ \/ ~DoneAtPush]
             waiting == [r.waiting EXCEPT ![f] = << >>]
             tasks == r.tasks \o [i \in DOMAIN ctxs |-> Resume(ctxs[i])]
  <1>1. done \in [Event -> BOOLEAN] /\ waiting \in [Event -> Seq(Context)]
    BY DoneAssumption DEF RunTime
  <1>2. r.tasks \in Seq(Task) /\ Resume(x) \in Task
    BY TaskKinds DEF RunTime
  <1>3. ctxs = << >> => tasks = r.tasks
    <2> SUFFICES ASSUME ctxs = << >> PROVE tasks = r.tasks
      OBVIOUS
    <2>1. [i \in DOMAIN ctxs |-> Resume(ctxs[i])] = << >>
      OBVIOUS
    <2> QED
      BY <1>2, <2>1
  <1>4. ctxs = <<x>> => tasks = Append(r.tasks, Resume(x))
    <2> SUFFICES ASSUME ctxs = <<x>> PROVE tasks = Append(r.tasks, Resume(x))
      OBVIOUS
    <2>1. [i \in DOMAIN ctxs |-> Resume(ctxs[i])] = <<Resume(x)>>
      OBVIOUS
    <2>2. r.tasks \o <<Resume(x)>> = Append(r.tasks, Resume(x))
      BY <1>2
    <2> QED
      BY <2>1, <2>2
  <1>5. tasks \in Seq(Task)
    BY <1>2, <1>3, <1>4
  <1>6. RunEvent(r, f) = [r EXCEPT !.tasks = tasks, !.done = done, !.waiting = waiting]
    BY DEF RunEvent, RunTime
  <1> HIDE DEF done, waiting, tasks
  <1>7. LET s == RunEvent(r, f)
        IN  s \in RunTime /\ s.done = done /\ s.tasks = tasks /\ s.waiting = waiting
    BY <1>1, <1>5, <1>6 DEF RunTime
  <1> QED
    BY <1>3, <1>4, <1>7 DEF done, waiting

------------------------------------------------------------------------------
(* What the steps of the other side leave as it is *)

Foreign(k, c, d, t, e) == k \notin {Resume(c), Resume(t), EventTask(d), EventTask(e)}

LEMMA Bystander ==
  ASSUME NEW r \in RunTime, NEW s \in RunTime, NEW c, NEW d, NEW t, NEW e,
         NEW who, NEW st, NEW left, NEW calls,
         Side(r, c, d, t, e, who, st, left, calls),
         s.waiting[d] = r.waiting[d], s.waiting[e] = r.waiting[e], s.done[e] = r.done[e],
         \/ s.tasks = r.tasks
         \/ \E k \in Task : Foreign(k, c, d, t, e) /\ s.tasks = Append(r.tasks, k)
         \/ r.tasks # << >> /\ Foreign(Head(r.tasks), c, d, t, e) /\ s.tasks = Tail(r.tasks)
  PROVE  Side(s, c, d, t, e, who, st, left, calls)
PROOF
  <1> DEFINE own == {Resume(c), Resume(t), EventTask(d), EventTask(e)}
  <1>1. r.tasks \in Seq(Task)
    BY DEF RunTime
  <1>2. /\ \A a \in own : Has(s.tasks, a) <=> Has(r.tasks, a)
        /\ \A a \in own : AtMostOnce(r.tasks, a) => AtMostOnce(s.tasks, a)
        /\ \A a, b \in own : Precedes(r.tasks, a, b) => Precedes(s.tasks, a, b)
        /\ \A a \in own : \A B : Covered(r.tasks, a, B) => Covered(s.tasks, a, B)
    <2>1. CASE s.tasks = r.tasks
      BY <2>1
    <2>2. ASSUME NEW k \in Task, Foreign(k, c, d, t, e), s.tasks = Append(r.tasks, k)
          PROVE  <1>2!:
      <3>1. \A a \in own : a # k
        BY <2>2 DEF Foreign
      <3> HIDE DEF own
      <3> QED
        BY <1>1, <2>2, <3>1, AppendTask
    <2>3. CASE r.tasks # << >> /\ Foreign(Head(r.tasks), c, d, t, e) /\ s.tasks = Tail(r.tasks)
      <3>1. \A a \in own : a # Head(r.tasks)
        BY <2>3 DEF Foreign
      <3> HIDE DEF own
      <3> QED
        BY <1>1, <2>3, <3>1, DropTask
    <2> QED
      BY <2>1, <2>2, <2>3
  <1>3. Single(s, c, d, t, e, who, st)
    BY <1>2 DEF Side, Single
  <1>4. NotTooEarly(s, c, d, t, e, st, left, calls)
    BY <1>2 DEF Side, NotTooEarly
  <1>5. NotTooLate(s, t, e, st, left)
    BY <1>2 DEF Side, NotTooLate
  <1> QED
    BY <1>3, <1>4, <1>5 DEF Side
------------------------------------------------------------------------------
(* The steps of a side *)

\* The other side's client commits or releases an element: the event is pushed, and
\* something is left for this side to get.
LEMMA EventIsPushed ==
  ASSUME NEW c \in Context, NEW d \in Event, NEW t \in Context, NEW e \in Event, c # t, d # e,
         NEW who, NEW st, NEW left, NEW calls,
         NEW r \in RunTime, Side(r, c, d, t, e, who, st, left, calls),
         NEW after, after # 0
  PROVE  Side(PushEvent(r, e), c, d, t, e, who, st, after, calls)
PROOF
  <1>k. /\ Resume(c) # Resume(t) /\ EventTask(d) # EventTask(e)
        /\ \A a \in {c, t}, f \in {d, e} : Resume(a) # EventTask(f)
        /\ \A a \in {c, t} : Resume(a) \in Task
        /\ \A f \in {d, e} : EventTask(f) \in Task
    BY TaskKinds
  <1>r. r.tasks \in Seq(Task) /\ r.done \in [Event -> BOOLEAN] /\ r.waiting \in [Event -> Seq(Context)]
    BY DEF RunTime
  <1> DEFINE s == PushEvent(r, e)
  <1>1. /\ s.tasks = Append(r.tasks, EventTask(e)) /\ s.waiting = r.waiting
        /\ s.done = [r.done EXCEPT ![e] = @ \/ DoneAtPush]
    BY RunTimeEventPushed
  <1> HIDE DEF s
  <1>2. /\ \A a \in {Resume(c), Resume(t), EventTask(d)} :
             /\ Has(s.tasks, a) <=> Has(r.tasks, a)
             /\ AtMostOnce(r.tasks, a) => AtMostOnce(s.tasks, a)
        /\ Has(s.tasks, EventTask(e))
        /\ Precedes(r.tasks, EventTask(d), Resume(c)) => Precedes(s.tasks, EventTask(d), Resume(c))
    BY <1>k, <1>r, <1>1, AppendTask
  <1>3. DoneAtPush => s.done[e]
    BY <1>r, <1>1
  <1>s. Single(s, c, d, t, e, who, st)
    BY <1>1, <1>2 DEF Side, Single
  <1>e. NotTooEarly(s, c, d, t, e, st, after, calls)
    BY DEF NotTooEarly
  <1>l. NotTooLate(s, t, e, st, after)
    BY <1>1, <1>2, <1>3, DoneAssumption DEF Side, Single, NotTooLate
  <1> QED
    BY <1>s, <1>e, <1>l DEF Side, s

\* The ring's event is run.
LEMMA EventIsRun ==
  ASSUME NEW c \in Context, NEW d \in Event, NEW t \in Context, NEW e \in Event, c # t, d # e,
         NEW who, NEW st, NEW left, NEW calls,
         NEW r \in RunTime, Side(r, c, d, t, e, who, st, left, calls),
         r.tasks # << >>, Head(r.tasks) = EventTask(e)
  PROVE  Side(RunEvent(Popped(r), e), c, d, t, e, who, st, left, calls)
PROOF
  <1>k. /\ Resume(c) # Resume(t) /\ EventTask(d) # EventTask(e)
        /\ \A a \in {c, t}, f \in {d, e} : Resume(a) # EventTask(f)
        /\ \A a \in {c, t} : Resume(a) \in Task
        /\ \A f \in {d, e} : EventTask(f) \in Task
    BY TaskKinds
  <1>r. r.tasks \in Seq(Task) /\ r.done \in [Event -> BOOLEAN] /\ r.waiting \in [Event -> Seq(Context)]
    BY DEF RunTime
  <1> DEFINE q == Tail(r.tasks)
             p == Popped(r)
             s == RunEvent(p, e)
  <1>1. p \in RunTime /\ p.tasks = q /\ p.waiting = r.waiting /\ p.done = r.done
    BY RunTimePopped
  <1> HIDE DEF p
  <1>2. r.waiting[e] \in {<< >>, <<t>>}
    BY DEF Side, Single
  <1>3. /\ s.done = [r.done EXCEPT ![e] = @ \/ ~DoneAtPush]
        /\ s.waiting = [r.waiting EXCEPT ![e] = << >>]
        /\ r.waiting[e] = << >> => s.tasks = q
        /\ r.waiting[e] = <<t>> => s.tasks = Append(q, Resume(t))
    <2> HIDE DEF q
    <2>1. p.waiting[e] \in {<< >>, <<t>>} /\ t \in Context /\ e \in Event
      BY <1>1, <1>2
    <2>2. /\ s.done = [p.done EXCEPT ![e] = @ \/ ~DoneAtPush]
          /\ s.waiting = [p.waiting EXCEPT ![e] = << >>]
          /\ p.waiting[e] = << >> => s.tasks = p.tasks
          /\ p.waiting[e] = <<t>> => s.tasks = Append(p.tasks, Resume(t))
      BY <1>1, <2>1, RunTimeEventRun
    <2> QED
      BY <1>1, <2>2
  <1>q. q \in Seq(Task)
    BY <1>r
  <1>4. /\ Has(r.tasks, EventTask(e))
        /\ \A a \in {Resume(c), Resume(t), EventTask(d)} :
             /\ Has(q, a) <=> Has(r.tasks, a)
             /\ AtMostOnce(r.tasks, a) => AtMostOnce(q, a)
        /\ Precedes(r.tasks, EventTask(d), Resume(c)) => Precedes(q, EventTask(d), Resume(c))
        /\ \A B : Covered(r.tasks, EventTask(e), B) => Covered(q, EventTask(e), B)
    <2> HIDE DEF q
    <2> QED
      BY <1>k, <1>r, DropTask DEF q
  <1> HIDE DEF s, q
  <1>5. ASSUME r.waiting[e] = <<t>>
        PROVE  /\ Has(s.tasks, Resume(t))
               /\ \A a \in {Resume(c), EventTask(d)} :
                    /\ Has(s.tasks, a) <=> Has(q, a)
                    /\ AtMostOnce(q, a) => AtMostOnce(s.tasks, a)
               /\ AtMostOnce(q, Resume(t)) /\ ~Has(q, Resume(t)) => AtMostOnce(s.tasks, Resume(t))
               /\ Precedes(q, EventTask(d), Resume(c)) => Precedes(s.tasks, EventTask(d), Resume(c))
    <2>1. s.tasks = Append(q, Resume(t)) /\ Resume(t) \in Task
      BY <1>k, <1>3, <1>5
    <2> QED
      BY <1>k, <1>q, <2>1, AppendTask
  <1>6. s.waiting[e] = << >> /\ s.waiting[d] = r.waiting[d] /\ (s.done[e] <=> r.done[e] \/ ~DoneAtPush)
    BY <1>r, <1>3
  <1>7. <<t>> # << >>
    OBVIOUS
  <1>8. left = 0 /\ "wait" \in calls => st = "idle"
    BY <1>4, CoveredByNone DEF Side, Single, NotTooEarly
  <1>s. Single(s, c, d, t, e, who, st)
    <2>1. CASE r.waiting[e] = << >>
      BY <1>3, <1>4, <1>6, <2>1 DEF Side, Single
    <2>2. CASE r.waiting[e] = <<t>>
      BY <1>3, <1>4, <1>5, <1>6, <1>7, <2>2 DEF Side, Single, TaskState
    <2> QED
      BY <1>2, <2>1, <2>2
  <1>e. NotTooEarly(s, c, d, t, e, st, left, calls)
    BY <1>3, <1>4, <1>8 DEF Side, Single, NotTooEarly
  <1>l. NotTooLate(s, t, e, st, left)
    BY <1>2, <1>3, <1>4, <1>5, <1>6, <1>7, DoneAssumption DEF Side, Single, NotTooLate
  <1> QED
    BY <1>s, <1>e, <1>l DEF Side, s, p

\* The event of the client's call is run.
LEMMA CallReturns ==
  ASSUME NEW c \in Context, NEW d \in Event, NEW t \in Context, NEW e \in Event, c # t, d # e,
         NEW who, NEW st, NEW left, NEW calls,
         NEW r \in RunTime, Side(r, c, d, t, e, who, st, left, calls),
         r.tasks # << >>, Head(r.tasks) = EventTask(d)
  PROVE  Side(RunEvent(Popped(r), d), c, d, t, e, who, st, left, calls)
PROOF
  <1>k. /\ Resume(c) # Resume(t) /\ EventTask(d) # EventTask(e)
        /\ \A a \in {c, t}, f \in {d, e} : Resume(a) # EventTask(f)
        /\ \A a \in {c, t} : Resume(a) \in Task
        /\ \A f \in {d, e} : EventTask(f) \in Task
    BY TaskKinds
  <1>r. r.tasks \in Seq(Task) /\ r.done \in [Event -> BOOLEAN] /\ r.waiting \in [Event -> Seq(Context)]
    BY DEF RunTime
  <1> DEFINE q == Tail(r.tasks)
             p == Popped(r)
             s == RunEvent(p, d)
  <1>1. p \in RunTime /\ p.tasks = q /\ p.waiting = r.waiting /\ p.done = r.done
    BY RunTimePopped
  <1> HIDE DEF p
  <1>2. r.waiting[d] \in {<< >>, <<c>>}
    BY DEF Side, Single
  <1>3. /\ s.done = [r.done EXCEPT ![d] = @ \/ ~DoneAtPush]
        /\ s.waiting = [r.waiting EXCEPT ![d] = << >>]
        /\ r.waiting[d] = << >> => s.tasks = q
        /\ r.waiting[d] = <<c>> => s.tasks = Append(q, Resume(c))
    <2> HIDE DEF q
    <2>1. p.waiting[d] \in {<< >>, <<c>>} /\ c \in Context /\ d \in Event
      BY <1>1, <1>2
    <2>2. /\ s.done = [p.done EXCEPT ![d] = @ \/ ~DoneAtPush]
          /\ s.waiting = [p.waiting EXCEPT ![d] = << >>]
          /\ p.waiting[d] = << >> => s.tasks = p.tasks
          /\ p.waiting[d] = <<c>> => s.tasks = Append(p.tasks, Resume(c))
      BY <1>1, <2>1, RunTimeEventRun
    <2> QED
      BY <1>1, <2>2
  <1>q. q \in Seq(Task)
    BY <1>r
  <1>4. /\ Has(r.tasks, EventTask(d))
        /\ AtMostOnce(r.tasks, EventTask(d)) => ~Has(q, EventTask(d))
        /\ \A a \in {Resume(c), Resume(t)} : Has(q, a) <=> Has(r.tasks, a)
        /\ \A a \in {Resume(c), Resume(t), EventTask(d)} : AtMostOnce(r.tasks, a) => AtMostOnce(q, a)
        /\ Precedes(r.tasks, EventTask(d), Resume(c)) => Precedes(q, EventTask(d), Resume(c))
        /\ \A B : Covered(r.tasks, EventTask(e), B) => Covered(q, EventTask(e), B)
    <2> HIDE DEF q
    <2> QED
      BY <1>k, <1>r, DropTask DEF q
  <1> HIDE DEF s, q
  <1>5. ASSUME r.waiting[d] = <<c>>
        PROVE  /\ Has(s.tasks, Resume(c))
               /\ \A a \in {Resume(t), EventTask(d)} :
                    /\ Has(s.tasks, a) <=> Has(q, a)
                    /\ AtMostOnce(q, a) => AtMostOnce(s.tasks, a)
               /\ AtMostOnce(q, Resume(c)) /\ ~Has(q, Resume(c)) => AtMostOnce(s.tasks, Resume(c))
               /\ Precedes(q, EventTask(d), Resume(c)) => Precedes(s.tasks, EventTask(d), Resume(c))
               /\ \A B : Covered(q, EventTask(e), B) => Covered(s.tasks, EventTask(e), B)
    <2>1. s.tasks = Append(q, Resume(c)) /\ Resume(c) \in Task
      BY <1>k, <1>3, <1>5
    <2> QED
      BY <1>k, <1>q, <2>1, AppendTask
  <1>6. s.waiting[d] = << >> /\ s.waiting[e] = r.waiting[e] /\ s.done[e] = r.done[e]
    BY <1>r, <1>3
  <1>7. <<c>> # << >>
    OBVIOUS
  <1>8. st = "idle" /\ who # c
    BY <1>4 DEF Side, Single
  <1>s. Single(s, c, d, t, e, who, st)
    <2>1. CASE r.waiting[d] = << >>
      BY <1>3, <1>4, <1>6, <1>8, <2>1 DEF Side, Single
    <2>2. CASE r.waiting[d] = <<c>>
      BY <1>3, <1>4, <1>5, <1>6, <1>7, <1>8, <2>2 DEF Side, Single
    <2> QED
      BY <1>2, <2>1, <2>2
  <1>e. NotTooEarly(s, c, d, t, e, st, left, calls)
    BY <1>2, <1>3, <1>4, <1>5, <1>8 DEF Side, NotTooEarly
  <1>l. NotTooLate(s, t, e, st, left)
    BY <1>8 DEF NotTooLate
  <1> QED
    BY <1>s, <1>e, <1>l DEF Side, s, p

\* The client is resumed.
LEMMA ClientIsResumed ==
  ASSUME NEW c \in Context, NEW d \in Event, NEW t \in Context, NEW e \in Event, c # t, d # e,
         NEW who, NEW st, NEW left, NEW calls,
         NEW r \in RunTime, Side(r, c, d, t, e, who, st, left, calls),
         r.tasks # << >>, Head(r.tasks) = Resume(c)
  PROVE  Side(Popped(r), c, d, t, e, c, st, left, calls)
PROOF
  <1>k. /\ Resume(c) # Resume(t) /\ EventTask(d) # EventTask(e)
        /\ \A a \in {c, t}, f \in {d, e} : Resume(a) # EventTask(f)
        /\ \A a \in {c, t} : Resume(a) \in Task
        /\ \A f \in {d, e} : EventTask(f) \in Task
    BY TaskKinds
  <1>r. r.tasks \in Seq(Task) /\ r.done \in [Event -> BOOLEAN] /\ r.waiting \in [Event -> Seq(Context)]
    BY DEF RunTime
  <1> DEFINE s == Popped(r)
  <1>1. s.tasks = Tail(r.tasks) /\ s.waiting = r.waiting /\ s.done = r.done
    BY RunTimePopped
  <1> HIDE DEF s
  <1>2. /\ Has(r.tasks, Resume(c))
        /\ AtMostOnce(r.tasks, Resume(c)) => ~Has(s.tasks, Resume(c))
        /\ Precedes(r.tasks, EventTask(d), Resume(c)) => ~Has(s.tasks, EventTask(d))
        /\ Has(s.tasks, Resume(t)) <=> Has(r.tasks, Resume(t))
        /\ \A a \in {Resume(c), Resume(t), EventTask(d)} :
             AtMostOnce(r.tasks, a) => AtMostOnce(s.tasks, a)
        /\ Precedes(r.tasks, EventTask(d), Resume(c)) => Precedes(s.tasks, EventTask(d), Resume(c))
        /\ \A B : Covered(r.tasks, EventTask(e), B) => Covered(s.tasks, EventTask(e), B)
    BY <1>k, <1>r, <1>1, DropTask
  <1>3. st = "idle"
    BY <1>2 DEF Side, Single
  <1>s. Single(s, c, d, t, e, c, st)
    BY <1>1, <1>2, <1>3 DEF Side, Single
  <1>e. NotTooEarly(s, c, d, t, e, st, left, calls)
    BY <1>1, <1>2, <1>3 DEF Side, Single, NotTooEarly
  <1>l. NotTooLate(s, t, e, st, left)
    BY <1>1, <1>2, <1>3 DEF Side, Single, NotTooLate
  <1> QED
    BY <1>s, <1>e, <1>l DEF Side, s

\* The queue's coroutine comes to its CO_WAIT.
LEMMA TaskWaits ==
  ASSUME NEW c \in Context, NEW d \in Event, NEW t \in Context, NEW e \in Event, c # t, d # e,
         NEW who, NEW st, NEW left, NEW calls,
         NEW r \in RunTime, Side(r, c, d, t, e, who, st, left, calls),
         r.tasks # << >>, Head(r.tasks) = Resume(t), st = "started"
  PROVE  Side(WaitEvent(Popped(r), e, t), c, d, t, e, who, "waiting", left, calls)
PROOF
  <1>k. /\ Resume(c) # Resume(t) /\ EventTask(d) # EventTask(e)
        /\ \A a \in {c, t}, f \in {d, e} : Resume(a) # EventTask(f)
        /\ \A a \in {c, t} : Resume(a) \in Task
        /\ \A f \in {d, e} : EventTask(f) \in Task
    BY TaskKinds
  <1>r. r.tasks \in Seq(Task) /\ r.done \in [Event -> BOOLEAN] /\ r.waiting \in [Event -> Seq(Context)]
    BY DEF RunTime
  <1> DEFINE q == Tail(r.tasks)
             p == Popped(r)
             s == WaitEvent(p, e, t)
  <1>1. p \in RunTime /\ p.tasks = q /\ p.waiting = r.waiting /\ p.done = r.done
    BY RunTimePopped
  <1> HIDE DEF p
  <1>2. r.waiting[e] = << >>
    BY DEF Side, Single
  <1>3. /\ s.done = r.done
        /\ r.done[e]  => s.tasks = Append(q, Resume(t)) /\ s.waiting = r.waiting
        /\ ~r.done[e] => s.tasks = q /\ s.waiting = [r.waiting EXCEPT ![e] = <<t>>]
    <2> HIDE DEF q
    <2>1. p.waiting[e] = << >> /\ p \in RunTime
      BY <1>1, <1>2
    <2>2. /\ s.done = p.done
          /\ p.done[e]  => s.tasks = Append(p.tasks, Resume(t)) /\ s.waiting = p.waiting
          /\ ~p.done[e] => s.tasks = p.tasks /\ s.waiting = [p.waiting EXCEPT ![e] = <<t>>]
      BY <2>1, RunTimeWaited
    <2> QED
      BY <1>1, <2>2
  <1>q. q \in Seq(Task)
    BY <1>r
  <1>4. /\ AtMostOnce(r.tasks, Resume(t)) => ~Has(q, Resume(t))
        /\ \A a \in {Resume(c), EventTask(d), EventTask(e)} : Has(q, a) <=> Has(r.tasks, a)
        /\ \A a \in {Resume(c), Resume(t), EventTask(d)} : AtMostOnce(r.tasks, a) => AtMostOnce(q, a)
        /\ Precedes(r.tasks, EventTask(d), Resume(c)) => Precedes(q, EventTask(d), Resume(c))
        /\ \A B : Covered(r.tasks, EventTask(e), B) => Covered(q, EventTask(e), B)
    <2> HIDE DEF q
    <2> QED
      BY <1>k, <1>r, DropTask DEF q
  <1> HIDE DEF s, q
  <1>5. ASSUME r.done[e]
        PROVE  /\ Has(s.tasks, Resume(t))
               /\ \A a \in {Resume(c), EventTask(d)} :
                    /\ Has(s.tasks, a) <=> Has(q, a)
                    /\ AtMostOnce(q, a) => AtMostOnce(s.tasks, a)
               /\ AtMostOnce(q, Resume(t)) /\ ~Has(q, Resume(t)) => AtMostOnce(s.tasks, Resume(t))
               /\ Precedes(q, EventTask(d), Resume(c)) => Precedes(s.tasks, EventTask(d), Resume(c))
    <2>1. s.tasks = Append(q, Resume(t)) /\ Resume(t) \in Task
      BY <1>k, <1>3, <1>5
    <2> QED
      BY <1>k, <1>q, <2>1, AppendTask
  <1>6. /\ s.waiting[d] = r.waiting[d]
        /\ ~r.done[e] => s.waiting[e] = <<t>>
        /\ r.done[e] => s.waiting[e] = << >>
    BY <1>r, <1>2, <1>3
  <1>7. <<t>> # << >>
    OBVIOUS
  <1>s. Single(s, c, d, t, e, who, "waiting")
    <2>1. CASE r.done[e]
      BY <1>3, <1>4, <1>5, <1>6, <2>1 DEF Side, Single
    <2>2. CASE ~r.done[e]
      BY <1>3, <1>4, <1>6, <1>7, <2>2 DEF Side, Single
    <2> QED
      BY <2>1, <2>2
  <1>e. NotTooEarly(s, c, d, t, e, "waiting", left, calls)
    BY <1>3, <1>4 DEF Side, Single, NotTooEarly
  <1>l. NotTooLate(s, t, e, "waiting", left)
    BY <1>3, <1>4, <1>5 DEF Side, Single, NotTooLate
  <1> QED
    BY <1>s, <1>e, <1>l DEF Side, s, p, TaskState

\* The queue's coroutine is resumed: something is left to get.  It returns the call.
LEMMA TaskReturns ==
  ASSUME NEW c \in Context, NEW d \in Event, NEW t \in Context, NEW e \in Event, c # t, d # e,
         NEW who, NEW st, NEW left, NEW calls,
         NEW r \in RunTime, Side(r, c, d, t, e, who, st, left, calls),
         r.tasks # << >>, Head(r.tasks) = Resume(t), st = "waiting"
  PROVE  /\ left # 0
         /\ \A n : Side(PushEvent(Popped(r), d), c, d, t, e, who, "idle", n, calls)
PROOF
  <1>k. /\ Resume(c) # Resume(t) /\ EventTask(d) # EventTask(e)
        /\ \A a \in {c, t}, f \in {d, e} : Resume(a) # EventTask(f)
        /\ \A a \in {c, t} : Resume(a) \in Task
        /\ \A f \in {d, e} : EventTask(f) \in Task
    BY TaskKinds
  <1>r. r.tasks \in Seq(Task) /\ r.done \in [Event -> BOOLEAN] /\ r.waiting \in [Event -> Seq(Context)]
    BY DEF RunTime
  <1> DEFINE q == Tail(r.tasks)
             p == Popped(r)
             s == PushEvent(p, d)
  <1>1. p \in RunTime /\ p.tasks = q /\ p.waiting = r.waiting /\ p.done = r.done
    BY RunTimePopped
  <1> HIDE DEF p
  <1>3. s.waiting = r.waiting /\ s.tasks = Append(q, EventTask(d))
    BY <1>1, RunTimeEventPushed
  <1>q. q \in Seq(Task)
    BY <1>r
  <1>4. /\ Has(r.tasks, Resume(t))
        /\ AtMostOnce(r.tasks, Resume(t)) => ~Has(q, Resume(t))
        /\ \A a \in {Resume(c), EventTask(d)} : Has(q, a) <=> Has(r.tasks, a)
        /\ \A a \in {Resume(c), Resume(t), EventTask(d)} : AtMostOnce(r.tasks, a) => AtMostOnce(q, a)
        /\ Precedes(r.tasks, EventTask(d), Resume(c)) => Precedes(q, EventTask(d), Resume(c))
    <2> HIDE DEF q
    <2> QED
      BY <1>k, <1>r, DropTask DEF q
  <1> HIDE DEF s, q
  <1>5. /\ \A a \in {Resume(c), Resume(t)} :
             /\ Has(s.tasks, a) <=> Has(q, a)
             /\ AtMostOnce(q, a) => AtMostOnce(s.tasks, a)
        /\ AtMostOnce(q, EventTask(d)) /\ ~Has(q, EventTask(d)) => AtMostOnce(s.tasks, EventTask(d))
        /\ Precedes(q, EventTask(d), Resume(c)) /\ ~Has(q, Resume(c))
             => Precedes(s.tasks, EventTask(d), Resume(c))
        /\ Covered(s.tasks, EventTask(e), {EventTask(d), Resume(c)})
    BY <1>k, <1>q, <1>3, AppendTask
  <1>6. who # c /\ ~Has(r.tasks, EventTask(d)) /\ ~Has(r.tasks, Resume(c)) /\ r.waiting[e] = << >>
    BY <1>4 DEF Side, Single
  <1>7. left # 0
    BY <1>4 DEF Side, NotTooEarly
  <1>s. Single(s, c, d, t, e, who, "idle")
    BY <1>3, <1>4, <1>5, <1>6 DEF Side, Single
  <1>e. \A n : NotTooEarly(s, c, d, t, e, "idle", n, calls)
    BY <1>5 DEF NotTooEarly
  <1>l. \A n : NotTooLate(s, t, e, "idle", n)
    BY DEF NotTooLate
  <1> QED
    BY <1>7, <1>s, <1>e, <1>l DEF Side, s, p, TaskState

\* A call that does not have to wait, up to the end of the client's turn.
LEMMA CallAtOnce ==
  ASSUME NEW c \in Context, NEW d \in Event, NEW t \in Context, NEW e \in Event, c # t, d # e,
         NEW who, NEW st, NEW left, NEW calls,
         NEW r \in RunTime, Side(r, c, d, t, e, who, st, left, calls), who = c, NEW next, next # c
  PROVE  LET s == WaitEvent(PushEvent(InitEvent(r, d), d), d, c)
         IN  s \in RunTime /\ \A n : Side(s, c, d, t, e, next, st, n, calls)
PROOF
  <1>k. /\ Resume(c) # Resume(t) /\ EventTask(d) # EventTask(e)
        /\ \A a \in {c, t}, f \in {d, e} : Resume(a) # EventTask(f)
        /\ \A a \in {c, t} : Resume(a) \in Task
        /\ \A f \in {d, e} : EventTask(f) \in Task
    BY TaskKinds
  <1>r. r.tasks \in Seq(Task) /\ r.done \in [Event -> BOOLEAN] /\ r.waiting \in [Event -> Seq(Context)]
    BY DEF RunTime
  <1> DEFINE r1 == InitEvent(r, d)
             r2 == PushEvent(r1, d)
             s == WaitEvent(r2, d, c)
  <1>1. /\ r1 \in RunTime /\ r1.tasks = r.tasks
        /\ r1.waiting = [r.waiting EXCEPT ![d] = << >>]
    BY RunTimeInit
  <1> HIDE DEF r1
  <1>2. r2 \in RunTime /\ r2.tasks = Append(r.tasks, EventTask(d)) /\ r2.waiting = r1.waiting
    BY <1>1, RunTimeEventPushed
  <1> HIDE DEF r2
  <1>3. r2.waiting[d] = << >> /\ r2.waiting[e] = r.waiting[e] /\ r2.tasks \in Seq(Task)
        /\ DOMAIN r2.waiting = Event
    BY <1>r, <1>1, <1>2 DEF RunTime
  <1>4. /\ s \in RunTime
        /\ r2.done[d]  => s.tasks = Append(r2.tasks, Resume(c)) /\ s.waiting = r2.waiting
        /\ ~r2.done[d] => s.tasks = r2.tasks /\ s.waiting = [r2.waiting EXCEPT ![d] = <<c>>]
    BY <1>2, <1>3, RunTimeWaited
  <1> HIDE DEF s
  <1>5. /\ st = "idle" /\ ~Has(r.tasks, EventTask(d)) /\ ~Has(r.tasks, Resume(c))
        /\ ~Has(r.tasks, Resume(t)) /\ r.waiting[e] = << >>
        /\ \A a \in {Resume(c), Resume(t), EventTask(d)} : AtMostOnce(r.tasks, a)
        /\ Precedes(r.tasks, EventTask(d), Resume(c))
    BY DEF Side, Single
  <1>6. /\ ~Has(r2.tasks, Resume(c)) /\ ~Has(r2.tasks, Resume(t))
        /\ \A a \in {Resume(c), Resume(t), EventTask(d)} : AtMostOnce(r2.tasks, a)
        /\ Precedes(r2.tasks, EventTask(d), Resume(c))
        /\ Covered(r2.tasks, EventTask(e), {EventTask(d), Resume(c)})
    BY <1>k, <1>r, <1>2, <1>5, AppendTask
  <1>7. /\ ~Has(s.tasks, Resume(t))
        /\ \A a \in {Resume(c), Resume(t), EventTask(d)} : AtMostOnce(s.tasks, a)
        /\ Precedes(s.tasks, EventTask(d), Resume(c))
        /\ Covered(s.tasks, EventTask(e), {EventTask(d), Resume(c)})
    <2>1. CASE r2.done[d]
      <3>1. s.tasks = Append(r2.tasks, Resume(c)) /\ Resume(c) \in Task
        BY <1>k, <1>4, <2>1
      <3> QED
        BY <1>k, <1>3, <1>6, <3>1, AppendTask
    <2>2. CASE ~r2.done[d]
      BY <1>4, <1>6, <2>2
    <2> QED
      BY <2>1, <2>2
  <1>8. /\ s.waiting[e] = << >> /\ s.waiting[d] \in {<< >>, <<c>>}
        /\ s.waiting[d] # << >> => ~Has(s.tasks, Resume(c))
    BY <1>3, <1>4, <1>5, <1>6
  <1>s. Single(s, c, d, t, e, next, st)
    BY <1>5, <1>7, <1>8 DEF Single
  <1>e. \A n : NotTooEarly(s, c, d, t, e, st, n, calls)
    BY <1>5, <1>7 DEF NotTooEarly
  <1>l. \A n : NotTooLate(s, t, e, st, n)
    BY <1>5 DEF NotTooLate
  <1> QED
    BY <1>4, <1>5, <1>s, <1>e, <1>l DEF Side, TaskState, s, r1, r2

\* A call that has to wait: the queue's coroutine is started.
LEMMA CallHasToWait ==
  ASSUME NEW c \in Context, NEW d \in Event, NEW t \in Context, NEW e \in Event, c # t, d # e,
         NEW who, NEW st, NEW left, NEW calls,
         NEW r \in RunTime, Side(r, c, d, t, e, who, st, left, calls),
         who = c, left = 0, "wait" \in calls, NEW next, next # c
  PROVE  LET s == WaitEvent(PushResume(InitEvent(InitEvent(r, d), e), t), d, c)
         IN  s \in RunTime /\ Side(s, c, d, t, e, next, "started", left, calls)
PROOF
  <1>k. /\ Resume(c) # Resume(t) /\ EventTask(d) # EventTask(e)
        /\ \A a \in {c, t}, f \in {d, e} : Resume(a) # EventTask(f)
        /\ \A a \in {c, t} : Resume(a) \in Task
        /\ \A f \in {d, e} : EventTask(f) \in Task
    BY TaskKinds
  <1>r. r.tasks \in Seq(Task) /\ r.done \in [Event -> BOOLEAN] /\ r.waiting \in [Event -> Seq(Context)]
    BY DEF RunTime
  <1> DEFINE r1 == InitEvent(r, d)
             r2 == InitEvent(r1, e)
             r3 == PushResume(r2, t)
             s == WaitEvent(r3, d, c)
  <1>1. /\ r1 \in RunTime /\ r1.tasks = r.tasks
        /\ r1.waiting = [r.waiting EXCEPT ![d] = << >>]
        /\ r1.done = [r.done EXCEPT ![d] = FALSE]
    BY RunTimeInit
  <1> HIDE DEF r1
  <1>2. /\ r2 \in RunTime /\ r2.tasks = r.tasks
        /\ r2.waiting = [r1.waiting EXCEPT ![e] = << >>]
        /\ r2.done = [r1.done EXCEPT ![e] = FALSE]
    BY <1>1, RunTimeInit
  <1> HIDE DEF r2
  <1>3. /\ r3 \in RunTime /\ r3.tasks = Append(r.tasks, Resume(t))
        /\ r3.waiting = r2.waiting /\ r3.done = r2.done
    BY <1>k, <1>2, RunTimePushed DEF PushResume
  <1> HIDE DEF r3
  <1>4. /\ r3.waiting[d] = << >> /\ r3.waiting[e] = << >> /\ ~r3.done[d] /\ ~r3.done[e]
        /\ DOMAIN r3.waiting = Event
    BY <1>r, <1>1, <1>2, <1>3
  <1>5. /\ s \in RunTime /\ s.tasks = r3.tasks /\ s.done = r3.done
        /\ s.waiting = [r3.waiting EXCEPT ![d] = <<c>>]
    BY <1>3, <1>4, RunTimeWaited
  <1> HIDE DEF s
  <1>6. s.waiting[d] = <<c>> /\ s.waiting[e] = << >> /\ ~s.done[e]
    BY <1>4, <1>5
  <1>7. /\ ~Has(r.tasks, EventTask(d)) /\ ~Has(r.tasks, Resume(c)) /\ ~Has(r.tasks, Resume(t))
        /\ \A a \in {Resume(c), Resume(t), EventTask(d)} : AtMostOnce(r.tasks, a)
        /\ Precedes(r.tasks, EventTask(d), Resume(c))
        /\ Covered(r.tasks, EventTask(e), {EventTask(d), Resume(c)})
    BY DEF Side, Single, NotTooEarly
  <1>8. /\ ~Has(s.tasks, EventTask(d)) /\ ~Has(s.tasks, Resume(c)) /\ Has(s.tasks, Resume(t))
        /\ \A a \in {Resume(c), Resume(t), EventTask(d)} : AtMostOnce(s.tasks, a)
        /\ Precedes(s.tasks, EventTask(d), Resume(c))
        /\ Covered(s.tasks, EventTask(e), {EventTask(d), Resume(c)})
    BY <1>k, <1>r, <1>3, <1>5, <1>7, AppendTask
  <1>s. Single(s, c, d, t, e, next, "started")
    BY <1>6, <1>8 DEF Single
  <1>e. NotTooEarly(s, c, d, t, e, "started", left, calls)
    BY <1>6, <1>8 DEF NotTooEarly
  <1>l. NotTooLate(s, t, e, "started", left)
    BY DEF NotTooLate
  <1> QED
    BY <1>5, <1>s, <1>e, <1>l DEF Side, TaskState, s, r1, r2, r3

\* A client yields.
LEMMA ClientYields ==
  ASSUME NEW c \in Context, NEW d \in Event, NEW t \in Context, NEW e \in Event, c # t, d # e,
         NEW who, NEW st, NEW left, NEW calls,
         NEW r \in RunTime, Side(r, c, d, t, e, who, st, left, calls), who = c, NEW next, next # c
  PROVE  PushResume(r, c) \in RunTime /\ Side(PushResume(r, c), c, d, t, e, next, st, left, calls)
PROOF
  <1>k. /\ Resume(c) # Resume(t) /\ EventTask(d) # EventTask(e)
        /\ \A a \in {c, t}, f \in {d, e} : Resume(a) # EventTask(f)
        /\ \A a \in {c, t} : Resume(a) \in Task
        /\ \A f \in {d, e} : EventTask(f) \in Task
    BY TaskKinds
  <1>r. r.tasks \in Seq(Task) /\ r.done \in [Event -> BOOLEAN] /\ r.waiting \in [Event -> Seq(Context)]
    BY DEF RunTime
  <1> DEFINE s == PushResume(r, c)
  <1>1. /\ s \in RunTime /\ s.tasks = Append(r.tasks, Resume(c))
        /\ s.waiting = r.waiting /\ s.done = r.done
    BY <1>k, RunTimePushed DEF PushResume
  <1> HIDE DEF s
  <1>2. /\ st = "idle" /\ ~Has(r.tasks, Resume(c)) /\ ~Has(r.tasks, Resume(t))
        /\ r.waiting[d] = << >> /\ r.waiting[e] = << >>
        /\ \A a \in {Resume(c), Resume(t), EventTask(d)} : AtMostOnce(r.tasks, a)
        /\ Precedes(r.tasks, EventTask(d), Resume(c))
    BY DEF Side, Single
  <1>3. /\ ~Has(s.tasks, Resume(t))
        /\ \A a \in {Resume(c), Resume(t), EventTask(d)} : AtMostOnce(s.tasks, a)
        /\ Precedes(s.tasks, EventTask(d), Resume(c))
        /\ Covered(s.tasks, EventTask(e), {EventTask(d), Resume(c)})
    BY <1>k, <1>r, <1>1, <1>2, AppendTask
  <1>s. Single(s, c, d, t, e, next, st)
    BY <1>1, <1>2, <1>3 DEF Single
  <1>e. NotTooEarly(s, c, d, t, e, st, left, calls)
    BY <1>2, <1>3 DEF NotTooEarly
  <1>l. NotTooLate(s, t, e, st, left)
    BY <1>2 DEF NotTooLate
  <1> QED
    BY <1>1, <1>2, <1>s, <1>e, <1>l DEF Side, TaskState, s

\* What a client does to the ring alone during its turn.
LEMMA TurnGoesOn ==
  ASSUME NEW c \in Context, NEW d \in Event, NEW t \in Context, NEW e \in Event, c # t, d # e,
         NEW who, NEW st, NEW left, NEW calls,
         NEW r \in RunTime, Side(r, c, d, t, e, who, st, left, calls),
         who = c, NEW now, now = 0 /\ "wait" \in calls => left = 0
  PROVE  Side(r, c, d, t, e, who, st, now, calls)
PROOF
  <1>1. st = "idle"
    BY DEF Side, Single
  <1>2. NotTooEarly(r, c, d, t, e, st, now, calls)
    BY <1>1 DEF Side, NotTooEarly
  <1>3. NotTooLate(r, t, e, st, now)
    BY <1>1 DEF NotTooLate
  <1> QED
    BY <1>2, <1>3 DEF Side

\* Of the turns, a side sees only its own client's.
LEMMA OthersTurn ==
  ASSUME NEW c \in Context, NEW d \in Event, NEW t \in Context, NEW e \in Event, c # t, d # e,
         NEW who, NEW st, NEW left, NEW calls,
         NEW r \in RunTime, Side(r, c, d, t, e, who, st, left, calls), who # c, NEW next, next # c
  PROVE  Side(r, c, d, t, e, next, st, left, calls)
PROOF
  BY DEF Side, Single

------------------------------------------------------------------------------
(* The run-time's operations on behalf of the other side: its client C and coroutine T, *)
(* with its events D and E *)

LEMMA ForeignTasks ==
  ASSUME NEW c, NEW d, NEW t, NEW e
  PROVE  /\ \A x : x \notin {c, t} => Foreign(Resume(x), c, d, t, e)
         /\ \A f : f \notin {d, e} => Foreign(EventTask(f), c, d, t, e)
PROOF
  BY TaskKinds DEF Foreign

LEMMA OtherPopped ==
  ASSUME NEW c \in Context, NEW d \in Event, NEW t \in Context, NEW e \in Event,
         NEW who, NEW st, NEW left, NEW calls,
         NEW r \in RunTime, Side(r, c, d, t, e, who, st, left, calls),
         r.tasks # << >>, Foreign(Head(r.tasks), c, d, t, e)
  PROVE  Popped(r) \in RunTime /\ Side(Popped(r), c, d, t, e, who, st, left, calls)
PROOF
  <1> DEFINE s == Popped(r)
  <1>1. s \in RunTime /\ s.tasks = Tail(r.tasks) /\ s.done = r.done /\ s.waiting = r.waiting
    BY RunTimePopped
  <1> HIDE DEF s
  <1>2. Side(s, c, d, t, e, who, st, left, calls)
    BY <1>1, Bystander
  <1> QED
    BY <1>1, <1>2 DEF s

LEMMA OtherPushed ==
  ASSUME NEW c \in Context, NEW d \in Event, NEW t \in Context, NEW e \in Event,
         NEW who, NEW st, NEW left, NEW calls,
         NEW r \in RunTime, Side(r, c, d, t, e, who, st, left, calls),
         NEW x \in Context \ {c, t}
  PROVE  PushResume(r, x) \in RunTime /\ Side(PushResume(r, x), c, d, t, e, who, st, left, calls)
PROOF
  <1> DEFINE s == PushResume(r, x)
  <1>1. /\ s \in RunTime /\ s.tasks = Append(r.tasks, Resume(x))
        /\ s.done = r.done /\ s.waiting = r.waiting
    BY TaskKinds, RunTimePushed DEF PushResume
  <1>2. Resume(x) \in Task /\ Foreign(Resume(x), c, d, t, e)
    BY TaskKinds, ForeignTasks
  <1> HIDE DEF s
  <1>3. Side(s, c, d, t, e, who, st, left, calls)
    BY <1>1, <1>2, Bystander
  <1> QED
    BY <1>1, <1>3 DEF s

LEMMA OtherInit ==
  ASSUME NEW c \in Context, NEW d \in Event, NEW t \in Context, NEW e \in Event,
         NEW who, NEW st, NEW left, NEW calls,
         NEW r \in RunTime, Side(r, c, d, t, e, who, st, left, calls),
         NEW f \in Event \ {d, e}
  PROVE  InitEvent(r, f) \in RunTime /\ Side(InitEvent(r, f), c, d, t, e, who, st, left, calls)
PROOF
  <1> DEFINE s == InitEvent(r, f)
  <1>1. /\ s \in RunTime /\ s.tasks = r.tasks
        /\ s.done = [r.done EXCEPT ![f] = FALSE]
        /\ s.waiting = [r.waiting EXCEPT ![f] = << >>]
    BY RunTimeInit
  <1> HIDE DEF s
  <1>2. s.waiting[d] = r.waiting[d] /\ s.waiting[e] = r.waiting[e] /\ s.done[e] = r.done[e]
    BY <1>1 DEF RunTime
  <1>3. Side(s, c, d, t, e, who, st, left, calls)
    BY <1>1, <1>2, Bystander
  <1> QED
    BY <1>1, <1>3 DEF s

LEMMA OtherEventPushed ==
  ASSUME NEW c \in Context, NEW d \in Event, NEW t \in Context, NEW e \in Event,
         NEW who, NEW st, NEW left, NEW calls,
         NEW r \in RunTime, Side(r, c, d, t, e, who, st, left, calls),
         NEW f \in Event \ {d, e}
  PROVE  PushEvent(r, f) \in RunTime /\ Side(PushEvent(r, f), c, d, t, e, who, st, left, calls)
PROOF
  <1> DEFINE s == PushEvent(r, f)
  <1>1. /\ s \in RunTime /\ s.tasks = Append(r.tasks, EventTask(f))
        /\ s.done = [r.done EXCEPT ![f] = @ \/ DoneAtPush]
        /\ s.waiting = r.waiting
    BY RunTimeEventPushed
  <1>2. EventTask(f) \in Task /\ Foreign(EventTask(f), c, d, t, e)
    BY TaskKinds, ForeignTasks
  <1> HIDE DEF s
  <1>3. s.done[e] = r.done[e]
    BY <1>1 DEF RunTime
  <1>4. Side(s, c, d, t, e, who, st, left, calls)
    BY <1>1, <1>2, <1>3, Bystander
  <1> QED
    BY <1>1, <1>4 DEF s

LEMMA OtherWaited ==
  ASSUME NEW c \in Context, NEW d \in Event, NEW t \in Context, NEW e \in Event,
         NEW who, NEW st, NEW left, NEW calls,
         NEW r \in RunTime, Side(r, c, d, t, e, who, st, left, calls),
         NEW f \in Event \ {d, e}, NEW x \in Context \ {c, t}, r.waiting[f] = << >>
  PROVE  WaitEvent(r, f, x) \in RunTime /\ Side(WaitEvent(r, f, x), c, d, t, e, who, st, left, calls)
PROOF
  <1> DEFINE s == WaitEvent(r, f, x)
  <1>1. /\ s \in RunTime /\ s.done = r.done
        /\ r.done[f]  => s.tasks = Append(r.tasks, Resume(x)) /\ s.waiting = r.waiting
        /\ ~r.done[f] => s.tasks = r.tasks /\ s.waiting = [r.waiting EXCEPT ![f] = <<x>>]
    BY RunTimeWaited
  <1>2. Resume(x) \in Task /\ Foreign(Resume(x), c, d, t, e)
    BY TaskKinds, ForeignTasks
  <1> HIDE DEF s
  <1>3. s.waiting[d] = r.waiting[d] /\ s.waiting[e] = r.waiting[e]
    BY <1>1 DEF RunTime
  <1>4. s.tasks = r.tasks \/ s.tasks = Append(r.tasks, Resume(x))
    BY <1>1
  <1>5. Side(s, c, d, t, e, who, st, left, calls)
    BY <1>1, <1>2, <1>3, <1>4, Bystander
  <1> QED
    BY <1>1, <1>5 DEF s

LEMMA OtherEventRun ==
  ASSUME NEW c \in Context, NEW d \in Event, NEW t \in Context, NEW e \in Event,
         NEW who, NEW st, NEW left, NEW calls,
         NEW r \in RunTime, Side(r, c, d, t, e, who, st, left, calls),
         NEW f \in Event \ {d, e}, NEW x \in Context \ {c, t}, r.waiting[f] \in {<< >>, <<x>>}
  PROVE  RunEvent(r, f) \in RunTime /\ Side(RunEvent(r, f), c, d, t, e, who, st, left, calls)
PROOF
  <1> DEFINE s == RunEvent(r, f)
  <1>1. /\ s \in RunTime
        /\ s.done = [r.done EXCEPT ![f] = @ \/ ~DoneAtPush]
        /\ s.waiting = [r.waiting EXCEPT ![f] = << >>]
        /\ s.tasks = r.tasks \/ s.tasks = Append(r.tasks, Resume(x))
    BY RunTimeEventRun
  <1>2. Resume(x) \in Task /\ Foreign(Resume(x), c, d, t, e)
    BY TaskKinds, ForeignTasks
  <1> HIDE DEF s
  <1>3. s.waiting[d] = r.waiting[d] /\ s.waiting[e] = r.waiting[e] /\ s.done[e] = r.done[e]
    BY <1>1 DEF RunTime
  <1>4. Side(s, c, d, t, e, who, st, left, calls)
    BY <1>1, <1>2, <1>3, Bystander
  <1> QED
    BY <1>1, <1>4 DEF s

\* A call of the other client that does not have to wait
LEMMA OtherCallsAtOnce ==
  ASSUME NEW c \in Context, NEW d \in Event, NEW t \in Context, NEW e \in Event,
         NEW who, NEW st, NEW left, NEW calls,
         NEW r \in RunTime, Side(r, c, d, t, e, who, st, left, calls),
         NEW C \in Context \ {c, t}, NEW D \in Event \ {d, e},
         NEW T \in Context \ {c, t}, NEW E \in Event \ {d, e}
  PROVE  LET s == WaitEvent(PushEvent(InitEvent(r, D), D), D, C)
         IN  s \in RunTime /\ Side(s, c, d, t, e, who, st, left, calls)
PROOF
  <1> DEFINE s1 == InitEvent(r, D)
             s2 == PushEvent(s1, D)
             s3 == WaitEvent(s2, D, C)
  <1>1. s1 \in RunTime /\ Side(s1, c, d, t, e, who, st, left, calls)
    BY OtherInit
  <1>w. s1.waiting = [r.waiting EXCEPT ![D] = << >>] /\ s1.waiting[D] = << >>
    <2>1. s1.waiting = [r.waiting EXCEPT ![D] = << >>]
      BY RunTimeInit
    <2> QED
      BY <2>1 DEF RunTime
  <1> HIDE DEF s1
  <1>2. s2 \in RunTime /\ Side(s2, c, d, t, e, who, st, left, calls)
    BY <1>1, OtherEventPushed
  <1>v. s2.waiting[D] = << >>
    BY <1>1, <1>w, RunTimeEventPushed
  <1> HIDE DEF s2
  <1>3. s3 \in RunTime /\ Side(s3, c, d, t, e, who, st, left, calls)
    BY <1>2, <1>v, OtherWaited
  <1> HIDE DEF s3
  <1> QED
    BY <1>3 DEF s1, s2, s3

\* A call of the other client that has to wait
LEMMA OtherHasToWait ==
  ASSUME NEW c \in Context, NEW d \in Event, NEW t \in Context, NEW e \in Event,
         NEW who, NEW st, NEW left, NEW calls,
         NEW r \in RunTime, Side(r, c, d, t, e, who, st, left, calls),
         NEW C \in Context \ {c, t}, NEW D \in Event \ {d, e},
         NEW T \in Context \ {c, t}, NEW E \in Event \ {d, e}, D # E
  PROVE  LET s == WaitEvent(PushResume(InitEvent(InitEvent(r, D), E), T), D, C)
         IN  s \in RunTime /\ Side(s, c, d, t, e, who, st, left, calls)
PROOF
  <1> DEFINE s1 == InitEvent(r, D)
             s2 == InitEvent(s1, E)
             s3 == PushResume(s2, T)
             s4 == WaitEvent(s3, D, C)
  <1>1. s1 \in RunTime /\ Side(s1, c, d, t, e, who, st, left, calls)
    BY OtherInit
  <1>w. s1.waiting[D] = << >>
    <2>1. s1.waiting = [r.waiting EXCEPT ![D] = << >>]
      BY RunTimeInit
    <2> QED
      BY <2>1 DEF RunTime
  <1> HIDE DEF s1
  <1>2. s2 \in RunTime /\ Side(s2, c, d, t, e, who, st, left, calls)
    BY <1>1, OtherInit
  <1>v. s2.waiting[D] = << >>
    <2>1. s2.waiting = [s1.waiting EXCEPT ![E] = << >>]
      BY <1>1, RunTimeInit
    <2> QED
      BY <1>1, <1>w, <2>1 DEF RunTime
  <1> HIDE DEF s2
  <1>3. s3 \in RunTime /\ Side(s3, c, d, t, e, who, st, left, calls)
    BY <1>2, OtherPushed
  <1>u. s3.waiting[D] = << >>
    BY <1>2, <1>v, TaskKinds, RunTimePushed DEF PushResume
  <1> HIDE DEF s3
  <1>4. s4 \in RunTime /\ Side(s4, c, d, t, e, who, st, left, calls)
    BY <1>3, <1>u, OtherWaited
  <1> HIDE DEF s4
  <1> QED
    BY <1>4 DEF s1, s2, s3, s4

\* One of the other side's events is run.
LEMMA OtherEventIsRun ==
  ASSUME NEW c \in Context, NEW d \in Event, NEW t \in Context, NEW e \in Event,
         NEW who, NEW st, NEW left, NEW calls,
         NEW r \in RunTime, Side(r, c, d, t, e, who, st, left, calls),
         NEW C \in Context \ {c, t}, NEW D \in Event \ {d, e},
         NEW T \in Context \ {c, t}, NEW E \in Event \ {d, e},
         NEW f \in {D, E}, NEW x \in {C, T}, r.waiting[f] \in {<< >>, <<x>>},
         r.tasks # << >>, Head(r.tasks) = EventTask(f)
  PROVE  LET s == RunEvent(Popped(r), f)
         IN  s \in RunTime /\ Side(s, c, d, t, e, who, st, left, calls)
PROOF
  <1> DEFINE s1 == Popped(r)
             s2 == RunEvent(s1, f)
  <1>f. Foreign(Head(r.tasks), c, d, t, e)
    BY ForeignTasks
  <1>1. s1 \in RunTime /\ Side(s1, c, d, t, e, who, st, left, calls)
    BY <1>f, OtherPopped
  <1>w. s1.waiting = r.waiting
    BY RunTimePopped
  <1> HIDE DEF s1
  <1>v. f \in Event \ {d, e} /\ x \in Context \ {c, t} /\ s1.waiting[f] \in {<< >>, <<x>>}
    BY <1>w
  <1>2. s2 \in RunTime /\ Side(s2, c, d, t, e, who, st, left, calls)
    BY <1>1, <1>v, OtherEventRun
  <1> HIDE DEF s2
  <1> QED
    BY <1>2 DEF s1, s2

\* The other side's coroutine comes to its CO_WAIT ...
LEMMA OtherTaskWaits ==
  ASSUME NEW c \in Context, NEW d \in Event, NEW t \in Context, NEW e \in Event,
         NEW who, NEW st, NEW left, NEW calls,
         NEW r \in RunTime, Side(r, c, d, t, e, who, st, left, calls),
         NEW C \in Context \ {c, t}, NEW D \in Event \ {d, e},
         NEW T \in Context \ {c, t}, NEW E \in Event \ {d, e},
         r.waiting[E] = << >>, r.tasks # << >>, Head(r.tasks) = Resume(T)
  PROVE  LET s == WaitEvent(Popped(r), E, T)
         IN  s \in RunTime /\ Side(s, c, d, t, e, who, st, left, calls)
PROOF
  <1> DEFINE s1 == Popped(r)
             s2 == WaitEvent(s1, E, T)
  <1>f. Foreign(Head(r.tasks), c, d, t, e)
    BY ForeignTasks
  <1>1. s1 \in RunTime /\ Side(s1, c, d, t, e, who, st, left, calls)
    BY <1>f, OtherPopped
  <1>w. s1.waiting = r.waiting
    BY RunTimePopped
  <1> HIDE DEF s1
  <1>2. s2 \in RunTime /\ Side(s2, c, d, t, e, who, st, left, calls)
    BY <1>1, <1>w, OtherWaited
  <1> HIDE DEF s2
  <1> QED
    BY <1>2 DEF s1, s2

\* ... and returns the call.
LEMMA OtherTaskReturns ==
  ASSUME NEW c \in Context, NEW d \in Event, NEW t \in Context, NEW e \in Event,
         NEW who, NEW st, NEW left, NEW calls,
         NEW r \in RunTime, Side(r, c, d, t, e, who, st, left, calls),
         NEW C \in Context \ {c, t}, NEW D \in Event \ {d, e},
         NEW T \in Context \ {c, t}, NEW E \in Event \ {d, e},
         r.tasks # << >>, Head(r.tasks) = Resume(T)
  PROVE  LET s == PushEvent(Popped(r), D)
         IN  s \in RunTime /\ Side(s, c, d, t, e, who, st, left, calls)
PROOF
  <1> DEFINE s1 == Popped(r)
             s2 == PushEvent(s1, D)
  <1>f. Foreign(Head(r.tasks), c, d, t, e)
    BY ForeignTasks
  <1>1. s1 \in RunTime /\ Side(s1, c, d, t, e, who, st, left, calls)
    BY <1>f, OtherPopped
  <1> HIDE DEF s1
  <1>2. s2 \in RunTime /\ Side(s2, c, d, t, e, who, st, left, calls)
    BY <1>1, OtherEventPushed
  <1> HIDE DEF s2
  <1> QED
    BY <1>2 DEF s1, s2

------------------------------------------------------------------------------
(* Both sides at once *)

\* The slots that are left for the producer
Room == Capacity - (count_acq + count + count_consume)

\* None of the calls of queue_async_t overwrites, so that the ring never fails.
RingSound == RingInv /\ ~failed

ProducerSide(r, who, st, left) ==
  Side(r, "producer", "pushed", "push", "queue_free", who, st, left, style["producer"])
ConsumerSide(r, who, st, left) ==
  Side(r, "consumer", "popped", "pop", "queue_ready", who, st, left, style["consumer"])

AsyncInv ==
  /\ RingSound
  /\ rt \in RunTime
  /\ turn \in Client \cup {"none"}
  /\ style \in [Client -> {{"wait"}, {"poll"}}]
  /\ ProducerSide(rt, turn, pushing, Room)
  /\ ConsumerSide(rt, turn, popping, count)

LEMMA SideNames ==
  /\ "producer" \in Context /\ "consumer" \in Context /\ "push" \in Context /\ "pop" \in Context
  /\ "pushed" \in Event /\ "popped" \in Event /\ "queue_free" \in Event /\ "queue_ready" \in Event
  /\ "consumer" \in Context \ {"producer", "push"} /\ "pop" \in Context \ {"producer", "push"}
  /\ "producer" \in Context \ {"consumer", "pop"} /\ "push" \in Context \ {"consumer", "pop"}
  /\ "popped" \in Event \ {"pushed", "queue_free"} /\ "queue_ready" \in Event \ {"pushed", "queue_free"}
  /\ "pushed" \in Event \ {"popped", "queue_ready"} /\ "queue_free" \in Event \ {"popped", "queue_ready"}
PROOF
  BY DEF Context, Event

LEMMA RoomLeft == RingSound => (Full <=> Room = 0)
PROOF
  BY CapacityAssumption DEF RingSound, RingInv, TypeOK, Full, Room

\* What the ring's operations leave for the two sides
LEMMA RingSteps ==
  ASSUME RingSound,
         \/ (PushAcquire /\ ~Full) \/ (\E v \in Value : PushCommit(v)) \/ PushDiscard
         \/ PopConsume \/ PopRelease \/ UNCHANGED vars
  PROVE  /\ RingSound'
         /\ PushAcquire /\ ~Full => count' = count
         /\ (\E v \in Value : PushCommit(v)) => Room' = Room /\ count' # 0
         /\ PushDiscard => Room' # 0 /\ count' = count
         /\ PopConsume => Room' = Room
         /\ PopRelease => Room' # 0 /\ count' = count
         /\ UNCHANGED vars => Room' = Room /\ count' = count
PROOF
  <1>1. RingSound'
    <2>1. RingInv /\ ~failed /\ ([Next]_vars)
      BY DEF Next, RingSound
    <2>2. RingInv'
      BY <2>1, RingInvStep
    <2>3. ~failed'
      BY <2>1, OtherCallsSucceed
    <2> QED
      BY <2>2, <2>3 DEF RingSound
  <1>2. /\ Capacity \in Nat \ {0} /\ count \in Nat /\ count_acq \in Nat /\ count_consume \in Nat
        /\ count_acq + count + count_consume <= Capacity
        /\ ~failed'
    BY <1>1, CapacityAssumption DEF RingSound, RingInv, TypeOK, RunsFit
  <1>3. PushAcquire /\ ~Full => count' = count
    BY DEF PushAcquire, AcquireOverwriting
  <1>4. ASSUME NEW v \in Value, PushCommit(v)
        PROVE  Room' = Room /\ count' # 0
    <2>1. count_acq' = count_acq - 1 /\ count' = count + 1 /\ count_consume' = count_consume
      BY <1>2, <1>4 DEF PushCommit, AssertionFailure
    <2> QED
      BY <1>2, <2>1 DEF Room
  <1>5. PushDiscard => Room' # 0 /\ count' = count
    BY <1>2 DEF PushDiscard, AssertionFailure, Room
  <1>6. PopConsume => Room' = Room
    BY <1>2 DEF PopConsume, Room
  <1>7. PopRelease => Room' # 0 /\ count' = count
    BY <1>2 DEF PopRelease, AssertionFailure, Room
  <1>8. UNCHANGED vars => Room' = Room /\ count' = count
    BY DEF vars, ring, Room
  <1> QED
    BY <1>1, <1>3, <1>4, <1>5, <1>6, <1>7, <1>8

\* The run-time before anything is pushed: as if each client had its turn
LEMMA NothingPushed ==
  LET r == Started({"queue_free", "queue_ready", "pushed", "popped"}, {})
  IN  /\ r \in RunTime
      /\ \A c, t : \A d, e \in Event : \A n, calls : Side(r, c, d, t, e, c, "idle", n, calls)
PROOF
  <1> DEFINE r == Started({"queue_free", "queue_ready", "pushed", "popped"}, {})
  <1>1. /\ r \in RunTime /\ r.tasks = << >> /\ r.waiting = [e \in Event |-> << >>]
    BY DEF Started, RunTime, Event
  <1> HIDE DEF r
  <1>2. /\ \A a : ~Has(r.tasks, a) /\ AtMostOnce(r.tasks, a)
        /\ \A a, b : Precedes(r.tasks, a, b) /\ Covered(r.tasks, a, b)
    BY <1>1 DEF Has, AtMostOnce, Precedes, Covered
  <1>3. ASSUME NEW c, NEW t, NEW d \in Event, NEW e \in Event, NEW n, NEW calls
        PROVE  Side(r, c, d, t, e, c, "idle", n, calls)
    BY <1>1, <1>2 DEF Side, Single, NotTooEarly, NotTooLate, TaskState
  <1> QED
    BY <1>1, <1>3 DEF r

LEMMA AsyncInvInit ==
  ASSUME ~Mixing
  PROVE  AsyncInit => AsyncInv
PROOF
  <1> USE DEF ProducerSide, ConsumerSide
  <1> SUFFICES ASSUME AsyncInit
               PROVE  AsyncInv
    OBVIOUS
  <1> DEFINE r == Started({"queue_free", "queue_ready", "pushed", "popped"}, {})
             r1 == PushEvent(r, "queue_free")
             r2 == PushResume(r1, "producer")
             r3 == PushResume(r2, "consumer")
  <1>1. RingSound /\ Room # 0 /\ count = 0 /\ rt = r3 /\ turn = "none" /\ pushing = "idle" /\ popping = "idle"
    BY RingInvInit, CapacityAssumption DEF AsyncInit, Init, Room, RingSound
  <1>2. style \in [Client -> {{"wait"}, {"poll"}}]
    BY DEF AsyncInit
  <1>3. /\ r \in RunTime
        /\ ProducerSide(r, "producer", "idle", Room)
        /\ ConsumerSide(r, "consumer", "idle", count)
    BY NothingPushed, SideNames
  <1> HIDE DEF r
  <1>4. /\ r1 \in RunTime
        /\ ProducerSide(r1, "producer", "idle", Room)
        /\ ConsumerSide(r1, "consumer", "idle", count)
    <2>1. ProducerSide(r1, "producer", "idle", Room)
      BY <1>1, <1>3, EventIsPushed, SideNames
    <2>2. r1 \in RunTime /\ ConsumerSide(r1, "consumer", "idle", count)
      BY <1>3, OtherEventPushed, SideNames
    <2> QED
      BY <2>1, <2>2
  <1> HIDE DEF r1
  <1>5. /\ r2 \in RunTime
        /\ ProducerSide(r2, "none", "idle", Room)
        /\ ConsumerSide(r2, "consumer", "idle", count)
    <2>1. r2 \in RunTime /\ ProducerSide(r2, "none", "idle", Room)
      BY <1>4, ClientYields, SideNames
    <2>2. ConsumerSide(r2, "consumer", "idle", count)
      BY <1>4, OtherPushed, SideNames
    <2> QED
      BY <2>1, <2>2
  <1> HIDE DEF r2
  <1>6. /\ r3 \in RunTime
        /\ ProducerSide(r3, "none", "idle", Room)
        /\ ConsumerSide(r3, "none", "idle", count)
    <2>1. r3 \in RunTime /\ ConsumerSide(r3, "none", "idle", count)
      BY <1>5, ClientYields, SideNames
    <2>2. ProducerSide(r3, "none", "idle", Room)
      BY <1>5, OtherPushed, SideNames
    <2> QED
      BY <2>1, <2>2
  <1> HIDE DEF r3
  <1> QED
    BY <1>1, <1>2, <1>6 DEF AsyncInv

\* A client that waits for its calls calls: push_acquire.
LEMMA AsyncAcquireKeeps ==
  ASSUME AsyncInv, UNCHANGED style, AsyncAcquire
  PROVE  AsyncInv'
PROOF
  <1> USE DEF ProducerSide, ConsumerSide
  <1>0. /\ RingSound /\ rt \in RunTime /\ style' = style
        /\ turn \in Client \cup {"none"}
        /\ style \in [Client -> {{"wait"}, {"poll"}}]
        /\ ProducerSide(rt, turn, pushing, Room)
        /\ ConsumerSide(rt, turn, popping, count)
        /\ Full <=> Room = 0
    BY RoomLeft DEF AsyncInv
  <1>1. turn = "producer" /\ "wait" \in style["producer"] /\ UNCHANGED popping /\ turn' = "none"
    BY DEF AsyncAcquire, EndTurn
  <1>2. turn # "consumer" /\ turn' # "producer" /\ turn' # "consumer"
    BY <1>1
  <1>3. CASE /\ PushAcquire /\ ~Full /\ UNCHANGED pushing
             /\ rt' = WaitEvent(PushEvent(InitEvent(rt, "pushed"), "pushed"), "pushed", "producer")
    <2>1. RingSound' /\ count' = count
      BY <1>0, <1>3, RingSteps
    <2>2. rt' \in RunTime /\ \A n : ProducerSide(rt', turn', pushing, n)
      BY <1>0, <1>1, <1>2, <1>3, CallAtOnce, SideNames
    <2>3. ConsumerSide(rt', turn, popping, count)
      BY <1>0, <1>3, OtherCallsAtOnce, SideNames
    <2>4. ConsumerSide(rt', turn', popping, count)
      BY <1>2, <2>2, <2>3, OthersTurn, SideNames
    <2> QED
      BY <1>0, <1>1, <1>3, <2>1, <2>2, <2>4 DEF AsyncInv
  <1>4. CASE Room = 0 /\ pushing = "idle" /\ pushing' = "started" /\ UNCHANGED vars
             /\ rt' = WaitEvent(PushResume(InitEvent(InitEvent(rt, "pushed"), "queue_free"), "push"),
                               "pushed", "producer")
    <2>1. RingSound' /\ Room' = Room /\ count' = count
      BY <1>0, <1>4, RingSteps
    <2>2. rt' \in RunTime /\ ProducerSide(rt', turn', "started", Room)
      BY <1>0, <1>1, <1>2, <1>4, CallHasToWait, SideNames
    <2>3. ConsumerSide(rt', turn, popping, count)
      BY <1>0, <1>4, OtherHasToWait, SideNames
    <2>4. ConsumerSide(rt', turn', popping, count)
      BY <1>2, <2>2, <2>3, OthersTurn, SideNames
    <2> QED
      BY <1>0, <1>1, <1>4, <2>1, <2>2, <2>4 DEF AsyncInv
  <1>5. pushing = "idle"
    BY <1>0, <1>1 DEF Side, Single
  <1> QED
    BY <1>0, <1>3, <1>4, <1>5 DEF AsyncAcquire, EndTurn, StartPush, PushAcquire

\* A client that polls calls it.
LEMMA TryAcquireKeeps ==
  ASSUME AsyncInv, UNCHANGED style, TryAcquire
  PROVE  AsyncInv'
PROOF
  <1> USE DEF ProducerSide, ConsumerSide
  <1>0. /\ RingSound /\ rt \in RunTime /\ style' = style
        /\ turn \in Client \cup {"none"}
        /\ style \in [Client -> {{"wait"}, {"poll"}}]
        /\ ProducerSide(rt, turn, pushing, Room)
        /\ ConsumerSide(rt, turn, popping, count)
        /\ Full <=> Room = 0
    BY RoomLeft DEF AsyncInv
  <1>1. turn = "producer" /\ "wait" \notin style["producer"] /\ UNCHANGED <<rt, turn, pushing, popping>>
    BY <1>0 DEF TryAcquire, Client
  <1>2. RingSound' /\ count' = count
    BY <1>0, RingSteps DEF TryAcquire
  <1>3. ProducerSide(rt, turn, pushing, Room')
    BY <1>0, <1>1, TurnGoesOn, SideNames
  <1> QED
    BY <1>0, <1>1, <1>2, <1>3 DEF AsyncInv, Client

\* push_commit
LEMMA AsyncCommitKeeps ==
  ASSUME AsyncInv, UNCHANGED style, AsyncCommit
  PROVE  AsyncInv'
PROOF
  <1> USE DEF ProducerSide, ConsumerSide
  <1>0. /\ RingSound /\ rt \in RunTime /\ style' = style
        /\ turn \in Client \cup {"none"}
        /\ style \in [Client -> {{"wait"}, {"poll"}}]
        /\ ProducerSide(rt, turn, pushing, Room)
        /\ ConsumerSide(rt, turn, popping, count)
        /\ Full <=> Room = 0
    BY RoomLeft DEF AsyncInv
  <1>1. /\ UNCHANGED <<turn, pushing, popping>>
        /\ rt' = PushEvent(rt, "queue_ready")
    BY DEF AsyncCommit
  <1>2. RingSound' /\ Room' = Room /\ count' # 0
    BY <1>0, RingSteps DEF AsyncCommit
  <1>3. rt' \in RunTime /\ ProducerSide(rt', turn, pushing, Room)
    BY <1>0, <1>1, OtherEventPushed, SideNames
  <1>4. ConsumerSide(rt', turn, popping, count')
    BY <1>0, <1>1, <1>2, EventIsPushed, SideNames
  <1> QED
    BY <1>0, <1>1, <1>2, <1>3, <1>4 DEF AsyncInv, Client

\* A client that waits for its calls calls: pop_consume.
LEMMA AsyncConsumeKeeps ==
  ASSUME AsyncInv, UNCHANGED style, AsyncConsume
  PROVE  AsyncInv'
PROOF
  <1> USE DEF ProducerSide, ConsumerSide
  <1>0. /\ RingSound /\ rt \in RunTime /\ style' = style
        /\ turn \in Client \cup {"none"}
        /\ style \in [Client -> {{"wait"}, {"poll"}}]
        /\ ProducerSide(rt, turn, pushing, Room)
        /\ ConsumerSide(rt, turn, popping, count)
        /\ Full <=> Room = 0
    BY RoomLeft DEF AsyncInv
  <1>1. turn = "consumer" /\ "wait" \in style["consumer"] /\ UNCHANGED pushing /\ turn' = "none"
    BY DEF AsyncConsume, EndTurn
  <1>2. turn # "producer" /\ turn' # "consumer" /\ turn' # "producer"
    BY <1>1
  <1>3. CASE /\ PopConsume /\ UNCHANGED popping
             /\ rt' = WaitEvent(PushEvent(InitEvent(rt, "popped"), "popped"), "popped", "consumer")
    <2>1. RingSound' /\ Room' = Room
      BY <1>0, <1>3, RingSteps
    <2>2. rt' \in RunTime /\ \A n : ConsumerSide(rt', turn', popping, n)
      BY <1>0, <1>1, <1>2, <1>3, CallAtOnce, SideNames
    <2>3. ProducerSide(rt', turn, pushing, Room)
      BY <1>0, <1>3, OtherCallsAtOnce, SideNames
    <2>4. ProducerSide(rt', turn', pushing, Room)
      BY <1>2, <2>2, <2>3, OthersTurn, SideNames
    <2> QED
      BY <1>0, <1>1, <1>3, <2>1, <2>2, <2>4 DEF AsyncInv
  <1>4. CASE count = 0 /\ popping = "idle" /\ popping' = "started" /\ UNCHANGED vars
             /\ rt' = WaitEvent(PushResume(InitEvent(InitEvent(rt, "popped"), "queue_ready"), "pop"),
                               "popped", "consumer")
    <2>1. RingSound' /\ Room' = Room /\ count' = count
      BY <1>0, <1>4, RingSteps
    <2>2. rt' \in RunTime /\ ConsumerSide(rt', turn', "started", count)
      BY <1>0, <1>1, <1>2, <1>4, CallHasToWait, SideNames
    <2>3. ProducerSide(rt', turn, pushing, Room)
      BY <1>0, <1>4, OtherHasToWait, SideNames
    <2>4. ProducerSide(rt', turn', pushing, Room)
      BY <1>2, <2>2, <2>3, OthersTurn, SideNames
    <2> QED
      BY <1>0, <1>1, <1>4, <2>1, <2>2, <2>4 DEF AsyncInv
  <1>5. popping = "idle"
    BY <1>0, <1>1 DEF Side, Single
  <1> QED
    BY <1>0, <1>3, <1>4, <1>5 DEF AsyncConsume, EndTurn, StartPop, PopConsume

\* A client that polls calls it.
LEMMA TryConsumeKeeps ==
  ASSUME AsyncInv, UNCHANGED style, TryConsume
  PROVE  AsyncInv'
PROOF
  <1> USE DEF ProducerSide, ConsumerSide
  <1>0. /\ RingSound /\ rt \in RunTime /\ style' = style
        /\ turn \in Client \cup {"none"}
        /\ style \in [Client -> {{"wait"}, {"poll"}}]
        /\ ProducerSide(rt, turn, pushing, Room)
        /\ ConsumerSide(rt, turn, popping, count)
        /\ Full <=> Room = 0
    BY RoomLeft DEF AsyncInv
  <1>1. turn = "consumer" /\ "wait" \notin style["consumer"] /\ UNCHANGED <<rt, turn, pushing, popping>>
    BY <1>0 DEF TryConsume, Client
  <1>2. RingSound' /\ Room' = Room
    BY <1>0, RingSteps DEF TryConsume
  <1>3. ConsumerSide(rt, turn, popping, count')
    BY <1>0, <1>1, TurnGoesOn, SideNames
  <1> QED
    BY <1>0, <1>1, <1>2, <1>3 DEF AsyncInv, Client

\* pop_release
LEMMA AsyncReleaseKeeps ==
  ASSUME AsyncInv, UNCHANGED style, AsyncRelease
  PROVE  AsyncInv'
PROOF
  <1> USE DEF ProducerSide, ConsumerSide
  <1>0. /\ RingSound /\ rt \in RunTime /\ style' = style
        /\ turn \in Client \cup {"none"}
        /\ style \in [Client -> {{"wait"}, {"poll"}}]
        /\ ProducerSide(rt, turn, pushing, Room)
        /\ ConsumerSide(rt, turn, popping, count)
        /\ Full <=> Room = 0
    BY RoomLeft DEF AsyncInv
  <1>1. /\ UNCHANGED <<turn, pushing, popping>>
        /\ rt' = PushEvent(rt, "queue_free")
    BY DEF AsyncRelease, ReleaseEvent
  <1>2. RingSound' /\ count' = count /\ Room' # 0
    BY <1>0, RingSteps DEF AsyncRelease
  <1>3. rt' \in RunTime /\ ConsumerSide(rt', turn, popping, count)
    BY <1>0, <1>1, OtherEventPushed, SideNames
  <1>4. ProducerSide(rt', turn, pushing, Room')
    BY <1>0, <1>1, <1>2, EventIsPushed, SideNames
  <1> QED
    BY <1>0, <1>1, <1>2, <1>3, <1>4 DEF AsyncInv, Client

\* push_discard
LEMMA AsyncDiscardKeeps ==
  ASSUME AsyncInv, UNCHANGED style, AsyncDiscard
  PROVE  AsyncInv'
PROOF
  <1> USE DEF ProducerSide, ConsumerSide
  <1>0. /\ RingSound /\ rt \in RunTime /\ style' = style
        /\ turn \in Client \cup {"none"}
        /\ style \in [Client -> {{"wait"}, {"poll"}}]
        /\ ProducerSide(rt, turn, pushing, Room)
        /\ ConsumerSide(rt, turn, popping, count)
        /\ Full <=> Room = 0
    BY RoomLeft DEF AsyncInv
  <1>1. turn = "producer" /\ UNCHANGED <<rt, turn, pushing, popping>>
    BY DEF AsyncDiscard
  <1>2. RingSound' /\ count' = count /\ Room' # 0
    BY <1>0, RingSteps DEF AsyncDiscard
  <1>3. ProducerSide(rt, turn, pushing, Room')
    BY <1>0, <1>1, <1>2, TurnGoesOn, SideNames
  <1> QED
    BY <1>0, <1>1, <1>2, <1>3 DEF AsyncInv, Client

\* CO_YIELD of a client that polls
LEMMA YieldKeeps ==
  ASSUME AsyncInv, UNCHANGED style, Yield
  PROVE  AsyncInv'
PROOF
  <1> USE DEF ProducerSide, ConsumerSide
  <1>0. /\ RingSound /\ rt \in RunTime /\ style' = style
        /\ turn \in Client \cup {"none"}
        /\ style \in [Client -> {{"wait"}, {"poll"}}]
        /\ ProducerSide(rt, turn, pushing, Room)
        /\ ConsumerSide(rt, turn, popping, count)
        /\ Full <=> Room = 0
    BY RoomLeft DEF AsyncInv
  <1>1. /\ turn \in Client /\ UNCHANGED <<vars, pushing, popping>>
        /\ rt' = PushResume(rt, turn) /\ turn' = "none"
    BY <1>0 DEF Yield
  <1>2. RingSound' /\ Room' = Room /\ count' = count
    BY <1>0, <1>1, RingSteps
  <1>3. CASE turn = "producer"
    <2>1. turn # "consumer" /\ turn' # "producer" /\ turn' # "consumer"
      BY <1>1, <1>3
    <2>2. rt' \in RunTime /\ ProducerSide(rt', turn', pushing, Room)
      BY <1>0, <1>1, <1>3, <2>1, ClientYields, SideNames
    <2>3. ConsumerSide(rt', turn, popping, count)
      BY <1>0, <1>1, <1>3, OtherPushed, SideNames
    <2>4. ConsumerSide(rt', turn', popping, count)
      BY <2>1, <2>2, <2>3, OthersTurn, SideNames
    <2> QED
      BY <1>0, <1>1, <1>2, <2>2, <2>4 DEF AsyncInv
  <1>4. CASE turn = "consumer"
    <2>1. turn # "producer" /\ turn' # "consumer" /\ turn' # "producer"
      BY <1>1, <1>4
    <2>2. rt' \in RunTime /\ ConsumerSide(rt', turn', popping, count)
      BY <1>0, <1>1, <1>4, <2>1, ClientYields, SideNames
    <2>3. ProducerSide(rt', turn, pushing, Room)
      BY <1>0, <1>1, <1>4, OtherPushed, SideNames
    <2>4. ProducerSide(rt', turn', pushing, Room)
      BY <2>1, <2>2, <2>3, OthersTurn, SideNames
    <2> QED
      BY <1>0, <1>1, <1>2, <2>2, <2>4 DEF AsyncInv
  <1> QED
    BY <1>1, <1>3, <1>4 DEF Client

\* The event pushed is run.
LEMMA PushedEventKeeps ==
  ASSUME AsyncInv, UNCHANGED style,
         rt.tasks # << >>, Head(rt.tasks) = EventTask("pushed"),
         rt' = RunEvent(Popped(rt), "pushed"), UNCHANGED <<vars, turn, pushing, popping>>
  PROVE  AsyncInv'
PROOF
  <1> USE DEF ProducerSide, ConsumerSide
  <1>0. /\ RingSound /\ rt \in RunTime /\ style' = style
        /\ turn \in Client \cup {"none"}
        /\ style \in [Client -> {{"wait"}, {"poll"}}]
        /\ ProducerSide(rt, turn, pushing, Room)
        /\ ConsumerSide(rt, turn, popping, count)
        /\ Full <=> Room = 0
    BY RoomLeft DEF AsyncInv
  <1>1. RingSound' /\ Room' = Room /\ count' = count
    BY <1>0, RingSteps
  <1>2. rt.waiting["pushed"] \in {<< >>, <<"producer">>}
    BY <1>0 DEF Side, Single
  <1>3. ProducerSide(rt', turn, pushing, Room)
    BY <1>0, CallReturns, SideNames
  <1>4. rt' \in RunTime /\ ConsumerSide(rt', turn, popping, count)
    BY <1>0, <1>2, OtherEventIsRun, SideNames
  <1> QED
    BY <1>0, <1>1, <1>3, <1>4 DEF AsyncInv, Client

\* The event queue_free is run.
LEMMA QueueFreeEventKeeps ==
  ASSUME AsyncInv, UNCHANGED style,
         rt.tasks # << >>, Head(rt.tasks) = EventTask("queue_free"),
         rt' = RunEvent(Popped(rt), "queue_free"), UNCHANGED <<vars, turn, pushing, popping>>
  PROVE  AsyncInv'
PROOF
  <1> USE DEF ProducerSide, ConsumerSide
  <1>0. /\ RingSound /\ rt \in RunTime /\ style' = style
        /\ turn \in Client \cup {"none"}
        /\ style \in [Client -> {{"wait"}, {"poll"}}]
        /\ ProducerSide(rt, turn, pushing, Room)
        /\ ConsumerSide(rt, turn, popping, count)
        /\ Full <=> Room = 0
    BY RoomLeft DEF AsyncInv
  <1>1. RingSound' /\ Room' = Room /\ count' = count
    BY <1>0, RingSteps
  <1>2. rt.waiting["queue_free"] \in {<< >>, <<"push">>}
    BY <1>0 DEF Side, Single
  <1>3. ProducerSide(rt', turn, pushing, Room)
    BY <1>0, EventIsRun, SideNames
  <1>4. rt' \in RunTime /\ ConsumerSide(rt', turn, popping, count)
    BY <1>0, <1>2, OtherEventIsRun, SideNames
  <1> QED
    BY <1>0, <1>1, <1>3, <1>4 DEF AsyncInv, Client

\* The producer is resumed.
LEMMA ProducerResumeKeeps ==
  ASSUME AsyncInv, UNCHANGED style,
         turn = "none", rt.tasks # << >>, Head(rt.tasks) = Resume("producer"), rt' = Popped(rt),
         turn' = "producer", UNCHANGED <<vars, pushing, popping>>
  PROVE  AsyncInv'
PROOF
  <1> USE DEF ProducerSide, ConsumerSide
  <1>0. /\ RingSound /\ rt \in RunTime /\ style' = style
        /\ turn \in Client \cup {"none"}
        /\ style \in [Client -> {{"wait"}, {"poll"}}]
        /\ ProducerSide(rt, turn, pushing, Room)
        /\ ConsumerSide(rt, turn, popping, count)
        /\ Full <=> Room = 0
    BY RoomLeft DEF AsyncInv
  <1>1. RingSound' /\ Room' = Room /\ count' = count
    BY <1>0, RingSteps
  <1>2. ProducerSide(rt', turn', pushing, Room)
    BY <1>0, ClientIsResumed, SideNames
  <1>3. Foreign(Head(rt.tasks), "consumer", "popped", "pop", "queue_ready")
    BY ForeignTasks
  <1>4. rt' \in RunTime /\ ConsumerSide(rt', turn, popping, count)
    BY <1>0, <1>3, OtherPopped, SideNames
  <1>5. turn # "consumer" /\ turn' # "consumer"
    OBVIOUS
  <1>6. ConsumerSide(rt', turn', popping, count)
    BY <1>4, <1>5, OthersTurn, SideNames
  <1> QED
    BY <1>0, <1>1, <1>2, <1>4, <1>6 DEF AsyncInv, Client

\* queue_async_push_task runs.
LEMMA PushTaskRunsKeeps ==
  ASSUME AsyncInv, UNCHANGED style,
         rt.tasks # << >>, Head(rt.tasks) = Resume("push"), PushTaskRuns(Popped(rt)),
         UNCHANGED <<turn, popping>>
  PROVE  AsyncInv'
PROOF
  <1> USE DEF ProducerSide, ConsumerSide
  <1>0. /\ RingSound /\ rt \in RunTime /\ style' = style
        /\ turn \in Client \cup {"none"}
        /\ style \in [Client -> {{"wait"}, {"poll"}}]
        /\ ProducerSide(rt, turn, pushing, Room)
        /\ ConsumerSide(rt, turn, popping, count)
        /\ Full <=> Room = 0
    BY RoomLeft DEF AsyncInv
  <1>1. CASE pushing = "started" /\ pushing' = "waiting" /\ UNCHANGED vars
             /\ rt' = WaitEvent(Popped(rt), "queue_free", "push")
    <2>1. RingSound' /\ Room' = Room /\ count' = count
      BY <1>0, <1>1, RingSteps
    <2>2. ProducerSide(rt', turn, "waiting", Room)
      BY <1>0, <1>1, TaskWaits, SideNames
    <2>3. rt.waiting["queue_free"] = << >>
      BY <1>0, <1>1 DEF Side, Single
    <2>4. rt' \in RunTime /\ ConsumerSide(rt', turn, popping, count)
      BY <1>0, <1>1, <2>3, OtherTaskWaits, SideNames
    <2> QED
      BY <1>0, <1>1, <2>1, <2>2, <2>4 DEF AsyncInv
  <1>2. CASE pushing = "waiting" /\ pushing' = "idle" /\ (IF Full THEN AssertionFailure ELSE PushAcquire)
             /\ rt' = PushEvent(Popped(rt), "pushed")
    <2>1. Room # 0 /\ \A n : ProducerSide(rt', turn, "idle", n)
      BY <1>0, <1>2, TaskReturns, SideNames
    <2>2. RingSound' /\ count' = count
      BY <1>0, <1>2, <2>1, RingSteps
    <2>3. rt' \in RunTime /\ ConsumerSide(rt', turn, popping, count)
      BY <1>0, <1>2, OtherTaskReturns, SideNames
    <2> QED
      BY <1>0, <1>2, <2>1, <2>2, <2>3 DEF AsyncInv
  <1> QED
    BY <1>1, <1>2 DEF PushTaskRuns, PushReturns

\* The event popped is run.
LEMMA PoppedEventKeeps ==
  ASSUME AsyncInv, UNCHANGED style,
         rt.tasks # << >>, Head(rt.tasks) = EventTask("popped"),
         rt' = RunEvent(Popped(rt), "popped"), UNCHANGED <<vars, turn, pushing, popping>>
  PROVE  AsyncInv'
PROOF
  <1> USE DEF ProducerSide, ConsumerSide
  <1>0. /\ RingSound /\ rt \in RunTime /\ style' = style
        /\ turn \in Client \cup {"none"}
        /\ style \in [Client -> {{"wait"}, {"poll"}}]
        /\ ProducerSide(rt, turn, pushing, Room)
        /\ ConsumerSide(rt, turn, popping, count)
        /\ Full <=> Room = 0
    BY RoomLeft DEF AsyncInv
  <1>1. RingSound' /\ Room' = Room /\ count' = count
    BY <1>0, RingSteps
  <1>2. rt.waiting["popped"] \in {<< >>, <<"consumer">>}
    BY <1>0 DEF Side, Single
  <1>3. ConsumerSide(rt', turn, popping, count)
    BY <1>0, CallReturns, SideNames
  <1>4. rt' \in RunTime /\ ProducerSide(rt', turn, pushing, Room)
    BY <1>0, <1>2, OtherEventIsRun, SideNames
  <1> QED
    BY <1>0, <1>1, <1>3, <1>4 DEF AsyncInv, Client

\* The event queue_ready is run.
LEMMA QueueReadyEventKeeps ==
  ASSUME AsyncInv, UNCHANGED style,
         rt.tasks # << >>, Head(rt.tasks) = EventTask("queue_ready"),
         rt' = RunEvent(Popped(rt), "queue_ready"), UNCHANGED <<vars, turn, pushing, popping>>
  PROVE  AsyncInv'
PROOF
  <1> USE DEF ProducerSide, ConsumerSide
  <1>0. /\ RingSound /\ rt \in RunTime /\ style' = style
        /\ turn \in Client \cup {"none"}
        /\ style \in [Client -> {{"wait"}, {"poll"}}]
        /\ ProducerSide(rt, turn, pushing, Room)
        /\ ConsumerSide(rt, turn, popping, count)
        /\ Full <=> Room = 0
    BY RoomLeft DEF AsyncInv
  <1>1. RingSound' /\ Room' = Room /\ count' = count
    BY <1>0, RingSteps
  <1>2. rt.waiting["queue_ready"] \in {<< >>, <<"pop">>}
    BY <1>0 DEF Side, Single
  <1>3. ConsumerSide(rt', turn, popping, count)
    BY <1>0, EventIsRun, SideNames
  <1>4. rt' \in RunTime /\ ProducerSide(rt', turn, pushing, Room)
    BY <1>0, <1>2, OtherEventIsRun, SideNames
  <1> QED
    BY <1>0, <1>1, <1>3, <1>4 DEF AsyncInv, Client

\* The consumer is resumed.
LEMMA ConsumerResumeKeeps ==
  ASSUME AsyncInv, UNCHANGED style,
         turn = "none", rt.tasks # << >>, Head(rt.tasks) = Resume("consumer"), rt' = Popped(rt),
         turn' = "consumer", UNCHANGED <<vars, pushing, popping>>
  PROVE  AsyncInv'
PROOF
  <1> USE DEF ProducerSide, ConsumerSide
  <1>0. /\ RingSound /\ rt \in RunTime /\ style' = style
        /\ turn \in Client \cup {"none"}
        /\ style \in [Client -> {{"wait"}, {"poll"}}]
        /\ ProducerSide(rt, turn, pushing, Room)
        /\ ConsumerSide(rt, turn, popping, count)
        /\ Full <=> Room = 0
    BY RoomLeft DEF AsyncInv
  <1>1. RingSound' /\ Room' = Room /\ count' = count
    BY <1>0, RingSteps
  <1>2. ConsumerSide(rt', turn', popping, count)
    BY <1>0, ClientIsResumed, SideNames
  <1>3. Foreign(Head(rt.tasks), "producer", "pushed", "push", "queue_free")
    BY ForeignTasks
  <1>4. rt' \in RunTime /\ ProducerSide(rt', turn, pushing, Room)
    BY <1>0, <1>3, OtherPopped, SideNames
  <1>5. turn # "producer" /\ turn' # "producer"
    OBVIOUS
  <1>6. ProducerSide(rt', turn', pushing, Room)
    BY <1>4, <1>5, OthersTurn, SideNames
  <1> QED
    BY <1>0, <1>1, <1>2, <1>4, <1>6 DEF AsyncInv, Client

\* queue_async_pop_task runs.
LEMMA PopTaskRunsKeeps ==
  ASSUME AsyncInv, UNCHANGED style,
         rt.tasks # << >>, Head(rt.tasks) = Resume("pop"), PopTaskRuns(Popped(rt)),
         UNCHANGED <<turn, pushing>>
  PROVE  AsyncInv'
PROOF
  <1> USE DEF ProducerSide, ConsumerSide
  <1>0. /\ RingSound /\ rt \in RunTime /\ style' = style
        /\ turn \in Client \cup {"none"}
        /\ style \in [Client -> {{"wait"}, {"poll"}}]
        /\ ProducerSide(rt, turn, pushing, Room)
        /\ ConsumerSide(rt, turn, popping, count)
        /\ Full <=> Room = 0
    BY RoomLeft DEF AsyncInv
  <1>1. CASE popping = "started" /\ popping' = "waiting" /\ UNCHANGED vars
             /\ rt' = WaitEvent(Popped(rt), "queue_ready", "pop")
    <2>1. RingSound' /\ Room' = Room /\ count' = count
      BY <1>0, <1>1, RingSteps
    <2>2. ConsumerSide(rt', turn, "waiting", count)
      BY <1>0, <1>1, TaskWaits, SideNames
    <2>3. rt.waiting["queue_ready"] = << >>
      BY <1>0, <1>1 DEF Side, Single
    <2>4. rt' \in RunTime /\ ProducerSide(rt', turn, pushing, Room)
      BY <1>0, <1>1, <2>3, OtherTaskWaits, SideNames
    <2> QED
      BY <1>0, <1>1, <2>1, <2>2, <2>4 DEF AsyncInv
  <1>2. CASE popping = "waiting" /\ popping' = "idle" /\ (IF count = 0 THEN AssertionFailure ELSE PopConsume)
             /\ rt' = PushEvent(Popped(rt), "popped")
    <2>1. count # 0 /\ \A n : ConsumerSide(rt', turn, "idle", n)
      BY <1>0, <1>2, TaskReturns, SideNames
    <2>2. RingSound' /\ Room' = Room
      BY <1>0, <1>2, <2>1, RingSteps
    <2>3. rt' \in RunTime /\ ProducerSide(rt', turn, pushing, Room)
      BY <1>0, <1>2, OtherTaskReturns, SideNames
    <2> QED
      BY <1>0, <1>2, <2>1, <2>2, <2>3 DEF AsyncInv
  <1> QED
    BY <1>1, <1>2 DEF PopTaskRuns

LEMMA AsyncInvStep ==
  AsyncInv /\ [AsyncNext]_asyncVars => AsyncInv'
PROOF
  <1> USE DEF ProducerSide, ConsumerSide
  <1> SUFFICES ASSUME AsyncInv, [AsyncNext]_asyncVars
               PROVE  AsyncInv'
    OBVIOUS
  <1>1. CASE UNCHANGED asyncVars
    <2>1. RingSound' /\ Room' = Room /\ count' = count
      BY <1>1, RingSteps DEF AsyncInv, asyncVars
    <2> QED
      BY <1>1, <2>1 DEF AsyncInv, asyncVars
  <1>2. CASE RunTask /\ UNCHANGED style
    <2>1. turn = "none" /\ rt.tasks # << >>
      BY <1>2 DEF RunTask
    <2>2. ASSUME NEW e \in DOMAIN rt.done, Head(rt.tasks) = EventTask(e),
                 rt' = RunEvent(Popped(rt), e), UNCHANGED <<vars, turn, pushing, popping>>
          PROVE  AsyncInv'
      <3>1. e \in Event
        BY <2>2 DEF AsyncInv, RunTime
      <3> QED
        BY <1>2, <2>1, <2>2, <3>1, PushedEventKeeps, PoppedEventKeeps, QueueFreeEventKeeps,
           QueueReadyEventKeeps DEF Event
    <2>3. ASSUME NEW c \in Client, Head(rt.tasks) = Resume(c), turn' = c, rt' = Popped(rt),
                 UNCHANGED <<vars, pushing, popping>>
          PROVE  AsyncInv'
      BY <1>2, <2>1, <2>3, ProducerResumeKeeps, ConsumerResumeKeeps DEF Client
    <2>4. CASE Head(rt.tasks) = Resume("push") /\ PushTaskRuns(Popped(rt)) /\ UNCHANGED <<turn, popping>>
      BY <1>2, <2>1, <2>4, PushTaskRunsKeeps
    <2>5. CASE Head(rt.tasks) = Resume("pop") /\ PopTaskRuns(Popped(rt)) /\ UNCHANGED <<turn, pushing>>
      BY <1>2, <2>1, <2>5, PopTaskRunsKeeps
    <2> QED
      BY <1>2, <2>2, <2>3, <2>4, <2>5 DEF RunTask
  <1> QED
    BY <1>1, <1>2, AsyncAcquireKeeps, TryAcquireKeeps, AsyncCommitKeeps, AsyncDiscardKeeps,
       AsyncConsumeKeeps, TryConsumeKeeps, AsyncReleaseKeeps, YieldKeeps DEF AsyncNext

\* Whatever the scheduler makes of pi_task_is_done, and whether a client waits for its
\* calls or polls, the ring's invariant holds and each side has what can wake it up.
THEOREM AsyncInvariant ==
  ASSUME ~Mixing
  PROVE  AsyncSpec => []AsyncInv
PROOF
  <1>1. AsyncInit => AsyncInv
    BY AsyncInvInit
  <1>2. AsyncInv /\ [AsyncNext]_asyncVars => AsyncInv'
    BY AsyncInvStep
  <1> QED
    BY <1>1, <1>2, PTL DEF AsyncSpec

\* No call of queue_async_t ends the program: its coroutines run only with room in the
\* queue or an element in it, and neither is started while it has a call.
THEOREM AsyncNeverFails ==
  ASSUME ~Mixing
  PROVE  AsyncSpec => []NoAssertionFailure
PROOF
  <1>1. AsyncInv => NoAssertionFailure
    BY DEF AsyncInv, RingSound, NoAssertionFailure
  <1> QED
    BY <1>1, AsyncInvariant, PTL

\* Neither of its coroutines waits for what is there already: an old event is not taken
\* for a new one, and initialising an event again loses none.
THEOREM WakeUpsNotLost ==
  ASSUME ~Mixing
  PROVE  AsyncSpec => []NoLostWakeUp
PROOF
  <1>1. AsyncInv => NoLostWakeUp
    <2> SUFFICES ASSUME AsyncInv
                 PROVE  NoLostWakeUp
      OBVIOUS
    <2>1. rt.tasks \in Seq(Task) /\ count \in Nat /\ (Full <=> Room = 0)
      BY RoomLeft DEF AsyncInv, RunTime, RingSound, RingInv, TypeOK
    <2>2. \A a : Has(rt.tasks, a) => a \in Queued
      BY DEF Has, Queued
    <2>3. pushing = "waiting" /\ ~Full =>
            Has(rt.tasks, Resume("push")) \/ Has(rt.tasks, EventTask("queue_free"))
      BY <2>1 DEF AsyncInv, ProducerSide, ConsumerSide, Side, NotTooLate
    <2>4. popping = "waiting" /\ count > 0 =>
            Has(rt.tasks, Resume("pop")) \/ Has(rt.tasks, EventTask("queue_ready"))
      BY <2>1 DEF AsyncInv, ProducerSide, ConsumerSide, Side, NotTooLate
    <2> QED
      BY <2>2, <2>3, <2>4 DEF NoLostWakeUp
  <1> QED
    BY <1>1, AsyncInvariant, PTL

\* Each step of the asynchronous queue is one call on the ring, or leaves it alone.
LEMMA AsyncStepOnRing ==
  ASSUME AsyncInv, AsyncInv', [AsyncNext]_asyncVars
  PROVE  [Next]_vars
PROOF
  <1>1. ~failed /\ ~failed'
    BY DEF AsyncInv, RingSound
  <1>2. ~AssertionFailure
    BY <1>1 DEF AssertionFailure
  <1>3. CASE AsyncAcquire \/ TryAcquire
    BY <1>1, <1>2, <1>3 DEF AsyncAcquire, TryAcquire, Next
  <1>4. CASE AsyncCommit \/ AsyncDiscard \/ AsyncRelease
    BY <1>1, <1>4 DEF AsyncCommit, AsyncDiscard, AsyncRelease, Next
  <1>5. CASE AsyncConsume \/ TryConsume
    BY <1>1, <1>2, <1>5 DEF AsyncConsume, TryConsume, Next
  <1>6. CASE Yield
    BY <1>6 DEF Yield
  <1>7. CASE RunTask
    <2>1. UNCHANGED vars \/ PushTaskRuns(Popped(rt)) \/ PopTaskRuns(Popped(rt))
      BY <1>7 DEF RunTask
    <2>2. PushTaskRuns(Popped(rt)) => UNCHANGED vars \/ PushAcquire
      BY <1>2 DEF PushTaskRuns
    <2>3. PopTaskRuns(Popped(rt)) => UNCHANGED vars \/ PopConsume
      BY <1>2 DEF PopTaskRuns
    <2> QED
      BY <1>1, <2>1, <2>2, <2>3 DEF Next
  <1>8. CASE UNCHANGED asyncVars
    BY <1>8 DEF asyncVars
  <1> QED
    BY <1>3, <1>4, <1>5, <1>6, <1>7, <1>8 DEF AsyncNext

\* The asynchronous queue is a queue_t: its events and coroutines decide when a call is
\* made, and never make one that queue_t does not allow.
THEOREM AsyncIsQueue ==
  ASSUME ~Mixing
  PROVE  AsyncSpec => Spec
PROOF
  <1>1. AsyncInit => Init
    BY DEF AsyncInit
  <1>2. AsyncInv /\ AsyncInv' /\ [AsyncNext]_asyncVars => [Next]_vars
    BY AsyncStepOnRing
  <1> QED
    BY <1>1, <1>2, AsyncInvariant, PTL DEF AsyncSpec, Spec

\* So no slot is with two of its clients, and the values that the consumer's calls return
\* are the committed ones in their order, whoever waited for room or for an element.
THEOREM AsyncKeepsPromises ==
  ASSUME ~Mixing
  PROVE  AsyncSpec => []NoSlotShared /\ ImplementsFifo
  BY AsyncIsQueue, SlotsNotShared, ImplementsBoundedFifo, PTL
==============================================================================
